----------------------- MODULE BeaconTracking_proofs -----------------------
(* Proofs about BeaconTracking, for any number of beacons and routes and for *)
(* every interleaving of their queues.                                       *)
EXTENDS BeaconTracking, FiniteSetTheorems, SequenceTheorems, FunctionTheorems,
        TLAPS

-----------------------------------------------------------------------------
(* Facts about the data                                                      *)

LEMMA PairFinite == IsFiniteSet(Pair) /\ NoPair \in Pair
  <1>1. IsFiniteSet(Pair)
    <2>1. IsFiniteSet(Route) /\ IsFiniteSet(Beacon)
      BY FiniteAssumption
    <2>2. IsFiniteSet(Route \X Beacon)
      BY <2>1, FS_Product, Zenon
    <2> QED BY <2>2 DEF Pair
  <1>2. \E p \in Pair : TRUE
    <2>1. PICK r \in Route, b \in Beacon : TRUE
      BY FiniteAssumption
    <2>2. <<r, b>> \in Pair
      BY <2>1 DEF Pair
    <2> QED BY <2>2
  <1> QED BY <1>1, <1>2 DEF NoPair

(* remove(at:) shortens the array by one.                                    *)
LEMMA RemoveAtType ==
    ASSUME NEW S, NEW s \in Seq(S), NEW i \in 1..Len(s)
    PROVE  RemoveAt(s, i) \in Seq(S) /\ Len(RemoveAt(s, i)) = Len(s) - 1
  <1>1. SubSeq(s, 1, i - 1) \in Seq(S) /\ Len(SubSeq(s, 1, i - 1)) = i - 1
    OBVIOUS
  <1>2. SubSeq(s, i + 1, Len(s)) \in Seq(S) /\ Len(SubSeq(s, i + 1, Len(s))) = Len(s) - i
    OBVIOUS
  <1>3. Len(s) \in Nat /\ i \in Int
    OBVIOUS
  <1>4. ASSUME NEW a \in Seq(S), NEW b \in Seq(S)
        PROVE  a \o b \in Seq(S) /\ Len(a \o b) = Len(a) + Len(b)
    BY ConcatProperties, Zenon
  <1>5. RemoveAt(s, i) = SubSeq(s, 1, i - 1) \o SubSeq(s, i + 1, Len(s))
    BY Zenon DEF RemoveAt
  <1>6. RemoveAt(s, i) \in Seq(S)
    BY <1>1, <1>2, <1>4, <1>5, Zenon
  <1>7. Len(RemoveAt(s, i)) = Len(SubSeq(s, 1, i - 1)) + Len(SubSeq(s, i + 1, Len(s)))
    BY <1>1, <1>2, <1>4, <1>5, Zenon
  <1>8. Len(RemoveAt(s, i)) = (i - 1) + (Len(s) - i)
    BY <1>1, <1>2, <1>7, Zenon
  <1> QED BY <1>3, <1>6, <1>8

(* sort permutes the array.                                                  *)
LEMMA SortType ==
    ASSUME NEW S, NEW s \in Seq(S), NEW p \in Orders(Len(s))
    PROVE  /\ [i \in 1..Len(s) |-> s[p[i]]] \in Seq(S)
           /\ Len([i \in 1..Len(s) |-> s[p[i]]]) = Len(s)
  BY DEF Orders

-----------------------------------------------------------------------------
(* The inductive invariant                                                   *)

(* A scanner handles its own beacons, and finds one only if it is not cached.*)
OwnPairs ==
    \A r \in Route :
        /\ ops[r].pc # "idle" => ops[r].pair[1] = r
        /\ ops[r].pc \in {"append", "cache"} => ops[r].pair \notin seen

LosesACachedBeacon == Losing => main.pair \in seen

(* The bounds that didLoseBeacon has read still hold: nobody else shortens   *)
(* the list.                                                                 *)
LoseInBounds ==
    /\ main.pc = "range" => main.i = 1
    /\ main.pc = "compare" => main.i =< main.count /\ main.count =< Len(available)
    /\ main.pc = "remove" => main.i =< Len(available)

IInv ==
    /\ TypeOK
    /\ OwnPairs
    /\ LosesACachedBeacon
    /\ LoseInBounds
    /\ EntriesCoverSeen
    /\ LoseNeverTraps
    /\ CachedBeaconsCanBeLost

LEMMA RecordedFinite ==
    ASSUME TypeOK
    PROVE  IsFiniteSet(Recorded) /\ Recorded \subseteq Pair
  <1>1. Recorded \subseteq Pair
    BY DEF Recorded, Appended, TypeOK, OpsRecord
  <1> QED BY <1>1, PairFinite, FS_Subset

(* The list covers the caches after a step that adds no pair and no step of  *)
(* which shortens the list.                                                  *)
LEMMA CoverKept ==
    ASSUME TypeOK, TypeOK', EntriesCoverSeen,
           Recorded' \subseteq Recorded, Len(available') >= Len(available)
    PROVE  EntriesCoverSeen'
  <1>1. Cardinality(Recorded') =< Cardinality(Recorded)
    BY RecordedFinite, FS_Subset
  <1>2. Cardinality(Recorded) \in Nat /\ Cardinality(Recorded') \in Nat
    <2>1. IsFiniteSet(Recorded) /\ IsFiniteSet(Recorded')
      BY RecordedFinite, FS_Subset
    <2> QED BY <2>1, FS_CardinalityType
  <1>3. Len(available) \in Nat /\ Len(available') \in Nat
    BY DEF TypeOK
  <1> QED BY <1>1, <1>2, <1>3 DEF EntriesCoverSeen

LEMMA InitIInv == Init => IInv
  <1> SUFFICES ASSUME Init PROVE IInv
    OBVIOUS
  <1>1. TypeOK
    BY PairFinite DEF Init, TypeOK, OpsRecord, MainRecord, Idle, At, OpsPC, MainPC
  <1>2. Recorded = {}
    BY DEF Init, Recorded, Appended, Idle, At
  <1>3. EntriesCoverSeen
    <2>1. Cardinality({}) = 0
      BY FS_EmptySet
    <2>2. Len(available) = 0
      BY DEF Init
    <2> QED BY <1>2, <2>1, <2>2 DEF EntriesCoverSeen
  <1>4. main.pc = "idle" /\ \A r \in Route : ops[r].pc = "idle"
    BY DEF Init, Idle, At
  <1>5. OwnPairs /\ LosesACachedBeacon /\ LoseInBounds
    BY <1>4 DEF OwnPairs, LosesACachedBeacon, LoseInBounds, Losing
  <1>6. LoseNeverTraps /\ CachedBeaconsCanBeLost
    BY DEF Init, LoseNeverTraps, CachedBeaconsCanBeLost
  <1> QED BY <1>1, <1>3, <1>5, <1>6 DEF IInv

-----------------------------------------------------------------------------
(* The steps                                                                 *)

(* Steps of the user: nothing that the invariant is about moves, except that *)
(* the main queue is idle or waits for the wearable.                         *)
LEMMA UserStep ==
    ASSUME IInv, (\E r \in Route : OpenRoute(r)) \/ Accepted \/ GoBack
    PROVE  IInv'
  <1>1. /\ UNCHANGED <<available, seen, timer, ops, crash>>
        /\ main.pc \in {"idle", "accept"} /\ main'.pc \in {"idle", "accept"}
        /\ main' \in MainRecord
    BY PairFinite DEF IInv, TypeOK, MainRecord, OpenRoute, Accepted, GoBack, At, Idle, MainPC
  <1>2. TypeOK'
    BY <1>1 DEF IInv, TypeOK
  <1>3. Recorded' = Recorded
    BY <1>1 DEF Recorded, Appended
  <1>4. EntriesCoverSeen'
    BY <1>1, <1>3 DEF IInv, EntriesCoverSeen
  <1>5. ~Losing /\ ~Losing'
    BY <1>1 DEF Losing
  <1>6. CachedBeaconsCanBeLost'
    BY <1>1, <1>5 DEF IInv, CachedBeaconsCanBeLost
  <1>7. OwnPairs' /\ LosesACachedBeacon' /\ LoseInBounds'
    BY <1>1, <1>5 DEF IInv, OwnPairs, LosesACachedBeacon, LoseInBounds
  <1>8. LoseNeverTraps'
    BY <1>1 DEF IInv, LoseNeverTraps
  <1> QED BY <1>2, <1>4, <1>6, <1>7, <1>8 DEF IInv

(* A step of didUpdateBeacon or trilaterate: the queue of r moves on or is   *)
(* done, the list may be rearranged.                                         *)
QuietStep(r, o) ==
    /\ ops[r].pc \notin {"idle", "append", "cache"}
    /\ o \in OpsRecord
    /\ o.pc \notin {"append", "cache"}
    /\ o.pc # "idle" => o.pair = ops[r].pair
    /\ ops' = [ops EXCEPT ![r] = o]
    /\ available' \in Seq(Entry) /\ Len(available') = Len(available)
    /\ crash' \notin {"lose_empty", "lose_index"}
    /\ UNCHANGED <<seen, timer, main>>

LEMMA QuietKeeps ==
    ASSUME IInv, NEW r \in Route, NEW o, QuietStep(r, o)
    PROVE  IInv'
  <1> USE DEF QuietStep
  <1>1. TypeOK'
    BY DEF IInv, TypeOK
  <1>2. ops'[r] = o /\ \A q \in Route : q # r => ops'[q] = ops[q]
    BY DEF IInv, TypeOK
  <1>3. Recorded' \subseteq Recorded
    <2>1. Appended' \subseteq Appended
      BY <1>2 DEF Appended
    <2> QED BY <2>1 DEF Recorded
  <1>4. EntriesCoverSeen'
    BY <1>1, <1>3, CoverKept DEF IInv, TypeOK
  <1>5. OwnPairs'
    BY <1>2 DEF IInv, OwnPairs
  <1>6. LosesACachedBeacon' /\ LoseInBounds'
    BY DEF IInv, LosesACachedBeacon, LoseInBounds, Losing
  <1>7. LoseNeverTraps'
    BY DEF LoseNeverTraps
  <1>8. CachedBeaconsCanBeLost'
    BY DEF IInv, CachedBeaconsCanBeLost, Losing
  <1> QED BY <1>1, <1>4, <1>5, <1>6, <1>7, <1>8 DEF IInv

LEMMA UpdateStep ==
    ASSUME IInv, NEW r \in Route,
           UpdateRange(r) \/ UpdateCompare(r) \/ UpdateApply(r) \/ Sort(r) \/ Locate(r)
    PROVE  IInv'
  <1> DEFINE o == ops[r]
  <1>1. o \in OpsRecord /\ available \in Seq(Entry) /\ Len(available) \in Nat
    BY DEF IInv, TypeOK
  <1>2. Idle \in OpsRecord /\ Idle.pc = "idle"
    BY PairFinite DEF Idle, At, OpsRecord, OpsPC
  <1>3. LoseNeverTraps
    BY DEF IInv
  <1>4. CASE UpdateRange(r)
    <2>1. CASE available = <<>>
      <3>1. QuietStep(r, o)
        BY <1>1, <1>4, <2>1 DEF UpdateRange, QuietStep, Trap, IInv, TypeOK
      <3> QED BY <3>1, QuietKeeps
    <2>2. CASE available # <<>>
      <3>1. [o EXCEPT !.pc = "compare", !.count = Len(available)] \in OpsRecord
        BY <1>1 DEF OpsRecord, OpsPC
      <3>2. QuietStep(r, [o EXCEPT !.pc = "compare", !.count = Len(available)])
        BY <1>1, <1>3, <1>4, <2>2, <3>1
           DEF UpdateRange, QuietStep, IInv, TypeOK, OpsRecord, LoseNeverTraps
      <3> QED BY <3>2, QuietKeeps
    <2> QED BY <2>1, <2>2
  <1>5. CASE UpdateCompare(r)
    <2>1. CASE o.i > Len(available)
      <3>1. QuietStep(r, o)
        BY <1>1, <1>5, <2>1 DEF UpdateCompare, QuietStep, Trap, IInv, TypeOK
      <3> QED BY <3>1, QuietKeeps
    <2>2. CASE ops' = [ops EXCEPT ![r].pc = "apply"] /\ UNCHANGED crash
      <3>1. [o EXCEPT !.pc = "apply"] \in OpsRecord
        BY <1>1 DEF OpsRecord, OpsPC
      <3>2. QuietStep(r, [o EXCEPT !.pc = "apply"])
        BY <1>1, <1>3, <1>5, <2>2, <3>1
           DEF UpdateCompare, QuietStep, IInv, TypeOK, OpsRecord, LoseNeverTraps
      <3> QED BY <3>2, QuietKeeps
    <2>3. CASE ops' = [ops EXCEPT ![r].i = @ + 1] /\ UNCHANGED crash
      <3>1. [o EXCEPT !.i = @ + 1] \in OpsRecord
        BY <1>1 DEF OpsRecord
      <3>2. QuietStep(r, [o EXCEPT !.i = @ + 1])
        BY <1>1, <1>3, <1>5, <2>3, <3>1
           DEF UpdateCompare, QuietStep, IInv, TypeOK, OpsRecord, LoseNeverTraps
      <3> QED BY <3>2, QuietKeeps
    <2>4. CASE ops' = [ops EXCEPT ![r] = Idle] /\ UNCHANGED crash
      <3>1. QuietStep(r, Idle)
        BY <1>1, <1>2, <1>3, <1>5, <2>4 DEF UpdateCompare, QuietStep, LoseNeverTraps
      <3> QED BY <3>1, QuietKeeps
    <2> QED BY <1>1, <1>5, <2>1, <2>2, <2>3, <2>4 DEF UpdateCompare, Goto, Done
  <1>6. CASE UpdateApply(r)
    <2>1. CASE o.i > Len(available)
      <3>1. QuietStep(r, o)
        BY <1>1, <1>6, <2>1 DEF UpdateApply, QuietStep, Trap, IInv, TypeOK
      <3> QED BY <3>1, QuietKeeps
    <2>2. CASE ops' = [ops EXCEPT ![r] = Idle] /\ UNCHANGED <<available, crash>>
      <3>1. QuietStep(r, Idle)
        BY <1>1, <1>2, <1>3, <1>6, <2>2 DEF UpdateApply, QuietStep, LoseNeverTraps
      <3> QED BY <3>1, QuietKeeps
    <2>3. CASE /\ o.i =< Len(available)
               /\ available' = [available EXCEPT ![o.i].located = TRUE]
               /\ ops' = [ops EXCEPT ![r].pc = "sort"] /\ UNCHANGED crash
      <3>1. [o EXCEPT !.pc = "sort"] \in OpsRecord
        BY <1>1 DEF OpsRecord, OpsPC
      <3>2. o.i \in 1..Len(available)
        BY <1>1, <2>3 DEF OpsRecord
      <3>3. [available[o.i] EXCEPT !.located = TRUE] \in Entry
        <4>1. available[o.i] \in Entry
          BY <1>1, <3>2
        <4>2. ASSUME NEW e \in Entry PROVE [e EXCEPT !.located = TRUE] \in Entry
          BY Zenon DEF Entry
        <4> QED BY <4>1, <4>2
      <3>4. available' = [available EXCEPT ![o.i] = [available[o.i] EXCEPT !.located = TRUE]]
        BY <2>3, Zenon
      <3>5. available' \in Seq(Entry) /\ Len(available') = Len(available)
        BY <1>1, <3>2, <3>3, <3>4, ExceptSeq
      <3>6. QuietStep(r, [o EXCEPT !.pc = "sort"])
        BY <1>1, <1>3, <1>6, <2>3, <3>1, <3>5
           DEF UpdateApply, QuietStep, IInv, TypeOK, OpsRecord, LoseNeverTraps
      <3> QED BY <3>6, QuietKeeps
    <2> QED BY <1>1, <1>6, <2>1, <2>2, <2>3 DEF UpdateApply, Goto, Done, OpsRecord
  <1>7. CASE Sort(r)
    <2>1. available' \in Seq(Entry) /\ Len(available') = Len(available)
      BY <1>1, <1>7, SortType DEF Sort
    <2>2. [o EXCEPT !.pc = "locate"] \in OpsRecord
      BY <1>1 DEF OpsRecord, OpsPC
    <2>3. QuietStep(r, [o EXCEPT !.pc = "locate"])
      BY <1>1, <1>3, <1>7, <2>1, <2>2
         DEF Sort, Goto, QuietStep, IInv, TypeOK, OpsRecord, LoseNeverTraps
    <2> QED BY <2>3, QuietKeeps
  <1>8. CASE Locate(r)
    <2>1. CASE ReadsBeyond(available)
      <3>1. QuietStep(r, o)
        BY <1>1, <1>8, <2>1 DEF Locate, QuietStep, Trap, IInv, TypeOK
      <3> QED BY <3>1, QuietKeeps
    <2>2. CASE ~ReadsBeyond(available)
      <3>1. QuietStep(r, Idle)
        BY <1>1, <1>2, <1>3, <1>8, <2>2 DEF Locate, Done, QuietStep, LoseNeverTraps
      <3> QED BY <3>1, QuietKeeps
    <2> QED BY <2>1, <2>2
  <1> QED BY <1>4, <1>5, <1>6, <1>7, <1>8

(* A new beacon enters the list, and then the cache.                         *)
LEMMA AppendStep ==
    ASSUME IInv, NEW r \in Route, Append1(r)
    PROVE  IInv'
  <1> DEFINE p == ops[r].pair
  <1>1. ops[r] \in OpsRecord /\ ops[r].pc = "append" /\ p \in Pair
    BY DEF IInv, TypeOK, OpsRecord, Append1
  <1>2. [id |-> p[2], located |-> FALSE] \in Entry
    BY <1>1 DEF Entry, Pair
  <1>3. available' \in Seq(Entry) /\ Len(available') = Len(available) + 1
        /\ Len(available) \in Nat
    BY <1>2 DEF IInv, TypeOK, Append1
  <1>4. /\ ops'[r] = [ops[r] EXCEPT !.pc = "cache"]
        /\ \A q \in Route : q # r => ops'[q] = ops[q]
        /\ UNCHANGED <<seen, timer, main, crash>>
    BY DEF IInv, TypeOK, Append1, Goto
  <1>5. TypeOK'
    BY <1>1, <1>3, <1>4 DEF IInv, TypeOK, Append1, Goto, OpsRecord, OpsPC
  <1>6. Recorded' \subseteq Recorded \cup {p}
    <2>1. Appended' \subseteq Appended \cup {p}
      BY <1>1, <1>4 DEF Appended, OpsRecord
    <2> QED BY <2>1, <1>4 DEF Recorded
  <1>7. EntriesCoverSeen'
    <2>1. IsFiniteSet(Recorded) /\ IsFiniteSet(Recorded \cup {p})
      BY RecordedFinite, FS_AddElement DEF IInv
    <2>2. /\ Cardinality(Recorded) \in Nat
          /\ Cardinality(Recorded \cup {p}) \in Nat
          /\ Cardinality(Recorded \cup {p}) =< Cardinality(Recorded) + 1
      <3>1. Cardinality(Recorded) \in Nat /\ Cardinality(Recorded \cup {p}) \in Nat
        BY <2>1, FS_CardinalityType
      <3>2. Cardinality(Recorded \cup {p}) =
              IF p \in Recorded THEN Cardinality(Recorded) ELSE Cardinality(Recorded) + 1
        BY <2>1, FS_AddElement, Zenon
      <3> QED BY <3>1, <3>2
    <2>3. IsFiniteSet(Recorded') /\ Cardinality(Recorded') =< Cardinality(Recorded \cup {p})
      BY <1>6, <2>1, FS_Subset
    <2>4. Cardinality(Recorded') \in Nat
      BY <2>3, FS_CardinalityType
    <2>5. Cardinality(Recorded) =< Len(available)
      BY DEF IInv, EntriesCoverSeen
    <2> QED BY <1>3, <2>2, <2>3, <2>4, <2>5 DEF EntriesCoverSeen
  <1>8. OwnPairs'
    BY <1>1, <1>4 DEF IInv, OwnPairs, OpsRecord
  <1>9. LosesACachedBeacon' /\ LoseInBounds'
    BY <1>3, <1>4 DEF IInv, TypeOK, MainRecord, LosesACachedBeacon, LoseInBounds, Losing
  <1>10. LoseNeverTraps' /\ CachedBeaconsCanBeLost'
    BY <1>4 DEF IInv, LoseNeverTraps, CachedBeaconsCanBeLost, Losing
  <1> QED BY <1>5, <1>7, <1>8, <1>9, <1>10 DEF IInv

LEMMA CacheStep ==
    ASSUME IInv, NEW r \in Route, Cache(r)
    PROVE  IInv'
  <1> DEFINE p == ops[r].pair
  <1>1. ops[r] \in OpsRecord /\ ops[r].pc = "cache" /\ p \in Pair /\ p[1] = r /\ p \notin seen
    BY DEF IInv, TypeOK, OpsRecord, OwnPairs, Cache
  <1>2. /\ ops'[r] = Idle
        /\ \A q \in Route : q # r => ops'[q] = ops[q]
        /\ seen' = seen \cup {p} /\ timer' = [timer EXCEPT ![p] = "armed"]
        /\ UNCHANGED <<available, main, crash>>
    BY DEF IInv, TypeOK, Cache, Done
  <1>3. Idle \in OpsRecord /\ Idle.pc = "idle"
    BY PairFinite DEF Idle, At, OpsRecord, OpsPC
  <1>4. TypeOK'
    BY <1>1, <1>2, <1>3 DEF IInv, TypeOK, Cache, Done
  <1>5. Recorded' \subseteq Recorded
    <2>1. Appended' \subseteq Appended /\ p \in Appended
      BY <1>1, <1>2, <1>3 DEF Appended
    <2> QED BY <1>2, <2>1 DEF Recorded
  <1>6. EntriesCoverSeen'
    BY <1>2, <1>4, <1>5, CoverKept DEF IInv, TypeOK
  <1>7. OwnPairs'
    <2>1. ASSUME NEW q \in Route, q # r, ops[q].pc \in {"append", "cache"}
          PROVE  ops[q].pair \notin seen'
      <3>1. ops[q].pair[1] = q /\ ops[q].pair \notin seen
        BY <2>1 DEF IInv, OwnPairs
      <3>2. ops[q].pair # p
        BY <1>1, <2>1, <3>1
      <3> QED BY <1>2, <3>1, <3>2
    <2> QED BY <1>2, <1>3, <2>1 DEF IInv, OwnPairs
  <1>8. LosesACachedBeacon' /\ LoseInBounds'
    BY <1>2 DEF IInv, LosesACachedBeacon, LoseInBounds, Losing
  <1>9. LoseNeverTraps' /\ CachedBeaconsCanBeLost'
    BY <1>1, <1>2 DEF IInv, TypeOK, LoseNeverTraps, CachedBeaconsCanBeLost, Losing
  <1> QED BY <1>4, <1>6, <1>7, <1>8, <1>9 DEF IInv

(* A sighting starts a handler; the timer it resets is running or expired.   *)
LEMMA DiscoverStep ==
    ASSUME IInv, NEW r \in Route, NEW b \in Beacon, Discover(r, b)
    PROVE  IInv'
  <1> DEFINE p == <<r, b>>
  <1>1. p \in Pair /\ p[1] = r /\ ops[r] \in OpsRecord /\ ops[r].pc = "idle"
    BY DEF IInv, TypeOK, Pair, Discover, Handling
  <1>2. /\ At("range", p) \in OpsRecord /\ At("append", p) \in OpsRecord
        /\ At("range", p).pc = "range" /\ At("append", p).pc = "append"
        /\ At("range", p).pair = p /\ At("append", p).pair = p
    BY <1>1 DEF At, OpsRecord, OpsPC
  <1>3. UNCHANGED <<available, seen, main, crash>>
    BY DEF Discover
  <1>4. /\ timer' \in [Pair -> {"none", "armed", "expired", "cancelled"}]
        /\ \A q \in Pair : timer[q] \in {"armed", "expired"} => timer'[q] \in {"armed", "expired"}
    <2>1. timer' = timer \/ timer' = [timer EXCEPT ![p] = "armed"]
      BY DEF Discover, Rescheduled
    <2>2. timer \in [Pair -> {"none", "armed", "expired", "cancelled"}]
      BY DEF IInv, TypeOK
    <2> QED BY <1>1, <2>1, <2>2
  <1>5. \/ ops' = ops
        \/ ops' = [ops EXCEPT ![r] = At("range", p)]
        \/ ops' = [ops EXCEPT ![r] = At("append", p)] /\ p \notin seen
    BY DEF Discover
  <1>6. ops \in [Route -> OpsRecord]
    BY DEF IInv, TypeOK
  <1>7. /\ \A q \in Route : q # r => ops'[q] = ops[q]
        /\ \/ ops'[r] = ops[r]
           \/ ops'[r] = At("range", p)
           \/ ops'[r] = At("append", p) /\ p \notin seen
        /\ ops' \in [Route -> OpsRecord]
    BY <1>2, <1>5, <1>6
  <1>8. TypeOK'
    BY <1>3, <1>4, <1>7 DEF IInv, TypeOK
  <1>9. Recorded' \subseteq Recorded
    <2>1. Appended' \subseteq Appended
      BY <1>2, <1>7 DEF Appended
    <2> QED BY <1>3, <2>1 DEF Recorded
  <1>10. EntriesCoverSeen'
    BY <1>3, <1>8, <1>9, CoverKept DEF IInv, TypeOK
  <1>11. OwnPairs'
    BY <1>1, <1>2, <1>3, <1>7 DEF IInv, OwnPairs
  <1>12. LosesACachedBeacon' /\ LoseInBounds'
    BY <1>3 DEF IInv, LosesACachedBeacon, LoseInBounds, Losing
  <1>13. LoseNeverTraps' /\ CachedBeaconsCanBeLost'
    BY <1>3, <1>4 DEF IInv, TypeOK, LoseNeverTraps, CachedBeaconsCanBeLost, Losing
  <1> QED BY <1>8, <1>10, <1>11, <1>12, <1>13 DEF IInv

LEMMA ExpireStep ==
    ASSUME IInv, NEW p \in Pair, Expire(p)
    PROVE  IInv'
  <1>1. UNCHANGED <<available, seen, ops, main, crash>> /\ timer' = [timer EXCEPT ![p] = "expired"]
    BY DEF Expire
  <1>2. TypeOK'
    BY <1>1 DEF IInv, TypeOK
  <1>3. EntriesCoverSeen'
    BY <1>1 DEF IInv, EntriesCoverSeen, Recorded, Appended
  <1>4. OwnPairs' /\ LosesACachedBeacon' /\ LoseInBounds'
    BY <1>1 DEF IInv, OwnPairs, LosesACachedBeacon, LoseInBounds, Losing
  <1>5. LoseNeverTraps' /\ CachedBeaconsCanBeLost'
    BY <1>1 DEF IInv, TypeOK, LoseNeverTraps, CachedBeaconsCanBeLost, Losing
  <1> QED BY <1>2, <1>3, <1>4, <1>5 DEF IInv

LEMMA FireStep ==
    ASSUME IInv, NEW p \in Pair, Fire(p)
    PROVE  IInv'
  <1>1. /\ UNCHANGED <<available, seen, ops, crash>>
        /\ timer' = [timer EXCEPT ![p] = "cancelled"]
        /\ main.pc = "idle"
        /\ main' = IF p \in seen THEN At("range", p) ELSE Idle
    BY DEF Fire
  <1>2. At("range", p) \in MainRecord /\ Idle \in MainRecord
    BY PairFinite DEF At, Idle, MainRecord, MainPC
  <1>3. /\ p \in seen => main'.pc = "range" /\ main'.pair = p
        /\ p \in seen => main'.i = 1
        /\ p \notin seen => main'.pc = "idle"
    BY <1>1 DEF At, Idle
  <1>4. TypeOK'
    BY <1>1, <1>2 DEF IInv, TypeOK
  <1>5. EntriesCoverSeen'
    <2>1. Recorded' = Recorded
      BY <1>1, <1>3 DEF Recorded, Appended
    <2> QED BY <1>1, <2>1 DEF IInv, EntriesCoverSeen
  <1>6. OwnPairs' /\ LosesACachedBeacon' /\ LoseInBounds'
    BY <1>1, <1>3 DEF IInv, OwnPairs, LosesACachedBeacon, LoseInBounds, Losing
  <1>7. LoseNeverTraps'
    BY <1>1 DEF IInv, LoseNeverTraps
  <1>8. CachedBeaconsCanBeLost'
    BY <1>1, <1>3 DEF IInv, TypeOK, CachedBeaconsCanBeLost, Losing
  <1> QED BY <1>4, <1>5, <1>6, <1>7, <1>8 DEF IInv

(* While a cached beacon is being reported lost, the list has an entry.      *)
LEMMA ListNotEmpty ==
    ASSUME IInv, main.pc \in {"range", "compare", "remove"}
    PROVE  Len(available) \in Nat /\ Len(available) >= 1
  <1>1. main.pair \in Recorded
    BY DEF IInv, LosesACachedBeacon, Losing, Recorded
  <1>2. IsFiniteSet(Recorded)
    BY RecordedFinite DEF IInv
  <1>3. Cardinality(Recorded) # 0
    BY <1>1, <1>2, FS_EmptySet
  <1>4. Cardinality(Recorded) \in Nat
    BY <1>2, FS_CardinalityType
  <1>5. Len(available) \in Nat /\ Cardinality(Recorded) =< Len(available)
    BY DEF IInv, TypeOK, EntriesCoverSeen
  <1> QED BY <1>3, <1>4, <1>5

(* The loop of didLoseBeacon moves on; the list and the caches do not.       *)
LoseMoves(m) ==
    /\ main.pc \in {"range", "compare"} /\ main' = m
    /\ m \in MainRecord /\ m.pair = main.pair
    /\ m.pc \in {"compare", "remove"}
    /\ m.i =< Len(available)
    /\ m.pc = "compare" => m.i =< m.count /\ m.count =< Len(available)
    /\ UNCHANGED <<available, seen, timer, ops, crash>>

LEMMA LoseMovesKeeps ==
    ASSUME IInv, NEW m, LoseMoves(m)
    PROVE  IInv'
  <1> USE DEF LoseMoves
  <1>1. TypeOK'
    BY DEF IInv, TypeOK
  <1>2. EntriesCoverSeen'
    <2>1. Recorded' = Recorded
      BY DEF Recorded, Appended
    <2> QED BY <2>1 DEF IInv, EntriesCoverSeen
  <1>3. OwnPairs' /\ LosesACachedBeacon' /\ LoseInBounds'
    BY DEF IInv, OwnPairs, LosesACachedBeacon, LoseInBounds, Losing
  <1>4. LoseNeverTraps' /\ CachedBeaconsCanBeLost'
    BY DEF IInv, LoseNeverTraps, CachedBeaconsCanBeLost, Losing
  <1> QED BY <1>1, <1>2, <1>3, <1>4 DEF IInv

LEMMA LoseRangeStep ==
    ASSUME IInv, LoseRange
    PROVE  IInv'
  <1> DEFINE m == [main EXCEPT !.pc = "compare", !.count = Len(available)]
  <1>1. Len(available) \in Nat /\ Len(available) >= 1
    BY ListNotEmpty DEF LoseRange
  <1>2. available # <<>>
    BY <1>1
  <1>3. main' = m /\ main.pc = "range" /\ UNCHANGED <<available, seen, timer, ops, crash>>
    BY <1>2 DEF LoseRange
  <1>4. main \in MainRecord
    BY DEF IInv, TypeOK
  <1>5. main.i = 1
    BY <1>3 DEF IInv, LoseInBounds
  <1>6. m \in MainRecord /\ m.pair = main.pair /\ m.pc = "compare"
        /\ m.i = main.i /\ m.count = Len(available)
    BY <1>1, <1>4 DEF MainRecord, MainPC
  <1>7. LoseMoves(m)
    BY <1>1, <1>3, <1>5, <1>6 DEF LoseMoves
  <1> QED BY <1>7, LoseMovesKeeps

(* The removal is decided: the pair no longer counts for the list.           *)
LoseEnds(m) ==
    /\ Losing /\ main' = m
    /\ m \in MainRecord /\ m.pair = main.pair /\ m.pc = "drop"
    /\ available' \in Seq(Entry) /\ Len(available') >= Len(available) - 1
    /\ main.pc = "remove" \/ available' = available
    /\ main.pc # "drop"
    /\ UNCHANGED <<seen, timer, ops, crash>>

LEMMA LoseEndsKeeps ==
    ASSUME IInv, NEW m, LoseEnds(m)
    PROVE  IInv'
  <1> USE DEF LoseEnds
  <1>1. TypeOK'
    BY DEF IInv, TypeOK
  <1>2. /\ Recorded' = Recorded \ {main.pair}
        /\ main.pair \in Recorded
    BY DEF IInv, LosesACachedBeacon, Losing, Recorded, Appended
  <1>3. EntriesCoverSeen'
    <2>1. IsFiniteSet(Recorded)
      BY RecordedFinite DEF IInv
    <2>2. Cardinality(Recorded) \in Nat
      BY <2>1, FS_CardinalityType
    <2>3. Cardinality(Recorded') = Cardinality(Recorded) - 1
      BY <1>2, <2>1, FS_RemoveElement
    <2>4. Cardinality(Recorded) =< Len(available) /\ Len(available) \in Nat /\ Len(available') \in Nat
      BY DEF IInv, TypeOK, EntriesCoverSeen
    <2>5. Len(available') >= Len(available) - 1
      OBVIOUS
    <2> QED BY <2>2, <2>3, <2>4, <2>5 DEF EntriesCoverSeen
  <1>4. OwnPairs' /\ LosesACachedBeacon' /\ LoseInBounds'
    BY DEF IInv, OwnPairs, LosesACachedBeacon, LoseInBounds, Losing
  <1>5. LoseNeverTraps' /\ CachedBeaconsCanBeLost'
    BY DEF IInv, LoseNeverTraps, CachedBeaconsCanBeLost, Losing
  <1> QED BY <1>1, <1>3, <1>4, <1>5 DEF IInv

LEMMA LoseCompareStep ==
    ASSUME IInv, LoseCompare
    PROVE  IInv'
  <1>1. /\ main.pc = "compare" /\ main \in MainRecord
        /\ Len(available) \in Nat /\ available \in Seq(Entry)
        /\ main.i =< main.count /\ main.count =< Len(available)
    BY DEF IInv, TypeOK, LoseInBounds, LoseCompare
  <1>2. main.i \in Nat /\ main.count \in Nat /\ main.i =< Len(available)
    BY <1>1 DEF MainRecord
  <1>3. UNCHANGED <<available, seen, timer, ops, crash>>
    BY <1>1, <1>2 DEF LoseCompare
  <1>4. CASE main' = [main EXCEPT !.pc = "remove"]
    <2>1. LoseMoves([main EXCEPT !.pc = "remove"])
      BY <1>1, <1>3, <1>4 DEF LoseMoves, MainRecord, MainPC
    <2> QED BY <2>1, LoseMovesKeeps
  <1>5. CASE main' = [main EXCEPT !.i = @ + 1] /\ main.i < main.count
    <2>1. LoseMoves([main EXCEPT !.i = @ + 1])
      BY <1>1, <1>2, <1>3, <1>5 DEF LoseMoves, MainRecord
    <2> QED BY <2>1, LoseMovesKeeps
  <1>6. CASE main' = [main EXCEPT !.pc = "drop"]
    <2>1. LoseEnds([main EXCEPT !.pc = "drop"])
      BY <1>1, <1>3, <1>6 DEF LoseEnds, Losing, MainRecord, MainPC
    <2> QED BY <2>1, LoseEndsKeeps
  <1> QED BY <1>1, <1>2, <1>4, <1>5, <1>6 DEF LoseCompare

LEMMA LoseRemoveStep ==
    ASSUME IInv, LoseRemove
    PROVE  IInv'
  <1>1. /\ main.pc = "remove" /\ main \in MainRecord /\ available \in Seq(Entry)
        /\ Len(available) \in Nat /\ main.i =< Len(available)
    BY DEF IInv, TypeOK, LoseInBounds, LoseRemove
  <1>2. main.i \in 1..Len(available)
    BY <1>1 DEF MainRecord
  <1>3. /\ available' = RemoveAt(available, main.i)
        /\ main' = [main EXCEPT !.pc = "drop"]
        /\ UNCHANGED <<seen, timer, ops, crash>>
    BY <1>1, <1>2 DEF LoseRemove
  <1>4. available' \in Seq(Entry) /\ Len(available') = Len(available) - 1
    BY <1>1, <1>2, <1>3, RemoveAtType
  <1>5. LoseEnds([main EXCEPT !.pc = "drop"])
    BY <1>1, <1>3, <1>4 DEF LoseEnds, Losing, MainRecord, MainPC
  <1> QED BY <1>5, LoseEndsKeeps

LEMMA DropStep ==
    ASSUME IInv, Drop
    PROVE  IInv'
  <1> DEFINE p == main.pair
  <1>1. main.pc = "drop" /\ p \in seen /\ p \in Pair
    BY DEF IInv, TypeOK, LosesACachedBeacon, Losing, Drop
  <1>2. /\ seen' = seen \ {p} /\ timer' = [timer EXCEPT ![p] = "none"] /\ main' = Idle
        /\ UNCHANGED <<available, ops, crash>>
    BY DEF Drop
  <1>3. Idle \in MainRecord /\ Idle.pc = "idle"
    BY PairFinite DEF Idle, At, MainRecord, MainPC
  <1>4. TypeOK'
    BY <1>2, <1>3 DEF IInv, TypeOK
  <1>5. Recorded' \subseteq Recorded
    <2>1. Appended' = Appended /\ p \notin Appended
      BY <1>1, <1>2 DEF IInv, OwnPairs, Appended
    <2> QED BY <1>1, <1>2, <1>3, <2>1 DEF Recorded
  <1>6. EntriesCoverSeen'
    BY <1>2, <1>4, <1>5, CoverKept DEF IInv, TypeOK
  <1>7. OwnPairs'
    BY <1>2 DEF IInv, OwnPairs
  <1>8. LosesACachedBeacon' /\ LoseInBounds'
    BY <1>2, <1>3 DEF LosesACachedBeacon, LoseInBounds, Losing
  <1>9. LoseNeverTraps'
    BY <1>2 DEF IInv, LoseNeverTraps
  <1>10. CachedBeaconsCanBeLost'
    BY <1>1, <1>2, <1>3 DEF IInv, TypeOK, CachedBeaconsCanBeLost, Losing
  <1> QED BY <1>4, <1>6, <1>7, <1>8, <1>9, <1>10 DEF IInv

-----------------------------------------------------------------------------
LEMMA StepIInv == IInv /\ [Next]_vars => IInv'
  <1> SUFFICES ASSUME IInv, [Next]_vars PROVE IInv'
    OBVIOUS
  <1>1. CASE UNCHANGED vars \/ RadioOff \/ \E r \in Route : StartScan(r)
    <2>1. UNCHANGED <<available, seen, timer, ops, main, crash>>
      BY <1>1 DEF vars, RadioOff, StartScan
    <2> QED BY <2>1 DEF IInv, TypeOK, OwnPairs, LosesACachedBeacon, LoseInBounds, EntriesCoverSeen, Recorded,
                        Appended, LoseNeverTraps, CachedBeaconsCanBeLost, Losing
  <1>2. CASE Next
    <2>1. ASSUME NEW r \in Route, OpenRoute(r) PROVE IInv'
      BY <2>1, UserStep
    <2>2. ASSUME NEW r \in Route, Handler(r) PROVE IInv'
      BY <2>2, AppendStep, CacheStep, UpdateStep DEF Handler
    <2>3. ASSUME NEW r \in Route, NEW b \in Beacon, Discover(r, b) PROVE IInv'
      BY <2>3, DiscoverStep
    <2>4. CASE Accepted \/ GoBack
      BY <2>4, UserStep
    <2>5. ASSUME NEW p \in Pair, Expire(p) \/ Fire(p) PROVE IInv'
      BY <2>5, ExpireStep, FireStep
    <2>6. CASE Lose
      BY <2>6, LoseRangeStep, LoseCompareStep, LoseRemoveStep, DropStep DEF Lose
    <2> QED BY <1>1, <1>2, <2>1, <2>2, <2>3, <2>4, <2>5, <2>6 DEF Next
  <1> QED BY <1>1, <1>2

(* In every interleaving of the scanners' queues with the main queue the     *)
(* list covers the caches, so that didLoseBeacon (option1.swift) never runs  *)
(* its loop over an empty list or past the end of it, and every cached       *)
(* beacon keeps a timer that will report it lost.                            *)
THEOREM ListCoversCaches ==
    Spec => [](EntriesCoverSeen /\ LoseNeverTraps /\ CachedBeaconsCanBeLost)
  <1>1. IInv => EntriesCoverSeen /\ LoseNeverTraps /\ CachedBeaconsCanBeLost
    BY DEF IInv
  <1> QED BY <1>1, InitIInv, StepIInv, PTL DEF Spec

(* didLoseBeacon never runs its loop over an empty list or past the end.     *)
THEOREM LosingNeverTraps == Spec => []LoseNeverTraps
  BY ListCoversCaches, PTL

(* Every cached beacon has a timer that will report it lost, or is being     *)
(* reported: DispatchTimer is never left cancelled in the cache.             *)
THEOREM CachedBeaconsHaveTimers == Spec => []CachedBeaconsCanBeLost
  BY ListCoversCaches, PTL

-----------------------------------------------------------------------------
(* What BeaconTracking promises as long as no two handlers have overlapped,  *)
(* for any number of beacons and routes: the list is exact, the loops find   *)
(* what they look for and never leave the list, and no beacon has two        *)
(* distances.                                                                *)

-----------------------------------------------------------------------------
(* The entries of a beacon in a list                                         *)

Places(s, b) == {i \in 1..Len(s) : s[i].id = b}

LEMMA PlacesAreFinite ==
    ASSUME NEW s \in Seq(Entry), NEW b
    PROVE  IsFiniteSet(Places(s, b)) /\ Cardinality(Places(s, b)) \in Nat
  <1>1. IsFiniteSet(1..Len(s))
    BY FS_Interval
  <1>2. IsFiniteSet(Places(s, b))
    BY <1>1, FS_Subset DEF Places
  <1> QED BY <1>2, FS_CardinalityType

LEMMA SameSize ==
    ASSUME NEW S, NEW T, IsFiniteSet(S), NEW f \in [S -> T],
           \A x, y \in S : f[x] = f[y] => x = y,
           \A t \in T : \E x \in S : f[x] = t
    PROVE  Cardinality(T) = Cardinality(S)
  <1>1. f \in Bijection(S, T)
    BY DEF Bijection, Injection, Surjection, IsInjective
  <1> QED BY <1>1, FS_Bijection DEF ExistsBijection

(* A permutation of the list keeps the number of entries of every beacon.    *)
LEMMA OrdersAreOnto ==
    ASSUME NEW n \in Nat, NEW p \in Orders(n), NEW k \in 1..n
    PROVE  \E i \in 1..n : p[i] = k
  <1>1. p \in Injection(1..n, 1..n)
    BY DEF Orders, Injection, IsInjective
  <1>2. IsFiniteSet(1..n)
    BY FS_Interval
  <1>3. p \in Surjection(1..n, 1..n)
    BY <1>1, <1>2, FS_Injection
  <1> QED BY <1>3 DEF Surjection

LEMMA SortKeepsPlaces ==
    ASSUME NEW s \in Seq(Entry), NEW p \in Orders(Len(s)), NEW b,
           NEW t, t = [i \in 1..Len(s) |-> s[p[i]]]
    PROVE  Cardinality(Places(t, b)) = Cardinality(Places(s, b))
  <1>1. t \in Seq(Entry) /\ Len(t) = Len(s) /\ \A i \in 1..Len(s) : t[i] = s[p[i]] /\ p[i] \in 1..Len(s)
    BY SortType DEF Orders
  <1>2. \A i, j \in 1..Len(s) : p[i] = p[j] => i = j
    BY DEF Orders
  <1> DEFINE f == [i \in Places(t, b) |-> p[i]]
  <1>3. f \in [Places(t, b) -> Places(s, b)]
    BY <1>1 DEF Places
  <1>4. \A i, j \in Places(t, b) : f[i] = f[j] => i = j
    BY <1>1, <1>2 DEF Places
  <1>5. ASSUME NEW k \in Places(s, b) PROVE \E i \in Places(t, b) : f[i] = k
    <2>1. PICK i \in 1..Len(s) : p[i] = k
      BY OrdersAreOnto DEF Places
    <2>2. i \in Places(t, b)
      BY <1>1, <2>1 DEF Places
    <2> QED BY <2>1, <2>2
  <1>6. IsFiniteSet(Places(t, b))
    BY <1>1, PlacesAreFinite
  <1> HIDE DEF f
  <1> QED BY <1>3, <1>4, <1>5, <1>6, SameSize

(* remove(at: k) takes the entry k out and moves up those behind it.         *)
LEMMA RemoveAtElements ==
    ASSUME NEW s \in Seq(Entry), NEW k \in 1..Len(s), NEW t, t = RemoveAt(s, k)
    PROVE  /\ t \in Seq(Entry) /\ Len(t) = Len(s) - 1
           /\ \A i \in 1..(Len(s) - 1) : t[i] = s[IF i < k THEN i ELSE i + 1]
  <1> DEFINE a == SubSeq(s, 1, k - 1)
  <1> DEFINE c == SubSeq(s, k + 1, Len(s))
  <1>1. a \in Seq(Entry) /\ Len(a) = k - 1 /\ \A i \in 1..(k - 1) : a[i] = s[i]
    OBVIOUS
  <1>2. c \in Seq(Entry) /\ Len(c) = Len(s) - k /\ \A i \in 1..(Len(s) - k) : c[i] = s[k + i]
    OBVIOUS
  <1>3. t = a \o c
    BY DEF RemoveAt
  <1> HIDE DEF a, c
  <1>4. /\ t \in Seq(Entry) /\ Len(t) = Len(a) + Len(c)
        /\ \A i \in 1..Len(t) : t[i] = IF i =< Len(a) THEN a[i] ELSE c[i - Len(a)]
    <2>1. ASSUME NEW x \in Seq(Entry), NEW y \in Seq(Entry)
          PROVE  /\ x \o y \in Seq(Entry) /\ Len(x \o y) = Len(x) + Len(y)
                 /\ \A i \in 1..(Len(x) + Len(y)) :
                      (x \o y)[i] = IF i =< Len(x) THEN x[i] ELSE y[i - Len(x)]
      BY ConcatProperties, Zenon
    <2>2. a \in Seq(Entry) /\ c \in Seq(Entry)
      BY <1>1, <1>2
    <2>3. /\ t \in Seq(Entry) /\ Len(t) = Len(a) + Len(c)
          /\ \A i \in 1..(Len(a) + Len(c)) : t[i] = IF i =< Len(a) THEN a[i] ELSE c[i - Len(a)]
      <3> DEFINE ac == a \o c
      <3>1. /\ ac \in Seq(Entry) /\ Len(ac) = Len(a) + Len(c)
            /\ \A i \in 1..(Len(a) + Len(c)) :
                 ac[i] = IF i =< Len(a) THEN a[i] ELSE c[i - Len(a)]
        BY <2>1, <2>2, Zenon
      <3>2. t = ac
        BY <1>3, Zenon
      <3> HIDE DEF ac
      <3> QED BY <3>1, <3>2
    <2>4. 1..Len(t) = 1..(Len(a) + Len(c))
      BY <2>3, Zenon
    <2> QED BY <2>3, <2>4, Zenon
  <1>5. Len(s) \in Nat /\ k \in Nat /\ k - 1 \in Nat /\ Len(t) = Len(s) - 1 /\ Len(a) = k - 1
    BY <1>1, <1>2, <1>4
  <1>6. ASSUME NEW i \in 1..(Len(s) - 1) PROVE t[i] = s[IF i < k THEN i ELSE i + 1]
    <2>t. t[i] = IF i =< k - 1 THEN a[i] ELSE c[i - (k - 1)]
      BY <1>4, <1>5
    <2>1. CASE i < k
      <3>1. i \in 1..(k - 1) /\ i =< k - 1
        BY <1>5, <2>1
      <3> QED BY <1>1, <2>t, <2>1, <3>1
    <2>2. CASE ~ i < k
      <3>1. i - (k - 1) \in 1..(Len(s) - k) /\ k + (i - (k - 1)) = i + 1 /\ ~(i =< k - 1)
        BY <1>5, <2>2
      <3> QED BY <1>2, <2>t, <2>2, <3>1
    <2> QED BY <2>1, <2>2
  <1> QED BY <1>4, <1>5, <1>6

LEMMA RemoveKeepsPlaces ==
    ASSUME NEW s \in Seq(Entry), NEW k \in 1..Len(s), NEW t, t = RemoveAt(s, k), NEW b
    PROVE  Cardinality(Places(t, b)) =
             IF s[k].id = b THEN Cardinality(Places(s, b)) - 1 ELSE Cardinality(Places(s, b))
  <1>1. /\ t \in Seq(Entry) /\ Len(t) = Len(s) - 1
        /\ \A i \in 1..(Len(s) - 1) : t[i] = s[IF i < k THEN i ELSE i + 1]
    BY RemoveAtElements
  <1> DEFINE T == Places(s, b) \ {k}
  <1> DEFINE f == [i \in Places(t, b) |-> IF i < k THEN i ELSE i + 1]
  <1>2. f \in [Places(t, b) -> T]
    BY <1>1 DEF Places
  <1>3. \A i, j \in Places(t, b) : f[i] = f[j] => i = j
    BY <1>1 DEF Places
  <1>4. ASSUME NEW j \in T PROVE \E i \in Places(t, b) : f[i] = j
    <2>1. CASE j < k
      <3>1. j \in Places(t, b) /\ f[j] = j
        BY <1>1, <2>1 DEF Places
      <3> QED BY <3>1
    <2>2. CASE j > k
      <3>1. j - 1 \in Places(t, b) /\ f[j - 1] = j
        BY <1>1, <2>2 DEF Places
      <3> QED BY <3>1
    <2> QED BY <2>1, <2>2 DEF Places
  <1>5. IsFiniteSet(Places(t, b)) /\ IsFiniteSet(Places(s, b))
    BY <1>1, PlacesAreFinite
  <1> HIDE DEF f, T
  <1>6. Cardinality(T) = Cardinality(Places(t, b))
    BY <1>2, <1>3, <1>4, <1>5, SameSize
  <1>7. Cardinality(T) = IF k \in Places(s, b) THEN Cardinality(Places(s, b)) - 1 ELSE Cardinality(Places(s, b))
    BY <1>5, FS_RemoveElement DEF T
  <1> QED BY <1>6, <1>7 DEF Places

(* append puts a beacon behind the others.                                   *)
LEMMA AppendKeepsPlaces ==
    ASSUME NEW s \in Seq(Entry), NEW e \in Entry, NEW b, NEW t,
           Len(t) = Len(s) + 1, t[Len(s) + 1] = e, \A i \in 1..Len(s) : t[i] = s[i]
    PROVE  /\ e.id = b => Cardinality(Places(t, b)) = Cardinality(Places(s, b)) + 1
           /\ e.id # b => Cardinality(Places(t, b)) = Cardinality(Places(s, b))
  <1>1. /\ Len(t) = Len(s) + 1 /\ t[Len(s) + 1] = e /\ Len(s) \in Nat
        /\ \A i \in 1..Len(s) : t[i] = s[i]
    OBVIOUS
  <1>2. IsFiniteSet(Places(s, b))
    BY PlacesAreFinite
  <1>3. CASE e.id = b
    <2>1. Places(t, b) = Places(s, b) \cup {Len(s) + 1} /\ Len(s) + 1 \notin Places(s, b)
      BY <1>1, <1>3 DEF Places
    <2> QED BY <1>2, <1>3, <2>1, FS_AddElement
  <1>4. CASE e.id # b
    <2>1. Places(t, b) = Places(s, b)
      BY <1>1, <1>4 DEF Places
    <2> QED BY <1>4, <2>1
  <1> QED BY <1>3, <1>4
-----------------------------------------------------------------------------
(* The inductive invariant                                                   *)

Knowing(b) == {r \in Route : <<r, b>> \in Recorded}

OneAtATime ==
    /\ Losing => \A r \in Route : ops[r].pc = "idle"
    /\ \A q, r \in Route : ops[q].pc # "idle" /\ ops[r].pc # "idle" => q = r

UpdatesAKnownBeacon ==
    \A r \in Route : ops[r].pc \in {"range", "compare", "apply"} => ops[r].pair \in seen

(* A loop over the list has the bounds of the list and has passed no entry   *)
(* of the beacon it looks for.                                               *)
NotBefore(list, i, b) == \A j \in 1..Len(list) : j < i => list[j].id # b
AtEntry(list, i, b) == i =< Len(list) /\ list[i].id = b

LoopIsRight(list, o, found) ==
    /\ o.pc = "range" => o.i = 1
    /\ o.pc = "compare" => o.count = Len(list) /\ o.i =< o.count /\ NotBefore(list, o.i, o.pair[2])
    /\ o.pc = found => AtEntry(list, o.i, o.pair[2]) /\ NotBefore(list, o.i, o.pair[2])
LoopsAreRight ==
    /\ LoopIsRight(available, main, "remove")
    /\ \A r \in Route : LoopIsRight(available, ops[r], "apply")

Exact == \A b \in Beacon : Cardinality(Places(available, b)) = Cardinality(Knowing(b))

OneLocated ==
    \A i, k \in 1..Len(available) :
        available[i].located /\ available[k].located /\ available[i].id = available[k].id => i = k
LocatedAreFirst == (\A r \in Route : ops[r].pc # "sort") => LocatedFirst(available)

Serial ==
    /\ OneAtATime
    /\ UpdatesAKnownBeacon
    /\ LoopsAreRight
    /\ Exact
    /\ OneLocated
    /\ LocatedAreFirst

(* A timer that has expired was not reset for onLostTimeout seconds.         *)
ExpiredAreSilent == \A p \in seen : timer[p] = "expired" => p \in silent

SInv ==
    /\ ~overlapped => Serial
    /\ UpdateTrapsOnlyByOverlap
    /\ ExpiredAreSilent
    /\ LostMeansSilent

-----------------------------------------------------------------------------
LEMMA KnowingIsFinite ==
    ASSUME NEW b
    PROVE  IsFiniteSet(Knowing(b)) /\ Cardinality(Knowing(b)) \in Nat
  <1>1. Knowing(b) \subseteq Route /\ IsFiniteSet(Route)
    BY FiniteAssumption DEF Knowing
  <1>2. IsFiniteSet(Knowing(b))
    BY <1>1, FS_Subset
  <1> QED BY <1>2, FS_CardinalityType

(* A recorded beacon has an entry.                                           *)
LEMMA RecordedIsListed ==
    ASSUME TypeOK, Exact, NEW p \in Recorded
    PROVE  \E i \in 1..Len(available) : available[i].id = p[2]
  <1>1. p \in Pair /\ p[1] \in Route /\ p[2] \in Beacon /\ p = <<p[1], p[2]>>
    BY RecordedFinite DEF Pair
  <1>2. Cardinality(Knowing(p[2])) # 0
    <2>1. p[1] \in Knowing(p[2])
      BY <1>1 DEF Knowing
    <2> QED BY <2>1, KnowingIsFinite, FS_EmptySet
  <1>3. Cardinality(Places(available, p[2])) # 0
    BY <1>1, <1>2 DEF Exact
  <1>4. Places(available, p[2]) # {}
    BY <1>3, FS_EmptySet
  <1> QED BY <1>4 DEF Places

LEMMA InitSInv == Init => SInv
  <1> SUFFICES ASSUME Init PROVE SInv
    OBVIOUS
  <1>1. /\ main.pc = "idle" /\ \A r \in Route : ops[r].pc = "idle"
        /\ available = <<>> /\ Len(available) = 0 /\ seen = {} /\ crash = "no"
    BY DEF Init, Idle, At
  <1>2. OneAtATime /\ UpdatesAKnownBeacon /\ LoopsAreRight
    BY <1>1 DEF OneAtATime, UpdatesAKnownBeacon, LoopsAreRight, LoopIsRight, Losing
  <1>3. Exact
    <2>1. Recorded = {}
      BY <1>1 DEF Recorded, Appended
    <2>2. \A b \in Beacon : Places(available, b) = {} /\ Knowing(b) = {}
      BY <1>1, <2>1 DEF Places, Knowing
    <2> QED BY <2>2 DEF Exact
  <1>4. OneLocated /\ LocatedAreFirst
    BY <1>1 DEF OneLocated, LocatedAreFirst, LocatedFirst
  <1>5. UpdateTrapsOnlyByOverlap /\ ExpiredAreSilent /\ LostMeansSilent
    BY <1>1 DEF UpdateTrapsOnlyByOverlap, ExpiredAreSilent, LostMeansSilent, Losing
  <1> QED BY <1>2, <1>3, <1>4, <1>5 DEF SInv, Serial

-----------------------------------------------------------------------------
(* The steps                                                                 *)

(* The list and what the caches record stay as they are.                     *)
LEMMA ListKept ==
    ASSUME Exact, OneLocated, available' = available, Recorded' = Recorded
    PROVE  Exact' /\ OneLocated'
BY DEF Exact, OneLocated, Knowing

LEMMA UserKeeps ==
    ASSUME SInv, (\E r \in Route : OpenRoute(r)) \/ Accepted \/ GoBack
    PROVE  SInv'
  <1>1. /\ UNCHANGED <<available, seen, timer, silent, ops, crash, overlapped>>
        /\ main.pc \in {"idle", "accept"} /\ main'.pc \in {"idle", "accept"}
    BY DEF OpenRoute, Accepted, GoBack, At, Idle
  <1>2. ~Losing /\ ~Losing'
    BY <1>1 DEF Losing
  <1>3. ASSUME Serial PROVE Serial'
    <2>1. Recorded' = Recorded
      BY <1>1 DEF Recorded, Appended
    <2>2. Exact' /\ OneLocated'
      BY <1>1, <1>3, <2>1, ListKept DEF Serial
    <2>3. OneAtATime' /\ UpdatesAKnownBeacon' /\ LocatedAreFirst'
      BY <1>1, <1>2, <1>3 DEF Serial, OneAtATime, UpdatesAKnownBeacon, LocatedAreFirst
    <2>4. LoopsAreRight'
      BY <1>1, <1>3 DEF Serial, LoopsAreRight, LoopIsRight, NotBefore, AtEntry
    <2> QED BY <2>2, <2>3, <2>4 DEF Serial
  <1>4. UpdateTrapsOnlyByOverlap' /\ ExpiredAreSilent' /\ LostMeansSilent'
    BY <1>1, <1>2 DEF SInv, UpdateTrapsOnlyByOverlap, ExpiredAreSilent, LostMeansSilent
  <1> QED BY <1>1, <1>3, <1>4 DEF SInv

(* A handler begins: alone, or handlers have overlapped.                     *)
LEMMA DiscoverKeeps ==
    ASSUME IInv, SInv, NEW r \in Route, NEW b \in Beacon, Discover(r, b)
    PROVE  SInv'
  <1> DEFINE p == <<r, b>>
  <1>1. /\ UNCHANGED <<available, seen, main, crash>> /\ p \in Pair
        /\ ops[r].pc = "idle" /\ ops \in [Route -> OpsRecord]
        /\ overlapped' = (overlapped \/ Busy) /\ silent' = silent \ {p}
        /\ timer \in [Pair -> {"none", "armed", "expired", "cancelled"}]
        /\ seen \subseteq Pair
    BY DEF Discover, Handling, Pair, IInv, TypeOK
  <1>2. /\ \A q \in Route : q # r => ops'[q] = ops[q]
        /\ \/ ops'[r] = ops[r]
           \/ ops'[r] = At("range", p) /\ p \in seen
           \/ ops'[r] = At("append", p) /\ p \notin seen
    BY <1>1 DEF Discover
  <1>3. /\ At("range", p).pc = "range" /\ At("append", p).pc = "append"
        /\ At("range", p).pair = p /\ At("range", p).i = 1
    BY DEF At
  <1> HIDE DEF p
  <1>4. ASSUME Serial, ~Busy PROVE Serial'
    <2>1. ~Losing /\ \A q \in Route : ops[q].pc = "idle"
      BY <1>4 DEF Busy, Handling
    <2>2. ~Losing'
      BY <1>1, <2>1 DEF Losing
    <2>3. OneAtATime' /\ UpdatesAKnownBeacon'
      BY <1>1, <1>2, <1>3, <2>1, <2>2 DEF OneAtATime, UpdatesAKnownBeacon
    <2>4. Recorded' = Recorded
      <3>1. Appended' = Appended
        BY <1>1, <1>2, <1>3 DEF Appended
      <3> QED BY <1>1, <3>1 DEF Recorded
    <2>5. Exact' /\ OneLocated'
      BY <1>1, <1>4, <2>4, ListKept DEF Serial
    <2>6. LoopsAreRight'
      BY <1>1, <1>2, <1>3, <1>4, <2>1 DEF Serial, LoopsAreRight, LoopIsRight, NotBefore, AtEntry
    <2>7. LocatedAreFirst'
      BY <1>1, <1>4, <2>1 DEF Serial, LocatedAreFirst
    <2> QED BY <2>3, <2>5, <2>6, <2>7 DEF Serial
  <1>5. UpdateTrapsOnlyByOverlap'
    BY <1>1 DEF SInv, UpdateTrapsOnlyByOverlap
  <1>6. ExpiredAreSilent'
    <2>1. p \in seen => timer' = Rescheduled(p)
      BY DEF Discover, p
    <2>2. p \notin seen => timer' = timer
      BY DEF Discover, p
    <2>3. ASSUME NEW q \in seen, timer'[q] = "expired" PROVE q # p /\ timer[q] = "expired"
      BY <1>1, <2>1, <2>2, <2>3 DEF Rescheduled
    <2> QED BY <1>1, <2>3 DEF SInv, ExpiredAreSilent
  <1>7. LostMeansSilent'
    BY <1>1 DEF LostMeansSilent, Busy, Losing
  <1> QED BY <1>1, <1>4, <1>5, <1>6, <1>7 DEF SInv

(* A step of the only handler, which neither finds nor loses a beacon.       *)
HandlerMoves(r, o) ==
    /\ ops[r].pc \notin {"idle", "cache", "append"} /\ o.pc \notin {"cache", "append"}
    /\ ops' = [ops EXCEPT ![r] = o]
    /\ UNCHANGED <<seen, main>>
    /\ o.pc \in {"range", "compare", "apply"} => o.pair \in seen
    /\ \A b \in Beacon : Cardinality(Places(available', b)) = Cardinality(Places(available, b))

LEMMA HandlerKeepsSerial ==
    ASSUME TypeOK, Serial, NEW r \in Route, NEW o, HandlerMoves(r, o),
           LoopIsRight(available', o, "apply"), OneLocated', o.pc # "sort" => LocatedFirst(available')
    PROVE  Serial'
  <1>1. /\ ops'[r] = o /\ ops[r].pc # "idle"
        /\ \A q \in Route : q # r => ops'[q] = ops[q] /\ ops[q].pc = "idle"
        /\ ~Losing /\ ~Losing' /\ main' = main /\ seen' = seen
    BY DEF TypeOK, HandlerMoves, Serial, OneAtATime, Losing
  <1>2. OneAtATime' /\ UpdatesAKnownBeacon'
    BY <1>1 DEF HandlerMoves, OneAtATime, UpdatesAKnownBeacon
  <1>3. LoopIsRight(available', main', "remove")
    BY <1>1 DEF LoopIsRight, Losing
  <1>4. ASSUME NEW q \in Route PROVE LoopIsRight(available', ops'[q], "apply")
    BY <1>1 DEF LoopIsRight, NotBefore, AtEntry
  <1>5. Recorded' = Recorded
    <2>1. Appended' = Appended
      BY <1>1 DEF HandlerMoves, Appended
    <2> QED BY <1>1, <2>1 DEF Recorded
  <1>6. Exact'
    BY <1>5 DEF HandlerMoves, Serial, Exact, Knowing
  <1>7. LocatedAreFirst'
    BY <1>1 DEF LocatedAreFirst
  <1> QED BY <1>2, <1>3, <1>4, <1>6, <1>7 DEF Serial, LoopsAreRight

LEMMA RestKept ==
    ASSUME SInv, UNCHANGED <<seen, timer, silent, overlapped>>,
           main' = main \/ (Losing /\ main'.pair = main.pair) \/ ~Losing',
           ~overlapped /\ Serial => Serial' /\ (crash' = crash \/ crash' = "too_few")
    PROVE  SInv'
  <1>1. UpdateTrapsOnlyByOverlap'
    BY DEF SInv, UpdateTrapsOnlyByOverlap
  <1>2. ExpiredAreSilent' /\ LostMeansSilent'
    BY DEF SInv, ExpiredAreSilent, LostMeansSilent, Losing
  <1> QED BY <1>1, <1>2 DEF SInv

LEMMA UpdateRangeKeeps ==
    ASSUME IInv, SInv, NEW r \in Route, UpdateRange(r)
    PROVE  SInv'
  <1>1. /\ UNCHANGED <<available, seen, timer, silent, overlapped, main>>
        /\ ops[r].pc = "range" /\ TypeOK /\ ops[r] \in OpsRecord /\ available \in Seq(Entry)
    BY DEF UpdateRange, IInv, TypeOK
  <1>2. ASSUME Serial PROVE Serial' /\ crash' = crash
    <2>1. ops[r].pair \in seen /\ ~Losing /\ ops[r].i = 1
      BY <1>1, <1>2 DEF Serial, UpdatesAKnownBeacon, OneAtATime, LoopsAreRight, LoopIsRight
    <2>2. ops[r].pair \in Recorded
      BY <2>1 DEF Recorded, Losing
    <2>3. PICK i \in 1..Len(available) : available[i].id = ops[r].pair[2]
      BY <1>1, <1>2, <2>2, RecordedIsListed DEF Serial
    <2>4. available # <<>> /\ 1 =< Len(available) /\ Len(available) \in Nat
      BY <1>1, <2>3
    <2> DEFINE o == [ops[r] EXCEPT !.pc = "compare", !.count = Len(available)]
    <2>5. crash' = crash /\ ops' = [ops EXCEPT ![r] = o]
      BY <2>4 DEF UpdateRange
    <2>6. o.pc = "compare" /\ o.count = Len(available) /\ o.i = 1 /\ o.pair = ops[r].pair
      BY <1>1, <2>1 DEF OpsRecord
    <2> HIDE DEF o
    <2>7. HandlerMoves(r, o)
      BY <1>1, <2>1, <2>5, <2>6 DEF HandlerMoves
    <2>8. LoopIsRight(available', o, "apply")
      BY <1>1, <2>4, <2>6 DEF LoopIsRight, NotBefore
    <2>9. OneLocated' /\ LocatedFirst(available')
      BY <1>1, <1>2 DEF Serial, OneLocated, LocatedAreFirst, OneAtATime
    <2> QED BY <1>1, <1>2, <2>5, <2>7, <2>8, <2>9, HandlerKeepsSerial
  <1> QED BY <1>1, <1>2, RestKept

LEMMA UpdateCompareKeeps ==
    ASSUME IInv, SInv, NEW r \in Route, UpdateCompare(r)
    PROVE  SInv'
  <1>1. /\ UNCHANGED <<available, seen, timer, silent, overlapped, main>>
        /\ ops[r].pc = "compare" /\ TypeOK /\ ops[r] \in OpsRecord /\ available \in Seq(Entry)
    BY DEF UpdateCompare, IInv, TypeOK
  <1>2. ASSUME Serial PROVE Serial' /\ crash' = crash
    <2> DEFINE b == ops[r].pair[2]
    <2>1. /\ ops[r].pair \in seen /\ ~Losing /\ ops[r].i \in Nat /\ ops[r].i >= 1
          /\ ops[r].count = Len(available) /\ ops[r].i =< Len(available) /\ NotBefore(available, ops[r].i, b)
          /\ Len(available) \in Nat
      BY <1>1, <1>2 DEF Serial, UpdatesAKnownBeacon, OneAtATime, LoopsAreRight, LoopIsRight, OpsRecord
    <2>2. ops[r].pair \in Recorded
      BY <2>1 DEF Recorded, Losing
    <2>3. PICK i \in 1..Len(available) : available[i].id = b
      BY <1>1, <1>2, <2>2, RecordedIsListed DEF Serial
    <2>4. crash' = crash
      BY <2>1 DEF UpdateCompare
    <2>9. OneLocated' /\ LocatedFirst(available')
      BY <1>1, <1>2 DEF Serial, OneLocated, LocatedAreFirst, OneAtATime
    <2>5. CASE available[ops[r].i].id = b
      <3> DEFINE o == [ops[r] EXCEPT !.pc = "apply"]
      <3>1. ops' = [ops EXCEPT ![r] = o]
        BY <2>1, <2>5 DEF UpdateCompare, Goto
      <3>2. o.pc = "apply" /\ o.i = ops[r].i /\ o.pair = ops[r].pair
        BY <1>1 DEF OpsRecord
      <3> HIDE DEF o
      <3>3. HandlerMoves(r, o)
        BY <1>1, <2>1, <3>1, <3>2 DEF HandlerMoves
      <3>4. LoopIsRight(available', o, "apply")
        BY <1>1, <2>1, <2>5, <3>2 DEF LoopIsRight, NotBefore, AtEntry
      <3> QED BY <1>1, <1>2, <2>4, <2>9, <3>3, <3>4, HandlerKeepsSerial
    <2>6. CASE available[ops[r].i].id # b
      <3>1. ops[r].i < i
        BY <2>1, <2>3, <2>6 DEF NotBefore
      <3> DEFINE o == [ops[r] EXCEPT !.i = @ + 1]
      <3>2. ops' = [ops EXCEPT ![r] = o]
        BY <2>1, <2>3, <2>6, <3>1 DEF UpdateCompare
      <3>3. o.pc = "compare" /\ o.i = ops[r].i + 1 /\ o.pair = ops[r].pair /\ o.count = ops[r].count
        BY <1>1 DEF OpsRecord
      <3> HIDE DEF o
      <3>4. HandlerMoves(r, o)
        BY <1>1, <2>1, <3>2, <3>3 DEF HandlerMoves
      <3>5. LoopIsRight(available', o, "apply")
        BY <1>1, <2>1, <2>3, <2>6, <3>1, <3>3 DEF LoopIsRight, NotBefore
      <3> QED BY <1>1, <1>2, <2>4, <2>9, <3>4, <3>5, HandlerKeepsSerial
    <2> QED BY <2>5, <2>6
  <1> QED BY <1>1, <1>2, RestKept

(* The first entry of the beacon is measured: it is the only one then.       *)
LEMMA UpdateApplyKeeps ==
    ASSUME IInv, SInv, NEW r \in Route, UpdateApply(r)
    PROVE  SInv'
  <1>1. /\ UNCHANGED <<seen, timer, silent, overlapped, main>>
        /\ ops[r].pc = "apply" /\ TypeOK /\ ops[r] \in OpsRecord /\ available \in Seq(Entry)
    BY DEF UpdateApply, IInv, TypeOK
  <1>2. ASSUME Serial PROVE Serial' /\ crash' = crash
    <2> DEFINE at == ops[r].i
    <2>1. /\ ~Losing /\ at \in 1..Len(available) /\ available[at].id = ops[r].pair[2]
          /\ NotBefore(available, at, available[at].id) /\ Len(available) \in Nat
      BY <1>1, <1>2 DEF Serial, OneAtATime, LoopsAreRight, LoopIsRight, AtEntry, OpsRecord
    <2>2. crash' = crash
      BY <2>1 DEF UpdateApply
    <2>3. OneLocated /\ LocatedFirst(available)
      BY <1>1, <1>2 DEF Serial, LocatedAreFirst, OneAtATime
    <2>4. CASE ops' = [ops EXCEPT ![r] = Idle] /\ UNCHANGED available
      <3>1. Idle.pc = "idle"
        BY DEF Idle, At
      <3>2. HandlerMoves(r, Idle) /\ LoopIsRight(available', Idle, "apply")
        BY <1>1, <2>4, <3>1 DEF HandlerMoves, LoopIsRight
      <3>3. OneLocated' /\ LocatedFirst(available')
        BY <2>3, <2>4 DEF OneLocated
      <3> QED BY <1>1, <1>2, <2>2, <3>2, <3>3, HandlerKeepsSerial
    <2>5. CASE /\ available' = [available EXCEPT ![at].located = TRUE]
               /\ ops' = [ops EXCEPT ![r].pc = "sort"]
      <3> DEFINE o == [ops[r] EXCEPT !.pc = "sort"]
      <3>1. o.pc = "sort" /\ ops' = [ops EXCEPT ![r] = o]
        BY <1>1, <2>5 DEF OpsRecord
      <3>2. /\ Len(available') = Len(available)
            /\ \A i \in 1..Len(available) :
                 /\ available'[i].id = available[i].id
                 /\ i # at => available'[i].located = available[i].located
        <4>1. available[at] \in Entry
          BY <1>1, <2>1
        <4>2. available' = [available EXCEPT ![at] = [available[at] EXCEPT !.located = TRUE]]
          BY <2>5, Zenon
        <4>3. [available[at] EXCEPT !.located = TRUE].id = available[at].id
          BY <4>1 DEF Entry
        <4>4. \A i \in 1..Len(available) :
                available'[i] = IF i = at THEN [available[at] EXCEPT !.located = TRUE] ELSE available[i]
          BY <1>1, <4>2
        <4>5. Len(available') = Len(available)
          BY <1>1, <4>2
        <4> QED BY <4>3, <4>4, <4>5
      <3> HIDE DEF o, at
      <3>3. \A b \in Beacon : Places(available', b) = Places(available, b)
        BY <3>2 DEF Places
      <3>4. HandlerMoves(r, o) /\ LoopIsRight(available', o, "apply")
        BY <1>1, <3>1, <3>3 DEF HandlerMoves, LoopIsRight
      <3>5. OneLocated'
        <4>1. ASSUME NEW i \in 1..Len(available), i # at, available[i].id = available[at].id
              PROVE  ~available[i].located
          <5>1. at < i
            BY <2>1, <4>1 DEF NotBefore
          <5>2. available[i].located => available[at].located
            BY <2>1, <2>3, <5>1 DEF LocatedFirst
          <5> QED BY <2>1, <2>3, <4>1, <5>2 DEF OneLocated
        <4> QED BY <2>3, <3>2, <4>1 DEF OneLocated
      <3> QED BY <1>1, <1>2, <2>2, <3>1, <3>4, <3>5, HandlerKeepsSerial
    <2> QED BY <2>1, <2>4, <2>5 DEF UpdateApply, Goto, Done
  <1> QED BY <1>1, <1>2, RestKept

LEMMA SortKeeps ==
    ASSUME IInv, SInv, NEW r \in Route, Sort(r)
    PROVE  SInv'
  <1>1. /\ UNCHANGED <<seen, timer, silent, overlapped, main, crash>>
        /\ ops[r].pc = "sort" /\ TypeOK /\ ops[r] \in OpsRecord /\ available \in Seq(Entry)
    BY DEF Sort, IInv, TypeOK
  <1>2. ASSUME Serial PROVE Serial'
    <2>1. PICK p \in Orders(Len(available)) :
            /\ available' = [i \in 1..Len(available) |-> available[p[i]]]
            /\ LocatedFirst(available')
      BY DEF Sort
    <2> DEFINE o == [ops[r] EXCEPT !.pc = "locate"]
    <2>2. o.pc = "locate" /\ ops' = [ops EXCEPT ![r] = o]
      BY <1>1 DEF Sort, Goto, OpsRecord
    <2> HIDE DEF o
    <2>3. \A b \in Beacon : Cardinality(Places(available', b)) = Cardinality(Places(available, b))
      BY <1>1, <2>1, SortKeepsPlaces
    <2>4. HandlerMoves(r, o) /\ LoopIsRight(available', o, "apply")
      BY <1>1, <2>2, <2>3 DEF HandlerMoves, LoopIsRight
    <2>5. OneLocated'
      <3>1. /\ Len(available') = Len(available)
            /\ \A i \in 1..Len(available) : available'[i] = available[p[i]] /\ p[i] \in 1..Len(available)
            /\ \A i, k \in 1..Len(available) : p[i] = p[k] => i = k
        BY <1>1, <2>1, SortType DEF Orders
      <3> QED BY <1>2, <3>1 DEF Serial, OneLocated
    <2> QED BY <1>1, <1>2, <2>1, <2>4, <2>5, HandlerKeepsSerial
  <1> QED BY <1>1, <1>2, RestKept

LEMMA LocateKeeps ==
    ASSUME IInv, SInv, NEW r \in Route, Locate(r)
    PROVE  SInv'
  <1>1. /\ UNCHANGED <<available, seen, timer, silent, overlapped, main>>
        /\ ops[r].pc = "locate" /\ TypeOK
    BY DEF Locate, IInv, TypeOK
  <1>2. ASSUME Serial PROVE Serial' /\ (crash' = crash \/ crash' = "too_few")
    <2>1. CASE ReadsBeyond(available)
      <3>1. ops' = ops /\ crash' = "too_few"
        BY <2>1 DEF Locate, Trap
      <3>2. Recorded' = Recorded
        BY <1>1, <3>1 DEF Recorded, Appended
      <3>3. Exact' /\ OneLocated'
        BY <1>1, <1>2, <3>2, ListKept DEF Serial
      <3>4. Serial'
        BY <1>1, <1>2, <3>1, <3>3 DEF Serial, OneAtATime, UpdatesAKnownBeacon, LoopsAreRight,
                                      LoopIsRight, NotBefore, AtEntry, LocatedAreFirst, Losing
      <3> QED BY <3>1, <3>4
    <2>2. CASE ~ReadsBeyond(available)
      <3>1. ops' = [ops EXCEPT ![r] = Idle] /\ crash' = crash /\ Idle.pc = "idle"
        BY <2>2 DEF Locate, Done, Idle, At
      <3>2. HandlerMoves(r, Idle) /\ LoopIsRight(available', Idle, "apply")
        BY <1>1, <3>1 DEF HandlerMoves, LoopIsRight
      <3>3. OneLocated' /\ LocatedFirst(available')
        BY <1>1, <1>2 DEF Serial, OneLocated, LocatedAreFirst, OneAtATime
      <3> QED BY <1>1, <1>2, <3>1, <3>2, <3>3, HandlerKeepsSerial
    <2> QED BY <2>1, <2>2
  <1> QED BY <1>1, <1>2, RestKept

(* didFindBeacon and the cache: one more entry, one more scanner that knows. *)
LEMMA AppendKeeps ==
    ASSUME IInv, SInv, NEW r \in Route, Append1(r)
    PROVE  SInv'
  <1> DEFINE p == ops[r].pair
  <1> DEFINE e == [id |-> p[2], located |-> FALSE]
  <1>1. /\ UNCHANGED <<seen, timer, silent, overlapped, main, crash>>
        /\ ops[r].pc = "append" /\ TypeOK /\ ops[r] \in OpsRecord /\ available \in Seq(Entry)
        /\ p \in Pair /\ p[1] = r /\ p \notin seen
    BY DEF Append1, IInv, TypeOK, OwnPairs, OpsRecord
  <1>2. e \in Entry /\ e.id = p[2] /\ ~e.located /\ p = <<r, p[2]>>
    BY <1>1 DEF Entry, Pair
  <1>3. available' = Append(available, e)
    BY DEF Append1
  <1>4. /\ ops'[r].pc = "cache" /\ ops'[r].pair = p
        /\ \A q \in Route : q # r => ops'[q] = ops[q]
    BY <1>1 DEF Append1, Goto, TypeOK, OpsRecord
  <1> HIDE DEF e, p
  <1>5. ASSUME Serial PROVE Serial'
    <2>1. ~Losing /\ \A q \in Route : q # r => ops[q].pc = "idle"
      BY <1>1, <1>5 DEF Serial, OneAtATime
    <2>2. ~Losing' /\ \A q \in Route : q # r => ops'[q].pc = "idle"
      BY <1>1, <1>4, <2>1 DEF Losing
    <2>3. OneAtATime' /\ UpdatesAKnownBeacon'
      BY <1>4, <2>2 DEF OneAtATime, UpdatesAKnownBeacon
    <2>4. LoopsAreRight'
      BY <1>4, <2>2 DEF LoopsAreRight, LoopIsRight, Losing
    <2>5. Recorded = seen /\ Recorded' = seen \cup {p}
      <3>1. Appended = {}
        BY <1>1, <2>1 DEF Appended
      <3>2. Appended' = {p}
        BY <1>4, <2>2 DEF Appended
      <3> QED BY <1>1, <2>1, <2>2, <3>1, <3>2 DEF Recorded, Losing
    <2>7. /\ Len(available') = Len(available) + 1 /\ Len(available) \in Nat
          /\ available'[Len(available) + 1] = e
          /\ \A i \in 1..Len(available) : available'[i] = available[i]
      BY <1>1, <1>2, <1>3
    <2>6. ASSUME NEW b \in Beacon
          PROVE  Cardinality(Places(available', b)) = Cardinality(Knowing(b)')
      <3>1. Cardinality(Places(available, b)) = Cardinality(Knowing(b))
        BY <1>5 DEF Serial, Exact
      <3>2. Cardinality(Places(available', b)) =
               IF p[2] = b THEN Cardinality(Knowing(b)) + 1 ELSE Cardinality(Knowing(b))
        BY <1>1, <1>2, <2>7, <3>1, AppendKeepsPlaces
      <3>3. CASE b = p[2]
        <4>1. Knowing(b)' = Knowing(b) \cup {r} /\ r \notin Knowing(b)
          BY <1>1, <1>2, <2>5, <3>3 DEF Knowing
        <4> QED BY <3>2, <3>3, <4>1, KnowingIsFinite, FS_AddElement
      <3>4. CASE b # p[2]
        <4>1. Knowing(b)' = Knowing(b)
          BY <1>1, <1>2, <2>5, <3>4 DEF Knowing
        <4> QED BY <3>2, <3>4, <4>1
      <3> QED BY <3>3, <3>4
    <2>8. OneLocated'
      BY <1>2, <1>5, <2>7 DEF Serial, OneLocated
    <2>9. LocatedFirst(available')
      <3>1. LocatedFirst(available)
        BY <1>1, <1>5, <2>1 DEF Serial, LocatedAreFirst
      <3> QED BY <1>2, <2>7, <3>1 DEF LocatedFirst
    <2> QED BY <2>3, <2>4, <2>6, <2>8, <2>9 DEF Serial, Exact, LocatedAreFirst
  <1> QED BY <1>1, <1>5, RestKept

LEMMA CacheKeeps ==
    ASSUME IInv, SInv, NEW r \in Route, Cache(r)
    PROVE  SInv'
  <1> DEFINE p == ops[r].pair
  <1>1. /\ UNCHANGED <<available, silent, overlapped, main, crash>>
        /\ ops[r].pc = "cache" /\ TypeOK /\ p \in Pair /\ p \notin seen
        /\ seen' = seen \cup {p} /\ timer' = [timer EXCEPT ![p] = "armed"]
        /\ seen \subseteq Pair /\ timer \in [Pair -> {"none", "armed", "expired", "cancelled"}]
    BY DEF Cache, IInv, TypeOK, OwnPairs, OpsRecord
  <1>2. /\ ops'[r].pc = "idle"
        /\ \A q \in Route : q # r => ops'[q] = ops[q]
    BY <1>1 DEF Cache, Done, TypeOK, Idle, At
  <1> HIDE DEF p
  <1>3. ASSUME Serial PROVE Serial'
    <2>1. ~Losing /\ \A q \in Route : q # r => ops[q].pc = "idle"
      BY <1>1, <1>3 DEF Serial, OneAtATime
    <2>2. ~Losing' /\ \A q \in Route : ops'[q].pc = "idle"
      BY <1>1, <1>2, <2>1 DEF Losing
    <2>3. OneAtATime' /\ UpdatesAKnownBeacon' /\ LoopsAreRight'
      BY <2>2 DEF OneAtATime, UpdatesAKnownBeacon, LoopsAreRight, LoopIsRight, Losing
    <2>4. Recorded' = Recorded
      <3>1. Appended = {p}
        BY <1>1, <2>1 DEF Appended, p
      <3>2. Appended' = {}
        BY <2>2 DEF Appended
      <3> QED BY <1>1, <2>1, <2>2, <3>1, <3>2 DEF Recorded, Losing
    <2>5. Exact' /\ OneLocated'
      BY <1>1, <1>3, <2>4, ListKept DEF Serial
    <2>6. LocatedAreFirst'
      BY <1>1, <1>3, <2>1 DEF Serial, LocatedAreFirst
    <2> QED BY <2>3, <2>5, <2>6 DEF Serial
  <1>4. UpdateTrapsOnlyByOverlap' /\ ExpiredAreSilent' /\ LostMeansSilent'
    BY <1>1 DEF SInv, UpdateTrapsOnlyByOverlap, ExpiredAreSilent, LostMeansSilent, Losing
  <1> QED BY <1>1, <1>3, <1>4 DEF SInv

(* Time passes, and a timer fires.                                           *)
LEMMA ExpireKeeps ==
    ASSUME IInv, SInv, NEW p \in Pair, Expire(p)
    PROVE  SInv'
  <1>1. /\ UNCHANGED <<available, seen, ops, main, overlapped, crash>>
        /\ timer' = [timer EXCEPT ![p] = "expired"] /\ silent' = silent \cup {p}
        /\ seen \subseteq Pair /\ timer \in [Pair -> {"none", "armed", "expired", "cancelled"}]
    BY DEF Expire, IInv, TypeOK
  <1>2. ASSUME Serial PROVE Serial'
    <2>1. Recorded' = Recorded
      BY <1>1 DEF Recorded, Appended
    <2>2. Exact' /\ OneLocated'
      BY <1>1, <1>2, <2>1, ListKept DEF Serial
    <2> QED BY <1>1, <1>2, <2>2 DEF Serial, OneAtATime, UpdatesAKnownBeacon, LoopsAreRight,
                                    LocatedAreFirst, Losing
  <1>3. UpdateTrapsOnlyByOverlap' /\ ExpiredAreSilent' /\ LostMeansSilent'
    BY <1>1 DEF SInv, UpdateTrapsOnlyByOverlap, ExpiredAreSilent, LostMeansSilent, Losing
  <1> QED BY <1>1, <1>2, <1>3 DEF SInv

LEMMA FireKeeps ==
    ASSUME IInv, SInv, NEW p \in Pair, Fire(p)
    PROVE  SInv'
  <1>1. /\ UNCHANGED <<available, seen, ops, silent, crash>>
        /\ timer' = [timer EXCEPT ![p] = "cancelled"] /\ timer[p] = "expired" /\ main.pc = "idle"
        /\ main' = IF p \in seen THEN At("range", p) ELSE Idle
        /\ overlapped' = (overlapped \/ Busy)
        /\ seen \subseteq Pair /\ timer \in [Pair -> {"none", "armed", "expired", "cancelled"}]
    BY DEF Fire, IInv, TypeOK
  <1>2. /\ p \in seen => main'.pc = "range" /\ main'.pair = p /\ main'.i = 1
        /\ p \notin seen => main'.pc = "idle"
    BY <1>1 DEF At, Idle
  <1>3. ASSUME Serial, ~Busy PROVE Serial'
    <2>1. \A r \in Route : ops[r].pc = "idle" /\ ops'[r] = ops[r]
      BY <1>1, <1>3 DEF Busy, Handling
    <2>2. OneAtATime' /\ UpdatesAKnownBeacon'
      BY <2>1 DEF OneAtATime, UpdatesAKnownBeacon
    <2>3. LoopsAreRight'
      BY <1>2, <2>1 DEF LoopsAreRight, LoopIsRight
    <2>4. Recorded' = Recorded
      BY <1>1, <1>2 DEF Recorded, Appended
    <2>5. Exact' /\ OneLocated'
      BY <1>1, <1>3, <2>4, ListKept DEF Serial
    <2>6. LocatedAreFirst'
      BY <1>1, <1>3, <2>1 DEF Serial, LocatedAreFirst
    <2> QED BY <2>2, <2>3, <2>5, <2>6 DEF Serial
  <1>4. UpdateTrapsOnlyByOverlap' /\ ExpiredAreSilent'
    BY <1>1 DEF SInv, UpdateTrapsOnlyByOverlap, ExpiredAreSilent
  <1>5. LostMeansSilent'
    BY <1>1, <1>2 DEF SInv, LostMeansSilent, ExpiredAreSilent, Losing
  <1> QED BY <1>1, <1>3, <1>4, <1>5 DEF SInv

(* didLoseBeacon, alone, looks for the entry and finds it.                   *)
LEMMA LoserKeepsSerial ==
    ASSUME Serial, Losing, UNCHANGED <<available, seen, ops>>, main.pc # "drop", main'.pc # "drop",
           LoopIsRight(available, main', "remove")
    PROVE  Serial'
  <1>1. \A r \in Route : ops[r].pc = "idle" /\ ops'[r] = ops[r]
    BY DEF Serial, OneAtATime
  <1>2. OneAtATime' /\ UpdatesAKnownBeacon' /\ LocatedAreFirst'
    BY <1>1 DEF Serial, OneAtATime, UpdatesAKnownBeacon, LocatedAreFirst
  <1>3. LoopsAreRight'
    BY <1>1 DEF LoopsAreRight, LoopIsRight
  <1>4. Recorded' = Recorded
    BY DEF Recorded, Appended
  <1>5. Exact' /\ OneLocated'
    BY <1>4, ListKept DEF Serial
  <1> QED BY <1>2, <1>3, <1>5 DEF Serial

LEMMA LoseLooks ==
    ASSUME IInv, SInv, LoseRange \/ LoseCompare
    PROVE  SInv'
  <1>1. /\ UNCHANGED <<available, seen, timer, silent, ops, overlapped>> /\ TypeOK
        /\ Losing /\ main \in MainRecord /\ main.pair \in seen /\ main.pc \in {"range", "compare"}
        /\ available \in Seq(Entry) /\ Len(available) \in Nat
    BY DEF LoseRange, LoseCompare, Losing, IInv, TypeOK, LosesACachedBeacon
  <1>2. ASSUME Serial PROVE Serial' /\ crash' = crash /\ main'.pair = main.pair
    <2> DEFINE b == main.pair[2]
    <2>1. main.pair \in Recorded
      BY <1>1 DEF Recorded
    <2>2. PICK i \in 1..Len(available) : available[i].id = b
      BY <1>1, <1>2, <2>1, RecordedIsListed DEF Serial
    <2>3. LoopIsRight(available, main, "remove")
      BY <1>2 DEF Serial, LoopsAreRight
    <2>4. CASE LoseRange
      <3>1. available # <<>> /\ main.pc = "range" /\ main.i = 1 /\ 1 =< Len(available)
        BY <1>1, <2>2, <2>3, <2>4 DEF LoseRange, LoopIsRight
      <3>2. main' = [main EXCEPT !.pc = "compare", !.count = Len(available)] /\ crash' = crash
        BY <2>4, <3>1 DEF LoseRange
      <3>3. main'.pc = "compare" /\ main'.i = 1 /\ main'.count = Len(available) /\ main'.pair = main.pair
        BY <1>1, <3>1, <3>2 DEF MainRecord
      <3>4. LoopIsRight(available, main', "remove")
        BY <3>1, <3>3 DEF LoopIsRight, NotBefore
      <3> QED BY <1>1, <1>2, <3>1, <3>2, <3>3, <3>4, LoserKeepsSerial
    <2>5. CASE LoseCompare
      <3>1. /\ main.pc = "compare" /\ main.count = Len(available) /\ main.i =< Len(available)
            /\ NotBefore(available, main.i, b) /\ main.i \in Nat /\ main.i >= 1
        BY <1>1, <2>3, <2>5 DEF LoseCompare, LoopIsRight, MainRecord
      <3>2. CASE available[main.i].id = b
        <4>1. main' = [main EXCEPT !.pc = "remove"] /\ crash' = crash
          BY <2>5, <3>1, <3>2 DEF LoseCompare
        <4>2. main'.pc = "remove" /\ main'.i = main.i /\ main'.pair = main.pair
          BY <1>1, <4>1 DEF MainRecord
        <4>3. LoopIsRight(available, main', "remove")
          BY <3>1, <3>2, <4>2 DEF LoopIsRight, AtEntry
        <4> QED BY <1>1, <1>2, <3>1, <4>1, <4>2, <4>3, LoserKeepsSerial
      <3>3. CASE available[main.i].id # b
        <4>1. main.i < i
          BY <2>2, <3>1, <3>3 DEF NotBefore
        <4>2. main' = [main EXCEPT !.i = @ + 1] /\ crash' = crash
          BY <2>2, <2>5, <3>1, <3>3, <4>1 DEF LoseCompare
        <4>3. /\ main'.pc = "compare" /\ main'.i = main.i + 1 /\ main'.pair = main.pair
              /\ main'.count = main.count
          BY <1>1, <3>1, <4>2 DEF MainRecord
        <4>4. LoopIsRight(available, main', "remove")
          BY <2>2, <3>1, <3>3, <4>1, <4>3 DEF LoopIsRight, NotBefore
        <4> QED BY <1>1, <1>2, <3>1, <4>2, <4>3, <4>4, LoserKeepsSerial
      <3> QED BY <3>2, <3>3
    <2> QED BY <2>4, <2>5
  <1>3. main'.pair = main.pair
    <2>1. main' = main \/ \E pc, n : \/ main' = [main EXCEPT !.pc = pc, !.count = n]
                                     \/ main' = [main EXCEPT !.pc = pc]
                                     \/ main' = [main EXCEPT !.i = n]
      BY DEF LoseRange, LoseCompare
    <2> QED BY <1>1, <2>1 DEF MainRecord
  <1> QED BY <1>1, <1>2, <1>3, RestKept

(* remove(at:): one entry less, and one scanner less that knows.             *)
LEMMA LoseRemoveKeeps ==
    ASSUME IInv, SInv, LoseRemove
    PROVE  SInv'
  <1> DEFINE p == main.pair
  <1>1. /\ UNCHANGED <<seen, timer, silent, ops, overlapped>> /\ TypeOK
        /\ main.pc = "remove" /\ Losing /\ main \in MainRecord /\ p \in seen /\ p \in Pair
        /\ available \in Seq(Entry) /\ main.i \in 1..Len(available)
    BY DEF LoseRemove, Losing, IInv, TypeOK, LosesACachedBeacon, LoseInBounds, MainRecord
  <1>2. /\ available' = RemoveAt(available, main.i) /\ crash' = crash
        /\ main' = [main EXCEPT !.pc = "drop"]
    BY <1>1 DEF LoseRemove
  <1>3. main'.pc = "drop" /\ main'.pair = p
    BY <1>1, <1>2 DEF MainRecord
  <1> HIDE DEF p
  <1>4. ASSUME Serial PROVE Serial'
    <2>1. \A r \in Route : ops[r].pc = "idle" /\ ops'[r] = ops[r]
      BY <1>1, <1>4 DEF Serial, OneAtATime
    <2>2. OneAtATime' /\ UpdatesAKnownBeacon' /\ LoopsAreRight'
      BY <1>3, <2>1 DEF OneAtATime, UpdatesAKnownBeacon, LoopsAreRight, LoopIsRight
    <2>3. Recorded = seen /\ Recorded' = seen \ {p}
      <3>1. Appended = {} /\ Appended' = {}
        BY <2>1 DEF Appended
      <3> QED BY <1>1, <1>3, <3>1 DEF Recorded
    <2>4. available[main.i].id = p[2]
      BY <1>1, <1>4 DEF Serial, LoopsAreRight, LoopIsRight, AtEntry, p
    <2>5. ASSUME NEW b \in Beacon
          PROVE  Cardinality(Places(available', b)) = Cardinality(Knowing(b)')
      <3>1. Cardinality(Places(available, b)) = Cardinality(Knowing(b))
        BY <1>4 DEF Serial, Exact
      <3>2. Cardinality(Places(available', b)) =
               IF p[2] = b THEN Cardinality(Knowing(b)) - 1 ELSE Cardinality(Knowing(b))
        BY <1>1, <1>2, <2>4, <3>1, RemoveKeepsPlaces
      <3>3. p = <<p[1], p[2]>> /\ p[1] \in Route
        BY <1>1 DEF Pair
      <3>4. CASE b = p[2]
        <4>1. Knowing(b)' = Knowing(b) \ {p[1]} /\ p[1] \in Knowing(b)
          BY <1>1, <2>3, <3>3, <3>4 DEF Knowing
        <4> QED BY <3>2, <3>4, <4>1, KnowingIsFinite, FS_RemoveElement
      <3>5. CASE b # p[2]
        <4>1. Knowing(b)' = Knowing(b)
          BY <2>3, <3>3, <3>5 DEF Knowing
        <4> QED BY <3>2, <3>5, <4>1
      <3> QED BY <3>4, <3>5
    <2>6. /\ Len(available') = Len(available) - 1 /\ Len(available) \in Nat
          /\ \A i \in 1..(Len(available) - 1) :
               available'[i] = available[IF i < main.i THEN i ELSE i + 1]
      BY <1>1, <1>2, RemoveAtElements
    <2>7. OneLocated'
      BY <1>1, <1>4, <2>6 DEF Serial, OneLocated
    <2>8. LocatedFirst(available')
      <3>1. LocatedFirst(available)
        BY <1>4, <2>1 DEF Serial, LocatedAreFirst
      <3> QED BY <1>1, <2>6, <3>1 DEF LocatedFirst
    <2> QED BY <2>2, <2>5, <2>7, <2>8 DEF Serial, Exact, LocatedAreFirst
  <1> QED BY <1>1, <1>2, <1>3, <1>4, RestKept DEF p

LEMMA DropKeeps ==
    ASSUME IInv, SInv, Drop
    PROVE  SInv'
  <1> DEFINE p == main.pair
  <1>1. /\ UNCHANGED <<available, silent, ops, overlapped, crash>> /\ TypeOK
        /\ main.pc = "drop" /\ Losing /\ p \in Pair /\ main'.pc = "idle"
        /\ seen' = seen \ {p} /\ timer' = [timer EXCEPT ![p] = "none"]
        /\ seen \subseteq Pair /\ timer \in [Pair -> {"none", "armed", "expired", "cancelled"}]
    BY DEF Drop, Losing, IInv, TypeOK, MainRecord, Idle, At
  <1>2. ASSUME Serial PROVE Serial'
    <2>1. \A r \in Route : ops[r].pc = "idle" /\ ops'[r] = ops[r]
      BY <1>1, <1>2 DEF Serial, OneAtATime
    <2>2. OneAtATime' /\ UpdatesAKnownBeacon' /\ LoopsAreRight' /\ LocatedAreFirst'
      BY <1>1, <1>2, <2>1 DEF Serial, OneAtATime, UpdatesAKnownBeacon, LoopsAreRight, LoopIsRight,
                              Losing, LocatedAreFirst
    <2>3. Recorded' = Recorded
      <3>1. Appended = {} /\ Appended' = {}
        BY <2>1 DEF Appended
      <3> QED BY <1>1, <3>1 DEF Recorded
    <2>4. Exact' /\ OneLocated'
      BY <1>1, <1>2, <2>3, ListKept DEF Serial
    <2> QED BY <2>2, <2>4 DEF Serial
  <1>3. UpdateTrapsOnlyByOverlap' /\ ExpiredAreSilent' /\ LostMeansSilent'
    BY <1>1 DEF SInv, UpdateTrapsOnlyByOverlap, ExpiredAreSilent, LostMeansSilent, Losing
  <1> QED BY <1>1, <1>2, <1>3 DEF SInv

LEMMA StepSInv == IInv /\ SInv /\ [Next]_vars => SInv'
  <1> SUFFICES ASSUME IInv, SInv, [Next]_vars PROVE SInv'
    OBVIOUS
  <1>1. CASE UNCHANGED vars \/ RadioOff \/ \E r \in Route : StartScan(r)
    <2>1. UNCHANGED <<available, seen, timer, silent, ops, main, overlapped, crash>>
      BY <1>1 DEF vars, RadioOff, StartScan
    <2>2. Recorded' = Recorded
      BY <2>1 DEF Recorded, Appended
    <2>3. Serial => Serial'
      BY <2>1, <2>2 DEF Serial, OneAtATime, UpdatesAKnownBeacon, LoopsAreRight, Exact, Knowing,
                        OneLocated, LocatedAreFirst, Losing
    <2> QED BY <2>1, <2>3 DEF SInv, UpdateTrapsOnlyByOverlap, ExpiredAreSilent, LostMeansSilent, Losing
  <1>2. CASE Next
    <2>1. ASSUME NEW r \in Route, OpenRoute(r) PROVE SInv'
      BY <2>1, UserKeeps
    <2>2. ASSUME NEW r \in Route, Handler(r) PROVE SInv'
      BY <2>2, AppendKeeps, CacheKeeps, UpdateRangeKeeps, UpdateCompareKeeps, UpdateApplyKeeps,
         SortKeeps, LocateKeeps DEF Handler
    <2>3. ASSUME NEW r \in Route, NEW b \in Beacon, Discover(r, b) PROVE SInv'
      BY <2>3, DiscoverKeeps
    <2>4. CASE Accepted \/ GoBack
      BY <2>4, UserKeeps
    <2>5. ASSUME NEW p \in Pair, Expire(p) \/ Fire(p) PROVE SInv'
      BY <2>5, ExpireKeeps, FireKeeps
    <2>6. CASE Lose
      BY <2>6, LoseLooks, LoseRemoveKeeps, DropKeeps DEF Lose
    <2> QED BY <1>1, <1>2, <2>1, <2>2, <2>3, <2>4, <2>5, <2>6 DEF Next
  <1> QED BY <1>1, <1>2

LEMMA SInvHolds == Spec => [](IInv /\ SInv)
  <1>1. Init => IInv /\ SInv
    BY InitIInv, InitSInv
  <1>2. IInv /\ SInv /\ [Next]_vars => IInv' /\ SInv'
    BY StepIInv, StepSInv
  <1> QED BY <1>1, <1>2, PTL DEF Spec

-----------------------------------------------------------------------------
(* ExactTracking: the list has one entry for every scanner that knows the    *)
(* beacon, whatever came and went, unless two handlers have overlapped.      *)
THEOREM ListIsExact == Spec => []ExactTracking
  <1>1. SInv => ExactTracking
    <2>1. \A b : EntriesOf(b) = Places(available, b)
      BY DEF EntriesOf, Places
    <2> QED BY <2>1 DEF SInv, Serial, Exact, ExactTracking, Knowing
  <1> QED BY <1>1, SInvHolds, PTL

(* OneDistancePerBeacon: trilateration never gets a beacon twice, although   *)
(* two routes may both have an entry of it.                                  *)
THEOREM NoBeaconTwice == Spec => []OneDistancePerBeacon
  <1>1. IInv /\ SInv => OneDistancePerBeacon
    <2> SUFFICES ASSUME IInv, OneLocated, NEW b \in Beacon
                 PROVE  Cardinality({i \in EntriesOf(b) : available[i].located}) =< 1
      BY DEF SInv, Serial, OneDistancePerBeacon
    <2> DEFINE L == {i \in EntriesOf(b) : available[i].located}
    <2>1. \A i, k \in L : i = k
      BY DEF OneLocated, EntriesOf
    <2> HIDE DEF L
    <2>2. CASE L = {}
      BY <2>2, FS_EmptySet DEF L
    <2>3. CASE L # {}
      <3>1. PICK i : L = {i}
        BY <2>1, <2>3
      <3>2. Cardinality(L) = 1
        BY <3>1, FS_Singleton
      <3> QED BY <3>2 DEF L
    <2> QED BY <2>2, <2>3
  <1> QED BY <1>1, SInvHolds, PTL

(* ReadingsReachTheirBeacon: the loop of didUpdateBeacon ends at an entry of *)
(* the beacon that was heard.                                                *)
THEOREM ReadingsArrive == Spec => []ReadingsReachTheirBeacon
  <1>1. IInv /\ SInv => ReadingsReachTheirBeacon
    <2> SUFFICES ASSUME IInv, Serial PROVE ReadingsReachTheirBeacon
      BY DEF SInv, ReadingsReachTheirBeacon
    <2>1. ASSUME NEW r \in Route, ops[r].pc = "apply"
          PROVE  ops[r].i =< Len(available) /\ available[ops[r].i].id = ops[r].pair[2]
      BY <2>1 DEF Serial, LoopsAreRight, LoopIsRight, AtEntry
    <2>2. ASSUME NEW r \in Route, ops[r].pc = "compare"
          PROVE  \E i \in ops[r].i..ops[r].count :
                    i =< Len(available) /\ available[i].id = ops[r].pair[2]
      <3>1. ops[r].pair \in Recorded
        BY <2>2 DEF Serial, OneAtATime, UpdatesAKnownBeacon, Recorded, Losing
      <3>2. PICK i \in 1..Len(available) : available[i].id = ops[r].pair[2]
        BY <3>1, RecordedIsListed DEF IInv, Serial
      <3>3. /\ ops[r].count = Len(available) /\ ops[r].i \in Nat
            /\ NotBefore(available, ops[r].i, ops[r].pair[2])
        BY <2>2 DEF IInv, TypeOK, OpsRecord, Serial, LoopsAreRight, LoopIsRight
      <3> QED BY <3>2, <3>3 DEF NotBefore
    <2> QED BY <2>1, <2>2 DEF ReadingsReachTheirBeacon
  <1> QED BY <1>1, SInvHolds, PTL

(* UpdateTrapsOnlyByOverlap: the loop of didUpdateBeacon, which has no guard *)
(* either, leaves the list only after two handlers have overlapped.          *)
THEOREM UpdatingTrapsOnlyByOverlap == Spec => []UpdateTrapsOnlyByOverlap
  <1>1. SInv => UpdateTrapsOnlyByOverlap
    BY DEF SInv
  <1> QED BY <1>1, SInvHolds, PTL

(* LostMeansSilent: a beacon that is reported lost was silent for as long as *)
(* onLostTimeout says.                                                       *)
THEOREM LostBeaconsWereSilent == Spec => []LostMeansSilent
  <1>1. SInv => LostMeansSilent
    BY DEF SInv
  <1> QED BY <1>1, SInvHolds, PTL

(* The app that has ended with a list too short is left with that list.      *)
TooFew == crash = "too_few" => ReadsBeyond(available)

LEMMA TooFewStep == TooFew /\ [Next]_vars => TooFew'
  <1> SUFFICES ASSUME TooFew, [Next]_vars, crash' = "too_few"
               PROVE  ReadsBeyond(available')
    BY DEF TooFew
  <1>1. CASE UNCHANGED vars
    BY <1>1 DEF TooFew, vars
  <1>2. ASSUME Running, crash' = crash \/ crash' \in {"lose_empty", "lose_index", "update_empty",
                                                    "update_index"}
        PROVE  FALSE
    BY <1>2 DEF Running
  <1>3. ASSUME NEW r \in Route, Locate(r) PROVE ReadsBeyond(available')
    BY <1>2, <1>3 DEF Locate
  <1>4. ~Accepted /\ ~GoBack /\ ~RadioOff /\ ~Lose
    BY <1>2 DEF Accepted, GoBack, RadioOff, Lose, LoseRange, LoseCompare, LoseRemove, Drop, Trap
  <1>5. \A r \in Route : ~OpenRoute(r) /\ ~StartScan(r) /\ \A b \in Beacon : ~Discover(r, b)
    BY <1>2 DEF OpenRoute, StartScan, Discover
  <1>6. \A p \in Pair : ~Expire(p) /\ ~Fire(p)
    BY <1>2 DEF Expire, Fire
  <1>7. \A r \in Route : ~Append1(r) /\ ~Cache(r) /\ ~UpdateRange(r) /\ ~UpdateCompare(r)
                          /\ ~UpdateApply(r) /\ ~Sort(r)
    BY <1>2 DEF Append1, Cache, UpdateRange, UpdateCompare, UpdateApply, Sort, Trap
  <1> QED BY <1>1, <1>3, <1>4, <1>5, <1>6, <1>7 DEF Next, Handler

(* SharedBeaconsPreventTheTrap: trilaterate reads past the list only if no   *)
(* beacon is known to two scanners: with one that is, an entry of it would   *)
(* be without a distance.                                                    *)
THEOREM SharedBeaconsAreSafe == Spec => []SharedBeaconsPreventTheTrap
  <1>1. IInv /\ SInv /\ TooFew => SharedBeaconsPreventTheTrap
    <2> SUFFICES ASSUME IInv, Serial, ReadsBeyond(available), NEW p \in Recorded,
                        NEW q \in Recorded, p[2] = q[2], p # q
                 PROVE  FALSE
      BY DEF SInv, TooFew, SharedBeaconsPreventTheTrap
    <2> DEFINE b == p[2]
    <2>1. /\ p = <<p[1], b>> /\ q = <<q[1], b>> /\ b \in Beacon
          /\ p[1] \in Route /\ q[1] \in Route
      BY RecordedFinite DEF IInv, Pair
    <2>2. p[1] # q[1] /\ {p[1], q[1]} \subseteq Knowing(b)
      BY <2>1 DEF Knowing
    <2>3. Cardinality(Knowing(b)) >= 2
      <3>1. /\ Cardinality({p[1], q[1]}) =< Cardinality(Knowing(b))
            /\ Cardinality(Knowing(b)) \in Nat
        BY <2>2, KnowingIsFinite, FS_Subset
      <3>2. Cardinality({p[1], q[1]}) = 2
        <4>1. IsFiniteSet({p[1]}) /\ Cardinality({p[1]}) = 1
          BY FS_Singleton
        <4>2. Cardinality({p[1]} \cup {q[1]}) = Cardinality({p[1]}) + 1
          BY <2>2, <4>1, FS_AddElement
        <4>3. {p[1]} \cup {q[1]} = {p[1], q[1]}
          OBVIOUS
        <4> QED BY <4>1, <4>2, <4>3
      <3> QED BY <3>1, <3>2
    <2>4. \A i, k \in Places(available, b) : i = k
      BY DEF Places, ReadsBeyond, Serial, OneLocated
    <2>5. Cardinality(Places(available, b)) =< 1
      <3>1. CASE Places(available, b) = {}
        BY <3>1, FS_EmptySet
      <3>2. CASE Places(available, b) # {}
        <4>1. PICK i : Places(available, b) = {i}
          BY <2>4, <3>2
        <4>2. Cardinality(Places(available, b)) = 1
          BY <4>1, FS_Singleton, Zenon
        <4> QED BY <4>2
      <3> QED BY <3>1, <3>2
    <2>6. Cardinality(Places(available, b)) = Cardinality(Knowing(b))
      BY <2>1 DEF Serial, Exact
    <2>7. Cardinality(Places(available, b)) \in Nat
      BY PlacesAreFinite DEF IInv, TypeOK
    <2> QED BY <2>3, <2>5, <2>6, <2>7
  <1>2. Init => TooFew
    BY DEF Init, TooFew
  <1> QED BY <1>1, <1>2, TooFewStep, SInvHolds, PTL DEF Spec

-----------------------------------------------------------------------------
(* What StoppedScannersForget needs besides fairness.                        *)

(* How far a pair is from being forgotten: found, appended to the list,      *)
(* cached with a timer, that timer expired, being reported lost.             *)
Stage(p) ==
    IF Losing /\ main.pair = p THEN 1
    ELSE IF p \in seen THEN (IF timer[p] = "armed" THEN 3 ELSE 2)
    ELSE IF ops[p[1]].pair # p THEN 0
    ELSE IF ops[p[1]].pc = "cache" THEN 4
    ELSE IF ops[p[1]].pc = "append" THEN 5
    ELSE 0

(* Cached and not being reported lost.                                       *)
TimerRuns(p) == p \in seen /\ ~(Losing /\ main.pair = p)

StagesAreRight ==
    \A p \in Pair :
        /\ Stage(p) = 0 => p \notin seen /\ p \notin Appended
        /\ Stage(p) = 2 => TimerRuns(p) /\ timer[p] = "expired"
        /\ Stage(p) = 3 => TimerRuns(p) /\ timer[p] = "armed"

StageFalls(p) ==
    /\ (\A b \in Beacon : ~Discover(p[1], b)) => Stage(p)' =< Stage(p)
    /\ (Append1(p[1]) \/ Cache(p[1])) /\ ops[p[1]].pair = p => Stage(p)' < Stage(p)
    /\ (Expire(p) \/ Fire(p)) /\ TimerRuns(p) => Stage(p)' < Stage(p)
    /\ Drop /\ main.pair = p => Stage(p)' < Stage(p)
StagesFall == \A p \in Pair : StageFalls(p)

(* How far a queue is in what it executes; the loops count up.               *)
Phase(pc) ==
    CASE pc = "range" -> 5
      [] pc = "compare" -> 4
      [] pc \in {"apply", "remove"} -> 3
      [] pc \in {"sort", "append"} -> 2
      [] pc \in {"locate", "cache", "drop"} -> 1
      [] OTHER -> 0
MovesOn(o, p) ==
    \/ Phase(p.pc) < Phase(o.pc)
    \/ o.pc = "compare" /\ p.pc = "compare" /\ p.count - p.i < o.count - o.i
LoopsMoveOn ==
    /\ \A r \in Route : Handler(r) => MovesOn(ops[r], ops'[r]) \/ ~Running'
    /\ Lose => MovesOn(main, main')
TurnsAreLeft ==
    /\ \A r \in Route : ops[r].pc = "compare" => ops[r].count - ops[r].i \in Nat
    /\ main.pc = "compare" => main.count - main.i \in Nat

(* A scanner at rest does not scan and delivers no more than what was on its *)
(* queue; only a start still asked for ends its rest.                        *)
Rests(r) ==
    /\ r \notin scanning'
    /\ late[r] \in Nat /\ late'[r] \in Nat /\ late'[r] =< late[r]
    /\ \A b \in Beacon : Discover(r, b) => late'[r] < late[r]
RestsUnlessAsked ==
    \A r \in taken : /\ r \notin scanning => Rests(r) \/ (r \in asked /\ StartScan(r))
                     /\ r \notin asked => r \notin asked'

(* A scan that runs has used up its start, unless the radio delayed it.      *)
StartsAreUsedUp == scanning \cap asked \subseteq Delayed

(* Stages of cached beacons are those of their timers.                       *)
LEMMA RightStages == IInv => StagesAreRight
  <1> SUFFICES ASSUME IInv, NEW p \in Pair
               PROVE  /\ Stage(p) = 0 => p \notin seen /\ p \notin Appended
                      /\ Stage(p) = 2 => TimerRuns(p) /\ timer[p] = "expired"
                      /\ Stage(p) = 3 => TimerRuns(p) /\ timer[p] = "armed"
    BY DEF StagesAreRight
  <1>1. p \in seen => Stage(p) # 0
    BY DEF Stage
  <1>2. p \in Appended => Stage(p) # 0
    <2> SUFFICES ASSUME NEW r \in Route, ops[r].pc = "cache", ops[r].pair = p
                 PROVE  Stage(p) # 0
      BY DEF Appended
    <2>1. p[1] = r
      BY DEF IInv, OwnPairs
    <2> QED BY <2>1 DEF Stage
  <1>3. Stage(p) = 2 => TimerRuns(p) /\ timer[p] # "armed"
    BY DEF Stage, TimerRuns
  <1>4. Stage(p) = 3 => TimerRuns(p) /\ timer[p] = "armed"
    BY DEF Stage, TimerRuns
  <1>5. TimerRuns(p) => timer[p] \in {"armed", "expired"}
    BY DEF TimerRuns, IInv, CachedBeaconsCanBeLost
  <1> QED BY <1>1, <1>2, <1>3, <1>4, <1>5

(* A step that neither touches the cache, the timers and the main queue nor  *)
(* finds the beacon leaves it where it is.                                   *)
LEMMA StageKept ==
    ASSUME NEW p \in Pair, UNCHANGED <<seen, timer[p]>>,
           (Losing /\ main.pair = p)' <=> (Losing /\ main.pair = p),
           \/ ops'[p[1]] = ops[p[1]]
           \/ {ops[p[1]].pc, ops'[p[1]].pc} \cap {"append", "cache"} = {}
    PROVE  Stage(p)' = Stage(p)
  BY DEF Stage

LEMMA StageType == \A p \in Pair : Stage(p) \in 0..5 /\ Stage(p)' \in 0..5
  BY DEF Stage

LEMMA FindingStages ==
    ASSUME IInv, NEW r \in Route, Append1(r) \/ Cache(r), NEW p \in Pair
    PROVE  /\ Stage(p)' =< Stage(p)
           /\ p = ops[r].pair => Stage(p)' < Stage(p)
  <1> DEFINE q == ops[r].pair
  <1>1. /\ q[1] = r /\ q \notin seen /\ q \in Pair /\ ~(Losing /\ main.pair = q)
        /\ ops[r] \in OpsRecord /\ ops \in [Route -> OpsRecord]
    BY DEF Append1, Cache, IInv, TypeOK, OpsRecord, OwnPairs, LosesACachedBeacon
  <1>2. CASE Append1(r)
    <2>1. UNCHANGED <<seen, timer, main>> /\ ops[r].pc = "append"
          /\ ops' = [ops EXCEPT ![r].pc = "cache"]
      BY <1>2 DEF Append1, Goto
    <2>2. CASE p = q
      <3>1. Stage(p) = 5
        BY <1>1, <2>1, <2>2 DEF Stage
      <3>2. Stage(p)' = 4
        BY <1>1, <2>1, <2>2 DEF Stage, OpsRecord, Losing
      <3> QED BY <3>1, <3>2
    <2>3. CASE p # q
      <3>1. ops'[p[1]] = ops[p[1]] \/ (ops'[p[1]].pair # p /\ ops[p[1]].pair # p)
        BY <1>1, <2>1, <2>3 DEF OpsRecord, Pair
      <3>2. Stage(p)' = Stage(p)
        BY <2>1, <3>1 DEF Stage, Losing
      <3> QED BY <2>3, <3>2, StageType
    <2> QED BY <2>2, <2>3
  <1>3. CASE Cache(r)
    <2>1. /\ UNCHANGED main /\ ops[r].pc = "cache" /\ ops' = [ops EXCEPT ![r] = Idle]
          /\ seen' = seen \cup {q} /\ timer' = [timer EXCEPT ![q] = "armed"]
          /\ Idle.pc = "idle"
      BY <1>3 DEF Cache, Done, Idle, At
    <2>2. CASE p = q
      <3>1. Stage(p) = 4
        BY <1>1, <2>1, <2>2 DEF Stage
      <3>2. timer'[p] = "armed"
        BY <1>1, <2>1, <2>2 DEF IInv, TypeOK
      <3>3. Stage(p)' = 3
        BY <1>1, <2>1, <2>2, <3>2 DEF Stage, Losing
      <3> QED BY <3>1, <3>3
    <2>3. CASE p # q
      <3>1. /\ ops'[p[1]] = ops[p[1]] \/ (ops'[p[1]].pc = "idle" /\ ops[p[1]].pair # p)
            /\ timer'[p] = timer[p] /\ (p \in seen' <=> p \in seen)
        BY <1>1, <2>1, <2>3 DEF Pair, IInv, TypeOK
      <3>2. Stage(p)' = Stage(p)
        BY <2>1, <3>1 DEF Stage, Losing
      <3> QED BY <2>3, <3>2, StageType
    <2> QED BY <2>2, <2>3
  <1> QED BY <1>2, <1>3

(* The queue of a reading moves on, and no other does.                       *)
LEMMA ReadingMoves ==
    ASSUME TypeOK, NEW r \in Route,
           UpdateRange(r) \/ UpdateCompare(r) \/ UpdateApply(r) \/ Sort(r) \/ Locate(r)
    PROVE  /\ UNCHANGED <<seen, timer, main>>
           /\ {ops[r].pc, ops'[r].pc} \cap {"append", "cache"} = {}
           /\ \A q \in Route \ {r} : ops'[q] = ops[q]
  <1>1. ops \in [Route -> OpsRecord] /\ ops[r] \in OpsRecord
    BY DEF TypeOK
  <1>2. UNCHANGED <<seen, timer, main>>
    BY DEF UpdateRange, UpdateCompare, UpdateApply, Sort, Locate
  <1>3. ops[r].pc \notin {"append", "cache"}
    BY DEF UpdateRange, UpdateCompare, UpdateApply, Sort, Locate
  <1>4. ASSUME NEW o, ops' = [ops EXCEPT ![r] = o], o.pc \notin {"append", "cache"}
        PROVE  /\ ops'[r].pc \notin {"append", "cache"}
               /\ \A q \in Route \ {r} : ops'[q] = ops[q]
    BY <1>1, <1>4
  <1>5. \/ ops' = ops \/ ops' = [ops EXCEPT ![r] = Idle]
        \/ \E pc \in {"apply", "sort", "locate"} : ops' = [ops EXCEPT ![r].pc = pc]
        \/ ops' = [ops EXCEPT ![r].pc = "compare", ![r].count = Len(available)]
        \/ ops' = [ops EXCEPT ![r].i = @ + 1]
    BY DEF UpdateRange, UpdateCompare, UpdateApply, Sort, Locate, Goto, Done
  <1>6. CASE ops' = ops
    BY <1>2, <1>3, <1>6
  <1>7. CASE ops' = [ops EXCEPT ![r] = Idle]
    BY <1>2, <1>3, <1>4, <1>7 DEF Idle, At
  <1>8. ASSUME NEW pc \in {"apply", "sort", "locate"}, ops' = [ops EXCEPT ![r].pc = pc]
        PROVE  /\ ops'[r].pc \notin {"append", "cache"}
               /\ \A q \in Route \ {r} : ops'[q] = ops[q]
    BY <1>1, <1>8 DEF OpsRecord
  <1>9. CASE ops' = [ops EXCEPT ![r].pc = "compare", ![r].count = Len(available)]
    BY <1>1, <1>2, <1>3, <1>9 DEF OpsRecord
  <1>10. CASE ops' = [ops EXCEPT ![r].i = @ + 1]
    BY <1>1, <1>2, <1>3, <1>10 DEF OpsRecord
  <1> QED BY <1>2, <1>3, <1>5, <1>6, <1>7, <1>8, <1>9, <1>10

(* The queues that neither find nor lose a beacon.                           *)
LEMMA QuietStages ==
    ASSUME IInv, NEW p \in Pair,
           \/ UNCHANGED vars \/ RadioOff \/ (\E r \in Route : StartScan(r))
           \/ \E r \in Route : \/ OpenRoute(r) \/ UpdateRange(r) \/ UpdateCompare(r)
                               \/ UpdateApply(r) \/ Sort(r) \/ Locate(r)
           \/ \E r \in Route \ {p[1]}, b \in Beacon : Discover(r, b)
           \/ Accepted \/ GoBack \/ LoseRange \/ LoseCompare \/ LoseRemove
    PROVE  Stage(p)' = Stage(p)
  <1>1. ops \in [Route -> OpsRecord] /\ main \in MainRecord /\ Idle.pc = "idle"
        /\ timer \in [Pair -> {"none", "armed", "expired", "cancelled"}]
    BY DEF IInv, TypeOK, Idle, At
  <1>2. CASE UNCHANGED vars \/ RadioOff \/ \E r \in Route : StartScan(r)
    <2>1. UNCHANGED <<seen, timer, ops, main>>
      BY <1>2 DEF vars, RadioOff, StartScan
    <2> QED BY <2>1, StageKept DEF Losing
  <1>3. CASE (\E r \in Route : OpenRoute(r)) \/ Accepted \/ GoBack
    <2>1. /\ UNCHANGED <<seen, timer, ops>>
          /\ main.pc \in {"idle", "accept"} /\ main'.pc \in {"idle", "accept"}
      BY <1>3 DEF OpenRoute, Accepted, GoBack, At, Idle
    <2>2. ~Losing /\ ~Losing'
      BY <2>1 DEF Losing
    <2> QED BY <2>1, <2>2, StageKept
  <1>4. ASSUME NEW r \in Route,
               UpdateRange(r) \/ UpdateCompare(r) \/ UpdateApply(r) \/ Sort(r) \/ Locate(r)
        PROVE  Stage(p)' = Stage(p)
    <2>1. /\ UNCHANGED <<seen, timer, main>>
          /\ {ops[r].pc, ops'[r].pc} \cap {"append", "cache"} = {}
          /\ \A q \in Route \ {r} : ops'[q] = ops[q]
      BY <1>4, ReadingMoves DEF IInv
    <2>2. p[1] \in Route
      BY DEF Pair
    <2> QED BY <2>1, <2>2, StageKept DEF Losing
  <1>5. ASSUME NEW r \in Route \ {p[1]}, NEW b \in Beacon, Discover(r, b)
        PROVE  Stage(p)' = Stage(p)
    <2>1. UNCHANGED <<seen, main>> /\ p # <<r, b>> /\ p[1] \in Route
      BY <1>5 DEF Discover, Pair
    <2>2. \/ timer' = timer
          \/ timer' = [timer EXCEPT ![<<r, b>>] = "armed"]
      BY <1>5 DEF Discover, Rescheduled
    <2>3. ops' = ops \/ \E o : ops' = [ops EXCEPT ![r] = o]
      BY <1>5 DEF Discover
    <2>4. timer'[p] = timer[p] /\ ops'[p[1]] = ops[p[1]]
      BY <1>1, <2>1, <2>2, <2>3
    <2> QED BY <2>1, <2>4, StageKept DEF Losing
  <1>6. CASE LoseRange \/ LoseCompare \/ LoseRemove
    <2>1. UNCHANGED <<seen, timer, ops>> /\ Losing
      BY <1>6 DEF LoseRange, LoseCompare, LoseRemove, Losing
    <2>2. main'.pair = main.pair /\ Losing'
      BY <1>1, <1>6, <2>1 DEF LoseRange, LoseCompare, LoseRemove, Losing, MainRecord
    <2> QED BY <2>1, <2>2, StageKept
  <1> QED BY <1>2, <1>3, <1>4, <1>5, <1>6

(* A timer that expires or fires, and the end of a report.                   *)
LEMMA LosingStages ==
    ASSUME IInv, NEW p \in Pair, NEW q \in Pair,
           Expire(q) \/ Fire(q) \/ (Drop /\ q = main.pair)
    PROVE  /\ Stage(p)' =< Stage(p)
           /\ p = q /\ (Drop \/ TimerRuns(p)) => Stage(p)' < Stage(p)
  <1>1. timer \in [Pair -> {"none", "armed", "expired", "cancelled"}]
    BY DEF IInv, TypeOK
  <1>2. CASE Expire(q)
    <2>1. UNCHANGED <<seen, ops, main>> /\ timer[q] = "armed"
          /\ timer' = [timer EXCEPT ![q] = "expired"]
      BY <1>2 DEF Expire
    <2>2. (Losing /\ main.pair = p)' <=> (Losing /\ main.pair = p)
      BY <2>1 DEF Losing
    <2>3. ~Drop
      BY <2>1, <1>1 DEF Drop, Expire, IInv, LosesACachedBeacon, Losing
    <2>4. p # q => timer'[p] = timer[p]
      BY <1>1, <2>1
    <2>5. p = q => timer[p] = "armed" /\ timer'[p] = "expired"
      BY <1>1, <2>1
    <2> QED BY <2>1, <2>2, <2>3, <2>4, <2>5 DEF Stage, TimerRuns
  <1>3. CASE Fire(q)
    <2>1. /\ UNCHANGED <<seen, ops>> /\ timer' = [timer EXCEPT ![q] = "cancelled"]
          /\ main.pc = "idle" /\ main' = IF q \in seen THEN At("range", q) ELSE Idle
      BY <1>3 DEF Fire
    <2>2. ~Losing /\ ~Drop
      BY <2>1 DEF Losing, Drop
    <2>3. (Losing /\ main.pair = p)' <=> p = q /\ p \in seen
      BY <2>1 DEF Losing, At, Idle
    <2>4. p # q => timer'[p] = timer[p]
      BY <1>1, <2>1
    <2> QED BY <2>1, <2>2, <2>3, <2>4 DEF Stage, TimerRuns
  <1>4. CASE Drop /\ q = main.pair
    <2>1. /\ UNCHANGED ops /\ seen' = seen \ {q} /\ timer' = [timer EXCEPT ![q] = "none"]
          /\ main' = Idle /\ main.pc = "drop"
      BY <1>4 DEF Drop
    <2>2. Losing /\ ~Losing' /\ q \in seen
      BY <1>4, <2>1 DEF Losing, Idle, At, IInv, LosesACachedBeacon
    <2>3. p[1] \in Route /\ (p \in seen => ops[p[1]].pair # p
             \/ ops[p[1]].pc \notin {"append", "cache"})
      BY DEF Pair, IInv, OwnPairs
    <2>4. CASE p = q
      <3>1. Stage(p) = 1 /\ Stage(p)' = 0
        BY <1>4, <2>1, <2>2, <2>3, <2>4 DEF Stage
      <3> QED BY <3>1
    <2>5. CASE p # q
      <3>1. timer'[p] = timer[p] /\ (p \in seen' <=> p \in seen)
        BY <1>1, <2>1, <2>5
      <3>2. Stage(p)' = Stage(p)
        BY <1>4, <2>1, <2>2, <2>5, <3>1 DEF Stage
      <3> QED BY <2>5, <3>2, StageType
    <2> QED BY <2>4, <2>5
  <1> QED BY <1>2, <1>3, <1>4

LEMMA StepStages == IInv /\ [Next]_vars => StagesFall
  <1> SUFFICES ASSUME IInv, [Next]_vars, NEW p \in Pair PROVE StageFalls(p)
    BY DEF StagesFall
  <1>1. p[1] \in Route
    BY DEF Pair
  <1>2. ASSUME NEW r \in Route, NEW b \in Beacon, Discover(r, b), r # p[1]
        PROVE  Stage(p)' = Stage(p)
    BY <1>2, QuietStages
  <1>3. (\A b \in Beacon : ~Discover(p[1], b)) => Stage(p)' =< Stage(p)
    <2> SUFFICES ASSUME \A b \in Beacon : ~Discover(p[1], b) PROVE Stage(p)' =< Stage(p)
      OBVIOUS
    <2>1. ASSUME NEW r \in Route, Append1(r) \/ Cache(r) PROVE Stage(p)' =< Stage(p)
      BY <2>1, FindingStages
    <2>2. ASSUME NEW q \in Pair, Expire(q) \/ Fire(q) PROVE Stage(p)' =< Stage(p)
      BY <2>2, LosingStages
    <2>3. CASE Drop
      <3>1. main.pair \in Pair
        BY DEF IInv, TypeOK, MainRecord
      <3> QED BY <2>3, <3>1, LosingStages
    <2>4. CASE \/ UNCHANGED vars \/ RadioOff \/ (\E r \in Route : StartScan(r))
               \/ \E r \in Route : \/ OpenRoute(r) \/ UpdateRange(r) \/ UpdateCompare(r)
                                   \/ UpdateApply(r) \/ Sort(r) \/ Locate(r)
               \/ \E r \in Route \ {p[1]}, b \in Beacon : Discover(r, b)
               \/ Accepted \/ GoBack \/ LoseRange \/ LoseCompare \/ LoseRemove
      <3>1. Stage(p)' = Stage(p)
        BY <2>4, QuietStages
      <3> QED BY <3>1, StageType
    <2> QED BY <2>1, <2>2, <2>3, <2>4 DEF Next, Handler, Lose
  <1>4. (Append1(p[1]) \/ Cache(p[1])) /\ ops[p[1]].pair = p => Stage(p)' < Stage(p)
    BY <1>1, FindingStages
  <1>5. (Expire(p) \/ Fire(p)) /\ TimerRuns(p) => Stage(p)' < Stage(p)
    BY LosingStages
  <1>6. Drop /\ main.pair = p => Stage(p)' < Stage(p)
    BY LosingStages
  <1> QED BY <1>3, <1>4, <1>5, <1>6 DEF StageFalls

(* The loop of didUpdateBeacon begins at the first entry and turns no more   *)
(* often than its range says.                                                *)
LoopsBegin ==
    \A r \in Route : /\ ops[r].pc = "range" => ops[r].i = 1
                     /\ ops[r].pc = "compare" => ops[r].i =< ops[r].count
LateIsCounted == late \in [Route -> Nat]

(* A queue moves on to o.                                                    *)
Proceeds(r, o) ==
    /\ ops' = [ops EXCEPT ![r] = o]
    /\ MovesOn(ops[r], o)
    /\ o.pc # "range"
    /\ o.pc = "compare" => o.i =< o.count

LEMMA HandlerProceeds ==
    ASSUME IInv, LoopsBegin, NEW r \in Route, Handler(r)
    PROVE  (ops' = ops /\ ~Running') \/ \E o : Proceeds(r, o)
  <1> DEFINE o == ops[r]
  <1>1. /\ o \in OpsRecord /\ available \in Seq(Entry) /\ Len(available) \in Nat
        /\ o.i \in Nat /\ o.count \in Nat
    BY DEF IInv, TypeOK, OpsRecord
  <1>2. /\ Phase("range") = 5 /\ Phase("compare") = 4 /\ Phase("apply") = 3
        /\ Phase("sort") = 2 /\ Phase("append") = 2 /\ Phase("locate") = 1
        /\ Phase("cache") = 1 /\ Phase("idle") = 0 /\ Idle.pc = "idle"
    BY DEF Phase, Idle, At
  <1>3. ASSUME Done(r), o.pc \in {"compare", "apply", "sort", "locate", "cache"}
        PROVE  Proceeds(r, Idle)
    BY <1>2, <1>3 DEF Done, Proceeds, MovesOn
  <1>4. ASSUME NEW pc, Goto(r, pc), Phase(pc) < Phase(o.pc), pc \notin {"range", "compare"}
        PROVE  Proceeds(r, [o EXCEPT !.pc = pc])
    <2>1. ops' = [ops EXCEPT ![r] = [o EXCEPT !.pc = pc]] /\ [o EXCEPT !.pc = pc].pc = pc
      BY <1>1, <1>4 DEF Goto, OpsRecord
    <2> QED BY <1>4, <2>1 DEF Proceeds, MovesOn
  <1>5. CASE Append1(r)
    <2>1. o.pc = "append" /\ Goto(r, "cache")
      BY <1>5 DEF Append1
    <2>2. Proceeds(r, [o EXCEPT !.pc = "cache"])
      BY <1>2, <1>4, <2>1
    <2> QED BY <2>2
  <1>6. CASE Cache(r)
    BY <1>3, <1>6 DEF Cache
  <1>7. CASE UpdateRange(r)
    <2>1. CASE available = <<>>
      BY <1>7, <2>1 DEF UpdateRange, Trap, Running
    <2>2. CASE available # <<>>
      <3> DEFINE n == [o EXCEPT !.pc = "compare", !.count = Len(available)]
      <3>1. ops' = [ops EXCEPT ![r] = n] /\ o.pc = "range"
        BY <1>7, <2>2 DEF UpdateRange
      <3>2. n.pc = "compare" /\ n.count = Len(available) /\ n.i = o.i
        BY <1>1 DEF OpsRecord
      <3>3. o.i = 1 /\ Len(available) >= 1
        BY <1>1, <2>2, <3>1 DEF LoopsBegin
      <3>4. Proceeds(r, n)
        BY <1>2, <3>1, <3>2, <3>3 DEF Proceeds, MovesOn
      <3> QED BY <3>4
    <2> QED BY <2>1, <2>2
  <1>8. CASE UpdateCompare(r)
    <2>1. CASE o.i > Len(available)
      BY <1>8, <2>1 DEF UpdateCompare, Trap, Running
    <2>2. CASE Goto(r, "apply")
      <3>1. o.pc = "compare"
        BY <1>8 DEF UpdateCompare
      <3>2. Proceeds(r, [o EXCEPT !.pc = "apply"])
        BY <1>2, <1>4, <2>2, <3>1
      <3> QED BY <3>2
    <2>3. CASE o.i < o.count /\ ops' = [ops EXCEPT ![r].i = @ + 1]
      <3> DEFINE n == [o EXCEPT !.i = @ + 1]
      <3>1. ops' = [ops EXCEPT ![r] = n] /\ o.pc = "compare"
        BY <1>8, <2>3 DEF UpdateCompare
      <3>2. n.pc = "compare" /\ n.count = o.count /\ n.i = o.i + 1
        BY <1>1, <3>1 DEF OpsRecord
      <3>3. Proceeds(r, n)
        BY <1>1, <2>3, <3>1, <3>2 DEF Proceeds, MovesOn
      <3> QED BY <3>3
    <2>4. CASE Done(r)
      BY <1>3, <1>8, <2>4 DEF UpdateCompare
    <2> QED BY <1>8, <2>1, <2>2, <2>3, <2>4 DEF UpdateCompare
  <1>9. CASE UpdateApply(r)
    <2>1. CASE o.i > Len(available)
      BY <1>9, <2>1 DEF UpdateApply, Trap, Running
    <2>2. CASE Goto(r, "sort")
      <3>1. o.pc = "apply"
        BY <1>9 DEF UpdateApply
      <3>2. Proceeds(r, [o EXCEPT !.pc = "sort"])
        BY <1>2, <1>4, <2>2, <3>1
      <3> QED BY <3>2
    <2>3. CASE Done(r)
      BY <1>3, <1>9, <2>3 DEF UpdateApply
    <2> QED BY <1>9, <2>1, <2>2, <2>3 DEF UpdateApply
  <1>10. CASE Sort(r)
    <2>1. o.pc = "sort" /\ Goto(r, "locate")
      BY <1>10 DEF Sort
    <2>2. Proceeds(r, [o EXCEPT !.pc = "locate"])
      BY <1>2, <1>4, <2>1
    <2> QED BY <2>2
  <1>11. CASE Locate(r)
    <2>1. CASE ReadsBeyond(available)
      BY <1>11, <2>1 DEF Locate, Trap, Running
    <2>2. CASE ~ReadsBeyond(available)
      BY <1>3, <1>11, <2>2 DEF Locate
    <2> QED BY <2>1, <2>2
  <1> QED BY <1>5, <1>6, <1>7, <1>8, <1>9, <1>10, <1>11 DEF Handler

LEMMA LoserProceeds ==
    ASSUME IInv, Lose
    PROVE  MovesOn(main, main')
  <1>1. /\ main \in MainRecord /\ main.i \in Nat /\ main.count \in Nat
        /\ available \in Seq(Entry) /\ Len(available) \in Nat
    BY DEF IInv, TypeOK, MainRecord
  <1>2. /\ Phase("range") = 5 /\ Phase("compare") = 4 /\ Phase("remove") = 3
        /\ Phase("drop") = 1 /\ Phase("idle") = 0 /\ Idle.pc = "idle"
    BY DEF Phase, Idle, At
  <1>3. ASSUME NEW pc \in {"remove", "drop"}, main' = [main EXCEPT !.pc = pc],
               Phase(pc) < Phase(main.pc)
        PROVE  MovesOn(main, main')
    <2>1. main'.pc = pc
      BY <1>1, <1>3 DEF MainRecord
    <2> QED BY <1>3, <2>1 DEF MovesOn
  <1>4. CASE LoseRange
    <2>1. available # <<>>
      BY <1>1, <1>4, ListNotEmpty DEF LoseRange
    <2>2. main.pc = "range" /\ main'.pc = "compare"
      BY <1>1, <1>4, <2>1 DEF LoseRange, MainRecord
    <2> QED BY <1>2, <2>2 DEF MovesOn
  <1>5. CASE LoseCompare
    <2>1. main.pc = "compare" /\ ~(main.i > Len(available))
      BY <1>1, <1>5 DEF LoseCompare, IInv, LoseInBounds
    <2>2. CASE main' = [main EXCEPT !.i = @ + 1]
      <3>1. main'.pc = "compare" /\ main'.count = main.count /\ main'.i = main.i + 1
        BY <1>1, <2>1, <2>2 DEF MainRecord
      <3> QED BY <1>1, <2>1, <3>1 DEF MovesOn
    <2>3. CASE \E pc \in {"remove", "drop"} : main' = [main EXCEPT !.pc = pc]
      BY <1>2, <1>3, <2>1, <2>3
    <2> QED BY <1>5, <2>1, <2>2, <2>3 DEF LoseCompare
  <1>6. CASE LoseRemove
    <2>1. main.pc = "remove" /\ main' = [main EXCEPT !.pc = "drop"]
      BY <1>1, <1>6 DEF LoseRemove, IInv, LoseInBounds
    <2> QED BY <1>2, <1>3, <2>1
  <1>7. CASE Drop
    BY <1>2, <1>7 DEF Drop, MovesOn
  <1> QED BY <1>4, <1>5, <1>6, <1>7 DEF Lose

LEMMA LoopsStep ==
    ASSUME IInv, LoopsBegin, [Next]_vars
    PROVE  LoopsBegin' /\ LoopsMoveOn
  <1>1. ops \in [Route -> OpsRecord]
    BY DEF IInv, TypeOK
  <1>2. LoopsMoveOn
    <2>1. ASSUME NEW r \in Route, Handler(r) PROVE MovesOn(ops[r], ops'[r]) \/ ~Running'
      BY <1>1, <2>1, HandlerProceeds DEF Proceeds
    <2> QED BY <2>1, LoserProceeds DEF LoopsMoveOn
  <1>3. ASSUME ops' = ops PROVE LoopsBegin'
    BY <1>3 DEF LoopsBegin
  <1>4. ASSUME NEW r \in Route, NEW o, ops' = [ops EXCEPT ![r] = o],
               o.pc = "range" => o.i = 1, o.pc = "compare" => o.i =< o.count
        PROVE  LoopsBegin'
    BY <1>1, <1>4 DEF LoopsBegin
  <1>5. ASSUME NEW r \in Route, Handler(r) PROVE LoopsBegin'
    BY <1>3, <1>4, <1>5, HandlerProceeds DEF Proceeds
  <1>6. ASSUME NEW r \in Route, NEW b \in Beacon, Discover(r, b) PROVE LoopsBegin'
    <2>1. \/ ops' = ops
          \/ \E pc \in {"range", "append"} : ops' = [ops EXCEPT ![r] = At(pc, <<r, b>>)]
      BY <1>6 DEF Discover
    <2>2. \A pc : At(pc, <<r, b>>).pc = pc /\ At(pc, <<r, b>>).i = 1
      BY DEF At
    <2> QED BY <1>3, <1>4, <2>1, <2>2
  <1>7. CASE \/ UNCHANGED vars \/ Accepted \/ GoBack \/ Lose
             \/ RadioOff \/ (\E r \in Route : OpenRoute(r) \/ StartScan(r))
             \/ \E p \in Pair : Expire(p) \/ Fire(p)
    <2>1. ops' = ops
      BY <1>7 DEF vars, Accepted, GoBack, Lose, LoseRange, LoseCompare, LoseRemove, Drop,
         RadioOff, OpenRoute, StartScan, Expire, Fire
    <2> QED BY <1>2, <1>3, <2>1
  <1> QED BY <1>2, <1>5, <1>6, <1>7 DEF Next

(* What a step does to the scans and to the discoveries still to come.       *)
TakenFirst == taken \subseteq Route /\ scanning \subseteq taken /\ asked \subseteq taken
Scans == LateIsCounted /\ TakenFirst /\ StartsAreUsedUp
Calm(r) == r \notin scanning => r \notin scanning' /\ late'[r] =< late[r]

LEMMA ScansEndStep ==
    ASSUME LateIsCounted, NEW E, ScansEnd(E)
    PROVE  LateIsCounted' /\ scanning' \subseteq scanning /\ \A r \in Route : Calm(r)
  <1>1. late' \in [Route -> 0..MaxLate] /\ MaxLate \in Nat
    BY BoundAssumption DEF ScansEnd
  <1>2. LateIsCounted'
    BY <1>1 DEF LateIsCounted
  <1> QED BY <1>2 DEF ScansEnd, LateIsCounted, Calm

LEMMA DiscoverLate ==
    ASSUME LateIsCounted, NEW r \in Route, NEW b \in Beacon, Discover(r, b)
    PROVE  /\ LateIsCounted' /\ UNCHANGED <<scanning, taken, asked>>
           /\ \A q \in Route : Calm(q)
           /\ r \notin scanning => late'[r] < late[r]
  <1>1. UNCHANGED <<scanning, taken, asked>>
    BY DEF Discover
  <1>2. \/ late' = late /\ r \in scanning
        \/ late[r] > 0 /\ late' = [late EXCEPT ![r] = @ - 1] /\ r \notin scanning
    BY DEF Discover
  <1> QED BY <1>1, <1>2 DEF LateIsCounted, Calm

LEMMA StartScanStep ==
    ASSUME Scans, NEW r \in Route, StartScan(r)
    PROVE  /\ Scans' /\ asked' \subseteq asked
           /\ r \in asked /\ \A q \in Route \ {r} : Calm(q)
  <1>1. LateIsCounted' /\ \A q \in Route \ {r} : Calm(q)
    BY DEF StartScan, Scans, LateIsCounted, Calm
  <1>2. StartsAreUsedUp' /\ asked' \subseteq asked /\ r \in asked
    BY DEF StartScan, Scans, StartsAreUsedUp
  <1>3. TakenFirst'
    BY DEF StartScan, Scans, TakenFirst
  <1> QED BY <1>1, <1>2, <1>3 DEF Scans

(* All steps but the start of a scan leave the others at rest.               *)
LEMMA OtherSteps ==
    ASSUME Scans, [Next]_vars, \A r \in Route : ~StartScan(r)
    PROVE  /\ Scans' /\ \A r \in Route : Calm(r)
           /\ \A r \in taken : r \notin asked => r \notin asked'
  <1>1. CASE \/ UNCHANGED vars \/ Accepted \/ Lose
             \/ \E r \in Route : \/ Append1(r) \/ Cache(r) \/ UpdateRange(r)
                                 \/ UpdateCompare(r) \/ UpdateApply(r) \/ Sort(r)
             \/ \E p \in Pair : Expire(p) \/ Fire(p)
    <2>1. UNCHANGED <<late, scanning, taken, asked>>
      BY <1>1 DEF vars, Accepted, Lose, LoseRange, LoseCompare, LoseRemove, Drop, Append1, Cache,
         UpdateRange, UpdateCompare, UpdateApply, Sort, Expire, Fire
    <2> QED BY <2>1 DEF Scans, LateIsCounted, TakenFirst, StartsAreUsedUp, Calm
  <1>2. ASSUME NEW E, ScansEnd(E), UNCHANGED <<taken, asked>>
        PROVE  /\ Scans' /\ \A r \in Route : Calm(r)
               /\ \A r \in taken : r \notin asked => r \notin asked'
    BY <1>2, ScansEndStep DEF Scans, TakenFirst, StartsAreUsedUp
  <1>3. CASE GoBack
    BY <1>2, <1>3 DEF GoBack, StopScanning
  <1>4. CASE RadioOff
    BY <1>2, <1>4 DEF RadioOff
  <1>5. ASSUME NEW r \in Route, Locate(r)
        PROVE  /\ Scans' /\ \A q \in Route : Calm(q)
               /\ \A q \in taken : q \notin asked => q \notin asked'
    <2>1. UNCHANGED <<taken, asked>> /\ (UNCHANGED <<scanning, late>> \/ StopScanning(r))
      BY <1>5 DEF Locate
    <2>2. CASE UNCHANGED <<scanning, late>>
      BY <2>1, <2>2 DEF Scans, LateIsCounted, TakenFirst, StartsAreUsedUp, Calm
    <2> QED BY <1>2, <2>1, <2>2 DEF StopScanning
  <1>6. ASSUME NEW r \in Route, NEW b \in Beacon, Discover(r, b)
        PROVE  /\ Scans' /\ \A q \in Route : Calm(q)
               /\ \A q \in taken : q \notin asked => q \notin asked'
    BY <1>6, DiscoverLate DEF Scans, TakenFirst, StartsAreUsedUp
  <1>7. ASSUME NEW r \in Route, OpenRoute(r)
        PROVE  /\ Scans' /\ \A q \in Route : Calm(q)
               /\ \A q \in taken : q \notin asked => q \notin asked'
    BY <1>7 DEF OpenRoute, Scans, LateIsCounted, TakenFirst, StartsAreUsedUp, Calm
  <1> QED BY <1>1, <1>3, <1>4, <1>5, <1>6, <1>7 DEF Next, Handler

LEMMA StoppedStep ==
    ASSUME Scans, [Next]_vars
    PROVE  Scans' /\ RestsUnlessAsked
  <1>1. ASSUME NEW r \in taken, r \notin scanning, Calm(r), Scans' PROVE Rests(r)
    <2>1. r \in Route /\ LateIsCounted /\ late[r] \in Nat /\ late'[r] \in Nat
      BY <1>1 DEF Scans, TakenFirst, LateIsCounted
    <2>2. ASSUME NEW b \in Beacon, Discover(r, b) PROVE late'[r] < late[r]
      BY <1>1, <2>1, <2>2, DiscoverLate
    <2> QED BY <1>1, <2>1, <2>2 DEF Rests, Calm
  <1>2. ASSUME NEW q \in Route, StartScan(q)
        PROVE  Scans' /\ RestsUnlessAsked
    <2>1. /\ Scans' /\ asked' \subseteq asked
          /\ q \in asked /\ \A r \in Route \ {q} : Calm(r)
      BY <1>2, StartScanStep
    <2> QED BY <1>1, <1>2, <2>1 DEF RestsUnlessAsked, Scans, TakenFirst
  <1>3. CASE \A r \in Route : ~StartScan(r)
    BY <1>1, <1>3, OtherSteps DEF RestsUnlessAsked, Scans, TakenFirst
  <1> QED BY <1>2, <1>3

(* While a scanner does not scan, its beacons come closer to being forgotten *)
(* with every step that is about them and never further away, except by what *)
(* was still on its queue, of which every discovery leaves less; the loops   *)
(* that queues execute in between end, although other queues change the list *)
(* they count over; and a beacon with no stage left is forgotten. It scans   *)
(* again, stopped or not, only by a start still asked for, and a start that  *)
(* has run is gone unless the radio delayed it (BeaconScanner.swift keeps    *)
(* shouldBeScanning of such a one): the others are stopped once for all.     *)
THEOREM StoppedScannersComeToRest ==
    Spec => /\ [](StagesAreRight /\ TurnsAreLeft /\ StartsAreUsedUp)
            /\ [][StagesFall /\ LoopsMoveOn /\ RestsUnlessAsked]_vars
  <1>1. Init => LoopsBegin /\ Scans
    BY DEF Init, LoopsBegin, Scans, LateIsCounted, TakenFirst, StartsAreUsedUp, Idle, At
  <1>2. IInv /\ LoopsBegin => TurnsAreLeft
    <2> SUFFICES ASSUME IInv, LoopsBegin PROVE TurnsAreLeft
      OBVIOUS
    <2>1. ASSUME NEW r \in Route, ops[r].pc = "compare"
          PROVE  ops[r].count - ops[r].i \in Nat
      BY <2>1 DEF LoopsBegin, IInv, TypeOK, OpsRecord
    <2>2. main.pc = "compare" => main.count - main.i \in Nat
      BY DEF IInv, TypeOK, MainRecord, LoseInBounds
    <2> QED BY <2>1, <2>2 DEF TurnsAreLeft
  <1>3. IInv /\ LoopsBegin /\ Scans /\ [Next]_vars =>
           /\ LoopsBegin' /\ Scans'
           /\ [StagesFall /\ LoopsMoveOn /\ RestsUnlessAsked]_vars
    BY StepStages, LoopsStep, StoppedStep
  <1>4. Scans => StartsAreUsedUp
    BY DEF Scans
  <1> QED BY <1>1, <1>2, <1>3, <1>4, InitIInv, StepIInv, RightStages, PTL DEF Spec
=============================================================================
