--------------------------- MODULE BeaconTracking ---------------------------
(* Which beacons the app knows about: the cache and the lost-beacon timers   *)
(* of every BeaconScanner (BeaconScanner.swift, DispatchTimer.swift) and the *)
(* list availableBeacons that the route screen keeps for trilateration       *)
(* (option1.swift). The scanner of each route runs its callbacks on a queue  *)
(* of its own; lost beacons are reported on the main queue; the list is a    *)
(* global of all of them and has no lock.                                    *)
(*                                                                           *)
(* A step is one access to what the threads share: the cache, the list, or   *)
(* the timer. Swift's arrays are not atomic either: what two accesses that   *)
(* really coincide do to the memory is left out.                             *)
EXTENDS Integers, Sequences, FiniteSets, SequencesExt

CONSTANTS
    Beacon,      \* beacon identifiers
    Route,       \* the routes a user takes, each with its own scanner
    Delayed,     \* those that begin while the radio is off (see ScanControl):
                 \* the start is remembered in shouldBeScanning
    MaxEntries,  \* bound of the model: no beacon is found beyond it
    MaxLate      \* bound of the model: callbacks still queued at stopScan

ASSUME FiniteAssumption ==
    IsFiniteSet(Beacon) /\ IsFiniteSet(Route) /\ Beacon # {} /\ Route # {}
ASSUME DelayedAssumption == Delayed \subseteq Route
ASSUME BoundAssumption == MaxEntries \in Nat /\ MaxLate \in Nat

VARIABLES
    available,   \* availableBeacons: a sequence of entries
    seen,        \* seenEddystoneCache of every scanner: pairs <<route, beacon>>
    timer,       \* the onLostTimer of such a pair
    silent,      \* pairs not heard for onLostTimeout seconds
    ops,         \* what the beacon_operations_queue of every scanner executes
    main,        \* what the main queue executes
    screen,      \* the route shown, or NoRoute for the other screens
    taken,       \* the routes opened so far
    asked,       \* the scanners with a start on their queue or remembered
    scanning,    \* the scanners that are scanning
    late,        \* callbacks a scanner still delivers after its scan has ended
    overlapped,  \* has a handler ever begun while another one was running?
    crash        \* "no", or the Swift runtime trap that ended the app

vars == <<available, seen, timer, silent, ops, main, screen, taken, asked,
          scanning, late, overlapped, crash>>

NoRoute == "none"
Pair == Route \X Beacon
Entry == [id : Beacon, located : BOOLEAN]  \* located: distance is not infinity

(* A local state of a queue: where it is, for which pair, the range the loop *)
(* was given and the index it has reached.                                   *)
At(pc, p) == [pc |-> pc, pair |-> p, count |-> 0, i |-> 1]
OpsPC == {"idle", "range", "compare", "apply", "sort", "locate", "append", "cache"}
MainPC == {"idle", "accept", "range", "compare", "remove", "drop"}
NoPair == CHOOSE p \in Pair : TRUE
Idle == At("idle", NoPair)

Losing == main.pc \in {"range", "compare", "remove", "drop"}
Handling(r) == ops[r].pc # "idle"
Busy == Losing \/ \E r \in Route : Handling(r)

Init ==
    /\ available = <<>>
    /\ seen = {}
    /\ timer = [p \in Pair |-> "none"]
    /\ silent = Pair
    /\ ops = [r \in Route |-> Idle]
    /\ main = Idle
    /\ screen = NoRoute
    /\ taken = {}
    /\ asked = {}
    /\ scanning = {}
    /\ late = [r \in Route |-> 0]
    /\ overlapped = FALSE
    /\ crash = "no"

Trap(why) == crash' = why
Running == crash = "no"

-----------------------------------------------------------------------------
(* The main queue: screens                                                   *)

(* viewDidLoad of the route screen: a new scanner that is asked to scan, then*)
(* accept() blocks the main queue until the wearable connects.               *)
OpenRoute(r) ==
    /\ Running /\ main.pc = "idle"
    /\ screen = NoRoute /\ r \notin taken
    /\ screen' = r
    /\ taken' = taken \cup {r}
    /\ asked' = asked \cup {r}
    /\ main' = At("accept", NoPair)
    /\ UNCHANGED <<available, seen, timer, silent, ops, scanning, late,
                   overlapped, crash>>

Accepted ==
    /\ Running /\ main.pc = "accept"
    /\ main' = Idle
    /\ UNCHANGED <<available, seen, timer, silent, ops, screen, taken, asked,
                   scanning, late, overlapped, crash>>

(* The scans of these end. What CoreBluetooth has put on their queues is     *)
(* still delivered.                                                          *)
ScansEnd(ended) ==
    /\ scanning' = scanning \ ended
    /\ late' \in [Route -> 0..MaxLate]
    /\ \A r \in Route \ (ended \cap scanning) : late'[r] = late[r]

(* stopScanning: shouldBeScanning stays as it is.                            *)
StopScanning(r) == ScansEnd({r})

(* goBack1. The list, the cache and the timers stay.                         *)
GoBack ==
    /\ Running /\ main.pc = "idle"
    /\ screen # NoRoute
    /\ screen' = NoRoute
    /\ StopScanning(screen)
    /\ UNCHANGED <<available, seen, timer, silent, ops, main, taken, asked,
                   overlapped, crash>>

-----------------------------------------------------------------------------
(* A scanner's queue: starts. The radio is external.                         *)

(* startScanningSynchronized with the radio on, called by the block of       *)
(* startScanning, after which nothing is remembered, or, when that block has *)
(* found the radio off, by centralManagerDidUpdateState each time the radio  *)
(* comes on. Either may come after stopScanning.                             *)
StartScan(r) ==
    /\ Running /\ ~Handling(r)
    /\ r \in asked \ scanning
    /\ scanning' = scanning \cup {r}
    /\ late' = [late EXCEPT ![r] = 0]
    /\ asked' = IF r \in Delayed THEN asked ELSE asked \ {r}
    /\ UNCHANGED <<available, seen, timer, silent, ops, main, screen, taken,
                   overlapped, crash>>

RadioOff ==
    /\ Running /\ scanning # {}
    /\ ScansEnd(scanning)
    /\ UNCHANGED <<available, seen, timer, silent, ops, main, screen, taken,
                   asked, overlapped, crash>>

-----------------------------------------------------------------------------
(* A scanner's queue: sightings                                              *)

Goto(r, pc) == ops' = [ops EXCEPT ![r].pc = pc]
Done(r) == ops' = [ops EXCEPT ![r] = Idle]

(* Mutant of Rescheduled: a timer that is about to fire is not reset.        *)
RescheduledIfArmed(p) == timer

(* A sighting of p resets its timer unless the timer has been cancelled.     *)
Rescheduled(p) ==
    IF timer[p] = "cancelled" THEN timer ELSE [timer EXCEPT ![p] = "armed"]

(* didDiscover up to the call of the delegate, and the test of the RSSI in   *)
(* didUpdateBeacon, which may end it at once.                                *)
Discover(r, b) ==
    /\ Running /\ ~Handling(r)
    /\ \/ r \in scanning /\ UNCHANGED late
       \/ /\ r \notin scanning /\ late[r] > 0
          /\ late' = [late EXCEPT ![r] = @ - 1]
    /\ IF <<r, b>> \in seen
       THEN /\ timer' = Rescheduled(<<r, b>>)
            /\ silent' = silent \ {<<r, b>>}
            /\ \/ UNCHANGED ops
               \/ ops' = [ops EXCEPT ![r] = At("range", <<r, b>>)]
       ELSE /\ Len(available) + Cardinality({q \in Route : ops[q].pc = "append"})
                 < MaxEntries
            /\ UNCHANGED timer
            /\ silent' = silent \ {<<r, b>>}
            /\ ops' = [ops EXCEPT ![r] = At("append", <<r, b>>)]
    /\ overlapped' = (overlapped \/ Busy)
    /\ UNCHANGED <<available, seen, main, screen, taken, asked, scanning,
                   crash>>

(* didFindBeacon                                                             *)
Append1(r) ==
    /\ Running /\ ops[r].pc = "append"
    /\ available' = Append(available, [id |-> ops[r].pair[2], located |-> FALSE])
    /\ Goto(r, "cache")
    /\ UNCHANGED <<seen, timer, silent, main, screen, taken, asked, scanning,
                   late, overlapped, crash>>

(* Mutant of Cache: no timer.                                                *)
CacheWithoutTimer(r) ==
    /\ Running /\ ops[r].pc = "cache"
    /\ seen' = seen \cup {ops[r].pair}
    /\ Done(r)
    /\ UNCHANGED <<available, timer, silent, main, screen, taken, asked,
                   scanning, late, overlapped, crash>>

(* The timer starts and the beacon enters the cache.                         *)
Cache(r) ==
    /\ Running /\ ops[r].pc = "cache"
    /\ timer' = [timer EXCEPT ![ops[r].pair] = "armed"]
    /\ seen' = seen \cup {ops[r].pair}
    /\ Done(r)
    /\ UNCHANGED <<available, silent, main, screen, taken, asked, scanning,
                   late, overlapped, crash>>

(* Mutant of UpdateRange: the last entry is left out.                        *)
UpdateRangeShort(r) ==
    /\ Running /\ ops[r].pc = "range"
    /\ ops' = [ops EXCEPT ![r].pc = "compare", ![r].count = Len(available) - 1]
    /\ UNCHANGED <<available, seen, timer, silent, main, screen, taken, asked,
                   scanning, late, overlapped, crash>>

(* didUpdateBeacon: the bounds of the loop; 0...(-1) traps.                  *)
UpdateRange(r) ==
    /\ Running /\ ops[r].pc = "range"
    /\ IF available = <<>>
       THEN Trap("update_empty") /\ UNCHANGED ops
       ELSE /\ ops' = [ops EXCEPT ![r].pc = "compare", ![r].count = Len(available)]
            /\ UNCHANGED crash
    /\ UNCHANGED <<available, seen, timer, silent, main, screen, taken, asked,
                   scanning, late, overlapped>>

(* One turn of the loop: the identifier of the entry at i.                   *)
UpdateCompare(r) ==
    /\ Running /\ ops[r].pc = "compare"
    /\ LET o == ops[r] IN
       IF o.i > Len(available)
       THEN Trap("update_index") /\ UNCHANGED ops
       ELSE /\ UNCHANGED crash
            /\ IF available[o.i].id = o.pair[2] THEN Goto(r, "apply")
               ELSE IF o.i < o.count THEN ops' = [ops EXCEPT ![r].i = @ + 1]
               ELSE Done(r)
    /\ UNCHANGED <<available, seen, timer, silent, main, screen, taken, asked,
                   scanning, late, overlapped>>

(* The reading goes into the window of the entry at i, or a measurement is   *)
(* due (module RssiWindow says when).                                        *)
UpdateApply(r) ==
    /\ Running /\ ops[r].pc = "apply"
    /\ LET o == ops[r] IN
       IF o.i > Len(available)
       THEN Trap("update_index") /\ UNCHANGED <<available, ops>>
       ELSE /\ UNCHANGED crash
            /\ \/ Done(r) /\ UNCHANGED available
               \/ /\ available' = [available EXCEPT ![o.i].located = TRUE]
                  /\ Goto(r, "sort")
    /\ UNCHANGED <<seen, timer, silent, main, screen, taken, asked, scanning,
                   late, overlapped>>

(* Swift's sort is not stable: any order with the located entries in front.  *)
Orders(n) == {p \in [1..n -> 1..n] : \A i, j \in 1..n : p[i] = p[j] => i = j}
LocatedFirst(s) == \A i, j \in 1..Len(s) : i < j /\ s[j].located => s[i].located

(* Mutant of Sort: the largest distance first.                               *)
SortDescending(r) ==
    /\ Running /\ ops[r].pc = "sort"
    /\ \E p \in Orders(Len(available)) :
        /\ available' = [i \in 1..Len(available) |-> available[p[i]]]
        /\ LocatedFirst(Reverse(available'))
    /\ Goto(r, "locate")
    /\ UNCHANGED <<seen, timer, silent, main, screen, taken, asked, scanning,
                   late, overlapped, crash>>

Sort(r) ==
    /\ Running /\ ops[r].pc = "sort"
    /\ \E p \in Orders(Len(available)) :
        /\ available' = [i \in 1..Len(available) |-> available[p[i]]]
        /\ LocatedFirst(available')
    /\ Goto(r, "locate")
    /\ UNCHANGED <<seen, timer, silent, main, screen, taken, asked, scanning,
                   late, overlapped, crash>>

(* trilaterate() reads entry k + 1 only if the first k are located.          *)
ReadsBeyond(s) ==
    Len(s) < 3 /\ \A i \in 1..Len(s) : s[i].located

(* The rest of trilaterate: with three located entries the route may turn    *)
(* out to be complete, and the scanner is stopped.                           *)
Locate(r) ==
    /\ Running /\ ops[r].pc = "locate"
    /\ IF ReadsBeyond(available)
       THEN Trap("too_few") /\ UNCHANGED <<ops, scanning, late>>
       ELSE /\ UNCHANGED crash
            /\ Done(r)
            /\ \/ UNCHANGED <<scanning, late>>
               \/ /\ Len(available) >= 3
                  /\ \A i \in 1..3 : available[i].located
                  /\ StopScanning(r)
    /\ UNCHANGED <<available, seen, timer, silent, main, screen, taken, asked,
                   overlapped>>

-----------------------------------------------------------------------------
(* Lost beacons                                                              *)

(* onLostTimeout seconds pass without a sighting of p. A handler takes far   *)
(* less (the longest sleeps for one second): a timer does not expire between *)
(* being set by a handler and the end of that handler.                       *)
Expire(p) ==
    /\ Running /\ timer[p] = "armed"
    /\ \A r \in Route : Handling(r) => ops[r].pair # p
    /\ timer' = [timer EXCEPT ![p] = "expired"]
    /\ silent' = silent \cup {p}
    /\ UNCHANGED <<available, seen, ops, main, screen, taken, asked, scanning,
                   late, overlapped, crash>>

(* The main queue runs the timer's block, which cancels the timer and looks  *)
(* the beacon up in the cache.                                               *)
Fire(p) ==
    /\ Running /\ main.pc = "idle" /\ timer[p] = "expired"
    /\ timer' = [timer EXCEPT ![p] = "cancelled"]
    /\ main' = IF p \in seen THEN At("range", p) ELSE Idle
    /\ overlapped' = (overlapped \/ Busy)
    /\ UNCHANGED <<available, seen, silent, ops, screen, taken, asked,
                   scanning, late, crash>>

(* didLoseBeacon: the bounds of the loop.                                    *)
LoseRange ==
    /\ Running /\ main.pc = "range"
    /\ IF available = <<>>
       THEN Trap("lose_empty") /\ UNCHANGED main
       ELSE /\ main' = [main EXCEPT !.pc = "compare", !.count = Len(available)]
            /\ UNCHANGED crash
    /\ UNCHANGED <<available, seen, timer, silent, ops, screen, taken, asked,
                   scanning, late, overlapped>>

(* Mutant of LoseCompare: the range 0...count.                               *)
LoseCompareToCount ==
    /\ Running /\ main.pc = "compare"
    /\ IF main.i > Len(available)
       THEN Trap("lose_index") /\ UNCHANGED main
       ELSE /\ UNCHANGED crash
            /\ main' = IF available[main.i].id = main.pair[2]
                       THEN [main EXCEPT !.pc = "remove"]
                       ELSE [main EXCEPT !.i = @ + 1]
    /\ UNCHANGED <<available, seen, timer, silent, ops, screen, taken, asked,
                   scanning, late, overlapped>>

LoseCompare ==
    /\ Running /\ main.pc = "compare"
    /\ IF main.i > Len(available)
       THEN Trap("lose_index") /\ UNCHANGED main
       ELSE /\ UNCHANGED crash
            /\ main' = IF available[main.i].id = main.pair[2]
                       THEN [main EXCEPT !.pc = "remove"]
                       ELSE IF main.i < main.count THEN [main EXCEPT !.i = @ + 1]
                       ELSE [main EXCEPT !.pc = "drop"]
    /\ UNCHANGED <<available, seen, timer, silent, ops, screen, taken, asked,
                   scanning, late, overlapped>>

(* Mutant of LoseRemove: every entry with the identifier.                    *)
LoseRemoveEvery ==
    /\ Running /\ main.pc = "remove"
    /\ available' = SelectSeq(available, LAMBDA e : e.id # main.pair[2])
    /\ main' = [main EXCEPT !.pc = "drop"]
    /\ UNCHANGED <<seen, timer, silent, ops, screen, taken, asked, scanning,
                   late, overlapped, crash>>

LoseRemove ==
    /\ Running /\ main.pc = "remove"
    /\ IF main.i > Len(available)
       THEN Trap("lose_index") /\ UNCHANGED <<available, main>>
       ELSE /\ UNCHANGED crash
            /\ available' = RemoveAt(available, main.i)
            /\ main' = [main EXCEPT !.pc = "drop"]
    /\ UNCHANGED <<seen, timer, silent, ops, screen, taken, asked, scanning,
                   late, overlapped>>

(* Mutant of Drop: the cache keeps the beacon.                               *)
DropTimerOnly ==
    /\ Running /\ main.pc = "drop"
    /\ timer' = [timer EXCEPT ![main.pair] = "none"]
    /\ main' = Idle
    /\ UNCHANGED <<available, seen, silent, ops, screen, taken, asked,
                   scanning, late, overlapped, crash>>

(* The beacon and its timer leave the cache.                                 *)
Drop ==
    /\ Running /\ main.pc = "drop"
    /\ seen' = seen \ {main.pair}
    /\ timer' = [timer EXCEPT ![main.pair] = "none"]
    /\ main' = Idle
    /\ UNCHANGED <<available, silent, ops, screen, taken, asked, scanning,
                   late, overlapped, crash>>

-----------------------------------------------------------------------------
Handler(r) ==
    \/ Append1(r) \/ Cache(r)
    \/ UpdateRange(r) \/ UpdateCompare(r) \/ UpdateApply(r)
    \/ Sort(r) \/ Locate(r)

Lose == LoseRange \/ LoseCompare \/ LoseRemove \/ Drop

Next ==
    \/ \E r \in Route : OpenRoute(r) \/ StartScan(r) \/ Handler(r)
    \/ \E r \in Route, b \in Beacon : Discover(r, b)
    \/ Accepted \/ GoBack \/ RadioOff
    \/ \E p \in Pair : Expire(p) \/ Fire(p)
    \/ Lose

Spec == Init /\ [][Next]_vars

(* Dispatch queues run what was put on them, in order, and time passes. The  *)
(* main queue gets to every expired timer if it is free again and again,     *)
(* hence strong fairness. Nothing forces the user, a beacon or the wearable. *)
Fairness ==
    /\ \A r \in Route : WF_vars(Handler(r))
    /\ WF_vars(Lose)
    /\ \A p \in Pair : WF_vars(Expire(p)) /\ SF_vars(Fire(p))

FairSpec == Spec /\ Fairness

-----------------------------------------------------------------------------
OpsRecord == [pc : OpsPC, pair : Pair, count : Nat, i : Nat \ {0}]
MainRecord == [pc : MainPC, pair : Pair, count : Nat, i : Nat \ {0}]

(* What the threads share, and where each of them is.                        *)
TypeOK ==
    /\ available \in Seq(Entry)
    /\ seen \subseteq Pair
    /\ timer \in [Pair -> {"none", "armed", "expired", "cancelled"}]
    /\ ops \in [Route -> OpsRecord]
    /\ main \in MainRecord

(* The pairs whose beacon the list accounts for: those in the cache and the  *)
(* one appended but not cached yet, without the one removed from the list    *)
(* and still in the cache.                                                   *)
Appended == {ops[r].pair : r \in {q \in Route : ops[q].pc = "cache"}}
Recorded == (seen \cup Appended) \ (IF main.pc = "drop" THEN {main.pair} ELSE {})

(* However the queues interleave, and although didLoseBeacon removes the     *)
(* first entry with the identifier and may miss it while trilaterate sorts,  *)
(* the list has at least as many entries as the caches have beacons.         *)
EntriesCoverSeen == Cardinality(Recorded) =< Len(available)

(* Hence the loop of didLoseBeacon, whose range 0...(count - 1) has no guard *)
(* against an empty list, never traps, although other queues change the list *)
(* while it runs.                                                            *)
LoseNeverTraps == crash \notin {"lose_empty", "lose_index"}

(* The same loop of didUpdateBeacon can trap, but only after the handlers of *)
(* two queues have overlapped: one removed what the other had counted.       *)
UpdateTrapsOnlyByOverlap ==
    crash \in {"update_empty", "update_index"} => overlapped

(* A cached beacon always has a timer that will report it lost, unless that  *)
(* is happening. A timer once cancelled cannot be set again, so a beacon     *)
(* left in the cache with one would stay there, never found nor lost again.  *)
CachedBeaconsCanBeLost ==
    \A p \in seen : \/ timer[p] \in {"armed", "expired"}
                    \/ Losing /\ main.pair = p

(* As long as no two handlers have overlapped, the list holds one entry for  *)
(* every scanner that knows the beacon, and nothing else: sessions that      *)
(* share the list, late callbacks and old timers leave no entry behind.      *)
EntriesOf(b) == {i \in 1..Len(available) : available[i].id = b}
ExactTracking ==
    ~overlapped => \A b \in Beacon :
        Cardinality(EntriesOf(b)) = Cardinality({r \in Route : <<r, b>> \in Recorded})

(* As long as no two handlers have overlapped, a beacon that the scanners of *)
(* two routes know (so that it has two entries) has a distance in at most    *)
(* one of them: trilateration never gets the same beacon twice.              *)
OneDistancePerBeacon ==
    ~overlapped => \A b \in Beacon :
        Cardinality({i \in EntriesOf(b) : available[i].located}) =< 1

(* As long as no two handlers have overlapped, a reading goes to an entry of *)
(* the beacon it was received from, and it does find one.                    *)
ReadingsReachTheirBeacon ==
    /\ \A r \in Route :
         ~overlapped /\ ops[r].pc = "apply"
            => /\ ops[r].i =< Len(available)
               /\ available[ops[r].i].id = ops[r].pair[2]
    /\ \A r \in Route :
         ~overlapped /\ ops[r].pc = "compare"
            => \E i \in ops[r].i..ops[r].count :
                  i =< Len(available) /\ available[i].id = ops[r].pair[2]

(* onLostTimeout is "how long we should go without a beacon sighting before  *)
(* considering it lost": unless a sighting overlaps with the report itself,  *)
(* a beacon that is reported lost was silent for that long, although its     *)
(* timer is set by one queue and runs on another.                            *)
LostMeansSilent == ~overlapped /\ Losing => main.pair \in silent

(* trilaterate reads past the end of a list of one or two entries that are   *)
(* all measured. As long as no two handlers have overlapped it takes more    *)
(* than that: a beacon known to the scanners of two routes prevents it, for  *)
(* the second entry of such a beacon is there and is not measured.           *)
SharedBeaconsPreventTheTrap ==
    crash = "too_few" /\ ~overlapped =>
        \A p, q \in Recorded : p[2] = q[2] => p = q

(* Whenever the scanner of a route is not scanning, all its beacons will be  *)
(* reported lost and forgotten, unless its scan starts (again), the main     *)
(* queue waits for a wearable, or the app has ended.                         *)
StoppedScannersForget ==
    \A r \in Route :
        r \in taken \ scanning
            ~> \/ \A b \in Beacon : <<r, b>> \notin seen
               \/ r \in scanning
               \/ main.pc = "accept" \/ ~Running
=============================================================================
