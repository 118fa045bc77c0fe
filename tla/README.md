# GarmentGuide: specifications, model checking, proofs

GarmentGuide is an iPhone app that leads a person through a building. It scans
for Bluetooth beacons, estimates a place from their signal strengths, searches
a route on a map, and sends the turn and the proximity of the destination over
TCP to a garment. This directory specifies the app (`src/GarmentGuideTEST`) in
TLA+, checks the specifications with TLC on small instances, and proves the
main invariants with TLAPS for all values of the constants.

    tlc -workers 2 -config OneRoute.cfg MCBeaconTracking   # a run; see PROJECT.json
    tlapm RouteSession_proofs.tla                          # a proof module

`PROJECT.json` lists the components, runs, mutants (a plausible bug per
property, which TLC must find), the source lines of every definition, the
findings, the hazards and the theorems.

## 1. Inventory

| Component | State | Operations | Hard because |
|---|---|---|---|
| Signal window (`option1.swift`, `ParsedBeacon`) | 20 readings, which half is replaced and where, mean, distance | `init`, `didUpdateBeacon` | two halves by index arithmetic; integer rounding before outliers are dropped |
| Discovery and loss (`BeaconScanner.swift`, `DispatchTimer.swift`, `option1.swift`) | a cache and timers per scanner; the list `availableBeacons` shared by all | `didDiscover`, timer block, `didFind/Update/LoseBeacon`, `trilaterate` | scanner queue and main queue without a lock; list and timers outlive a route; `accept` blocks the main queue |
| Scan control (`BeaconScanner.swift`) | `shouldBeScanning`, queue | `startScanning`, `stopScanning`, `centralManagerDidUpdateState` | the radio changes at any time, before or after what is queued |
| Priority queue (`SwiftPriorityQueue.swift`) | array | `push`, `pop`, `remove`, `removeAll`, `clear`, `init` | array borders; keys that change while queued |
| Route search (`PathFinding.swift`) | `nodeDict`, node values, `visited`, `zoneNodes` | `createNodes`, `findPath`, `aStar`, `getPath` | globals carry over from call to call |
| Zones (`Zone.swift`) | `zoneDict`, constant once loaded | `createZones`, `findZone` | dictionary order where zones meet |
| Map (`beacon1.json`, `zone.json`, `secondView.swift`) | data | - | does the code answer for *this* map? |
| Heading (`ViewController.swift`, `calculateAngle`) | `orientation`, `correctionAngle` | `didUpdateHeading`, `calculateAngle` | quadrants and wrap-around |
| Trilateration (`Trilateration.swift`, `trilaterate`) | none of its own; the measured list | `trilateration`, `trilaterate` | distances of different times, three roles for three beacons, beacons in a line |
| Route and garment (`option1.swift`, `server.cpp`, `wrapper.cpp`) | socket per route, descriptors, the globals `destination`, `nodeDict`, `initial`, `initial_distance`, `ratios` | `viewDidLoad`, `goBack1`, arrival, `establishConnection`, `sendPackage`, `determineProx`, `closeConnection`, `setInitial` | a one-second sleep holding a socket number; globals shared by routes and threads; a scan that starts after its route was left; a garment that goes away |
| Eddystone frames (`Eddystone.swift`) | none | pure functions | - |
| Menus, unused screens, prototypes, vendored code | - | - | - |

How they interact. The main thread opens the route screen, which loads map and
zones, starts a scanner and waits in `accept`. CoreBluetooth calls
`didDiscover` on the scanner's queue; it calls the delegate, which changes
`availableBeacons` and, after a measurement, calls `trilaterate`: sort, place,
`findPath` (with `findZone`, `aStar`, the heap and `calculateAngle`),
`sendPackage`, and near the destination `setInitial`, `closeConnection`,
`stopScanning`. A timer of the scanner reports a lost beacon on the main
queue. `goBack1` ends a route on the main thread while the handler of the
scanner may be anywhere, and the next route shares its globals.

What makes each correct is in section 3, the hazards are in `PROJECT.json`.

## 2. Modules

| Module | Models | Correspondence |
|---|---|---|
| `SlidingWindow` | what the window promises | a queue of the latest readings, an estimate whenever half of it is new |
| `RssiWindow` | `ParsedBeacon`, `didUpdateBeacon` | `beacon` is the object; `Ignore`, `Fill`, `Store`, `Estimate` are the branches. `Half` is the literal 10. `distance` is the exponent `RSSIm - meanRSSI`, in which the real distance grows; `NearMean` compares squares and so needs no root |
| `BeaconTracking` | discovery and loss | `seen`, `timer` per scanner, `available` the list; `ops[r]` and `main` hold what a queue executes: the next access, the pair, the loop's range and index. One access to shared memory is one step. `asked` says whose scan can still start: `StartScan` is the start block, or, for scanners in `Delayed`, which found the radio off, also each later return of the radio, stopped or not; `RadioOff` ends all scans |
| `ScanControl` | scan control | `tasks` is the queue; `Radio` is external |
| `PriorityQueue`, `HeapClient` | the heap, a client | operators on sequences, recursive functions for the loops; position i of the array is i + 1 |
| `Zones` | `findZone` | the set of results, one for each order of the dictionary |
| `Building` | search and zones together | `PathFinding` with `findZone` as its `FindZone`; what a building must be like for its routes |
| `PathFinding` | `findPath`, `aStar` | one iteration of the loop is one step; `call` is the activation record, `nodeVars` what the nodes store; uses `PriorityQueue` with the values of f of the moment |
| `EABA` | the data files | nodes in file order, zones, destinations |
| `MCEABA` | the building the app is for | composes `Building` and `EABA`; its assumptions, which TLC evaluates, say that this map has no cycles and this building lacks nothing |
| `Heading` | `calculateAngle`, the compass | whole degrees, sixteen directions and the zero vector |
| `Trilateration` | `trilateration` | the location as a fraction, see below |
| `Guidance` | `trilaterate`, from measured beacons to the turn | composes `Heading` and `Trilateration` with the list; the user walks and turns, beacons are found, lost and measured one at a time; `next` is the first node of the path, any of `Node` |
| `RouteSession` | screen, handlers, server | `main` and `handler[r]` hold what a thread executes; `open` the descriptor table with the state of each connection; every store to a global of `server.cpp` is a step; `astray` marks a handler whose way is not that of its route; composes `ScanControl` (routes in `Delayed`) and the reload of the map with the route |
| `*_proofs` | theorems | section 5 |
| `MC*` | constants of the runs | |

Choices a reader should know:

- *Races.* Swift arrays and C++ globals are used from several threads without a
  lock. An access is one step; what the hardware does when two coincide is left
  out. In `determineProx` the compiled code may use the parameter or read
  `initial_distance` again, and the model allows both.
- *Bounds* are in the guards of actions of the environment (`MaxEntries`,
  `MaxLate`, `MaxTasks`, `MaxPending`, `MaxRoutes`, `Capacity`): beyond them
  nothing new arrives. No bound limits what the code does with what arrived.
- `strayed`, `markedBy`, `astray`, `last`, `overlapped`, `silent`, `cut`, `ended`
  are history: the code does not have them, only properties read them.
- Where another order can make no difference, accesses are one step: the
  shutdown and `stopScanning` of `goBack1` are, `setInitial` before them is a
  step of its own. In `Guidance` a measurement, the sort and the call of
  `findPath` are one step: the races on the list are those of `BeaconTracking`.
- `BeaconTracking` takes the timeout to be longer than a handler (15 s
  against one second of sleep), so a timer a handler has just set does not
  expire before that handler ends.
- `RouteSession` leaves open whether a discovery leads to a packet and whether
  the user is near the destination; other modules say when. A scan that was
  asked for while the radio was off (`Delayed`, here and in `BeaconTracking`)
  starts whenever the radio comes on, before or after `stopScanning`: that is
  what the run `stop_means_stopped` finds `ScanControl` to do.
- `ChooseDestination` changes the destination and reloads the map. A handler
  that searches meanwhile, or starts before the map is whole, or for a route
  that is not the one chosen last, is `astray`: which path it finds is left
  out, only whether its packet reaches a garment matters.
- `GarmentLeaves` ends the garment's side of a connection; the next packets are
  lost without notice or raise SIGPIPE, as the network has it.
- In `Trilateration` places are points of a grid and distances come squared, so
  that every root of the code cancels and a location is a fraction with one
  denominator. The code's numbers are floating point. For three beacons in a
  line the denominator is zero: parallel to an axis every operation of the code
  is exact and it gets NaN, which it tests; in an oblique line rounding decides,
  and the model allows any place. Among the thirty beacons of the app's
  table, every three in a line are parallel to an axis.
- In `Guidance` the vectors are those of `Heading`; nodes for which it has no
  direction are not chosen.
- `shutdown` is not `close`: descriptors stay taken. `send` on a connection
  shut down raises SIGPIPE, which the app does not handle, and ends it. A
  division by zero ends it or yields zero, depending on the processor.
- In `Heading` positive angles are turns to the right, as the arrow of
  `option1` shows them, and the map's axis y points so that angles of the map
  grow against the compass, as the code's formula for `temp` has it.

## 3. Runs

Passing runs (states are distinct states):

| Run | Shows | Bounds and why they are enough |
|---|---|---|
| `rssi_window` | a measurement keeps more than 5/9 of the window and lies between its extremes; the unchecked first reading is gone by the second measurement; the ring implements `SlidingWindow`, so every index is in range (203 thousand states) | halves of 3 with 6 strengths on every side of both thresholds: the index arithmetic is the same for every half, and outliers need a few equal readings and one far away |
| `one_route` | races on the list: it never gets shorter than the caches, so `didLoseBeacon` never traps; `didUpdateBeacon` can, but only by an overlap; no cached beacon is stuck; without an overlap a reading reaches an entry of its beacon (5.4 million) | 3 beacons, the least that trilaterate; 4 entries; symmetric beacons; no late callbacks, since the scan can start again after `stopScanning` and then delivers more than those would |
| `two_routes` | without overlapping handlers the list is exact, a beacon has one distance, one reported lost was silent, and a beacon that both scanners know keeps `trilaterate` within the list; a scanner that does not scan forgets its beacons, unless its scan starts again or `accept` blocks the main queue (131 thousand) | 2 scanners, one of which the radio can start again, and the beacon both know, whose entries they may mistake for each other's; a third scanner meets a list like the second does, and beacons are told apart in `one_route` |
| `scan_control` | a start is not forgotten, except by a radio that was on when the scan began and went off; with fairness it starts (170) | 4 tasks: one start and three changes of the radio |
| `heap_client` | heap order, contents, and least element after every operation (4 245) | equal elements and equal keys, arrays with nodes of two, one and no children |
| `path_finding` | searches are independent, costs fall along parents, an answer is a route that visits no node twice and is reported to be at least as long as it is, one is found exactly if it exists, every call ends (116 thousand) | all 1 024 graphs on 5 nodes, sequences of calls of any length to two goals, from a zone with two starts, from one of them, and from outside |
| `eaba` | the shipped map: away from borders every zone is found; every place in a zone has an answer, the answer is optimal, its distance right, pops are least (711 thousand) | one place for each set of zones around a user; `PlacesCoverZones` in `MCEABA`, evaluated by TLC, says that none is missing |
| `guidance` | who turns by the angle faces the node, outside the third quadrant; the location has the same power for the three circles, whatever the distances; from exact distances the turn leads from the user's very place to the next node; the nearest beacons are used (210 thousand) | four beacons of the table, three of them in a line, and one that is not in it, which the code takes to be at the origin; at most 4 in reach, one more than are used; two places to walk between; headings on and beside 45 and beyond 180 |
| `route_session` | a packet reaches its own client or nobody, and says the way to that client's destination on a whole map; a baseline is the current route's; a level has one digit; a signal can only hit a route that has ended or whose garment has gone; no route costs more than two descriptors; a route that is left falls silent (2.4 million) | two routes: a handler of the one against the other; the first with a scan that may start at any time; four descriptors, just enough for two routes, so that the last accept must find the last one; that accept fails is a branch of its own, and more routes than descriptors are the theorem's; distances with fifth 0 and with levels 0 and 9 |

Runs that must find a violation, each a sentence of the repository that the
code does not keep (`findings` quotes them):

| Run | What TLC finds |
|---|---|
| `stop_means_stopped` | `stopScanning` leaves `shouldBeScanning` set: the start found the radio off, the radio came on and the scan ran, it was stopped with nothing left on the queue, and radio off and on restarts it |
| `node_route_is_found` | at a node of the map the stale zone hides the destination |
| `faces_the_node` | wrong angle in the third quadrant |

Other divergences met while modelling, which the models show and the passing
properties are worded around:

- Costs are squared distances, so the estimate is not admissible, and f of
  queued nodes is lowered in place, so the heap can get out of order. On some
  maps of five nodes `PathIsOptimal` and `PopsTheLeast` fail. They hold on every
  map without cycles (section 5), and the shipped map is one: `MapIsAForest` in
  `MCEABA`, besides the run `eaba`. Nothing in the code asks for that, and one
  more corridor in the data file can undo it.
- The search may improve a node after it added up the cost of a later one, so
  the distance reported can be more than the path costs: on some maps of seven
  nodes `DistanceIsThatOfThePath` fails. It is never less (`AnswerIsARoute`),
  and without cycles never more.
- On a border of two zones `findZone` may miss one of them; hence
  `FindsEveryZoneOffBorders` (the answer exists on borders as well,
  `EveryPlaceHasARoute`).
- At a node the angle is computed towards the node itself (`First(path)` is
  the start), not towards the next one.
- A discovery queued before the arrival computes and sends one more packet on
  a socket that is shut down, and SIGPIPE ends the app; hence
  `SignalOnlyAfterTheEnd`.
- A measurement with fewer than three beacons known, all of them measured,
  indexes past the list (the trap `too_few` of `BeaconTracking`, `index` of
  `Guidance`), and `didUpdateBeacon` can do so when a lost beacon is removed
  meanwhile.
- A beacon that is not in the table takes part in trilateration with the place
  of the origin; hence `Known` in `FacesTheNextNode`.
- A handler that reads `destination` before the buttons change it, or searches
  while the map is reloaded, computes a packet for the wrong destination; it is
  harmless only because the connection has been shut down by then
  (`OwnDestination`).
- A handler of a route that was left may write the baseline at the same time as
  one of the next route (`strayed`). The baseline is then mixed from two routes,
  and a level may have two digits: `BaselineOfTheRoute` and `LevelIsADigit`
  exclude these states and do not cover that race.
- A scan that was running when the radio went off is not resumed (`cut` in
  `ScanControl`), unless the start had found the radio off: then it is, even
  after `stopScanning`, and the scanner takes up its beacons again (hence the
  exception in `StoppedScannersForget`).

Deadlock is checked except in the runs of `BeaconTracking`, `Guidance` and
`RouteSession`, where the app may end by a trap or a signal, or every route has
been used and nothing is left to happen.

Type invariants are not among the runs' properties: those of `BeaconTracking`,
`PathFinding`, `RssiWindow`, `ScanControl` and `RouteSession` are proved.

## 4. Fairness

Dispatch queues run what was put on them: weak fairness of `Handler`, `Lose`,
`StartTask \/ StateTask`, `Scanner(r)`; `goBack1` runs to its end; `aStar` is a
loop on one thread (`Search`). Time passes: weak fairness of `Expire`. The main
queue gets to an expired timer if it is free again and again: strong fairness
of `Fire`, since handlers of other timers come between. Nothing is assumed of
the user, the radio, beacons or the garment; hence the exceptions in
`StoppedScannersForget` (a scan that starts, or starts again; a garment that
does not connect) and `StartLeadsToScan` (a scan that the radio cut), and in `LeftRoutesFallSilent`
the condition that the radio stops starting a delayed scan.

## 5. Proofs

Assumptions are the named ones on constants in each module: finite sets,
bounds in Nat, a finite map that connects no node to itself nor twice to another
and has no node at the coordinates that mean "not found", goals and places with
coordinates, a heap client with a capacity, rectangular zones, and that
`FindZone` is `findZone` (`Building`). TLC evaluates them on every run.

What holds of some maps only is proved from a hypothesis about the map itself
(`IsForest`, `OverlapsAreListed`, `ZonesHaveNodes`, `GoalsAreReached`), and that
the shipped building meets it is evaluated by TLC (`MapIsAForest`,
`BuildingIsComplete` in `MCEABA`). Both fail when a corridor, a zone's node or an
entry of an overlap list is changed accordingly.

Recursion and induction. The library states both for operators, which the
provers cannot instantiate, so `PriorityQueue_proofs` begins with its own
versions about sets and functions, from the theorem that the order of the
natural numbers is well founded: a set of naturals that has 0 and successors is
Nat (`SetInduction`), a recursion along which a measure falls has a solution
(`RecursionExists`), a loop that keeps an invariant ends in a state of it
(`LoopResult`), and what a finite set inherits from its subsets with one element
less holds (`SubsetInduction`). All recursive definitions of the models are
functions, and the sums (`MapThenSumSet`) are shown to be additive in any order
(`TotalWithout`) before anything is said about them.

- `BeaconTracking_proofs!ListCoversCaches`: `EntriesCoverSeen`,
  `LoseNeverTraps`, `CachedBeaconsCanBeLost` for all beacons and routes. The
  counting invariant is not inductive alone: one must know that a pair being
  appended is not cached, that `main.pc = "drop"` comes after an entry was
  taken out and its pair is still cached, that loop indices stay within the
  list, which grows or stays while `didLoseBeacon` counts, and the state of the
  timer in each phase. The count itself follows from three lemmas on
  cardinalities.
- `ScanControl_proofs!StartRemembered`: `TypeOK` and `StartIsNotForgotten` for a queue of any length; by lemmas on what `Head`,
  `Tail` and `Append` do to the tasks that wait. Its `TypeOK` is proved and
  needs no run.
- `PathFinding_proofs!SearchesAreIndependent`: `VisitedCoversDirty` and
  `ParentsAreCheaper` for all maps, zones and calls. A node's cost only falls
  during a search and is zero when it is not visited; the start has cost zero
  and no cheaper way to itself exists, so it keeps no parent. The heap enters
  this part only by the node `Pop` returns.
- `PathFinding_proofs`, the answers: `AnswersAreRoutes`, `ZoneRoutesAreFound`,
  `NodeRoutesAvoidLastZone`. `RouteInv` says that a node with a parent was
  reached along a connection from a node that is not given up, the start alone
  having none; that a visited node that is neither queued nor given up has only
  visited neighbors and is not the goal; and what is known of the starts that
  were tried. `getPath` follows falling costs, so it ends, at the start
  (`PathFollowsLinks`). When the heap is empty the visited nodes are closed
  under connections (`ExhaustedCutsOff`), and `Reachable` is the least such set
  (`ReachableIsLeast`), so nothing was missed. From a zone each search avoids
  the other starts, but the last zone node on any route is a start itself
  (`ZoneIsCutOff`). `CostInv` carries the cost of the best path: along the
  parents costs fall by the length of each connection at least
  (`CostCoversPath`), so no node comes twice and the distance reported is not
  less than the path's.
- `PathFinding_proofs!SearchesComeToAnEnd`: what liveness needs besides
  fairness, on every map. A node can be expanded again whenever a cheaper way to
  it turns up, but its cost is a sum of no more connections than there are
  visited nodes (`CostsAreBounded`); so the sum over all nodes of their costs,
  an unvisited one counting more than any visited, falls by what the heap grows,
  and with the pop the measure `Inner` falls in every iteration. `Outer` counts
  the searches to come. Both are natural numbers, and `GoesOn` says that there
  is always a next step. `FindPathReturnsAtLast` follows by fairness, which is
  the part that TLC checks.
- `PathFinding_proofs`, maps without cycles: `RoutesAreOptimalOnForests`,
  `DistancesAreExactOnForests`, `LeastNodesArePoppedOnForests`, for all zones,
  starts and sequences of calls. `IsForest` says that every connection is a
  bridge: some set of nodes has one end of it, and no other connection leads out
  or in. A search that has linked n to its parent came across that bridge, so
  what it finds behind n is new to it (`NeighborIsNew`): a node visited is never
  improved, no cost drops while its node is queued and the heap stays in order.
  That a cost is least is shown by a potential (`CostsAreLeast`): the length of
  the path found to the far side of every bridge that was crossed bounds any
  other walk there (`WalkRound`, `CheapestIsBounded`). `ForestInv` carries this;
  by itself none of its parts is inductive. `OnlyDroppedKeysDisorder` needs no
  forest: a heap in order yields the least node, and the order is only lost
  where an expansion lowers the cost of a node that is queued.
- `PathFinding_proofs`, zones: `EveryZoneIsFoundOffBorders` (two zones around a
  place on no border share more than a border, so they list each other, and it
  does not matter which one is found first) and `EveryPlaceIsAnswered` (from a
  node of a zone the steps to the goal fall, so `GoalsAreReached` makes the goal
  reachable, and `ZoneRoutesAreFound` does the rest).
- `PriorityQueue_proofs` and `HeapClient_proofs`: `HeapStaysOrdered`,
  `HeapKeepsItsContent`, `PopReturnsTheLeast`, for all elements, orders and
  capacities. The loops swap, so no element is lost (`SwimCopies`,
  `SinkCopies`); swim keeps the heap in order but for the moving element and its
  parent, sink but for the element and its children (`OrderedBelow`,
  `OrderedAbove`), and a removal from the middle, which can be out of order
  both ways, is repaired by whichever of the two moves (`ReplaceOrders`). The
  construction sinks from the middle down (`FromValuesMakesHeap`).
- `BeaconTracking_proofs`, second part: `ExactTracking`, `OneDistancePerBeacon`,
  `ReadingsReachTheirBeacon`, `UpdateTrapsOnlyByOverlap` and `LostMeansSilent`,
  for all beacons and routes. They say what holds as long as no two handlers
  have overlapped, so the invariant `SInv` is an implication from `~overlapped`:
  one handler at a time, the entry an update or a loss looks for is still ahead
  of the loop, the list is exact up to the pair in progress, a beacon has one
  measured entry, and measured entries stand before the others except while a
  reading has just been applied. Without the last two, an update could reach the
  second entry of a beacon and measure it, too. Counting needs the lemmas on
  what append, remove and sort do to the entries of one beacon.
  `SharedBeaconsAreSafe` follows from the same invariant: of the two entries of
  a beacon that two scanners know one is not measured, and `trilaterate` stops
  at it.
- `RouteSession_proofs`, for any number of routes, descriptors, distances and
  late scans: `TypeCorrect`; `PacketsReachTheirOwnClient`, by `OwnDescriptors`
  (an open socket or held `fd` belongs to its route, because no descriptor is
  ever closed); `BaselineIsNotInherited`, by one route being current at a time
  and `initial` being false from `goBack1` to the next first mark;
  `PacketsSayTheirOwnWay`: a handler is only `astray` when its route has been
  left, and `goBack1` shuts a connection down before there is a menu;
  `OneDigitIsEnough`: a baseline that one handler stored has `ratios` equal to
  its fifth, and what is left of it is less than ten fifths unless the fifth is
  zero; `NoSignalUnderWay`: only a route that ended is shut down;
  `TwoDescriptorsPerRoute`: the descriptors open and those the route under way
  has still to open (`ToOpen`) are at most two for each route so far, as each
  `Open` takes one at most.
- `RssiWindow_proofs`: `TheRingIsAQueue` is the refinement `ImplementsQueue`
  for every size of the halves: the initial states map to initial states,
  `Fill` appends, `Store` replaces the oldest reading, `Estimate` reports, and
  everything else stutters. Also `WeakReadingIsOverwritten` (the weak reading
  can only be the first, and the first half is replaced first) and
  `IndicesAreInRange`.
- `RssiWindow_proofs!MeasurementsAreSound`, for every size of the halves and all
  readings: were 4/9 of the window at least 1.5 deviations away from the mean,
  their squares alone would come to more than the sum of all squares that the
  deviation was computed from (`MostAreNear`, Chebyshev's argument with the
  code's rounding to integers), so the code never divides by zero; and a mean of
  kept readings is between the least and the greatest (`MeanBetween`).
- `Guidance_proofs`, for all tables of beacons, places and nodes:
  `LocationIsCommonToTheCircles` (an identity of polynomials),
  `ExactDistancesLeadToTheNode` (for exact distances the fraction is the place
  itself, truncation does not move it, and the turn does the rest),
  `TurnsAreRight`, `TheNearestAreUsed`, `AnglesHaveThreeDigits`.
- The other liveness properties. As `SearchesComeToAnEnd` does for the search,
  three theorems prove what is left of them when fairness is set aside: nothing
  goes back, every step of the queue in question brings a natural number down,
  and at zero the property holds. `StartComesCloser` counts the tasks in front
  of the one that starts the scan. `LeftRoutesComeToAnEnd` counts what a queue
  has before it, eight for a discovery that waits and at most seven for the one
  being handled; that a left route stops scanning needs `ScreenIsNotLeft`. In
  `StoppedScannersComeToRest` each pair of a scanner that does not scan has a
  stage on its way out of the cache, which only a discovery that was still
  queued can undo, and the loops over the shared list end because they count to
  a bound read once (`LoopsBegin`). It does not say that a stopped scanner stays
  stopped: it scans again if a start is still asked for, which can be so for
  ever of a scanner in `Delayed`, while the start of another is gone once it
  scans (`StartsAreUsedUp`, `RestsUnlessAsked`).
- Corollaries under names of their own: `LosingNeverTraps`,
  `CachedBeaconsHaveTimers`, `CostsFallAlongParents`.

Every invariant and action property of a passing run is stated by a theorem.
Only model-checked are the four properties under fairness, which the prover
cannot treat (`StoppedScannersForget`, `StartLeadsToScan`,
`FindPathReturnsAtLast`, `LeftRoutesFallSilent`); of each of them the part
without fairness is proved, as said above. That the shipped map and building
meet the hypotheses on maps is evaluated by TLC, not proved.

## 6. Not modelled

Eddystone frame parsing, which keeps no state but the telemetry that the route
screen never reads, and URL frames, which it ignores; menus, colours and the
rotating arrow; screens that are not compiled (`scannerView.swift`,
`Utilities.swift`); the prototypes `test_cpp_bridge`, `FrontEndJSONTest` and
`shedskin`; the vendored Google demo under `ios/` and the Python headers, which
are most of the lines of the repository and no part of the app. In
`RouteSession` old listeners on the port do not take connections from new ones:
which of them the kernel chooses is not in this code.

## 7. Plan

Done, in the order of importance: tracking of beacons, search, session, window,
scan control, heading; then the session's shared destination and map, late
scans and leaving garments, trilateration and the way from beacons to the turn;
proofs of the safety properties of all of these, and of what liveness needs
besides fairness. What is left:

1. Listeners of one port and their backlogs in `RouteSession`.
2. An abstract specification of the list (the beacons in range) that
   `BeaconTracking` implements as long as handlers do not overlap.
