---------------------------- MODULE RouteSession ----------------------------
(* A route from its screen (option1.swift) to the garment (server.cpp): the  *)
(* main thread opens the screen, waits for the garment and goes back; each   *)
(* screen has a scanner whose queue handles discoveries one by one and sends *)
(* packets; the destination, the map and the baseline of the proximity are   *)
(* globals they all share. What a discovery does before the packet, and      *)
(* whether there is one at all, is the subject of other modules.             *)
EXTENDS Integers, FiniteSets

CONSTANTS
    MaxRoutes,        \* bound of the model: routes in one run of the app
    MaxPending,       \* bound of the model: discoveries waiting on a queue
    MaxDescriptors,   \* descriptors the process may have open
    Distances,        \* distances findPath can return
    Delayed           \* routes that begin while the radio is off: their scanner
                      \* starts whenever it comes on (see StopMeansStopped of
                      \* ScanControl), even after it was stopped

ASSUME BoundsAssumption ==
    MaxRoutes \in Nat \ {0} /\ MaxPending \in Nat \ {0} /\ MaxDescriptors \in Nat \ {0}
ASSUME DistancesAssumption == Distances \subseteq Nat
ASSUME DelayedAssumption == Delayed \subseteq 1..MaxRoutes

Route == 1..MaxRoutes
Descriptor == 1..MaxDescriptors
Stdin == 0          \* the value of socket before establishConnection returns
Failed == -1

VARIABLES
    main,             \* the main thread: "menu", "load", "accept", "shown", "close"
    route,            \* the last route begun, whose destination is in the global
    socket,           \* per route: option1's socket
    open,             \* open descriptors: [route, kind, end]; the end of a
                      \* connection is "open", "shut" by this process, or "gone"
    scanning,         \* per route: its scanner scans
    pending,          \* per route: discoveries waiting on the scanner's queue
    handler,          \* per route: the discovery being handled
    initial, initial_distance, ratios,      \* the globals of server.cpp
    complete,         \* routes whose arrival has been announced
    left,             \* routes the user has begun to leave
    strayed,          \* a handler of such a route has touched the globals
    markedBy,         \* until then: the route that stored initial_distance
    killed            \* the signal that ended the app

baselineVars == <<initial, initial_distance, ratios, strayed, markedBy>>
vars == <<main, route, socket, open, scanning, pending, handler, initial,
          initial_distance, ratios, complete, left, strayed, markedBy, killed>>

(* pc: the next step of the handler; fd: the socket sendPackage was given;   *)
(* astray: the way it says is to the destination of another route or was     *)
(* looked for while the map was not whole.                                   *)
Idle == [pc |-> "idle", astray |-> FALSE, distance |-> 0, closeness |-> 0, prox |-> 0,
         fd |-> Stdin]

(* determineProx has its result: what it was computed from is forgotten.     *)
Level(handling, prox) ==
    [handling EXCEPT !.pc = "send", !.prox = prox, !.distance = 0, !.closeness = 0]

Init ==
    /\ main = "menu" /\ route = 0
    /\ socket = [r \in Route |-> Stdin]
    /\ open = [d \in {} |-> Idle]
    /\ scanning = [r \in Route |-> FALSE]
    /\ pending = [r \in Route |-> 0]
    /\ handler = [r \in Route |-> Idle]
    /\ initial = FALSE /\ initial_distance = 0 /\ ratios = 0
    /\ complete = {} /\ left = {}
    /\ strayed = FALSE /\ markedBy = 0
    /\ killed = "no"

Running == killed = "no"

(* The kernel gives out the lowest descriptor that is free, if there is one. *)
Free == Descriptor \ DOMAIN open
Lowest == {d \in Free : \A e \in Free : d =< e}
Open(descriptor) ==
    [d \in DOMAIN open \cup Lowest |-> IF d \in Lowest THEN descriptor ELSE open[d]]

(* A connection, and one whose two sides are both there.                     *)
Connection(fd) == fd \in DOMAIN open /\ open[fd].kind = "connection"
Connected(fd) == Connection(fd) /\ open[fd].end = "open"

-----------------------------------------------------------------------------
(* A button of the menu sets destination and opens the screen, whose         *)
(* createNodes and createZones clear the map and read it anew, under the     *)
(* feet of a search that is still running.                                   *)
ChooseDestination ==
    /\ Running /\ main = "menu" /\ route < MaxRoutes
    /\ route' = route + 1
    /\ handler' = [r \in Route |-> IF handler[r].pc = "search"
                                  THEN [handler[r] EXCEPT !.astray = TRUE] ELSE handler[r]]
    /\ main' = "load"
    /\ UNCHANGED <<socket, open, scanning, pending, baselineVars, complete, left, killed>>

(* The rest of viewDidLoad up to accept: the scan starts before there is a   *)
(* connection. The listening descriptor is that of a temporary object and is *)
(* never closed.                                                             *)
ViewDidLoad ==
    /\ Running /\ main = "load"
    /\ scanning' = [scanning EXCEPT ![route] = route \notin Delayed]
    /\ open' = Open([route |-> route, kind |-> "listener", end |-> "open"])
    /\ main' = "accept"
    /\ UNCHANGED <<route, socket, pending, handler, baselineVars, complete, left, killed>>

(* Mutant of Accept: a connection that fails is tried again, on a socket of  *)
(* its own.                                                                  *)
AcceptRetries ==
    /\ Running /\ main = "accept"
    /\ \/ /\ open' = Open([route |-> route, kind |-> "listener", end |-> "open"])
          /\ UNCHANGED <<main, socket>>
       \/ /\ \E d \in DOMAIN open : open[d].kind = "listener" /\ open[d].route = route
          /\ \E fd \in Lowest : socket' = [socket EXCEPT ![route] = fd]
          /\ open' = Open([route |-> route, kind |-> "connection", end |-> "open"])
          /\ main' = "shown"
    /\ UNCHANGED <<route, scanning, pending, handler, baselineVars, complete, left, killed>>

(* accept can fail for reasons of the network; it does without a listener,    *)
(* and when no descriptor is left. The screen is shown all the same.         *)
Accept ==
    /\ Running /\ main = "accept"
    /\ main' = "shown"
    /\ \/ socket' = [socket EXCEPT ![route] = Failed] /\ UNCHANGED open
       \/ /\ \E d \in DOMAIN open : open[d].kind = "listener" /\ open[d].route = route
          /\ \E fd \in Lowest : socket' = [socket EXCEPT ![route] = fd]
          /\ open' = Open([route |-> route, kind |-> "connection", end |-> "open"])
    /\ UNCHANGED <<route, scanning, pending, handler, baselineVars, complete, left, killed>>

(* Mutant of ShutDown: both descriptors of the route are closed.             *)
CloseBoth(fd) ==
    open' = [d \in {e \in DOMAIN open : fd \in DOMAIN open => open[e].route # open[fd].route}
               |-> open[d]]

(* Mutant of ShutDown: it shuts down whatever connection is up.              *)
ShutDownAll(fd) ==
    open' = [d \in DOMAIN open |->
               IF fd # Failed /\ Connection(d)
               THEN [open[d] EXCEPT !.end = "shut"] ELSE open[d]]

(* closeConnection only shuts the connection down.                           *)
ShutDown(fd) ==
    open' = [d \in DOMAIN open |->
               IF d = fd /\ Connection(d)
               THEN [open[d] EXCEPT !.end = "shut"] ELSE open[d]]

(* Mutant of GoBack: without setInitial.                                     *)
GoBackWithBaseline ==
    /\ Running /\ main = "shown"
    /\ main' = "close"
    /\ left' = left \cup {route}
    /\ UNCHANGED <<route, socket, open, scanning, pending, handler, baselineVars,
                   complete, killed>>

(* goBack1: setInitial, closeConnection, stopScanning, on the main thread.   *)
GoBack ==
    /\ Running /\ main = "shown"
    /\ main' = "close"
    /\ left' = left \cup {route}
    /\ initial' = FALSE
    /\ UNCHANGED <<route, socket, open, scanning, pending, handler, initial_distance,
                   ratios, complete, strayed, markedBy, killed>>

(* Mutants of GoBackEnds: without closeConnection, and without stopScanning. *)
GoBackKeepsOpen ==
    /\ Running /\ main = "close"
    /\ main' = "menu"
    /\ scanning' = [scanning EXCEPT ![route] = FALSE]
    /\ UNCHANGED <<route, socket, open, pending, handler, baselineVars, complete,
                   left, killed>>

GoBackScans ==
    /\ Running /\ main = "close"
    /\ main' = "menu"
    /\ ShutDown(socket[route])
    /\ UNCHANGED <<route, socket, scanning, pending, handler, baselineVars, complete, left, killed>>

(* A discovery between the two calls is one before the first.                *)
GoBackEnds ==
    /\ Running /\ main = "close"
    /\ main' = "menu"
    /\ ShutDown(socket[route])
    /\ scanning' = [scanning EXCEPT ![route] = FALSE]
    /\ UNCHANGED <<route, socket, pending, handler, baselineVars, complete, left,
                   killed>>

-----------------------------------------------------------------------------
(* External: the garment closes its side, is switched off or out of reach.   *)
GarmentLeaves(d) ==
    /\ Running /\ Connected(d)
    /\ open' = [open EXCEPT ![d].end = "gone"]
    /\ UNCHANGED <<main, route, socket, scanning, pending, handler, baselineVars, complete, left, killed>>

(* External: the radio comes on for the scanner of a delayed route.          *)
DelayedStart(r) ==
    /\ Running /\ r \in Delayed /\ ~scanning[r]
    /\ r < route \/ (r = route /\ main # "load")
    /\ scanning' = [scanning EXCEPT ![r] = TRUE]
    /\ UNCHANGED <<main, route, socket, open, pending, handler, baselineVars, complete, left, killed>>

(* External: CoreBluetooth puts a discovery on the scanner's queue; what is  *)
(* queued when the scan stops is still handled.                              *)
Discover(r) ==
    /\ Running /\ scanning[r] /\ pending[r] < MaxPending
    /\ pending' = [pending EXCEPT ![r] = @ + 1]
    /\ UNCHANGED <<main, route, socket, open, scanning, handler, baselineVars, complete, left, killed>>

(* A discovery that leads to no packet.                                      *)
HandleQuietly(r) ==
    /\ Running /\ handler[r].pc = "idle" /\ pending[r] > 0
    /\ pending' = [pending EXCEPT ![r] = @ - 1]
    /\ UNCHANGED <<main, route, socket, open, scanning, handler, baselineVars, complete, left, killed>>

(* One that does: trilaterate reads destination and calls findPath.          *)
Handle(r) ==
    /\ Running /\ handler[r].pc = "idle" /\ pending[r] > 0
    /\ pending' = [pending EXCEPT ![r] = @ - 1]
    /\ handler' = [handler EXCEPT ![r] =
                     [Idle EXCEPT !.pc = "search", !.astray = (route # r \/ main = "load")]]
    /\ UNCHANGED <<main, route, socket, open, scanning, baselineVars, complete,
                   left, killed>>

(* With the path it has found it calls sendPackage, and determineProx looks  *)
(* for the baseline.                                                         *)
Searched(r) ==
    /\ Running /\ handler[r].pc = "search"
    /\ \E distance \in Distances :
          handler' = [handler EXCEPT ![r].pc = IF initial THEN "compare" ELSE "distance",
                                     ![r].distance = distance, ![r].fd = socket[r]]
    /\ UNCHANGED <<main, route, socket, open, scanning, pending, baselineVars, complete, left, killed>>

(* The globals are written by r, which stored initial_distance if it is n.   *)
Mark(r, n) ==
    /\ strayed' = (strayed \/ r \in left)
    /\ markedBy' = IF strayed' THEN 0 ELSE n

(* The three assignments of determineProx. No lock protects the globals: the *)
(* compiled code may use the parameter or read the global again.             *)
StoreDistance(r) ==
    /\ Running /\ handler[r].pc = "distance"
    /\ initial_distance' = handler[r].distance
    /\ Mark(r, r)
    /\ handler' = [handler EXCEPT ![r].pc = "ratios"]
    /\ UNCHANGED <<main, route, socket, open, scanning, pending, initial, ratios, complete, left, killed>>

StoreRatios(r) ==
    /\ Running /\ handler[r].pc = "ratios"
    /\ \E d \in {handler[r].distance, initial_distance} : ratios' = d \div 5
    /\ Mark(r, markedBy)
    /\ handler' = [handler EXCEPT ![r].pc = "initial", ![r].distance = 0]
    /\ UNCHANGED <<main, route, socket, open, scanning, pending, initial,
                   initial_distance, complete, left, killed>>

StoreInitial(r) ==
    /\ Running /\ handler[r].pc = "initial"
    /\ initial' = TRUE
    /\ Mark(r, markedBy)
    /\ handler' = [handler EXCEPT ![r] = Level(@, 0)]
    /\ UNCHANGED <<main, route, socket, open, scanning, pending, initial_distance,
                   ratios, complete, left, killed>>

(* determineProx with a baseline: not nearer than it, or nearer.             *)
Compare(r) ==
    /\ Running /\ handler[r].pc = "compare"
    /\ LET distance == handler[r].distance IN
       handler' = IF distance > initial_distance
                  THEN [handler EXCEPT ![r] = Level(@, 0)]
                  ELSE [handler EXCEPT ![r].pc = "divide",
                                       ![r].closeness = initial_distance - distance]
    /\ UNCHANGED <<main, route, socket, open, scanning, pending, baselineVars, complete, left, killed>>

(* Mutant of Divide: the levels are counted from one.                        *)
DivideFromOne(r) ==
    /\ Running /\ handler[r].pc = "divide" /\ ratios # 0
    /\ handler' = [handler EXCEPT ![r] = Level(@, @.closeness \div ratios + 1)]
    /\ UNCHANGED <<main, route, socket, open, scanning, pending, baselineVars, complete, left, killed>>

(* Where the processor has a trap for a division by zero it ends the app,    *)
(* elsewhere (on the phones) the quotient is zero.                           *)
Divide(r) ==
    /\ Running /\ handler[r].pc = "divide"
    /\ \/ ratios = 0 /\ killed' = "SIGFPE" /\ UNCHANGED handler
       \/ /\ LET closeness == handler[r].closeness IN
             handler' = [handler EXCEPT ![r] =
                           Level(@, IF ratios = 0 THEN 0 ELSE closeness \div ratios)]
          /\ UNCHANGED killed
    /\ UNCHANGED <<main, route, socket, open, scanning, pending, baselineVars, complete, left>>

(* sendPackage after its second of sleep. A connection that this process has *)
(* shut down raises SIGPIPE, which the app does not handle and which leaves  *)
(* the thread where it is; so does one the garment has left, once its reset  *)
(* has arrived. On anything that is not a connection send fails, and only    *)
(* that is printed. After the packet the place may be near the destination.  *)
Send(r) ==
    /\ Running /\ handler[r].pc = "send"
    /\ LET fd == handler[r].fd IN
       \/ /\ ~(Connection(fd) /\ open[fd].end = "shut")
          /\ \E pc \in {"idle", "arrived"} : handler' = [handler EXCEPT ![r] = [Idle EXCEPT !.pc = pc]]
          /\ UNCHANGED killed
       \/ /\ Connection(fd) /\ ~Connected(fd)
          /\ killed' = "SIGPIPE"
          /\ UNCHANGED handler
    /\ UNCHANGED <<main, route, socket, open, scanning, pending, baselineVars, complete, left>>

(* Near the destination: setInitial, then closeConnection and stopScanning.  *)
Arrive(r) ==
    /\ Running /\ handler[r].pc = "arrived"
    /\ initial' = FALSE
    /\ Mark(r, markedBy)
    /\ handler' = [handler EXCEPT ![r].pc = "close"]
    /\ UNCHANGED <<main, route, socket, open, scanning, pending, initial_distance, ratios,
                   complete, left, killed>>

ArriveEnds(r) ==
    /\ Running /\ handler[r].pc = "close"
    /\ ShutDown(socket[r])
    /\ scanning' = [scanning EXCEPT ![r] = FALSE]
    /\ complete' = complete \cup {r}
    /\ handler' = [handler EXCEPT ![r] = Idle]
    /\ UNCHANGED <<main, route, socket, pending, baselineVars, left, killed>>

-----------------------------------------------------------------------------
Screen == ChooseDestination \/ ViewDidLoad \/ Accept \/ GoBack \/ GoBackEnds

Prox(r) == StoreDistance(r) \/ StoreRatios(r) \/ StoreInitial(r) \/ Compare(r) \/ Divide(r)

Scanner(r) ==
    \/ HandleQuietly(r) \/ Handle(r) \/ Searched(r) \/ Prox(r) \/ Send(r)
    \/ Arrive(r) \/ ArriveEnds(r)

Next ==
    \/ Screen
    \/ \E r \in Route : Discover(r) \/ DelayedStart(r) \/ Scanner(r)
    \/ \E d \in Descriptor : GarmentLeaves(d)

Spec == Init /\ [][Next]_vars

(* A queue runs its blocks and goBack1 runs to its end; the user, the        *)
(* garment and the beacons do as they like.                                  *)
FairSpec ==
    /\ Spec
    /\ WF_vars(GoBackEnds)
    /\ \A r \in Route : WF_vars(Scanner(r))

-----------------------------------------------------------------------------
Handling ==
    [pc : {"idle", "search", "distance", "ratios", "initial", "compare", "divide", "send",
           "arrived", "close"},
     astray : BOOLEAN, distance : Distances \cup {0}, closeness : Nat, prox : Nat,
     fd : Descriptor \cup {Stdin, Failed}]

TypeOK ==
    /\ main \in {"menu", "load", "accept", "shown", "close"}
    /\ route \in 0..MaxRoutes /\ (main = "menu" \/ route \in Route)
    /\ socket \in [Route -> Descriptor \cup {Stdin, Failed}]
    /\ DOMAIN open \subseteq Descriptor
    /\ \A d \in DOMAIN open :
          open[d] \in [route : Route, kind : {"listener", "connection"},
                      end : {"open", "shut", "gone"}]
    /\ scanning \in [Route -> BOOLEAN]
    /\ pending \in [Route -> 0..MaxPending]
    /\ handler \in [Route -> Handling]
    /\ initial \in BOOLEAN /\ initial_distance \in Nat /\ ratios \in Nat
    /\ complete \subseteq Route /\ left \subseteq 1..route
    /\ strayed \in BOOLEAN /\ markedBy \in 0..MaxRoutes
    /\ killed \in {"no", "SIGFPE", "SIGPIPE"}

(* sendPackage sleeps with the number of a socket in its hands. However long *)
(* it sleeps, and whatever routes have ended and begun meanwhile, whenever it*)
(* wakes its packet goes to the client of its own route or to nobody.        *)
Sending(r) == handler[r].pc = "send" /\ Connected(handler[r].fd)
OwnClient == \A r \in Route : Sending(r) => open[handler[r].fd].route = r

(* The destination and the map are globals too, and the next route changes   *)
(* them while a search of the last one may be running or its packet asleep.  *)
(* A packet that does reach a garment says the way to the destination of its *)
(* own route, and was found on a map that stayed whole: the connection is    *)
(* shut down before there is a menu to choose from.                          *)
OwnDestination == \A r \in Route : Sending(r) => ~handler[r].astray

(* The levels of a route are measured from a distance of the same route: the *)
(* baseline of one route is not found by the next, unless a handler was      *)
(* still at work when its route was left.                                    *)
BaselineOfTheRoute == initial /\ ~strayed => markedBy = route

(* packageCreator: the garment reads the level as the one digit that follows *)
(* the angle. A fifth of the first distance, rounded down, goes less than    *)
(* ten times into any smaller distance, so one digit is enough, as long as   *)
(* the two globals were stored by one handler and the route is not left.     *)
LevelIsADigit ==
    ~strayed => \A r \in Route \ left : handler[r].prox \in 0..9

(* A route the user leaves falls silent: its handlers end and no more come,  *)
(* provided that the radio stops starting the scan of a delayed one.         *)
LeftRoutesFallSilent ==
    \A r \in Route :
        <>[](r \in left) /\ (r \in Delayed => <>[]~scanning[r])
            => <>[](Running => pending[r] = 0 /\ handler[r].pc = "idle")

(* Discoveries that were queued when a route ended still compute a packet,   *)
(* and the signal that it raises ends the app. But only then, or when the    *)
(* garment has gone: the end of one route, however late its handler comes to *)
(* it, never shuts a connection down that a route under way sends on.        *)
GarmentGone(r) == \E d \in DOMAIN open : open[d].route = r /\ open[d].end = "gone"
SignalOnlyAfterTheEnd ==
    killed = "SIGPIPE" =>
        \E r \in Route : handler[r].pc = "send" /\ (r \in left \cup complete \/ GarmentGone(r))

(* Shut down is not closed: what a route has opened stays open. But no route *)
(* costs more than the two descriptors it needs, whoever ends it, and how    *)
(* often: whenever one waits in accept there is a descriptor for it, unless  *)
(* the routes begun so far would need more than there are.                   *)
DescriptorsLast == main = "accept" => Cardinality(Free) > MaxDescriptors - 2 * route
=============================================================================
