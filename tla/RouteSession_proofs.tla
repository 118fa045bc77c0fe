------------------------- MODULE RouteSession_proofs -------------------------
(* Whatever the number of routes, of descriptors and of discoveries that     *)
(* wait: a packet reaches the client of its own route or nobody, and a route *)
(* finds no baseline of the one before, unless a handler outlived its route. *)
EXTENDS RouteSession, FiniteSetTheorems, TLAPS

LEMMA HandledDistance ==
    ASSUME TypeOK, NEW r \in Route
    PROVE  handler[r].distance \in Nat
<1>1. handler[r].distance \in Distances \cup {0}
  BY DEF TypeOK, Handling
<1>2. ASSUME NEW d \in Distances \cup {0} PROVE d \in Nat
  BY DistancesAssumption
<1> QED BY <1>1, <1>2

(* The queue of a scanner keeps handlers well formed.                        *)
LEMMA HandlersAreTyped ==
    ASSUME TypeOK, NEW r \in Route, Scanner(r)
    PROVE  handler' \in [Route -> Handling]
<1>1. handler \in [Route -> Handling] /\ socket \in [Route -> Descriptor \cup {Stdin, Failed}]
  BY DEF TypeOK
<1>a. handler[r] \in Handling /\ Idle \in Handling
  BY <1>1 DEF Handling, Idle
<1>b. ASSUME NEW prox \in Nat PROVE Level(handler[r], prox) \in Handling
  BY <1>a DEF Level, Handling
<1>2. CASE HandleQuietly(r) \/ ArriveEnds(r)
  BY <1>1, <1>a, <1>2 DEF HandleQuietly, ArriveEnds
<1>3. CASE Handle(r)
  <2>1. [Idle EXCEPT !.pc = "search", !.astray = (route # r \/ main = "load")] \in Handling
    BY DEF Handling, Idle
  <2> QED BY <1>1, <1>3, <2>1 DEF Handle
<1>9. CASE Searched(r)
  <2>1. PICK distance \in Distances :
          handler' = [handler EXCEPT ![r].pc = IF initial THEN "compare" ELSE "distance",
                                     ![r].distance = distance, ![r].fd = socket[r]]
    BY <1>9 DEF Searched
  <2>2. [handler[r] EXCEPT !.pc = IF initial THEN "compare" ELSE "distance",
                           !.distance = distance, !.fd = socket[r]] \in Handling
    BY <1>1, <1>a DEF Handling
  <2> QED BY <1>1, <2>1, <2>2
<1>4. CASE Compare(r)
  <2>1. handler[r].distance \in Nat /\ initial_distance \in Nat
    BY HandledDistance DEF TypeOK
  <2>2. CASE handler[r].distance > initial_distance
    BY <1>1, <1>b, <1>4, <2>2 DEF Compare
  <2>3. CASE ~(handler[r].distance > initial_distance)
    <3>1. initial_distance - handler[r].distance \in Nat
      BY <2>1, <2>3
    <3>2. [handler[r] EXCEPT !.pc = "divide",
             !.closeness = initial_distance - handler[r].distance] \in Handling
      BY <1>a, <3>1 DEF Handling
    <3> QED BY <1>1, <1>4, <2>3, <3>2 DEF Compare
  <2> QED BY <2>2, <2>3
<1>5. CASE Divide(r)
  <2>1. handler[r].closeness \in Nat /\ ratios \in Nat
    BY <1>a DEF TypeOK, Handling
  <2>2. (IF ratios = 0 THEN 0 ELSE handler[r].closeness \div ratios) \in Nat
    BY <2>1
  <2> QED BY <1>1, <1>b, <1>5, <2>2 DEF Divide
<1>6. CASE Send(r)
  <2>1. \A pc \in {"idle", "arrived"} : [Idle EXCEPT !.pc = pc] \in Handling
    BY DEF Handling, Idle
  <2> QED BY <1>1, <1>6, <2>1 DEF Send
<1>7. ASSUME StoreDistance(r) \/ Arrive(r)
      PROVE  handler' \in [Route -> Handling]
  <2>1. \E pc \in {"ratios", "close"} : handler' = [handler EXCEPT ![r].pc = pc]
    BY <1>7 DEF StoreDistance, Arrive
  <2> QED BY <1>1, <2>1 DEF Handling
<1>10. CASE StoreRatios(r)
  BY <1>1, <1>10 DEF StoreRatios, Handling
<1>8. CASE StoreInitial(r)
  BY <1>1, <1>b, <1>8 DEF StoreInitial
<1> QED
  BY <1>2, <1>3, <1>4, <1>5, <1>6, <1>7, <1>8, <1>9, <1>10 DEF Scanner, Prox

(* Opening a descriptor, and shutting one down, keeps the table well formed. *)
Entry == [route : Route, kind : {"listener", "connection"}, end : {"open", "shut", "gone"}]

LEMMA OpenIsTyped ==
    ASSUME DOMAIN open \subseteq Descriptor, \A d \in DOMAIN open : open[d] \in Entry,
           NEW e \in Entry, open' = Open(e)
    PROVE  /\ DOMAIN open' \subseteq Descriptor
           /\ \A d \in DOMAIN open' : open'[d] \in Entry
           /\ \A d \in DOMAIN open : d \in DOMAIN open' /\ open'[d] = open[d]
           /\ \A d \in Lowest : d \in DOMAIN open' /\ open'[d] = e
           /\ Lowest \subseteq Descriptor
BY DEF Open, Lowest, Free

LEMMA ShutDownIsTyped ==
    ASSUME DOMAIN open \subseteq Descriptor, \A d \in DOMAIN open : open[d] \in Entry,
           NEW fd, ShutDown(fd)
    PROVE  /\ DOMAIN open' = DOMAIN open
           /\ \A d \in DOMAIN open' :
                 /\ open'[d] \in Entry
                 /\ open'[d].route = open[d].route /\ open'[d].kind = open[d].kind
                 /\ open'[d].end = open[d].end \/ (d = fd /\ open'[d].end = "shut")
<1>1. DOMAIN open' = DOMAIN open
  BY DEF ShutDown
<1>2. ASSUME NEW e \in Entry
      PROVE  /\ [e EXCEPT !.end = "shut"] \in Entry
             /\ [e EXCEPT !.end = "shut"].route = e.route
             /\ [e EXCEPT !.end = "shut"].kind = e.kind
             /\ [e EXCEPT !.end = "shut"].end = "shut"
  BY DEF Entry
<1>3. ASSUME NEW d \in DOMAIN open
      PROVE  open'[d] = open[d] \/ (d = fd /\ open'[d] = [open[d] EXCEPT !.end = "shut"])
  BY <1>3 DEF ShutDown
<1>4. ASSUME NEW d \in DOMAIN open
      PROVE  /\ open'[d] \in Entry
             /\ open'[d].route = open[d].route /\ open'[d].kind = open[d].kind
             /\ open'[d].end = open[d].end \/ (d = fd /\ open'[d].end = "shut")
  <2>1. open[d] \in Entry
    OBVIOUS
  <2>2. CASE open'[d] = open[d]
    BY <2>1, <2>2
  <2>3. CASE d = fd /\ open'[d] = [open[d] EXCEPT !.end = "shut"]
    BY <1>2, <2>1, <2>3
  <2> QED BY <1>3, <2>2, <2>3
<1> QED BY <1>1, <1>4

LEMMA GarmentLeavesIsTyped ==
    ASSUME DOMAIN open \subseteq Descriptor, \A d \in DOMAIN open : open[d] \in Entry,
           NEW d \in Descriptor, GarmentLeaves(d)
    PROVE  /\ DOMAIN open' = DOMAIN open
           /\ \A e \in DOMAIN open' :
                 /\ open'[e] \in Entry
                 /\ open'[e].route = open[e].route /\ open'[e].kind = open[e].kind
                 /\ open'[e].end = open[e].end \/ open'[e].end = "gone"
<1>1. d \in DOMAIN open /\ open' = [open EXCEPT ![d].end = "gone"]
  BY DEF GarmentLeaves, Connected, Connection
<1>2. ASSUME NEW e \in Entry
      PROVE  /\ [e EXCEPT !.end = "gone"] \in Entry
             /\ [e EXCEPT !.end = "gone"].route = e.route
             /\ [e EXCEPT !.end = "gone"].kind = e.kind
             /\ [e EXCEPT !.end = "gone"].end = "gone"
  BY DEF Entry
<1> QED BY <1>1, <1>2

(* A step that is not the main thread's or a garment's is that of a scanner. *)
Steps(r) == Discover(r) \/ DelayedStart(r) \/ Scanner(r)

LEMMA MarkIsTyped ==
    ASSUME TypeOK, NEW r \in Route, NEW n \in 0..MaxRoutes, Mark(r, n)
    PROVE  strayed' \in BOOLEAN /\ markedBy' \in 0..MaxRoutes
<1>1. 0 \in 0..MaxRoutes
  BY BoundsAssumption
<1>2. strayed' = (strayed \/ r \in left)
  BY DEF Mark
<1>3. markedBy' = IF strayed' THEN 0 ELSE n
  BY DEF Mark
<1>4. strayed' \in BOOLEAN
  BY <1>2, Zenon
<1>5. markedBy' \in {0, n}
  BY <1>3
<1> QED BY <1>1, <1>4, <1>5

LEMMA TypeStep == TypeOK /\ [Next]_vars => TypeOK'
<1> SUFFICES ASSUME TypeOK, [Next]_vars PROVE TypeOK'
  OBVIOUS
<1>1. CASE UNCHANGED vars
  BY <1>1 DEF TypeOK, vars
<1>a. CASE ChooseDestination
  <2>1. route + 1 \in Route /\ route' = route + 1 /\ main' = "load"
    BY <1>a, BoundsAssumption DEF ChooseDestination, TypeOK, Route
  <2>2. \A e \in Handling : [e EXCEPT !.astray = TRUE] \in Handling
    BY DEF Handling
  <2>3. handler' \in [Route -> Handling]
    BY <1>a, <2>2 DEF ChooseDestination, TypeOK
  <2>4. route' \in 0..MaxRoutes /\ 1..route \subseteq 1..route'
    BY <2>1 DEF TypeOK, Route
  <2>5. UNCHANGED <<socket, open, scanning, pending, baselineVars, complete, left, killed>>
    BY <1>a DEF ChooseDestination
  <2> QED BY <2>1, <2>3, <2>4, <2>5 DEF TypeOK, baselineVars
<1>2. CASE ViewDidLoad
  <2>1. route \in Route
    BY <1>2 DEF ViewDidLoad, TypeOK
  <2>2. /\ DOMAIN open' \subseteq Descriptor
        /\ \A d \in DOMAIN open' : open'[d] \in Entry
    BY <1>2, <2>1, OpenIsTyped DEF ViewDidLoad, Entry, TypeOK
  <2> QED BY <1>2, <2>1, <2>2 DEF ViewDidLoad, TypeOK, Entry, baselineVars
<1>3. CASE Accept
  <2>1. route \in Route
    BY <1>3 DEF Accept, TypeOK, Route
  <2>2. /\ DOMAIN open' \subseteq Descriptor
        /\ \A d \in DOMAIN open' : open'[d] \in Entry
    BY <1>3, <2>1, OpenIsTyped DEF Accept, Entry, TypeOK
  <2>3. socket' \in [Route -> Descriptor \cup {Stdin, Failed}]
    BY <1>3, <2>1 DEF Accept, TypeOK, Lowest, Free
  <2> QED BY <1>3, <2>2, <2>3 DEF Accept, TypeOK, Entry, baselineVars
<1>4. CASE GoBack
  <2>1. route \in Route /\ route \in 1..route /\ left \subseteq 1..route
    BY <1>4 DEF GoBack, TypeOK, Route
  <2>2. left' \subseteq 1..route
    BY <1>4, <2>1 DEF GoBack
  <2>3. initial' \in BOOLEAN /\ main' = "close"
    BY <1>4 DEF GoBack
  <2>4. UNCHANGED <<route, socket, open, scanning, pending, handler, initial_distance,
                    ratios, complete, strayed, markedBy, killed>>
    BY <1>4 DEF GoBack
  <2> QED BY <2>1, <2>2, <2>3, <2>4 DEF TypeOK
<1>5. CASE GoBackEnds
  BY <1>5, ShutDownIsTyped DEF GoBackEnds, TypeOK, Entry, baselineVars
<1>6. ASSUME NEW d \in Descriptor, GarmentLeaves(d) PROVE TypeOK'
  BY <1>6, GarmentLeavesIsTyped DEF GarmentLeaves, TypeOK, Entry, baselineVars
<1>7. ASSUME NEW r \in Route, Discover(r) PROVE TypeOK'
  BY <1>7, BoundsAssumption DEF Discover, TypeOK, baselineVars, BoundsAssumption
<1>9. ASSUME NEW r \in Route, DelayedStart(r) PROVE TypeOK'
  BY <1>9 DEF DelayedStart, TypeOK, baselineVars
<1>8. ASSUME NEW r \in Route, Scanner(r) PROVE TypeOK'
  <2> USE <1>8
  <2>1. handler' \in [Route -> Handling]
    BY HandlersAreTyped
  <2>2. CASE HandleQuietly(r) \/ Handle(r)
    <3>1. pending[r] \in 1..MaxPending /\ pending' = [pending EXCEPT ![r] = @ - 1]
      <4>1. pending[r] \in 0..MaxPending
        BY DEF TypeOK
      <4>2. pending[r] > 0 /\ pending' = [pending EXCEPT ![r] = @ - 1]
        BY <2>2 DEF HandleQuietly, Handle
      <4> QED BY <4>1, <4>2, BoundsAssumption
    <3>2. pending[r] - 1 \in 0..MaxPending
      BY <3>1, BoundsAssumption
    <3>3. pending' \in [Route -> 0..MaxPending]
      BY <3>1, <3>2 DEF TypeOK
    <3> QED BY <2>1, <2>2, <3>3 DEF HandleQuietly, Handle, TypeOK, baselineVars
  <2>3. CASE StoreDistance(r)
    <3>1. handler[r].distance \in Nat /\ r \in 0..MaxRoutes
      BY HandledDistance DEF Route
    <3>2. strayed' \in BOOLEAN /\ markedBy' \in 0..MaxRoutes
      BY <2>3, <3>1, MarkIsTyped DEF StoreDistance
    <3> QED BY <2>1, <2>3, <3>1, <3>2 DEF StoreDistance, TypeOK
  <2>4. CASE StoreRatios(r)
    <3>1. \A d \in {handler[r].distance, initial_distance} : d \div 5 \in Nat
      BY HandledDistance DEF TypeOK
    <3>2. strayed' \in BOOLEAN /\ markedBy' \in 0..MaxRoutes
      BY <2>4, MarkIsTyped DEF StoreRatios, TypeOK
    <3> QED BY <2>1, <2>4, <3>1, <3>2 DEF StoreRatios, TypeOK
  <2>5. CASE StoreInitial(r) \/ Arrive(r)
    <3>1. strayed' \in BOOLEAN /\ markedBy' \in 0..MaxRoutes
      BY <2>5, MarkIsTyped DEF StoreInitial, Arrive, TypeOK
    <3> QED BY <2>1, <2>5, <3>1 DEF StoreInitial, Arrive, TypeOK
  <2>6. CASE Compare(r) \/ Divide(r) \/ Searched(r)
    BY <2>1, <2>6 DEF Compare, Divide, Searched, TypeOK, baselineVars
  <2>7. CASE Send(r)
    BY <2>1, <2>7 DEF Send, TypeOK, baselineVars
  <2>9. CASE ArriveEnds(r)
    BY <2>1, <2>9, ShutDownIsTyped DEF ArriveEnds, TypeOK, Entry, baselineVars
  <2> QED BY <2>2, <2>3, <2>4, <2>5, <2>6, <2>7, <2>9 DEF Scanner, Prox
<1> QED BY <1>1, <1>2, <1>3, <1>4, <1>5, <1>6, <1>7, <1>8, <1>9, <1>a DEF Next, Screen

(* Every variable keeps its type.                                            *)
THEOREM TypeCorrect == Spec => []TypeOK
<1>1. Init => TypeOK
  <2> SUFFICES ASSUME Init PROVE TypeOK
    OBVIOUS
  <2>1. Idle \in Handling
    BY DEF Idle, Handling
  <2>2. DOMAIN open = {}
    BY DEF Init
  <2>3. 0 \in 0..MaxRoutes /\ 0 \in 0..MaxPending
    BY BoundsAssumption
  <2> QED BY <2>1, <2>2, <2>3 DEF Init, TypeOK, Stdin
<1> QED BY <1>1, TypeStep, PTL DEF Spec

-----------------------------------------------------------------------------
(* What the number of a socket means in the hands of route r.                *)
OfRoute(fd, r) == fd \in DOMAIN open => open[fd].route = r

Allocated(fd) == fd \in {Stdin, Failed} \/ fd \in DOMAIN open

(* The number that a route holds, and every number sendPackage was given for *)
(* it, is a descriptor of that route, open for good: descriptors are never   *)
(* closed, so none is given out twice.                                       *)
OwnDescriptors ==
    \A r \in Route : \A fd \in {socket[r], handler[r].fd} : Allocated(fd) /\ OfRoute(fd, r)

(* No step closes a descriptor or hands it to another route.                 *)
LEMMA DescriptorsStay ==
    ASSUME TypeOK, [Next]_vars
    PROVE  \A d \in DOMAIN open : d \in DOMAIN open' /\ open'[d].route = open[d].route
<1>1. CASE UNCHANGED vars \/ ChooseDestination \/ GoBack
  BY <1>1 DEF vars, ChooseDestination, GoBack
<1>2. CASE ViewDidLoad \/ Accept
  <2>1. route \in Route
    BY <1>2 DEF ViewDidLoad, Accept, TypeOK
  <2> QED BY <1>2, <2>1, OpenIsTyped DEF ViewDidLoad, Accept, TypeOK, Entry
<1>3. CASE GoBackEnds
  BY <1>3, ShutDownIsTyped DEF GoBackEnds, TypeOK, Entry
<1>4. ASSUME NEW d \in Descriptor, GarmentLeaves(d)
      PROVE  \A e \in DOMAIN open : e \in DOMAIN open' /\ open'[e].route = open[e].route
  BY <1>4, GarmentLeavesIsTyped DEF TypeOK, Entry
<1>6. ASSUME NEW r \in Route, Steps(r)
      PROVE  \A d \in DOMAIN open : d \in DOMAIN open' /\ open'[d].route = open[d].route
  <2>1. CASE ArriveEnds(r)
    BY <2>1, ShutDownIsTyped DEF ArriveEnds, TypeOK, Entry
  <2>2. CASE ~ArriveEnds(r)
    <3>1. open' = open
      BY <1>6, <2>2 DEF Steps, Discover, DelayedStart, Scanner, Prox, HandleQuietly, Handle,
         Searched, StoreDistance, StoreRatios, StoreInitial, Compare, Divide, Send, Arrive
    <3> QED BY <3>1
  <2> QED BY <2>1, <2>2
<1> QED BY <1>1, <1>2, <1>3, <1>4, <1>6 DEF Next, Screen, Steps

(* One scanner steps: the others, and the screen, stay as they are.          *)
LEMMA HandlersStepAlone ==
    ASSUME TypeOK, NEW r \in Route, Steps(r)
    PROVE  /\ UNCHANGED <<main, route, left, socket>>
           /\ \A q \in Route \ {r} : /\ handler'[q] = handler[q] /\ pending'[q] = pending[q]
                                     /\ scanning'[q] = scanning[q]
<1>1. UNCHANGED <<main, route, left, socket>>
  BY DEF Steps, Discover, DelayedStart, Scanner, Prox, HandleQuietly, Handle, Searched,
     StoreDistance, StoreRatios, StoreInitial, Compare, Divide, Send, Arrive, ArriveEnds
<1>2. \A q \in Route \ {r} : handler'[q] = handler[q]
  BY DEF TypeOK, Steps, Discover, DelayedStart, Scanner, Prox, HandleQuietly, Handle, Searched,
     StoreDistance, StoreRatios, StoreInitial, Compare, Divide, Send, Arrive, ArriveEnds
<1>3. \A q \in Route \ {r} : pending'[q] = pending[q]
  BY DEF TypeOK, Steps, Discover, DelayedStart, Scanner, Prox, HandleQuietly, Handle, Searched,
     StoreDistance, StoreRatios, StoreInitial, Compare, Divide, Send, Arrive, ArriveEnds
<1>4. \A q \in Route \ {r} : scanning'[q] = scanning[q]
  BY DEF TypeOK, Steps, Discover, DelayedStart, Scanner, Prox, HandleQuietly, Handle, Searched,
     StoreDistance, StoreRatios, StoreInitial, Compare, Divide, Send, Arrive, ArriveEnds
<1> QED BY <1>1, <1>2, <1>3, <1>4

(* What a handler holds after each of its steps.                             *)
LEMMA HandlerMoves ==
    ASSUME TypeOK, NEW r \in Route
    PROVE  /\ HandleQuietly(r) => handler' = handler
           /\ Handle(r) => /\ handler'[r].pc = "search" /\ handler'[r].fd = Stdin
                           /\ handler'[r].prox = 0
                           /\ handler'[r].astray = (route # r \/ main = "load")
           /\ Searched(r) => /\ handler'[r].pc = IF initial THEN "compare" ELSE "distance"
                             /\ handler'[r].fd = socket[r]
                             /\ UNCHANGED <<handler[r].astray, handler[r].prox>>
           /\ StoreDistance(r) => /\ handler'[r].pc = "ratios"
                                  /\ UNCHANGED <<handler[r].distance, handler[r].prox>>
           /\ StoreRatios(r) => handler'[r].pc = "initial" /\ UNCHANGED handler[r].prox
           /\ StoreInitial(r) => handler'[r].pc = "send" /\ handler'[r].prox = 0
           /\ Compare(r) => \/ handler'[r].pc = "send" /\ handler'[r].prox = 0
                            \/ /\ handler'[r].pc = "divide" /\ UNCHANGED handler[r].prox
                               /\ handler'[r].closeness = initial_distance - handler[r].distance
                               /\ ~(handler[r].distance > initial_distance)
           /\ Divide(r) => \/ handler' = handler
                           \/ /\ handler'[r].pc = "send"
                              /\ handler'[r].prox =
                                   IF ratios = 0 THEN 0 ELSE handler[r].closeness \div ratios
           /\ Prox(r) => UNCHANGED <<handler[r].fd, handler[r].astray>>
           /\ Send(r) => \/ handler' = handler /\ killed' = "SIGPIPE"
                         \/ /\ handler'[r].pc \in {"idle", "arrived"} /\ handler'[r].fd = Stdin
                            /\ handler'[r].prox = 0 /\ ~handler'[r].astray /\ UNCHANGED killed
           /\ Arrive(r) => /\ handler'[r].pc = "close"
                           /\ UNCHANGED <<handler[r].fd, handler[r].astray, handler[r].prox>>
           /\ ArriveEnds(r) => handler'[r] = Idle
<1>1. handler \in [Route -> Handling] /\ handler[r] \in Handling
  BY DEF TypeOK
<1>2. \A prox : LET l == Level(handler[r], prox)
               IN  l.pc = "send" /\ l.prox = prox /\ l.fd = handler[r].fd
                     /\ l.astray = handler[r].astray
  BY <1>1 DEF Level, Handling
<1> USE <1>1 DEF Handling
<1>3. HandleQuietly(r) => handler' = handler
  BY DEF HandleQuietly
<1>4. Handle(r) => /\ handler'[r].pc = "search" /\ handler'[r].fd = Stdin
                   /\ handler'[r].prox = 0
                   /\ handler'[r].astray = (route # r \/ main = "load")
  BY DEF Handle, Idle
<1>5. Searched(r) => /\ handler'[r].pc = IF initial THEN "compare" ELSE "distance"
                     /\ handler'[r].fd = socket[r]
                     /\ UNCHANGED <<handler[r].astray, handler[r].prox>>
  BY DEF Searched
<1>6. StoreDistance(r) => /\ handler'[r].pc = "ratios"
                          /\ UNCHANGED <<handler[r].distance, handler[r].prox>>
  BY DEF StoreDistance
<1>7. StoreRatios(r) => handler'[r].pc = "initial" /\ UNCHANGED handler[r].prox
  BY DEF StoreRatios
<1>8. StoreInitial(r) => handler'[r].pc = "send" /\ handler'[r].prox = 0
  BY <1>2 DEF StoreInitial
<1>9. Compare(r) => \/ handler'[r].pc = "send" /\ handler'[r].prox = 0
                    \/ /\ handler'[r].pc = "divide" /\ UNCHANGED handler[r].prox
                       /\ handler'[r].closeness = initial_distance - handler[r].distance
                       /\ ~(handler[r].distance > initial_distance)
  BY <1>2 DEF Compare
<1>10. Divide(r) => \/ handler' = handler
                    \/ /\ handler'[r].pc = "send"
                       /\ handler'[r].prox =
                            IF ratios = 0 THEN 0 ELSE handler[r].closeness \div ratios
  BY <1>2 DEF Divide
<1>11. Prox(r) => UNCHANGED <<handler[r].fd, handler[r].astray>>
  <2>1. StoreDistance(r) \/ StoreRatios(r) => UNCHANGED <<handler[r].fd, handler[r].astray>>
    BY DEF StoreDistance, StoreRatios
  <2>2. StoreInitial(r) \/ Divide(r) => UNCHANGED <<handler[r].fd, handler[r].astray>>
    BY <1>2 DEF StoreInitial, Divide
  <2>3. Compare(r) => UNCHANGED <<handler[r].fd, handler[r].astray>>
    BY <1>2 DEF Compare
  <2> QED BY <2>1, <2>2, <2>3 DEF Prox
<1>12. Send(r) => \/ handler' = handler /\ killed' = "SIGPIPE"
                  \/ /\ handler'[r].pc \in {"idle", "arrived"} /\ handler'[r].fd = Stdin
                     /\ handler'[r].prox = 0 /\ ~handler'[r].astray /\ UNCHANGED killed
  BY DEF Send, Idle
<1>13. Arrive(r) => /\ handler'[r].pc = "close"
                    /\ UNCHANGED <<handler[r].fd, handler[r].astray, handler[r].prox>>
  BY DEF Arrive
<1>14. ArriveEnds(r) => handler'[r] = Idle
  BY DEF ArriveEnds
<1> QED
  BY <1>3, <1>4, <1>5, <1>6, <1>7, <1>8, <1>9, <1>10, <1>11, <1>12, <1>13, <1>14

LEMMA InitOwnDescriptors == Init => OwnDescriptors
<1> SUFFICES ASSUME Init PROVE OwnDescriptors
  OBVIOUS
<1>1. \A r \in Route : socket[r] = Stdin /\ handler[r].fd = Stdin
  BY DEF Init, Idle
<1>2. Stdin \notin DOMAIN open
  BY DEF Init
<1> QED BY <1>1, <1>2 DEF OwnDescriptors, Allocated, OfRoute

LEMMA StepOwnDescriptors ==
    ASSUME TypeOK, OwnDescriptors, [Next]_vars
    PROVE  OwnDescriptors'
<1>1. ASSUME NEW r \in Route, NEW fd, Allocated(fd), OfRoute(fd, r),
             Stdin \notin DOMAIN open', Failed \notin DOMAIN open'
      PROVE  (Allocated(fd) /\ OfRoute(fd, r))'
  BY <1>1, DescriptorsStay DEF Allocated, OfRoute
<1>2. Stdin \notin DOMAIN open' /\ Failed \notin DOMAIN open'
  BY TypeStep DEF TypeOK, Descriptor, Stdin, Failed
<1>3. ASSUME \A r \in Route : \A fd \in {socket'[r], handler'[r].fd} :
                fd = Stdin \/ fd = Failed \/ fd \in {socket[r], handler[r].fd}
      PROVE  OwnDescriptors'
  BY <1>1, <1>2, <1>3 DEF OwnDescriptors, Allocated, OfRoute
<1>4. CASE UNCHANGED vars
  BY <1>4 DEF vars, OwnDescriptors, Allocated, OfRoute
<1>5. CASE Accept
  <2>1. handler' = handler /\ route \in Route
    BY <1>5 DEF Accept, TypeOK
  <2>2. \A r \in Route : r # route => socket'[r] = socket[r]
    BY <1>5 DEF Accept, TypeOK
  <2>3. socket'[route] = Failed \/ socket'[route] \in Lowest
    BY <1>5, <2>1 DEF Accept, TypeOK
  <2>4. CASE socket'[route] = Failed
    BY <1>3, <2>1, <2>2, <2>4
  <2>5. CASE socket'[route] # Failed
    <3>1. PICK fd \in Lowest :
            /\ socket'[route] = fd
            /\ open' = Open([route |-> route, kind |-> "connection", end |-> "open"])
      BY <1>5, <2>1, <2>5 DEF Accept, TypeOK
    <3>2. fd \in DOMAIN open' /\ open'[fd].route = route
      <4>1. [route |-> route, kind |-> "connection", end |-> "open"] \in Entry
        BY <2>1 DEF Entry
      <4>2. \A d \in DOMAIN open : open[d] \in Entry
        BY DEF TypeOK, Entry
      <4>3. fd \in DOMAIN open' /\
              open'[fd] = [route |-> route, kind |-> "connection", end |-> "open"]
        BY <3>1, <4>1, <4>2, OpenIsTyped DEF TypeOK
      <4> QED BY <4>3
    <3>3. ASSUME NEW r \in Route, NEW d \in {socket'[r], handler'[r].fd}
          PROVE  (Allocated(d) /\ OfRoute(d, r))'
      <4>1. CASE d = fd /\ r = route
        BY <3>2, <4>1 DEF Allocated, OfRoute
      <4>2. CASE ~(d = fd /\ r = route)
        <5>1. d \in {socket[r], handler[r].fd}
          BY <2>1, <2>2, <3>1, <4>2
        <5> QED BY <1>1, <1>2, <5>1 DEF OwnDescriptors
      <4> QED BY <4>1, <4>2
    <3> QED BY <3>3 DEF OwnDescriptors
  <2> QED BY <2>4, <2>5
<1>6. CASE ViewDidLoad \/ GoBack \/ GoBackEnds \/ \E d \in Descriptor : GarmentLeaves(d)
  <2>1. socket' = socket /\ handler' = handler
    BY <1>6 DEF ViewDidLoad, GoBack, GoBackEnds, GarmentLeaves
  <2> QED BY <1>3, <2>1
<1>7. CASE ChooseDestination
  <2>1. socket' = socket /\ \A r \in Route : handler'[r].fd = handler[r].fd
    BY <1>7 DEF ChooseDestination, TypeOK, Handling
  <2> QED BY <1>3, <2>1
<1>8. ASSUME NEW r \in Route, Steps(r) PROVE OwnDescriptors'
  <2>1. socket' = socket /\ \A q \in Route \ {r} : handler'[q] = handler[q]
    BY <1>8, HandlersStepAlone
  <2>2. handler'[r].fd \in {Stdin, socket[r], handler[r].fd}
    <3>1. CASE Discover(r) \/ DelayedStart(r)
      BY <3>1 DEF Discover, DelayedStart
    <3>2. CASE Scanner(r)
      BY <3>2, HandlerMoves DEF Scanner, Idle
    <3> QED BY <1>8, <3>1, <3>2 DEF Steps
  <2> QED BY <1>3, <2>1, <2>2
<1> QED BY <1>4, <1>5, <1>6, <1>7, <1>8 DEF Next, Screen, Steps

(* sendPackage sends to the client of its own route or to nobody, for any    *)
(* number of routes and descriptors: property OwnClient.                     *)
THEOREM PacketsReachTheirOwnClient == Spec => [](OwnDescriptors /\ OwnClient)
<1>1. OwnDescriptors => OwnClient
  BY DEF OwnDescriptors, OwnClient, OfRoute, Sending, Connected, Connection
<1> QED BY <1>1, InitOwnDescriptors, StepOwnDescriptors, TypeCorrect, PTL DEF Spec

-----------------------------------------------------------------------------
(* Routes are begun one after the other, each when the last one was left, so *)
(* that a handler whose route is not left works for the route on the screen; *)
(* the goBack1 that leaves a route resets the baseline.                      *)
OneRouteAtATime ==
    /\ \A r \in Route : r > route \/ (r = route /\ main = "load") =>
          handler[r].pc = "idle" /\ pending[r] = 0 /\ ~scanning[r]
    /\ \A r \in Route : r < route => r \in left
    /\ main \in {"menu", "close"} /\ route # 0 => route \in left

BaselineReset == ~strayed /\ (route = 0 \/ route \in left) => ~initial

MarksAreOwn ==
    ~strayed => \A r \in Route \ left : handler[r].pc \in {"ratios", "initial"} => markedBy = r

BInv == OneRouteAtATime /\ BaselineReset /\ MarksAreOwn /\ BaselineOfTheRoute

(* A handler at work belongs to a route that was left or to the last route.  *)
LEMMA WorksForTheRoute ==
    ASSUME TypeOK, OneRouteAtATime, NEW r \in Route \ left,
           handler[r].pc # "idle"
    PROVE  r = route /\ route # 0
<1>1. r \in Nat /\ route \in Nat /\ r # 0
  BY DEF TypeOK, Route
<1>2. ~(r > route) /\ ~(r < route)
  BY DEF OneRouteAtATime
<1> QED BY <1>1, <1>2

(* Nothing happens for a route before its viewDidLoad starts the scan.       *)
LEMMA StepsAreBegun ==
    ASSUME TypeOK, OneRouteAtATime, NEW r \in Route, Steps(r)
    PROVE  r =< route /\ ~(r = route /\ main = "load")
<1>1. r \in Nat /\ route \in Nat
  BY DEF TypeOK, Route
<1>2. CASE DelayedStart(r)
  BY <1>1, <1>2 DEF DelayedStart
<1>3. CASE ~DelayedStart(r)
  <2>1. scanning[r] \/ pending[r] > 0 \/ handler[r].pc # "idle"
    <3>1. CASE Discover(r)
      BY <3>1 DEF Discover
    <3>2. CASE HandleQuietly(r) \/ Handle(r)
      BY <3>2 DEF HandleQuietly, Handle
    <3>3. CASE ~(Discover(r) \/ HandleQuietly(r) \/ Handle(r))
      BY <1>3, <3>3 DEF Steps, Scanner, Prox, Searched, StoreDistance, StoreRatios,
         StoreInitial, Compare, Divide, Send, Arrive, ArriveEnds
    <3> QED BY <3>1, <3>2, <3>3
  <2>2. pending[r] = 0 => ~(pending[r] > 0)
    OBVIOUS
  <2>3. ~(r > route \/ (r = route /\ main = "load"))
    BY <2>1, <2>2 DEF OneRouteAtATime
  <2> QED BY <1>1, <2>3
<1> QED BY <1>2, <1>3

LEMMA RoutesStep ==
    ASSUME TypeOK, OneRouteAtATime, [Next]_vars
    PROVE  OneRouteAtATime'
<1>1. CASE UNCHANGED vars
  BY <1>1 DEF vars, OneRouteAtATime
<1>2. CASE ChooseDestination
  <2>1. /\ route' = route + 1 /\ route \in Nat /\ main' = "load" /\ main = "menu"
        /\ UNCHANGED <<scanning, pending, left>>
        /\ \A r \in Route : handler'[r].pc = handler[r].pc
    BY <1>2 DEF ChooseDestination, TypeOK, Handling
  <2>2. ASSUME NEW r \in Route, r > route' \/ r = route'
        PROVE  handler'[r].pc = "idle" /\ pending'[r] = 0 /\ ~scanning'[r]
    <3>1. r > route
      BY <2>1, <2>2 DEF Route
    <3> QED BY <2>1, <3>1 DEF OneRouteAtATime
  <2>3. ASSUME NEW r \in Route, r < route' PROVE r \in left'
    <3>1. r < route \/ (r = route /\ route # 0)
      BY <2>1, <2>3 DEF Route
    <3> QED BY <2>1, <3>1 DEF OneRouteAtATime
  <2> QED BY <2>1, <2>2, <2>3 DEF OneRouteAtATime
<1>3. CASE ViewDidLoad
  <2>1. /\ main' = "accept" /\ UNCHANGED <<route, handler, pending, left>>
        /\ route \in Nat
        /\ \A r \in Route : r # route => scanning'[r] = scanning[r]
    BY <1>3 DEF ViewDidLoad, TypeOK
  <2>2. ASSUME NEW r \in Route, r > route PROVE r # route
    BY <2>1, <2>2 DEF Route
  <2> QED BY <2>1, <2>2 DEF OneRouteAtATime
<1>4. CASE Accept \/ GoBack \/ \E d \in Descriptor : GarmentLeaves(d)
  <2>1. UNCHANGED <<handler, pending, scanning, route>> /\ left \subseteq left'
    BY <1>4 DEF Accept, GoBack, GarmentLeaves
  <2>2. /\ main' = "load" => main = "load"
        /\ main' \in {"menu", "close"} /\ route # 0 => route \in left'
    BY <1>4 DEF Accept, GoBack, GarmentLeaves, OneRouteAtATime
  <2> QED BY <2>1, <2>2 DEF OneRouteAtATime
<1>5. CASE GoBackEnds
  <2>1. \A r \in Route : ~scanning[r] => ~scanning'[r]
    BY <1>5 DEF GoBackEnds, TypeOK
  <2>2. route # 0 => route \in left
    BY <1>5 DEF OneRouteAtATime, GoBackEnds
  <2>3. main' = "menu" /\ UNCHANGED <<handler, pending, route, left>>
    BY <1>5 DEF GoBackEnds
  <2> QED BY <2>1, <2>2, <2>3 DEF OneRouteAtATime
<1>6. ASSUME NEW r \in Route, Steps(r) PROVE OneRouteAtATime'
  <2>1. r =< route /\ ~(r = route /\ main = "load") /\ r \in Nat /\ route \in Nat
    BY <1>6, StepsAreBegun DEF TypeOK, Route
  <2>2. UNCHANGED <<main, route, left>>
    BY <1>6, HandlersStepAlone
  <2>3. ASSUME NEW q \in Route, q > route \/ (q = route /\ main = "load")
        PROVE  handler'[q] = handler[q] /\ pending'[q] = pending[q] /\ scanning'[q] = scanning[q]
    <3>1. q # r
      BY <2>1, <2>3
    <3> QED BY <1>6, <3>1, HandlersStepAlone
  <2> QED BY <2>2, <2>3 DEF OneRouteAtATime
<1> QED BY <1>1, <1>2, <1>3, <1>4, <1>5, <1>6 DEF Next, Screen, Steps

(* What the screen and the garment do with the baseline.                     *)
Others == Screen \/ \E d \in Descriptor : GarmentLeaves(d)

LEMMA OthersKeep ==
    ASSUME TypeOK, Others
    PROVE  /\ UNCHANGED <<strayed, markedBy, initial_distance, ratios>>
           /\ left \subseteq left'
           /\ initial' = initial \/ initial' = FALSE
           /\ \A r \in Route : UNCHANGED <<handler[r].pc, handler[r].distance,
                                          handler[r].closeness, handler[r].prox>>
<1>1. CASE ChooseDestination
  BY <1>1 DEF ChooseDestination, baselineVars, TypeOK, Handling
<1>2. CASE ViewDidLoad \/ Accept \/ GoBack \/ GoBackEnds \/ \E d \in Descriptor : GarmentLeaves(d)
  BY <1>2 DEF ViewDidLoad, Accept, GoBack, GoBackEnds, GarmentLeaves, baselineVars
<1> QED BY <1>1, <1>2 DEF Others, Screen

LEMMA OthersKeepBaseline ==
    ASSUME TypeOK, BInv, Others
    PROVE  (BaselineReset /\ MarksAreOwn /\ BaselineOfTheRoute)'
<1>1. /\ UNCHANGED <<strayed, markedBy>> /\ left \subseteq left'
      /\ \A r \in Route : handler'[r].pc = handler[r].pc
  BY OthersKeep
<1>2. MarksAreOwn'
  BY <1>1 DEF BInv, MarksAreOwn
<1>3. CASE ChooseDestination
  <2>1. initial' = initial /\ main = "menu"
    BY <1>3 DEF ChooseDestination, baselineVars
  <2>2. route = 0 \/ route \in left
    BY <2>1 DEF BInv, OneRouteAtATime
  <2>3. ~strayed => ~initial'
    BY <2>1, <2>2 DEF BInv, BaselineReset
  <2> QED BY <1>1, <1>2, <2>3 DEF BaselineReset, BaselineOfTheRoute
<1>4. CASE ViewDidLoad \/ Accept \/ GoBackEnds \/ \E d \in Descriptor : GarmentLeaves(d)
  <2>1. UNCHANGED <<initial, route, left, strayed, markedBy>>
    BY <1>4 DEF ViewDidLoad, Accept, GoBackEnds, GarmentLeaves, baselineVars
  <2> QED BY <1>2, <2>1 DEF BInv, BaselineReset, BaselineOfTheRoute
<1>5. CASE GoBack
  <2>1. initial' = FALSE
    BY <1>5 DEF GoBack
  <2> QED BY <1>2, <2>1 DEF BaselineReset, BaselineOfTheRoute
<1> QED BY <1>3, <1>4, <1>5 DEF Others, Screen

(* The steps that write the globals, and those that do not.                  *)
Writes(r) == StoreDistance(r) \/ StoreRatios(r) \/ StoreInitial(r) \/ Arrive(r)

LEMMA QuietSteps ==
    ASSUME NEW r \in Route, Steps(r), ~Writes(r)
    PROVE  UNCHANGED baselineVars
BY DEF Writes, Steps, Discover, DelayedStart, Scanner, Prox, HandleQuietly, Handle, Searched,
   Compare, Divide, Send, ArriveEnds

LEMMA StrayWrites ==
    ASSUME NEW r \in Route, Writes(r)
    PROVE  (r \in left => strayed') /\ (~strayed' => ~strayed)
BY DEF Writes, StoreDistance, StoreRatios, StoreInitial, Arrive, Mark

LEMMA HandlerKeepsBaseline ==
    ASSUME TypeOK, BInv, NEW r \in Route, Steps(r)
    PROVE  (BaselineReset /\ MarksAreOwn /\ BaselineOfTheRoute)'
<1>1. /\ UNCHANGED <<main, route, left>>
      /\ \A q \in Route \ {r} : handler'[q] = handler[q]
  BY HandlersStepAlone
<1> USE <1>1
<1>2. CASE strayed'
  BY <1>2 DEF BaselineReset, MarksAreOwn, BaselineOfTheRoute
<1>3. CASE ~Writes(r)
  <2>1. UNCHANGED baselineVars
    BY <1>3, QuietSteps
  <2>2. handler'[r].pc \in {"ratios", "initial"} => handler[r].pc = handler'[r].pc
    <3>1. CASE Discover(r) \/ DelayedStart(r)
      BY <3>1 DEF Discover, DelayedStart
    <3>2. CASE Scanner(r)
      BY <1>3, <3>2, HandlerMoves DEF Scanner, Prox, Writes, Idle
    <3> QED BY <3>1, <3>2 DEF Steps
  <2> QED BY <2>1, <2>2 DEF baselineVars, BInv, BaselineReset, MarksAreOwn, BaselineOfTheRoute
<1>4. CASE ~strayed' /\ Writes(r)
  <2>1. r \notin left /\ ~strayed
    BY <1>4, StrayWrites
  <2>2. handler[r].pc # "idle"
    BY <1>4 DEF Writes, StoreDistance, StoreRatios, StoreInitial, Arrive
  <2>3. r = route /\ route # 0
    BY <2>1, <2>2, WorksForTheRoute DEF BInv
  <2>4. \A q \in Route \ left : q # r => handler[q].pc = "idle"
    BY <2>3, WorksForTheRoute DEF BInv
  <2>5. BaselineReset'
    BY <2>1, <2>3 DEF BaselineReset
  <2>6. CASE StoreDistance(r)
    <3>1. markedBy' = r
      BY <1>4, <2>6 DEF StoreDistance, Mark
    <3>2. MarksAreOwn'
      BY <2>4, <3>1 DEF MarksAreOwn
    <3> QED BY <2>3, <2>5, <3>1, <3>2 DEF BaselineOfTheRoute
  <2>7. CASE StoreRatios(r) \/ StoreInitial(r)
    <3>1. markedBy' = markedBy /\ handler[r].pc \in {"ratios", "initial"}
      BY <1>4, <2>7 DEF StoreRatios, StoreInitial, Mark
    <3>2. markedBy = r
      BY <2>1, <3>1 DEF BInv, MarksAreOwn
    <3> QED BY <2>3, <2>4, <2>5, <3>1, <3>2 DEF MarksAreOwn, BaselineOfTheRoute
  <2>8. CASE Arrive(r)
    <3>1. ~initial'
      BY <2>8 DEF Arrive
    <3>2. handler'[r].pc = "close"
      BY <2>8, HandlerMoves
    <3> QED BY <2>4, <2>5, <3>1, <3>2 DEF MarksAreOwn, BaselineOfTheRoute
  <2> QED BY <1>4, <2>6, <2>7, <2>8 DEF Writes
<1> QED BY <1>2, <1>3, <1>4

LEMMA InitBInv == Init => BInv
  BY DEF Init, BInv, OneRouteAtATime, BaselineReset, MarksAreOwn, BaselineOfTheRoute, Idle,
     Route

LEMMA StepBInv ==
    ASSUME TypeOK, BInv, [Next]_vars
    PROVE  BInv'
<1>1. OneRouteAtATime'
  BY RoutesStep DEF BInv
<1>2. CASE UNCHANGED vars
  BY <1>1, <1>2 DEF vars, BInv, BaselineReset, MarksAreOwn, BaselineOfTheRoute
<1>3. CASE Others
  BY <1>1, <1>3, OthersKeepBaseline DEF BInv
<1>4. ASSUME NEW r \in Route, Steps(r) PROVE BInv'
  BY <1>1, <1>4, HandlerKeepsBaseline DEF BInv
<1> QED BY <1>2, <1>3, <1>4 DEF Next, Others, Steps

(* A route never measures its level from the distance of the route before,   *)
(* unless a handler touched the globals after its route was left, for any    *)
(* number of routes and discoveries: property BaselineOfTheRoute.            *)
THEOREM BaselineIsNotInherited == Spec => []BaselineOfTheRoute
<1>1. BInv => BaselineOfTheRoute
  BY DEF BInv
<1> QED BY <1>1, InitBInv, StepBInv, TypeCorrect, PTL DEF Spec

-----------------------------------------------------------------------------
(* Only the route on the screen has a connection that is up, whose number    *)
(* its screen holds: goBack1 shuts it down before there is a menu.           *)
OnlyTheScreens ==
    \A d \in DOMAIN open :
        Connected(d) => open[d].route = route /\ main \in {"shown", "close"} /\ socket[route] = d

(* The handler of the last route reads its own destination and a whole map.  *)
Guided == \A r \in Route : r >= route => ~handler[r].astray

LEMMA ScreensStep ==
    ASSUME TypeOK, OnlyTheScreens, [Next]_vars
    PROVE  OnlyTheScreens'
<1>1. CASE UNCHANGED vars
  BY <1>1 DEF vars, OnlyTheScreens, Connected, Connection
<1>2. CASE ChooseDestination
  <2>1. \A d \in DOMAIN open : ~Connected(d)
    BY <1>2 DEF ChooseDestination, OnlyTheScreens
  <2>2. open' = open
    BY <1>2 DEF ChooseDestination
  <2> QED BY <2>1, <2>2 DEF OnlyTheScreens, Connected, Connection
<1>3. CASE ViewDidLoad \/ Accept
  <2>a. route \in Route /\ \A d \in DOMAIN open : ~Connected(d) /\ open[d] \in Entry
    BY <1>3 DEF ViewDidLoad, Accept, OnlyTheScreens, TypeOK, Entry
  <2>1. CASE open' = open
    BY <2>1, <2>a DEF OnlyTheScreens, Connected, Connection
  <2>2. CASE ViewDidLoad
    <3>1. open' = Open([route |-> route, kind |-> "listener", end |-> "open"])
      BY <2>2 DEF ViewDidLoad
    <3>2. \A d \in DOMAIN open' : open'[d].kind = "listener" \/ (d \in DOMAIN open /\ open'[d] = open[d])
      BY <3>1 DEF Open
    <3> QED BY <2>a, <3>2 DEF OnlyTheScreens, Connected, Connection
  <2>3. CASE Accept /\ open' # open
    <3>1. PICK fd \in Lowest :
            /\ socket' = [socket EXCEPT ![route] = fd]
            /\ open' = Open([route |-> route, kind |-> "connection", end |-> "open"])
      BY <2>3 DEF Accept
    <3>2. \A d \in Lowest : d = fd
      BY <3>1 DEF Lowest, Free, Descriptor
    <3>3. ASSUME NEW d \in DOMAIN open', d # fd
          PROVE  d \in DOMAIN open /\ open'[d] = open[d]
      BY <3>1, <3>2, <3>3 DEF Open
    <3>4. socket'[route] = fd /\ route' = route /\ main' = "shown"
      BY <2>3, <2>a, <3>1 DEF Accept, TypeOK
    <3>5. fd \in DOMAIN open' /\ open'[fd].route = route
      BY <3>1 DEF Open
    <3> QED BY <2>a, <3>3, <3>4, <3>5 DEF OnlyTheScreens, Connected, Connection
  <2> QED BY <1>3, <2>1, <2>2, <2>3
<1>4. CASE GoBackEnds
  <2>1. ASSUME NEW d \in DOMAIN open' PROVE ~Connected(d)'
    <3>1. d \in DOMAIN open
      BY <1>4, <2>1 DEF GoBackEnds, ShutDown
    <3>2. CASE Connected(d)
      <4>1. d = socket[route] /\ Connection(d) /\ open[d] \in Entry
        BY <3>1, <3>2 DEF OnlyTheScreens, Connected, TypeOK, Entry
      <4>2. open'[d] = [open[d] EXCEPT !.end = "shut"]
        BY <1>4, <3>1, <4>1 DEF GoBackEnds, ShutDown
      <4> QED BY <4>1, <4>2 DEF Connected, Entry
    <3>3. CASE ~Connected(d)
      <4>1. /\ open'[d].kind = open[d].kind
            /\ open'[d].end = open[d].end \/ open'[d].end = "shut"
        BY <1>4, <2>1, <3>1, ShutDownIsTyped DEF GoBackEnds, TypeOK, Entry
      <4> QED BY <3>1, <3>3, <4>1 DEF Connected, Connection
    <3> QED BY <3>2, <3>3
  <2> QED BY <2>1 DEF OnlyTheScreens
<1>5. ASSUME UNCHANGED <<main, route, socket>> \/ (GoBack /\ open' = open),
             \A d \in DOMAIN open' :
                /\ d \in DOMAIN open /\ open'[d].route = open[d].route
                /\ Connected(d)' => Connected(d)
      PROVE  OnlyTheScreens'
  <2>1. UNCHANGED <<route, socket>> /\ (main' = main \/ main' = "close")
    BY <1>5 DEF GoBack
  <2> QED BY <1>5, <2>1 DEF OnlyTheScreens
<1>6. CASE GoBack
  <2>1. open' = open
    BY <1>6 DEF GoBack
  <2>2. \A d \in DOMAIN open' :
           d \in DOMAIN open /\ open'[d].route = open[d].route /\ (Connected(d)' => Connected(d))
    BY <2>1 DEF Connected, Connection
  <2> QED BY <1>5, <1>6, <2>1, <2>2
<1>7. ASSUME NEW d \in Descriptor, GarmentLeaves(d) PROVE OnlyTheScreens'
  <2>1. UNCHANGED <<main, route, socket>>
    BY <1>7 DEF GarmentLeaves
  <2>2. \A e \in DOMAIN open' :
           e \in DOMAIN open /\ open'[e].route = open[e].route /\ (Connected(e)' => Connected(e))
    BY <1>7, GarmentLeavesIsTyped DEF Connected, Connection, TypeOK, Entry
  <2> QED BY <1>5, <2>1, <2>2
<1>8. ASSUME NEW r \in Route, Steps(r) PROVE OnlyTheScreens'
  <2>1. UNCHANGED <<main, route, socket>>
    BY <1>8, HandlersStepAlone
  <2>2. \A e \in DOMAIN open' :
           e \in DOMAIN open /\ open'[e].route = open[e].route /\ (Connected(e)' => Connected(e))
    <3>1. CASE ArriveEnds(r)
      BY <3>1, ShutDownIsTyped DEF ArriveEnds, Connected, Connection, TypeOK, Entry
    <3>2. CASE ~ArriveEnds(r)
      <4>1. open' = open
        BY <1>8, <3>2 DEF Steps, Discover, DelayedStart, Scanner, Prox, HandleQuietly, Handle,
           Searched, StoreDistance, StoreRatios, StoreInitial, Compare, Divide, Send, Arrive
      <4> QED BY <4>1 DEF Connected, Connection
    <3> QED BY <3>1, <3>2
  <2> QED BY <1>5, <2>1, <2>2
<1> QED BY <1>1, <1>2, <1>3, <1>4, <1>6, <1>7, <1>8 DEF Next, Screen, Steps

LEMMA GuidedStep ==
    ASSUME TypeOK, OneRouteAtATime, Guided, [Next]_vars
    PROVE  Guided'
<1>1. CASE UNCHANGED vars
  BY <1>1 DEF vars, Guided
<1>2. CASE ChooseDestination
  <2>1. ASSUME NEW r \in Route, r >= route' PROVE ~handler'[r].astray
    <3>1. r > route /\ r >= route
      BY <1>2, <2>1 DEF ChooseDestination, TypeOK, Route
    <3>2. handler[r].pc = "idle" /\ ~handler[r].astray
      BY <3>1 DEF OneRouteAtATime, Guided
    <3>3. handler'[r] = handler[r]
      BY <1>2, <3>2 DEF ChooseDestination
    <3> QED BY <3>2, <3>3
  <2> QED BY <2>1 DEF Guided
<1>3. CASE ViewDidLoad \/ Accept \/ GoBack \/ GoBackEnds \/ \E d \in Descriptor : GarmentLeaves(d)
  <2>1. UNCHANGED <<route, handler>>
    BY <1>3 DEF ViewDidLoad, Accept, GoBack, GoBackEnds, GarmentLeaves
  <2> QED BY <2>1 DEF Guided
<1>4. ASSUME NEW r \in Route, Steps(r) PROVE Guided'
  <2>1. UNCHANGED <<main, route>> /\ \A q \in Route \ {r} : handler'[q] = handler[q]
    BY <1>4, HandlersStepAlone
  <2>2. r =< route /\ ~(r = route /\ main = "load") /\ r \in Nat /\ route \in Nat
    BY <1>4, StepsAreBegun DEF TypeOK, Route
  <2>3. ASSUME r >= route PROVE ~handler'[r].astray
    <3>1. r = route /\ main # "load" /\ ~handler[r].astray
      BY <2>2, <2>3 DEF Guided
    <3>2. CASE Discover(r) \/ DelayedStart(r)
      BY <3>1, <3>2 DEF Discover, DelayedStart
    <3>3. CASE HandleQuietly(r) \/ Searched(r) \/ Prox(r) \/ Arrive(r)
      <4>1. handler'[r].astray = handler[r].astray
        BY <3>3, HandlerMoves
      <4> QED BY <3>1, <4>1
    <3>4. CASE Handle(r)
      <4>1. handler'[r].astray = (route # r \/ main = "load")
        BY <3>4, HandlerMoves
      <4>2. ~(route # r \/ main = "load")
        BY <3>1
      <4> QED BY <4>1, <4>2
    <3>5. CASE Send(r)
      <4>1. handler' = handler \/ ~handler'[r].astray
        BY <3>5, HandlerMoves
      <4> QED BY <3>1, <4>1
    <3>6. CASE ArriveEnds(r)
      <4>1. handler'[r] = Idle
        BY <3>6, HandlerMoves
      <4> QED BY <4>1 DEF Idle
    <3> QED BY <1>4, <3>2, <3>3, <3>4, <3>5, <3>6 DEF Steps, Scanner
  <2> QED BY <2>1, <2>3 DEF Guided
<1> QED BY <1>1, <1>2, <1>3, <1>4 DEF Next, Screen, Steps

(* A packet that reaches a garment says the way to the destination of its    *)
(* route, found on a whole map, although the next route overwrites both      *)
(* globals without waiting for the handlers: property OwnDestination.        *)
THEOREM PacketsSayTheirOwnWay == Spec => []OwnDestination
<1>1. Init => OnlyTheScreens /\ Guided
  BY DEF Init, OnlyTheScreens, Guided, Idle
<1>2. TypeOK /\ OwnDescriptors /\ OnlyTheScreens /\ Guided => OwnDestination
  <2> SUFFICES ASSUME TypeOK, OwnDescriptors, OnlyTheScreens, Guided,
                      NEW r \in Route, Sending(r)
               PROVE  ~handler[r].astray
    BY DEF OwnDestination
  <2>1. handler[r].fd \in DOMAIN open /\ Connected(handler[r].fd)
    BY DEF Sending, Connected, Connection
  <2>2. open[handler[r].fd].route = r
    BY <2>1 DEF OwnDescriptors, OfRoute
  <2>3. r = route /\ r \in Nat
    BY <2>1, <2>2 DEF OnlyTheScreens, Route
  <2> QED BY <2>3 DEF Guided
<1> QED
  BY <1>1, <1>2, ScreensStep, GuidedStep, InitBInv, StepBInv, TypeCorrect,
     PacketsReachTheirOwnClient, PTL DEF Spec, BInv
-----------------------------------------------------------------------------
(* What a handler whose route is not left holds on its way to the level: the *)
(* two globals fit together as soon as it has stored them, and as long as it *)
(* uses them, because no other handler of such a route is at work.           *)
Measures(r) ==
    /\ handler[r].pc \in {"distance", "ratios", "initial"} => ~initial
    /\ handler[r].pc = "ratios" => handler[r].distance = initial_distance
    /\ handler[r].pc \in {"initial", "compare", "divide"} => ratios = initial_distance \div 5
    /\ handler[r].pc = "divide" => handler[r].closeness \in 0..initial_distance
    /\ handler[r].prox \in 0..9

LevelsAreRight ==
    ~strayed => /\ initial => ratios = initial_distance \div 5
                /\ \A r \in Route \ left : Measures(r)

(* A fifth of a distance goes at most nine times into what is not more.      *)
LEMMA NineFifths ==
    ASSUME NEW d \in Nat, NEW c \in 0..d, d \div 5 # 0
    PROVE  c \div (d \div 5) \in 0..9
<1> DEFINE q == d \div 5
<1> DEFINE k == c \div q
<1>1. q \in Nat /\ q >= 1 /\ d =< 5 * q + 4
  OBVIOUS
<1>2. c =< 9 * q /\ c \in Nat
  BY <1>1
<1> HIDE DEF q
<1>3. k \in Nat /\ k * q =< c
  BY <1>1, <1>2
<1>4. k =< 9
  <2> HIDE DEF k
  <2> SUFFICES ASSUME k >= 10 PROVE FALSE
    BY <1>3
  <2>1. k * q >= 10 * q
    BY <1>1, <1>3
  <2>2. k * q \in Nat
    BY <1>1, <1>3
  <2> QED BY <1>1, <1>2, <1>3, <2>1, <2>2
<1>5. k \in 0..9
  BY <1>3, <1>4
<1> QED BY <1>5 DEF q

(* The step of the handler itself, when it does not stray.                   *)
LEMMA HandlerMeasures ==
    ASSUME TypeOK, LevelsAreRight, ~strayed, NEW r \in Route \ left, Steps(r)
    PROVE  Measures(r)'
<1>1. Measures(r) /\ (initial => ratios = initial_distance \div 5)
  BY DEF LevelsAreRight
<1>2. handler[r].distance \in Nat /\ initial_distance \in Nat /\ ratios \in Nat
  BY HandledDistance DEF TypeOK
<1>3. CASE Discover(r) \/ DelayedStart(r) \/ HandleQuietly(r)
  BY <1>1, <1>3 DEF Discover, DelayedStart, HandleQuietly, baselineVars, Measures
<1>4. CASE Handle(r) \/ ArriveEnds(r)
  <2>1. handler'[r].pc \in {"search", "idle"} /\ handler'[r].prox = 0
    BY <1>4, HandlerMoves DEF Idle
  <2> QED BY <2>1 DEF Measures
<1>5. CASE Searched(r)
  <2>1. /\ handler'[r].pc = IF initial THEN "compare" ELSE "distance"
        /\ handler'[r].prox = handler[r].prox
    BY <1>5, HandlerMoves
  <2>2. UNCHANGED <<initial, ratios, initial_distance>>
    BY <1>5 DEF Searched, baselineVars
  <2> QED BY <1>1, <2>1, <2>2 DEF Measures
<1>6. CASE StoreDistance(r)
  <2>1. /\ handler'[r].pc = "ratios" /\ handler'[r].distance = handler[r].distance
        /\ handler'[r].prox = handler[r].prox
    BY <1>6, HandlerMoves
  <2>2. initial_distance' = handler[r].distance /\ UNCHANGED initial
    BY <1>6 DEF StoreDistance
  <2>3. handler[r].pc = "distance"
    BY <1>6 DEF StoreDistance
  <2> QED BY <1>1, <2>1, <2>2, <2>3 DEF Measures
<1>7. CASE StoreRatios(r)
  <2>1. handler'[r].pc = "initial" /\ handler'[r].prox = handler[r].prox
    BY <1>7, HandlerMoves
  <2>2. handler[r].pc = "ratios" /\ UNCHANGED <<initial, initial_distance>>
    BY <1>7 DEF StoreRatios
  <2>3. handler[r].distance = initial_distance
    BY <1>1, <2>2 DEF Measures
  <2>4. ratios' = initial_distance \div 5
    BY <1>7, <2>3 DEF StoreRatios
  <2> QED BY <1>1, <2>1, <2>2, <2>4 DEF Measures
<1>8. CASE StoreInitial(r)
  <2>1. handler'[r].pc = "send" /\ handler'[r].prox = 0
    BY <1>8, HandlerMoves
  <2> QED BY <2>1 DEF Measures
<1>9. CASE Compare(r)
  <2>1. handler[r].pc = "compare" /\ UNCHANGED <<initial, ratios, initial_distance>>
    BY <1>9 DEF Compare, baselineVars
  <2>2. CASE handler'[r].pc = "send" /\ handler'[r].prox = 0
    BY <2>2 DEF Measures
  <2>3. CASE ~(handler'[r].pc = "send" /\ handler'[r].prox = 0)
    <3>1. /\ handler'[r].pc = "divide" /\ handler'[r].prox = handler[r].prox
          /\ handler'[r].closeness = initial_distance - handler[r].distance
          /\ ~(handler[r].distance > initial_distance)
      BY <1>9, <2>3, HandlerMoves
    <3>2. handler'[r].closeness \in 0..initial_distance
      BY <1>2, <3>1
    <3> QED BY <1>1, <2>1, <3>1, <3>2 DEF Measures
  <2> QED BY <2>2, <2>3
<1>10. CASE Divide(r)
  <2>1. handler[r].pc = "divide" /\ UNCHANGED <<initial, ratios, initial_distance>>
    BY <1>10 DEF Divide, baselineVars
  <2>2. CASE handler' = handler
    BY <1>1, <2>1, <2>2 DEF Measures
  <2>3. CASE handler' # handler
    <3>1. /\ handler'[r].pc = "send"
          /\ handler'[r].prox = IF ratios = 0 THEN 0 ELSE handler[r].closeness \div ratios
      BY <1>10, <2>3, HandlerMoves
    <3>2. ratios = initial_distance \div 5 /\ handler[r].closeness \in 0..initial_distance
      BY <1>1, <2>1 DEF Measures
    <3>3. handler'[r].prox \in 0..9
      BY <1>2, <3>1, <3>2, NineFifths
    <3> QED BY <3>1, <3>3 DEF Measures
  <2> QED BY <2>2, <2>3
<1>11. CASE Send(r)
  <2>1. CASE handler' = handler
    <3>1. UNCHANGED <<initial, ratios, initial_distance>>
      BY <1>11 DEF Send, baselineVars
    <3> QED BY <1>1, <2>1, <3>1 DEF Measures
  <2>2. CASE handler' # handler
    <3>1. handler'[r].pc \in {"idle", "arrived"} /\ handler'[r].prox = 0
      BY <1>11, <2>2, HandlerMoves
    <3> QED BY <3>1 DEF Measures
  <2> QED BY <2>1, <2>2
<1>12. CASE Arrive(r)
  <2>1. handler'[r].pc = "close" /\ handler'[r].prox = handler[r].prox
    BY <1>12, HandlerMoves
  <2> QED BY <1>1, <2>1 DEF Measures
<1> QED
  BY <1>3, <1>4, <1>5, <1>6, <1>7, <1>8, <1>9, <1>10, <1>11, <1>12 DEF Steps, Scanner, Prox

LEMMA LevelsStep ==
    ASSUME TypeOK, OneRouteAtATime, LevelsAreRight, [Next]_vars
    PROVE  LevelsAreRight'
<1>1. CASE UNCHANGED vars
  BY <1>1 DEF vars, LevelsAreRight, Measures
<1>2. CASE Others
  BY <1>2, OthersKeep DEF LevelsAreRight, Measures
<1>3. ASSUME NEW r \in Route, Steps(r) PROVE LevelsAreRight'
  <2> SUFFICES ASSUME ~strayed' PROVE LevelsAreRight'
    BY DEF LevelsAreRight
  <2>1. left' = left /\ \A q \in Route \ {r} : handler'[q] = handler[q]
    BY <1>3, HandlersStepAlone
  <2>2. ~strayed
    BY <1>3, QuietSteps, StrayWrites DEF baselineVars
  <2>3. r \notin left => Measures(r)'
    BY <1>3, <2>2, HandlerMeasures
  <2>4. CASE ~Writes(r)
    <3>1. UNCHANGED <<initial, initial_distance, ratios>>
      BY <1>3, <2>4, QuietSteps DEF baselineVars
    <3>2. \A q \in (Route \ left) \ {r} : Measures(q)'
      BY <2>1, <2>2, <3>1 DEF LevelsAreRight, Measures
    <3> QED BY <2>1, <2>2, <2>3, <3>1, <3>2 DEF LevelsAreRight
  <2>5. CASE Writes(r)
    <3>1. r \notin left
      BY <2>5, StrayWrites
    <3>2. handler[r].pc # "idle" /\ (handler[r].pc = "initial" \/ ~initial' \/ initial' = initial)
      BY <2>5 DEF Writes, StoreDistance, StoreRatios, StoreInitial, Arrive
    <3>3. ASSUME NEW q \in (Route \ left) \ {r} PROVE Measures(q)'
      <4>1. handler[q].pc = "idle"
        BY <3>1, <3>2, WorksForTheRoute
      <4>2. handler'[q] = handler[q] /\ Measures(q)
        BY <2>1, <2>2 DEF LevelsAreRight
      <4> QED BY <4>1, <4>2 DEF Measures
    <3>4. initial' => ratios' = initial_distance' \div 5
      <4>1. Measures(r) /\ (initial => ratios = initial_distance \div 5)
        BY <2>2, <3>1 DEF LevelsAreRight
      <4>2. CASE StoreDistance(r) \/ StoreRatios(r)
        <5>1. ~initial'
          BY <4>1, <4>2 DEF StoreDistance, StoreRatios, Measures
        <5> QED BY <5>1
      <4>3. CASE StoreInitial(r)
        BY <4>1, <4>3 DEF StoreInitial, Measures
      <4>4. CASE Arrive(r)
        BY <4>4 DEF Arrive
      <4> QED BY <2>5, <4>2, <4>3, <4>4 DEF Writes
    <3> QED BY <2>1, <2>3, <3>3, <3>4 DEF LevelsAreRight
  <2> QED BY <2>4, <2>5
<1> QED BY <1>1, <1>2, <1>3 DEF Next, Others, Steps

(* One digit is enough for the level, whatever the distances, for every      *)
(* route that is not left and as long as no handler outlived its route:      *)
(* property LevelIsADigit.                                                   *)
THEOREM OneDigitIsEnough == Spec => []LevelIsADigit
<1>1. Init => LevelsAreRight
  BY DEF Init, LevelsAreRight, Measures, Idle
<1>2. LevelsAreRight => LevelIsADigit
  BY DEF LevelsAreRight, LevelIsADigit, Measures
<1> QED
  BY <1>1, <1>2, LevelsStep, InitBInv, StepBInv, TypeCorrect, PTL DEF Spec, BInv
-----------------------------------------------------------------------------
(* A connection is shut down only when its route has been left or completed. *)
ShutAfterTheEnd ==
    \A d \in DOMAIN open :
        Connection(d) /\ open[d].end = "shut" => open[d].route \in left \cup complete

(* Once the app is killed nothing happens any more.                          *)
LEMMA KilledStops ==
    ASSUME [Next]_vars, killed # "no"
    PROVE  UNCHANGED vars
BY DEF Next, Screen, ChooseDestination, ViewDidLoad, Accept, GoBack, GoBackEnds, GarmentLeaves,
   Discover, DelayedStart, Scanner, Prox, HandleQuietly, Handle, Searched, StoreDistance,
   StoreRatios, StoreInitial, Compare, Divide, Send, Arrive, ArriveEnds, Running

(* The steps other than GoBackEnds and ArriveEnds shut nothing down.         *)
LEMMA OnlyTheEndsShut ==
    ASSUME TypeOK, [Next]_vars, ~GoBackEnds, \A r \in Route : ~ArriveEnds(r)
    PROVE  \A d \in DOMAIN open' :
              open'[d].end = "shut" =>
                 d \in DOMAIN open /\ open'[d].route = open[d].route /\ open[d].end = "shut"
                   /\ open'[d].kind = open[d].kind
<1>1. CASE UNCHANGED vars \/ ChooseDestination \/ GoBack
  BY <1>1 DEF vars, ChooseDestination, GoBack
<1>2. CASE ViewDidLoad \/ Accept
  <2>1. \/ open' = open
        \/ \E kind \in {"listener", "connection"} :
              open' = Open([route |-> route, kind |-> kind, end |-> "open"])
    BY <1>2 DEF ViewDidLoad, Accept
  <2>2. ASSUME NEW kind, open' = Open([route |-> route, kind |-> kind, end |-> "open"]),
               NEW d \in DOMAIN open', open'[d].end = "shut"
        PROVE  d \in DOMAIN open /\ open'[d] = open[d]
    BY <2>2 DEF Open
  <2> QED BY <2>1, <2>2
<1>3. ASSUME NEW d \in Descriptor, GarmentLeaves(d)
      PROVE  \A e \in DOMAIN open' :
                open'[e].end = "shut" =>
                   e \in DOMAIN open /\ open'[e].route = open[e].route /\ open[e].end = "shut"
                     /\ open'[e].kind = open[e].kind
  BY <1>3, GarmentLeavesIsTyped DEF TypeOK, Entry
<1>4. ASSUME NEW r \in Route, Steps(r) PROVE open' = open
  BY <1>4 DEF Steps, Discover, DelayedStart, Scanner, Prox, HandleQuietly, Handle, Searched,
     StoreDistance, StoreRatios, StoreInitial, Compare, Divide, Send, Arrive
<1> QED BY <1>1, <1>2, <1>3, <1>4 DEF Next, Screen, Steps

(* The user's leaving and the announced arrivals are not taken back.         *)
LEMMA EndsStay ==
    ASSUME [Next]_vars
    PROVE  left \subseteq left' /\ complete \subseteq complete'
BY DEF vars, Next, Screen, ChooseDestination, ViewDidLoad, Accept, GoBack, GoBackEnds,
   GarmentLeaves, Discover, DelayedStart, Scanner, Prox, HandleQuietly, Handle, Searched,
   StoreDistance, StoreRatios, StoreInitial, Compare, Divide, Send, Arrive, ArriveEnds

LEMMA ShutStep ==
    ASSUME TypeOK, OwnDescriptors, OneRouteAtATime, ShutAfterTheEnd, [Next]_vars
    PROVE  ShutAfterTheEnd'
<1>1. left \subseteq left' /\ complete \subseteq complete'
  BY EndsStay
<1>2. CASE ~GoBackEnds /\ \A r \in Route : ~ArriveEnds(r)
  BY <1>1, <1>2, OnlyTheEndsShut DEF ShutAfterTheEnd, Connection
<1>3. ASSUME NEW r \in Route, ShutDown(socket[r]), r \in left' \cup complete'
      PROVE  ShutAfterTheEnd'
  <2>1. /\ DOMAIN open' = DOMAIN open
        /\ \A d \in DOMAIN open' :
              /\ open'[d].route = open[d].route /\ open'[d].kind = open[d].kind
              /\ open'[d].end = open[d].end \/ d = socket[r]
    BY <1>3, ShutDownIsTyped DEF TypeOK, Entry
  <2>2. socket[r] \in DOMAIN open => open[socket[r]].route = r
    BY DEF OwnDescriptors, OfRoute
  <2> QED BY <1>1, <1>3, <2>1, <2>2 DEF ShutAfterTheEnd, Connection
<1>4. CASE GoBackEnds
  <2>1. ShutDown(socket[route]) /\ left' = left /\ main = "close"
    BY <1>4 DEF GoBackEnds
  <2>2. route \in Route /\ route # 0
    BY <2>1 DEF TypeOK, Route
  <2>3. route \in left
    BY <2>1, <2>2 DEF OneRouteAtATime
  <2> QED BY <1>3, <2>1, <2>2, <2>3
<1>5. ASSUME NEW r \in Route, ArriveEnds(r) PROVE ShutAfterTheEnd'
  BY <1>3, <1>5 DEF ArriveEnds
<1> QED BY <1>2, <1>4, <1>5

LEMMA SignalStep ==
    ASSUME TypeOK, OwnDescriptors, ShutAfterTheEnd, SignalOnlyAfterTheEnd, [Next]_vars
    PROVE  SignalOnlyAfterTheEnd'
<1>1. CASE UNCHANGED vars
  BY <1>1 DEF vars, SignalOnlyAfterTheEnd, GarmentGone
<1>2. CASE killed # "no"
  BY <1>1, <1>2, KilledStops
<1>3. CASE killed = "no" /\ ~UNCHANGED vars
  <2> SUFFICES ASSUME killed' = "SIGPIPE" PROVE SignalOnlyAfterTheEnd'
    BY DEF SignalOnlyAfterTheEnd
  <2>1. PICK r \in Route : Send(r) /\ killed' = "SIGPIPE"
    BY <1>3 DEF vars, Next, Screen, ChooseDestination, ViewDidLoad, Accept, GoBack, GoBackEnds,
       GarmentLeaves, Discover, DelayedStart, Scanner, Prox, HandleQuietly, Handle, Searched,
       StoreDistance, StoreRatios, StoreInitial, Compare, Divide, Arrive, ArriveEnds
  <2>2. /\ handler[r].pc = "send" /\ handler' = handler
        /\ Connection(handler[r].fd) /\ ~Connected(handler[r].fd)
        /\ UNCHANGED <<open, left, complete>>
    BY <1>3, <2>1 DEF Send
  <2>3. handler[r].fd \in DOMAIN open /\ open[handler[r].fd].route = r
    BY <2>2 DEF OwnDescriptors, OfRoute, Connection
  <2>4. open[handler[r].fd].end \in {"shut", "gone"}
    BY <2>2, <2>3 DEF TypeOK, Connected
  <2>5. CASE open[handler[r].fd].end = "shut"
    <3>1. r \in left \cup complete
      BY <2>2, <2>3, <2>5 DEF ShutAfterTheEnd
    <3> QED BY <2>2, <3>1 DEF SignalOnlyAfterTheEnd
  <2>6. CASE open[handler[r].fd].end = "gone"
    <3>1. GarmentGone(r)'
      BY <2>2, <2>3, <2>6 DEF GarmentGone
    <3> QED BY <2>2, <3>1 DEF SignalOnlyAfterTheEnd
  <2> QED BY <2>4, <2>5, <2>6
<1> QED BY <1>1, <1>2, <1>3

(* The signal of a broken connection ends the app only when a route that was *)
(* left or completed still sends, or its garment has gone, for any number of *)
(* routes and descriptors: property SignalOnlyAfterTheEnd.                   *)
THEOREM NoSignalUnderWay == Spec => []SignalOnlyAfterTheEnd
<1>1. Init => ShutAfterTheEnd /\ SignalOnlyAfterTheEnd
  BY DEF Init, ShutAfterTheEnd, SignalOnlyAfterTheEnd
<1> QED
  BY <1>1, ShutStep, SignalStep, InitBInv, StepBInv, PacketsReachTheirOwnClient, TypeCorrect,
     PTL DEF Spec, BInv


-----------------------------------------------------------------------------
(* What LeftRoutesFallSilent needs besides fairness. The route on the screen *)
(* is not one that was left; and one that was left scans only until goBack1  *)
(* has come to stopScanning, or when the radio starts a delayed scan.        *)
ScreenIsNotLeft == main \in {"load", "accept", "shown"} => route \notin left

LeftRoutesStopScanning ==
    \A r \in left : scanning[r] => r \in Delayed \/ (main = "close" /\ r = route)

(* The steps a handler can have before it, at most.                          *)
StepsLeft(pc) ==
    CASE pc = "search" -> 7
      [] pc = "distance" -> 6
      [] pc \in {"ratios", "compare"} -> 5
      [] pc \in {"initial", "divide"} -> 4
      [] pc = "send" -> 3
      [] pc = "arrived" -> 2
      [] pc = "close" -> 1
      [] OTHER -> 0

(* The steps a scanner's queue can have before it, but for new discoveries.  *)
Work(r) == 8 * pending[r] + StepsLeft(handler[r].pc)

WorkIsCounted ==
    \A r \in Route : /\ Work(r) \in Nat
                     /\ Work(r) = 0 <=> pending[r] = 0 /\ handler[r].pc = "idle"

(* A step of a route that was left.                                          *)
FallsSilent(r) ==
    /\ r \in left'
    /\ ~scanning[r] => Work(r)' =< Work(r)
    /\ Scanner(r) => Work(r)' < Work(r) \/ ~Running'
LeftRoutesFinish == \A r \in left : FallsSilent(r)

LEMMA CountsWork ==
    ASSUME TypeOK, NEW r \in Route
    PROVE  /\ pending[r] \in Nat /\ StepsLeft(handler[r].pc) \in 0..7
           /\ Work(r) \in Nat
           /\ Work(r) = 0 <=> pending[r] = 0 /\ handler[r].pc = "idle"
<1>1. pending[r] \in 0..MaxPending /\ pending[r] \in Nat
  BY BoundsAssumption DEF TypeOK
<1>2. handler[r].pc \in {"idle", "search", "distance", "ratios", "initial", "compare",
                         "divide", "send", "arrived", "close"}
  BY DEF TypeOK, Handling
<1>3. /\ StepsLeft(handler[r].pc) \in 0..7
      /\ StepsLeft(handler[r].pc) = 0 <=> handler[r].pc = "idle"
  BY <1>2 DEF StepsLeft
<1> QED BY <1>1, <1>3 DEF Work

(* Each step of a handler has one less before it; a discovery taken from the *)
(* queue counts for more than its handler.                                   *)
LEMMA ScannerWorks ==
    ASSUME TypeOK, TypeOK', NEW r \in Route, Scanner(r)
    PROVE  Work(r)' < Work(r) \/ ~Running'
<1> DEFINE pc == handler[r].pc
<1>1. /\ pending[r] \in Nat /\ StepsLeft(pc) \in 0..7
      /\ pending'[r] \in Nat /\ StepsLeft(pc') \in 0..7
  <2>1. handler[r].pc' \in {"idle", "search", "distance", "ratios", "initial", "compare",
                            "divide", "send", "arrived", "close"}
    BY DEF TypeOK, Handling
  <2>2. StepsLeft(pc') \in 0..7
    BY <2>1 DEF StepsLeft
  <2>3. pending'[r] \in 0..MaxPending
    BY DEF TypeOK
  <2> QED BY <2>2, <2>3, CountsWork, BoundsAssumption
<1>2. CASE HandleQuietly(r) \/ Handle(r)
  <2>1. pending'[r] = pending[r] - 1
    BY <1>2 DEF HandleQuietly, Handle, TypeOK
  <2> QED BY <1>1, <2>1 DEF Work
<1>3. CASE ~(HandleQuietly(r) \/ Handle(r)) /\ Running'
  <2>1. pending' = pending
    BY <1>3 DEF Scanner, Prox, Searched, StoreDistance, StoreRatios, StoreInitial, Compare,
       Divide, Send, Arrive, ArriveEnds
  <2>2. StepsLeft(pc') < StepsLeft(pc)
    <3>1. CASE Searched(r)
      <4>1. pc = "search" /\ pc' \in {"compare", "distance"}
        BY <3>1, HandlerMoves DEF Searched
      <4> QED BY <4>1 DEF StepsLeft
    <3>2. CASE StoreDistance(r)
      <4>1. pc = "distance" /\ pc' = "ratios"
        BY <3>2, HandlerMoves DEF StoreDistance
      <4> QED BY <4>1 DEF StepsLeft
    <3>3. CASE StoreRatios(r)
      <4>1. pc = "ratios" /\ pc' = "initial"
        BY <3>3, HandlerMoves DEF StoreRatios
      <4> QED BY <4>1 DEF StepsLeft
    <3>4. CASE StoreInitial(r)
      <4>1. pc = "initial" /\ pc' = "send"
        BY <3>4, HandlerMoves DEF StoreInitial
      <4> QED BY <4>1 DEF StepsLeft
    <3>5. CASE Compare(r)
      <4>1. pc = "compare" /\ pc' \in {"divide", "send"}
        BY <3>5, HandlerMoves DEF Compare
      <4> QED BY <4>1 DEF StepsLeft
    <3>6. CASE Divide(r)
      <4>1. \A prox : Level(handler[r], prox).pc = "send"
        BY DEF Level, TypeOK, Handling
      <4>2. killed' = "no"
        BY <1>3 DEF Running
      <4>3. pc = "divide" /\ pc' = "send"
        BY <3>6, <4>1, <4>2 DEF Divide, TypeOK
      <4> QED BY <4>3 DEF StepsLeft
    <3>7. CASE Send(r)
      <4>1. pc = "send" /\ pc' \in {"idle", "arrived"}
        BY <1>3, <3>7, HandlerMoves DEF Send, Running
      <4> QED BY <4>1 DEF StepsLeft
    <3>8. CASE Arrive(r)
      <4>1. pc = "arrived" /\ pc' = "close"
        BY <3>8, HandlerMoves DEF Arrive
      <4> QED BY <4>1 DEF StepsLeft
    <3>9. CASE ArriveEnds(r)
      <4>1. handler'[r] = Idle
        BY <3>9, HandlerMoves
      <4>2. pc = "close" /\ pc' = "idle"
        BY <3>9, <4>1 DEF ArriveEnds, Idle
      <4> QED BY <4>2 DEF StepsLeft
    <3> QED BY <1>3, <3>1, <3>2, <3>3, <3>4, <3>5, <3>6, <3>7, <3>8, <3>9 DEF Scanner, Prox
  <2> QED BY <1>1, <2>1, <2>2 DEF Work
<1> QED BY <1>2, <1>3

(* A step that ends the app leaves its handler where it is.                  *)
LEMMA KillsInPlace ==
    ASSUME TypeOK, NEW r \in Route, Scanner(r), ~Running'
    PROVE  Work(r)' = Work(r)
<1>1. killed' # killed
  BY DEF Running, Scanner, Prox, HandleQuietly, Handle, Searched, StoreDistance, StoreRatios,
     StoreInitial, Compare, Divide, Send, Arrive, ArriveEnds
<1>2. UNCHANGED <<handler, pending>>
  BY <1>1 DEF Scanner, Prox, HandleQuietly, Handle, Searched, StoreDistance, StoreRatios,
     StoreInitial, Compare, Divide, Send, Arrive, ArriveEnds
<1> QED BY <1>2 DEF Work

LEMMA LeftAreRoutes == TypeOK => left \subseteq Route
<1> SUFFICES ASSUME TypeOK, NEW r \in left PROVE r \in Route
  OBVIOUS
<1>1. r \in 1..route /\ route \in 0..MaxRoutes
  BY DEF TypeOK
<1> QED BY <1>1, BoundsAssumption DEF Route

(* Other steps leave the work of a scanner alone, unless it scans.           *)
LEMMA OthersLeaveWork ==
    ASSUME TypeOK, [Next]_vars, NEW r \in Route, ~Scanner(r), ~scanning[r]
    PROVE  Work(r)' = Work(r)
<1>1. CASE UNCHANGED vars
  BY <1>1 DEF vars, Work
<1>2. CASE Others
  <2>1. handler'[r].pc = handler[r].pc
    BY <1>2, OthersKeep
  <2>2. pending' = pending
    BY <1>2 DEF Others, Screen, ChooseDestination, ViewDidLoad, Accept, GoBack, GoBackEnds,
       GarmentLeaves
  <2> QED BY <2>1, <2>2 DEF Work
<1>3. CASE Discover(r) \/ DelayedStart(r)
  BY <1>3 DEF Discover, DelayedStart, Work
<1>4. ASSUME NEW q \in Route, q # r, Steps(q) PROVE Work(r)' = Work(r)
  BY <1>4, HandlersStepAlone DEF Work
<1> QED BY <1>1, <1>2, <1>3, <1>4 DEF Next, Others, Steps

LEMMA LeftStep ==
    ASSUME TypeOK, OneRouteAtATime, ScreenIsNotLeft, LeftRoutesStopScanning, [Next]_vars
    PROVE  ScreenIsNotLeft' /\ LeftRoutesStopScanning'
<1>1. CASE UNCHANGED vars
  BY <1>1 DEF vars, ScreenIsNotLeft, LeftRoutesStopScanning
<1>2. CASE ChooseDestination
  <2>1. /\ main = "menu" /\ route' = route + 1 /\ route \in Nat
        /\ left \subseteq 1..route /\ left' = left /\ scanning' = scanning
    BY <1>2 DEF ChooseDestination, TypeOK
  <2>2. route' \notin left'
    BY <2>1
  <2> QED BY <2>1, <2>2 DEF ScreenIsNotLeft, LeftRoutesStopScanning
<1>3. CASE ViewDidLoad
  <2>1. /\ main = "load" /\ main' = "accept" /\ route' = route /\ left' = left
        /\ \A r \in Route : r # route => scanning'[r] = scanning[r]
        /\ left \subseteq Route
    BY <1>3, LeftAreRoutes DEF ViewDidLoad, TypeOK
  <2> QED BY <2>1 DEF ScreenIsNotLeft, LeftRoutesStopScanning
<1>4. CASE Accept \/ \E d \in Descriptor : GarmentLeaves(d)
  BY <1>4 DEF Accept, GarmentLeaves, ScreenIsNotLeft, LeftRoutesStopScanning
<1>5. CASE GoBack
  <2>1. main' = "close" /\ route' = route /\ left' = left \cup {route} /\ scanning' = scanning
        /\ main = "shown"
    BY <1>5 DEF GoBack
  <2> QED BY <2>1 DEF ScreenIsNotLeft, LeftRoutesStopScanning
<1>6. CASE GoBackEnds
  <2>1. /\ main' = "menu" /\ route' = route /\ left' = left /\ route \in Route
        /\ left \subseteq Route /\ ~scanning'[route]
        /\ \A r \in Route : r # route => scanning'[r] = scanning[r]
    BY <1>6, LeftAreRoutes DEF GoBackEnds, TypeOK
  <2> QED BY <2>1 DEF ScreenIsNotLeft, LeftRoutesStopScanning
<1>7. ASSUME NEW r \in Route, Steps(r)
      PROVE  ScreenIsNotLeft' /\ LeftRoutesStopScanning'
  <2>1. UNCHANGED <<main, route, left>> /\ left \subseteq Route
        /\ \A q \in Route \ {r} : scanning'[q] = scanning[q]
    BY <1>7, HandlersStepAlone, LeftAreRoutes
  <2>2. scanning'[r] => scanning[r] \/ r \in Delayed
    BY <1>7 DEF TypeOK, Steps, Discover, DelayedStart, Scanner, Prox, HandleQuietly, Handle,
       Searched, StoreDistance, StoreRatios, StoreInitial, Compare, Divide, Send, Arrive,
       ArriveEnds
  <2> QED BY <2>1, <2>2 DEF ScreenIsNotLeft, LeftRoutesStopScanning
<1> QED BY <1>1, <1>2, <1>3, <1>4, <1>5, <1>6, <1>7 DEF Next, Screen, Steps

LEMMA StepFinishes == TypeOK /\ TypeOK' /\ [Next]_vars => LeftRoutesFinish
<1> SUFFICES ASSUME TypeOK, TypeOK', [Next]_vars, NEW r \in left PROVE FallsSilent(r)
  BY DEF LeftRoutesFinish
<1>1. r \in Route /\ r \in left'
  BY LeftAreRoutes, EndsStay
<1>2. Scanner(r) => Work(r)' < Work(r) \/ ~Running'
  BY <1>1, ScannerWorks
<1>3. Scanner(r) /\ ~Running' => Work(r)' = Work(r)
  BY <1>1, KillsInPlace
<1>4. ~Scanner(r) /\ ~scanning[r] => Work(r)' = Work(r)
  BY <1>1, OthersLeaveWork
<1>5. Work(r) \in Nat /\ Work(r)' \in Int
  <2>1. Work(r) \in Nat
    BY <1>1, CountsWork
  <2>2. handler'[r].pc \in {"idle", "search", "distance", "ratios", "initial", "compare",
                            "divide", "send", "arrived", "close"} /\ pending'[r] \in 0..MaxPending
    BY <1>1 DEF TypeOK, Handling
  <2>3. StepsLeft(handler'[r].pc) \in 0..7 /\ pending'[r] \in Int
    BY <2>2, BoundsAssumption DEF StepsLeft
  <2> QED BY <2>1, <2>3 DEF Work
<1> QED BY <1>1, <1>2, <1>3, <1>4, <1>5 DEF FallsSilent

(* A route the user leaves comes to an end: once goBack1 has stopped its     *)
(* scan, only the radio can start it again; until then every step of its     *)
(* queue leaves one less to do, however many discoveries had been waiting    *)
(* and whatever the other routes do, or ends the app.                        *)
THEOREM LeftRoutesComeToAnEnd ==
    Spec => /\ [](WorkIsCounted /\ LeftRoutesStopScanning)
            /\ [][LeftRoutesFinish]_vars
<1>1. Init => ScreenIsNotLeft /\ LeftRoutesStopScanning
  BY DEF Init, ScreenIsNotLeft, LeftRoutesStopScanning
<1>2. TypeOK => WorkIsCounted
  BY CountsWork DEF WorkIsCounted
<1>3. TypeOK /\ TypeOK' /\ [Next]_vars => [LeftRoutesFinish]_vars
  BY StepFinishes
<1> QED
  BY <1>1, <1>2, <1>3, LeftStep, InitBInv, StepBInv, TypeCorrect, PTL DEF Spec, BInv

-----------------------------------------------------------------------------
(* What a route still has to open of its two descriptors.                    *)
ToOpen ==
    CASE main = "load" -> 2
      [] main = "accept" -> 1
      [] OTHER -> 0

(* What DescriptorsLast needs in every state.                                *)
TwoPerRoute ==
    /\ IsFiniteSet(DOMAIN open)
    /\ Cardinality(DOMAIN open) + ToOpen =< 2 * route

(* The kernel gives out one descriptor at most.                              *)
LEMMA OpenAddsOne ==
    ASSUME NEW e, IsFiniteSet(DOMAIN open), DOMAIN open \subseteq Descriptor, open' = Open(e)
    PROVE  /\ IsFiniteSet(DOMAIN open')
           /\ Cardinality(DOMAIN open') =< Cardinality(DOMAIN open) + 1
<1>1. DOMAIN open' = DOMAIN open \cup Lowest
  BY DEF Open
<1>2. Cardinality(DOMAIN open) \in Nat
  BY FS_CardinalityType
<1>3. CASE Lowest = {}
  BY <1>1, <1>2, <1>3
<1>4. CASE Lowest # {}
  <2>1. PICK d : d \in Lowest
    BY <1>4
  <2>2. ASSUME NEW f \in Lowest PROVE f = d
    <3>1. d \in Int /\ f \in Int /\ d =< f /\ f =< d
      BY <2>1, BoundsAssumption DEF Lowest, Free, Descriptor
    <3> QED BY <3>1
  <2>3. Lowest = {d}
    BY <2>1, <2>2
  <2> QED BY <1>1, <1>2, <2>3, FS_AddElement
<1> QED BY <1>3, <1>4

LEMMA CountStep ==
    ASSUME TypeOK, TwoPerRoute, [Next]_vars
    PROVE  TwoPerRoute'
<1>1. route \in Nat /\ Cardinality(DOMAIN open) \in Nat /\ DOMAIN open \subseteq Descriptor
  BY FS_CardinalityType DEF TypeOK, TwoPerRoute
<1>2. ASSUME DOMAIN open' = DOMAIN open, route' = route, ToOpen' = ToOpen
      PROVE  TwoPerRoute'
  BY <1>2 DEF TwoPerRoute
<1>3. CASE UNCHANGED vars
  BY <1>2, <1>3 DEF vars, ToOpen
<1>4. CASE ChooseDestination
  <2>1. ToOpen = 0 /\ ToOpen' = 2 /\ route' = route + 1 /\ open' = open
    BY <1>4 DEF ChooseDestination, ToOpen
  <2> QED BY <1>1, <2>1 DEF TwoPerRoute
<1>5. CASE ViewDidLoad
  <2>1. ToOpen = 2 /\ ToOpen' = 1 /\ route' = route
    BY <1>5 DEF ViewDidLoad, ToOpen
  <2>2. /\ IsFiniteSet(DOMAIN open')
        /\ Cardinality(DOMAIN open') =< Cardinality(DOMAIN open) + 1
    BY <1>1, <1>5, OpenAddsOne DEF ViewDidLoad, TwoPerRoute
  <2>3. Cardinality(DOMAIN open') \in Nat
    BY <2>2, FS_CardinalityType
  <2> QED BY <1>1, <2>1, <2>2, <2>3 DEF TwoPerRoute
<1>6. CASE Accept
  <2>1. ToOpen = 1 /\ ToOpen' = 0 /\ route' = route
    BY <1>6 DEF Accept, ToOpen
  <2>2. CASE open' = open
    BY <1>1, <2>1, <2>2 DEF TwoPerRoute
  <2>3. CASE open' # open
    <3>1. /\ IsFiniteSet(DOMAIN open')
          /\ Cardinality(DOMAIN open') =< Cardinality(DOMAIN open) + 1
      BY <1>1, <1>6, <2>3, OpenAddsOne DEF Accept, TwoPerRoute
    <3>2. Cardinality(DOMAIN open') \in Nat
      BY <3>1, FS_CardinalityType
    <3> QED BY <1>1, <2>1, <3>1, <3>2 DEF TwoPerRoute
  <2> QED BY <2>2, <2>3
<1>7. CASE GoBack
  BY <1>2, <1>7 DEF GoBack, ToOpen
<1>8. CASE GoBackEnds
  <2>1. DOMAIN open' = DOMAIN open
    BY <1>8 DEF GoBackEnds, ShutDown
  <2> QED BY <1>2, <1>8, <2>1 DEF GoBackEnds, ToOpen
<1>9. ASSUME NEW d \in Descriptor, GarmentLeaves(d) PROVE TwoPerRoute'
  <2>1. DOMAIN open' = DOMAIN open
    BY <1>9 DEF GarmentLeaves
  <2> QED BY <1>2, <1>9, <2>1 DEF GarmentLeaves, ToOpen
<1>10. ASSUME NEW r \in Route, Steps(r) PROVE TwoPerRoute'
  <2>1. UNCHANGED <<main, route>>
    BY <1>10, HandlersStepAlone
  <2>2. DOMAIN open' = DOMAIN open
    BY <1>10 DEF Steps, Discover, DelayedStart, Scanner, Prox, HandleQuietly, Handle, Searched,
       StoreDistance, StoreRatios, StoreInitial, Compare, Divide, Send, Arrive, ArriveEnds,
       ShutDown
  <2> QED BY <1>2, <2>1, <2>2 DEF ToOpen
<1> QED
  BY <1>3, <1>4, <1>5, <1>6, <1>7, <1>8, <1>9, <1>10 DEF Next, Screen, Steps

(* A route costs two descriptors at most, however it ends and whatever the   *)
(* handlers of the routes before it still do, so that n routes find all they *)
(* need among 2n descriptors: property DescriptorsLast.                      *)
THEOREM TwoDescriptorsPerRoute == Spec => []DescriptorsLast
<1>1. Init => TwoPerRoute
  <2> SUFFICES ASSUME Init PROVE TwoPerRoute
    OBVIOUS
  <2>1. DOMAIN open = {} /\ route = 0 /\ ToOpen = 0
    BY DEF Init, ToOpen
  <2> QED BY <2>1, FS_EmptySet DEF TwoPerRoute
<1>2. TypeOK /\ TwoPerRoute => DescriptorsLast
  <2> SUFFICES ASSUME TypeOK, TwoPerRoute, main = "accept"
               PROVE  Cardinality(Free) > MaxDescriptors - 2 * route
    BY DEF DescriptorsLast
  <2>1. IsFiniteSet(Descriptor) /\ Cardinality(Descriptor) = MaxDescriptors
    BY BoundsAssumption, FS_Interval DEF Descriptor
  <2>2. Descriptor \cap DOMAIN open = DOMAIN open
    BY DEF TypeOK
  <2>3. Cardinality(Free) = MaxDescriptors - Cardinality(DOMAIN open)
    BY <2>1, <2>2, FS_Difference DEF Free
  <2>4. Cardinality(DOMAIN open) + 1 =< 2 * route
    BY DEF TwoPerRoute, ToOpen
  <2>5. Cardinality(DOMAIN open) \in Nat /\ route \in Nat /\ MaxDescriptors \in Nat
    BY FS_CardinalityType, BoundsAssumption DEF TwoPerRoute, TypeOK
  <2> QED BY <2>3, <2>4, <2>5
<1> QED BY <1>1, <1>2, CountStep, TypeCorrect, PTL DEF Spec
=============================================================================
