---------------------------- MODULE PathFinding ----------------------------
(* findPath and aStar (PathFinding.swift): the route from the user to the    *)
(* destination. A node is its coordinates, by which the code compares nodes; *)
(* what aStar writes into the Node objects, the set of nodes it visited and  *)
(* the zone of the user outlive a call, and the next call begins with them.  *)
(* One iteration of aStar's loop is one step.                                *)
EXTENDS Integers, Sequences, FiniteSets, PriorityQueue

CONSTANTS
    Maps,          \* the possible nodeDict: functions from nodes to their
                   \* neighbors, in order
    Places,        \* coordinates a user can be at
    Goals,         \* destinations
    FindZone(_)    \* the results findZone can have for some coordinates

Coordinates == Int \X Int
NotFound == <<-1, -1>>

(* The file of the nodes connects no node to itself, nor twice to another,   *)
(* and no node has the coordinates by which aStar says that it found none.   *)
ASSUME MapsAssumption ==
    \A m \in Maps :
        /\ DOMAIN m \subseteq Coordinates /\ IsFiniteSet(DOMAIN m) /\ NotFound \notin DOMAIN m
        /\ \A n \in DOMAIN m : m[n] \in Seq(DOMAIN m \ {n}) /\ IsInjective(m[n])

ASSUME PlacesAssumption ==
    /\ Places \cup Goals \subseteq Coordinates
    /\ \A p \in Places, m \in Maps : FindZone(p) \subseteq SUBSET (DOMAIN m)

VARIABLES
    nodeDict,      \* the map
    f, g, h,       \* what the Node objects store,
    parent,        \*   parent being <<>> or <<node>>
    visited,
    zoneNodes,
    frontier,      \* the heap of the running search
    call,          \* the running call of findPath, see below
    answer         \* the last result of findPath

nodeVars == <<f, g, h, parent, visited, frontier>>
vars == <<nodeDict, f, g, h, parent, visited, zoneNodes, frontier, call, answer>>

Node == DOMAIN nodeDict
(* The squared distance, which is also the cost of an edge.                  *)
heuristic(a, b) == (a[2] - b[2]) * (a[2] - b[2]) + (a[1] - b[1]) * (a[1] - b[1])

(* A call: pc says whether a search runs or findPath chooses its next start, *)
(* todo holds the starts left, src the start of the search, best the         *)
(* optimalPath so far (reversed, as getPath builds it) and cost the g of its *)
(* end, which is also its f.                                                 *)
NoCall == [pc |-> "idle", start |-> NotFound, end |-> NotFound, atNode |-> FALSE,
           todo |-> {}, src |-> NotFound, best |-> <<>>, cost |-> 0]

(* findPath's result: the path and, as for an empty path the result is an    *)
(* empty array, the distance. The angle is the subject of another module.    *)
NoAnswer == [path |-> <<>>, distance |-> 0]

Init ==
    /\ nodeDict \in Maps
    /\ f = [n \in Node |-> 0]
    /\ g = [n \in Node |-> 0]
    /\ h = [n \in Node |-> 0]
    /\ parent = [n \in Node |-> <<>>]
    /\ visited = {}
    /\ zoneNodes = {}
    /\ frontier = <<>>
    /\ call = NoCall
    /\ answer = NoAnswer

-----------------------------------------------------------------------------
(* Every route screen loads the map again: new Node objects, which are clean *)
(* and equal to the old ones. zoneNodes and visited keep the old ones; aStar *)
(* only clears those, and asks for equal ones.                               *)
createNodes ==
    /\ call.pc = "idle"
    /\ f' = [n \in Node |-> 0]
    /\ g' = [n \in Node |-> 0]
    /\ h' = [n \in Node |-> 0]
    /\ parent' = [n \in Node |-> <<>>]
    /\ UNCHANGED <<nodeDict, visited, zoneNodes, frontier, call, answer>>

(* Mutant of StartSearch: nothing is cleared but the set.                    *)
StartSearchDirty(s, end) ==
    /\ h' = [h EXCEPT ![s] = heuristic(s, end)]
    /\ f' = [f EXCEPT ![s] = heuristic(s, end)]
    /\ visited' = {}
    /\ frontier' = <<s>>
    /\ UNCHANGED <<g, parent>>

(* aStar up to its loop: what the last search touched is cleared.            *)
StartSearch(s, end) ==
    LET Cleared(v) == [n \in Node |-> IF n \in visited THEN 0 ELSE v[n]] IN
    /\ g' = Cleared(g)
    /\ h' = [Cleared(h) EXCEPT ![s] = heuristic(s, end)]
    /\ f' = [Cleared(f) EXCEPT ![s] = heuristic(s, end)]
    /\ parent' = [n \in Node |-> IF n \in visited THEN <<>> ELSE parent[n]]
    /\ visited' = {}
    /\ frontier' = <<s>>

(* findPath from a node of the map. zoneNodes stays what it was.             *)
FindPathAtNode(start, end) ==
    /\ call.pc = "idle"
    /\ start \in Node
    /\ call' = [NoCall EXCEPT !.pc = "search", !.start = start, !.end = end,
                              !.atNode = TRUE, !.src = start]
    /\ StartSearch(start, end)
    /\ answer' = NoAnswer
    /\ UNCHANGED <<nodeDict, zoneNodes>>

(* findPath from anywhere else: the nodes of the zone are tried in turn.     *)
FindPathInZone(start, end) ==
    /\ call.pc = "idle"
    /\ start \notin Node
    /\ zoneNodes' \in FindZone(start)
    /\ call' = [NoCall EXCEPT !.pc = "choose", !.start = start, !.end = end,
                              !.todo = zoneNodes']
    /\ answer' = NoAnswer
    /\ UNCHANGED <<nodeDict, nodeVars>>

(* Mutant of NextStart: the start is not used up.                            *)
NextStartAgain ==
    /\ call.pc = "choose"
    /\ \E s \in call.todo :
        /\ call' = [call EXCEPT !.pc = "search", !.src = s]
        /\ StartSearch(s, call.end)
    /\ UNCHANGED <<nodeDict, zoneNodes, answer>>

(* A Swift Set is iterated in no particular order.                           *)
NextStart ==
    /\ call.pc = "choose"
    /\ \E s \in call.todo :
        /\ call' = [call EXCEPT !.pc = "search", !.todo = @ \ {s}, !.src = s]
        /\ StartSearch(s, call.end)
    /\ UNCHANGED <<nodeDict, zoneNodes, answer>>

(* Mutants of Blocked: no node, and the start as well.                       *)
BlockedNever(n) == FALSE
BlockedWithStart(n) == n \in zoneNodes

(* A node of the zone that is not the start of the search is given up.       *)
Blocked(n) == n \in zoneNodes /\ n # call.src

Pop(n) ==
    /\ call.pc = "search"
    /\ frontier # <<>> /\ n = Popped(frontier)

(* The neighbors that are new, or cheaper to reach through n.                *)
Cost(n, m) == g[n] + heuristic(n, m)
(* Mutant of Better: every neighbor.                                         *)
BetterAlways(n) == {m \in Node : Contains(nodeDict[n], m)}

Better(n) == {m \in Node : /\ Contains(nodeDict[n], m)
                           /\ m \notin visited \cup {n} \/ g[m] > Cost(n, m)}

(* Setting f and pushing one neighbor after the other: an entry of the heap  *)
(* whose f has just dropped keeps its place.                                 *)
PushAll(n, end) ==
    LET neighbors == nodeDict[n]
        pushed[k \in 0..Len(neighbors)] ==
          IF k = 0 THEN [f |-> f, heap |-> AfterPop(f, frontier)]
          ELSE LET m == neighbors[k]
                   key == [pushed[k - 1].f EXCEPT ![m] = Cost(n, m) + heuristic(m, end)]
               IN  IF m \in Better(n)
                   THEN [f |-> key, heap |-> Push(key, pushed[k - 1].heap, m)]
                   ELSE pushed[k - 1]
    IN  pushed[Len(neighbors)]

Expand(n) ==
    /\ Pop(n) /\ ~Blocked(n) /\ n # call.end
    /\ visited' = visited \cup {n} \cup Better(n)
    /\ g' = [m \in Node |-> IF m \in Better(n) THEN Cost(n, m) ELSE g[m]]
    /\ h' = [m \in Node |-> IF m \in Better(n) THEN heuristic(m, call.end) ELSE h[m]]
    /\ f' = [m \in Node |-> IF m \in Better(n)
                            THEN Cost(n, m) + heuristic(m, call.end) ELSE f[m]]
    /\ parent' = [m \in Node |-> IF m \in Better(n) THEN <<n>> ELSE parent[m]]
    /\ frontier' = PushAll(n, call.end).heap
    /\ UNCHANGED <<nodeDict, zoneNodes, call, answer>>

GiveUp(n) ==
    /\ Pop(n) /\ Blocked(n)
    /\ visited' = visited \cup {n}
    /\ frontier' = AfterPop(f, frontier)
    /\ UNCHANGED <<nodeDict, f, g, h, parent, zoneNodes, call, answer>>

(* getPath                                                                   *)
PathTo(end) ==
    LET path[n \in Node] ==
          IF parent[n] = <<>> THEN <<n>> ELSE <<n>> \o path[parent[n][1]]
    IN  path[end]

(* Mutant of Result: without the way to the first node.                      *)
ResultFromNode(path, cost) ==
    IF path = <<>> THEN NoAnswer ELSE [path |-> path, distance |-> cost]

(* The distance findPath returns with optimalPath: at a node, what the end   *)
(* of the path cost; elsewhere the way to the first node is added.           *)
Result(path, cost) ==
    IF path = <<>> THEN NoAnswer
    ELSE [path |-> path,
          distance |-> IF call.atNode THEN cost
                       ELSE cost + heuristic(call.start, path[Len(path)])]

(* aStar returns path, whose first node, the end, has this cost. From a node *)
(* that is the answer, whatever it is; in a zone the best path is kept.      *)
Ended == [NoCall EXCEPT !.start = call.start, !.end = call.end, !.atNode = call.atNode]
(* Mutant of Returned: the last path is kept, whatever it costs.             *)
ReturnedLast(path, cost) ==
    IF call.atNode
    THEN answer' = Result(path, cost) /\ call' = Ended
    ELSE /\ call' = IF path # <<NotFound>>
                    THEN [call EXCEPT !.pc = "choose", !.best = path, !.cost = cost]
                    ELSE [call EXCEPT !.pc = "choose"]
         /\ UNCHANGED answer

Returned(path, cost) ==
    IF call.atNode
    THEN /\ answer' = Result(path, cost)
         /\ call' = Ended
    ELSE /\ call' = IF path # <<NotFound>> /\ (call.best = <<>> \/ call.cost > cost)
                    THEN [call EXCEPT !.pc = "choose", !.best = path, !.cost = cost]
                    ELSE [call EXCEPT !.pc = "choose"]
         /\ UNCHANGED answer

Found(n) ==
    /\ Pop(n) /\ ~Blocked(n) /\ n = call.end
    /\ visited' = visited \cup {n}
    /\ frontier' = <<>>
    /\ Returned(PathTo(n), g[n])
    /\ UNCHANGED <<nodeDict, f, g, h, parent, zoneNodes>>

Exhausted ==
    /\ call.pc = "search" /\ frontier = <<>>
    /\ Returned(<<NotFound>>, 0)
    /\ UNCHANGED <<nodeDict, nodeVars, zoneNodes>>

(* Every start has been tried.                                               *)
FindPathReturns ==
    /\ call.pc = "choose" /\ call.todo = {}
    /\ answer' = Result(call.best, call.cost)
    /\ call' = Ended
    /\ UNCHANGED <<nodeDict, nodeVars, zoneNodes>>

-----------------------------------------------------------------------------
FindPath == \E start \in Places, end \in Goals :
                FindPathAtNode(start, end) \/ FindPathInZone(start, end)

Search == \/ NextStart \/ Exhausted \/ FindPathReturns
          \/ \E n \in Node : Expand(n) \/ GiveUp(n) \/ Found(n)

Next == createNodes \/ FindPath \/ Search

Spec == Init /\ [][Next]_vars

(* The search is a loop on one thread; the user calls it or does not.        *)
FairSpec == Spec /\ WF_vars(Search)

-----------------------------------------------------------------------------
(* What a route is, independently of the search.                             *)
Connected(m, n) == Contains(nodeDict[m], n)

(* The nodes that can be reached from s when all nodes after s lie in        *)
(* Through.                                                                  *)
Reachable(s, Through) ==
    LET Grown(S) == S \cup {n \in Through : \E m \in S : Connected(m, n)}
        reach[S \in SUBSET Node] == IF Grown(S) = S THEN S ELSE reach[Grown(S)]
    IN  reach[{s}]

(* The cost of the cheapest walk from s to every node that can be reached    *)
(* when all nodes after s lie in Through: the function has those nodes as    *)
(* its domain. After k rounds it knows the walks of k connections.           *)
Cheapest(s, Through) ==
    LET walks[k \in Nat] ==
          IF k = 0 THEN [n \in {s} |-> 0]
          ELSE LET d == walks[k - 1]
                   From(n) == {m \in DOMAIN d : Connected(m, n)}
                   known == DOMAIN d \cup {n \in Through : From(n) # {}}
               IN  [n \in known |->
                      Min({d[n] : x \in DOMAIN d \cap {n}} \cup
                          IF n \in Through
                          THEN {d[m] + heuristic(m, n) : m \in From(n)} ELSE {})]
    IN  walks[Cardinality(Node) - 1]

(* A connection between the nodes of S and the others, and the only one.     *)
IsBridge(m, a, b, S) ==
    /\ a \in S /\ b \notin S
    /\ \A x \in S, y \in DOMAIN m \ S :
          Contains(m[x], y) \/ Contains(m[y], x) => x = a /\ y = b

(* A map without cycles: every connection is a bridge.                       *)
IsForest(m) ==
    \A a \in DOMAIN m, b \in DOMAIN m :
        Contains(m[a], b) => \E S \in SUBSET (DOMAIN m) : IsBridge(m, a, b, S)

LengthOf(path) ==
    LET cost == [i \in 1..(Len(path) - 1) |-> heuristic(path[i + 1], path[i])]
    IN  MapThenSumSet(LAMBDA i : cost[i], DOMAIN cost)

Answered == call.pc = "idle" /\ call.start # NotFound
HasRoute == answer.path \notin {<<>>, <<NotFound>>}

(* The node a path begins with, at which findPath aims the user's angle.     *)
First(path) == path[Len(path)]

(* The cost of a path and of the way to its first node.                      *)
DistanceOf(path) ==
    LengthOf(path) + (IF call.atNode THEN 0 ELSE heuristic(call.start, First(path)))

-----------------------------------------------------------------------------
(* call is a record with these fields.                                       *)
CallShape ==
    call = [pc |-> call.pc, start |-> call.start, end |-> call.end,
            atNode |-> call.atNode, todo |-> call.todo, src |-> call.src,
            best |-> call.best, cost |-> call.cost]

(* What the nodes store, and the activation record of findPath.              *)
TypeOK ==
    /\ CallShape
    /\ nodeDict \in Maps
    /\ g \in [Node -> Nat] /\ f \in [Node -> Nat] /\ h \in [Node -> Nat]
    /\ parent \in [Node -> {<<>>} \cup {<<n>> : n \in Node}]
    /\ visited \subseteq Node
    /\ call.end \in Coordinates /\ call.todo \subseteq Node

(* The nodes keep their values from one search to the next, and a search     *)
(* clears only the set visited: that set holds every node that is not clean, *)
(* whatever the search before was, and wherever it stopped.                  *)
VisitedCoversDirty ==
    \A n \in Node \ visited :
        /\ g[n] = 0 /\ parent[n] = <<>>
        /\ (h[n] = 0 /\ f[n] = 0) \/ (call.pc = "search" /\ n = call.src)

(* A node costs at least what its parent costs now plus the connection       *)
(* between them, although the cost of the parent may have dropped since. So  *)
(* costs fall along the parents, and getPath, which follows them until there *)
(* is none, ends.                                                            *)
ParentsAreCheaper ==
    \A n \in Node : parent[n] # <<>> =>
        /\ g[n] >= g[parent[n][1]] + heuristic(parent[n][1], n)
        /\ parent[n][1] # n

(* A path that findPath returns leads along connections from the user's node *)
(* (or a node of the user's zone) to the destination, leaves the zone at     *)
(* once and visits no node twice. The distance reported is not less than the *)
(* cost of the path, although the search may have improved nodes of the path *)
(* after it added up the cost of its end.                                    *)
AnswerIsARoute ==
    Answered /\ HasRoute =>
        LET path == answer.path IN
        /\ path[1] = call.end
        /\ \A i \in 1..(Len(path) - 1) :
              Connected(path[i + 1], path[i]) /\ path[i] \notin zoneNodes
        /\ IF call.atNode THEN First(path) = call.start
           ELSE First(path) \in zoneNodes
        /\ IsInjective(path)
        /\ answer.distance >= DistanceOf(path)

(* From a place in a zone a path is found exactly if one exists: the nodes   *)
(* of the zone that a search gives up cannot hide the destination, since     *)
(* another search starts from them.                                          *)
ZoneRouteIsFound ==
    Answered /\ ~call.atNode =>
        (HasRoute <=> \E s \in zoneNodes : call.end \in Reachable(s, Node))

(* At a node the search gives up the nodes of the zone the user was in the   *)
(* last time findZone was asked; it finds a path exactly if one avoids them. *)
NodeRouteAvoidsLastZone ==
    Answered /\ call.atNode =>
        (HasRoute <=> call.end \in Reachable(call.start, Node \ (zoneNodes \ {call.start})))

(* "Handles starting locations at nodes or not at nodes": at a node, a path  *)
(* is found if there is one.                                                 *)
NodeRouteIsFound ==
    Answered /\ call.atNode /\ call.end \in Reachable(call.start, Node) => HasRoute

(* "find and display optimal path": no walk to the destination that the      *)
(* search may take is cheaper than the path found, in aStar's own costs. The *)
(* estimate is not admissible (the squares do not satisfy the triangle       *)
(* inequality), so this depends on the map.                                  *)
PathIsOptimal ==
    Answered /\ HasRoute =>
        \A s \in IF call.atNode THEN {call.start} ELSE zoneNodes :
            LET walks == Cheapest(s, Node \ (zoneNodes \ {s})) IN
            call.end \in DOMAIN walks => LengthOf(answer.path) =< walks[call.end]

(* The distance reported is the cost of the path reported (and of the way to *)
(* its first node), although the costs stored in the nodes of a path are not *)
(* updated when the search improves an earlier node: this, too, depends on   *)
(* the map.                                                                  *)
DistanceIsThatOfThePath ==
    Answered /\ HasRoute => answer.distance = DistanceOf(answer.path)

(* PriorityQueue: "It will pop the objects in the order that they would be   *)
(* sorted". The node that aStar pops has the least f in the frontier, if no  *)
(* f drops that is queued deep in the heap, which depends on the map.        *)
PopsTheLeast ==
    \A n \in Node : Pop(n) => \A i \in 1..Len(frontier) : f[n] =< f[frontier[i]]

(* Every call of findPath returns.                                           *)
FindPathReturnsAtLast == call.pc # "idle" ~> call.pc = "idle"
=============================================================================
