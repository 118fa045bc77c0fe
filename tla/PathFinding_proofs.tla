------------------------- MODULE PathFinding_proofs -------------------------
(* Proofs about PathFinding, for every map, every place and destination and  *)
(* any number of calls of findPath one after the other; at the end those     *)
(* about Building, in which findPath asks the zones.                         *)
EXTENDS Building, PriorityQueue_proofs

-----------------------------------------------------------------------------
(* A sum of squares.                                                         *)
LEMMA HeuristicType ==
    ASSUME NEW a \in Coordinates, NEW b \in Coordinates
    PROVE  heuristic(a, b) \in Nat
  <1>1. a[1] \in Int /\ a[2] \in Int /\ b[1] \in Int /\ b[2] \in Int
    BY DEF Coordinates
  <1>2. ASSUME NEW x \in Int PROVE x * x \in Nat
    OBVIOUS
  <1>3. (a[2] - b[2]) * (a[2] - b[2]) \in Nat /\ (a[1] - b[1]) * (a[1] - b[1]) \in Nat
    BY <1>1, <1>2
  <1> QED BY <1>3 DEF heuristic

-----------------------------------------------------------------------------
(* The inductive invariant                                                   *)

(* Only the search links nodes, and it visits the two it links.              *)
LinksAreVisited ==
    \A n \in Node : parent[n] # <<>> => n \in visited /\ parent[n][1] \in visited

(* The start of a search, whose f and h are set before it is visited, is the *)
(* first node that is popped.                                                *)
StartIsPoppedFirst ==
    call.pc = "search" /\ call.src \notin visited => frontier = <<call.src>>

IInv ==
    /\ TypeOK
    /\ LinksAreVisited
    /\ StartIsPoppedFirst
    /\ VisitedCoversDirty
    /\ ParentsAreCheaper

LEMMA NodesHavePlaces ==
    ASSUME TypeOK, NEW a \in Node, NEW b \in Node \cup Coordinates
    PROVE  heuristic(a, b) \in Nat
  <1>1. a \in Coordinates /\ b \in Coordinates
    BY MapsAssumption DEF TypeOK, Node
  <1> QED BY <1>1, HeuristicType

LEMMA InitIInv == Init => IInv
  <1> SUFFICES ASSUME Init PROVE IInv
    OBVIOUS
  <1>1. TypeOK
    BY DEF Init, TypeOK, NoCall, NotFound, Coordinates, CallShape
  <1>2. \A n \in Node : parent[n] = <<>>
    BY DEF Init
  <1>3. LinksAreVisited /\ ParentsAreCheaper
    BY <1>2 DEF LinksAreVisited, ParentsAreCheaper
  <1>4. StartIsPoppedFirst
    BY DEF Init, StartIsPoppedFirst, NoCall
  <1>5. VisitedCoversDirty
    BY DEF Init, VisitedCoversDirty
  <1> QED BY <1>1, <1>3, <1>4, <1>5 DEF IInv

(* A step that leaves the nodes alone and starts no search.                  *)
LEMMA QuietStep ==
    ASSUME IInv, UNCHANGED <<nodeDict, nodeVars>>,
           call'.pc # "search", call'.end \in Coordinates, call'.todo \subseteq Node, CallShape',
           call.pc = "search" => call.src \in visited
    PROVE  IInv'
  <1>1. TypeOK'
    BY DEF IInv, TypeOK, nodeVars, Node
  <1>2. LinksAreVisited' /\ ParentsAreCheaper'
    BY DEF IInv, LinksAreVisited, ParentsAreCheaper, nodeVars, Node
  <1>3. StartIsPoppedFirst'
    BY DEF StartIsPoppedFirst
  <1>4. VisitedCoversDirty'
    BY DEF IInv, VisitedCoversDirty, nodeVars, Node
  <1> QED BY <1>1, <1>2, <1>3, <1>4 DEF IInv

(* aStar clears the nodes: no node has a parent when the search begins.      *)
LEMMA StartStep ==
    ASSUME IInv, NEW s \in Node, NEW end \in Coordinates, StartSearch(s, end),
           UNCHANGED nodeDict, call.pc # "search",
           call'.pc = "search", call'.src = s, call'.end = end,
           call'.todo \subseteq Node, CallShape'
    PROVE  IInv'
  <1>1. Node' = Node
    BY DEF Node
  <1>2. heuristic(s, end) \in Nat
    BY NodesHavePlaces DEF IInv
  <1>3. /\ g' \in [Node -> Nat] /\ h' \in [Node -> Nat] /\ f' \in [Node -> Nat]
        /\ \A n \in Node : g'[n] = 0
        /\ \A n \in Node : n # s => f'[n] = 0 /\ h'[n] = 0
    BY <1>2 DEF IInv, TypeOK, VisitedCoversDirty, StartSearch
  <1>4. parent' \in [Node -> {<<>>}]
    BY DEF IInv, TypeOK, VisitedCoversDirty, StartSearch
  <1>5. visited' = {} /\ frontier' = <<s>>
    BY DEF StartSearch
  <1>6. \A n \in Node : parent'[n] = <<>>
    BY <1>4
  <1>7. TypeOK'
    BY <1>1, <1>3, <1>4, <1>5 DEF IInv, TypeOK
  <1>8. LinksAreVisited' /\ ParentsAreCheaper'
    BY <1>1, <1>6 DEF LinksAreVisited, ParentsAreCheaper
  <1>9. StartIsPoppedFirst'
    BY <1>5 DEF StartIsPoppedFirst
  <1>10. VisitedCoversDirty'
    BY <1>1, <1>3, <1>5, <1>6 DEF VisitedCoversDirty
  <1> QED BY <1>7, <1>8, <1>9, <1>10 DEF IInv

LEMMA CreateNodesStep ==
    ASSUME IInv, createNodes
    PROVE  IInv'
  <1>1. UNCHANGED <<nodeDict, visited, frontier, call>> /\ call.pc = "idle"
    BY DEF createNodes
  <1>2. Node' = Node
    BY <1>1 DEF Node
  <1>3. \A n \in Node : f'[n] = 0 /\ g'[n] = 0 /\ h'[n] = 0 /\ parent'[n] = <<>>
    BY DEF createNodes
  <1>4. TypeOK'
    BY <1>1, <1>2 DEF createNodes, IInv, TypeOK, CallShape
  <1>5. LinksAreVisited' /\ ParentsAreCheaper' /\ VisitedCoversDirty'
    BY <1>2, <1>3 DEF LinksAreVisited, ParentsAreCheaper, VisitedCoversDirty
  <1>6. StartIsPoppedFirst'
    BY <1>1 DEF StartIsPoppedFirst
  <1> QED BY <1>4, <1>5, <1>6 DEF IInv

LEMMA FindPathAtNodeStep ==
    ASSUME IInv, NEW start \in Places, NEW end \in Goals, FindPathAtNode(start, end)
    PROVE  IInv'
  <1>1. start \in Node /\ end \in Coordinates /\ UNCHANGED nodeDict
        /\ call.pc # "search" /\ StartSearch(start, end)
    BY PlacesAssumption DEF FindPathAtNode
  <1>2. call'.pc = "search" /\ call'.src = start /\ call'.end = end /\ call'.todo = {}
        /\ CallShape'
    BY DEF FindPathAtNode, NoCall, CallShape
  <1> QED BY <1>1, <1>2, StartStep

LEMMA FindPathInZoneStep ==
    ASSUME IInv, NEW start \in Places, NEW end \in Goals, FindPathInZone(start, end)
    PROVE  IInv'
  <1>1. UNCHANGED <<nodeDict, nodeVars>> /\ call.pc = "idle"
    BY DEF FindPathInZone
  <1>2. call'.pc = "choose" /\ call'.end = end /\ CallShape'
    BY DEF FindPathInZone, NoCall, CallShape
  <1>3. end \in Coordinates
    BY PlacesAssumption
  <1>4. call'.todo \subseteq Node
    <2>1. zoneNodes' \in FindZone(start) /\ nodeDict \in Maps
      BY DEF FindPathInZone, IInv, TypeOK
    <2>2. FindZone(start) \subseteq SUBSET Node
      BY <2>1, PlacesAssumption DEF Node
    <2>3. call'.todo = zoneNodes'
      BY DEF FindPathInZone, NoCall
    <2> QED BY <2>1, <2>2, <2>3
  <1> QED BY <1>1, <1>2, <1>3, <1>4, QuietStep

(* The other starts come from findZone, and are nodes.                       *)
LEMMA NextStartStep ==
    ASSUME IInv, NextStart
    PROVE  IInv'
  <1>1. PICK s \in call.todo : /\ call' = [call EXCEPT !.pc = "search", !.todo = @ \ {s}, !.src = s]
                               /\ StartSearch(s, call.end)
    BY DEF NextStart
  <1>2. s \in Node /\ call.end \in Coordinates /\ call.pc # "search" /\ UNCHANGED nodeDict
    BY DEF NextStart, IInv, TypeOK
  <1>3. CallShape /\ call.todo \subseteq Node
    BY DEF IInv, TypeOK
  <1>4. /\ call'.pc = "search" /\ call'.src = s /\ call'.end = call.end
        /\ call'.todo \subseteq Node /\ CallShape'
    BY <1>1, <1>3 DEF CallShape
  <1> QED BY <1>1, <1>2, <1>4, StartStep

(* A node that is popped joins the visited ones; if it is the only one of    *)
(* the heap that was not visited, it is the start.                           *)
LEMMA PoppedStart ==
    ASSUME IInv, NEW n \in Node, Pop(n)
    PROVE  call.src \in visited \cup {n}
  <1>1. CASE call.src \in visited
    BY <1>1
  <1>2. CASE call.src \notin visited
    <2>1. frontier = <<call.src>>
      BY <1>2 DEF IInv, StartIsPoppedFirst, Pop
    <2>2. n = call.src
      BY <2>1 DEF Pop, Popped
    <2> QED BY <2>2
  <1> QED BY <1>1, <1>2

(* Returning leaves no search running.                                       *)
LEMMA ReturnedEnds ==
    ASSUME TypeOK, NEW path, NEW cost, Returned(path, cost)
    PROVE  /\ call'.pc # "search" /\ CallShape'
           /\ call'.end = call.end /\ call'.todo \subseteq call.todo
  <1>1. CallShape
    BY DEF TypeOK
  <1>2. \/ call' = Ended
        \/ call' = [call EXCEPT !.pc = "choose", !.best = path, !.cost = cost]
        \/ call' = [call EXCEPT !.pc = "choose"]
    BY DEF Returned
  <1>3. CASE call' = Ended
    BY <1>3 DEF Ended, NoCall, CallShape
  <1>4. CASE call' # Ended
    BY <1>1, <1>2, <1>4 DEF CallShape
  <1> QED BY <1>3, <1>4

LEMMA ExhaustedStep ==
    ASSUME IInv, Exhausted
    PROVE  IInv'
  <1>1. UNCHANGED <<nodeDict, nodeVars>> /\ Returned(<<NotFound>>, 0)
    BY DEF Exhausted
  <1>2. call.src \in visited
    BY DEF Exhausted, IInv, StartIsPoppedFirst
  <1>3. call'.pc # "search" /\ CallShape' /\ call'.end \in Coordinates /\ call'.todo \subseteq Node
    BY <1>1, ReturnedEnds DEF IInv, TypeOK
  <1> QED BY <1>1, <1>2, <1>3, QuietStep

LEMMA FindPathReturnsStep ==
    ASSUME IInv, FindPathReturns
    PROVE  IInv'
  <1>1. UNCHANGED <<nodeDict, nodeVars>> /\ call.pc = "choose" /\ call' = Ended
    BY DEF FindPathReturns
  <1>2. call'.pc = "idle" /\ CallShape' /\ call'.end = call.end /\ call'.todo = {}
    BY <1>1 DEF Ended, NoCall, CallShape
  <1> QED BY <1>1, <1>2, QuietStep DEF IInv, TypeOK

(* Nodes change by visiting n only.                                          *)
LEMMA VisitStep ==
    ASSUME IInv, NEW n \in Node, Pop(n), visited' = visited \cup {n},
           UNCHANGED <<nodeDict, f, g, h, parent>>,
           call'.end \in Coordinates, call'.todo \subseteq Node, CallShape',
           call'.src = call.src \/ call'.pc # "search"
    PROVE  IInv'
  <1>1. Node' = Node
    BY DEF Node
  <1>2. call.src \in visited'
    BY PoppedStart
  <1>3. TypeOK'
    BY <1>1 DEF IInv, TypeOK
  <1>4. LinksAreVisited' /\ ParentsAreCheaper'
    BY <1>1 DEF IInv, LinksAreVisited, ParentsAreCheaper
  <1>5. StartIsPoppedFirst'
    BY <1>2 DEF StartIsPoppedFirst
  <1>6. VisitedCoversDirty'
    BY <1>1, <1>2 DEF IInv, VisitedCoversDirty
  <1> QED BY <1>3, <1>4, <1>5, <1>6 DEF IInv

LEMMA GiveUpStep ==
    ASSUME IInv, NEW n \in Node, GiveUp(n)
    PROVE  IInv'
  <1>1. /\ Pop(n) /\ visited' = visited \cup {n}
        /\ UNCHANGED <<nodeDict, f, g, h, parent, call>>
    BY DEF GiveUp
  <1>2. Node' = Node
    BY <1>1 DEF Node
  <1>3. call'.end \in Coordinates /\ call'.todo \subseteq Node /\ CallShape'
    BY <1>1 DEF IInv, TypeOK, CallShape
  <1> QED BY <1>1, <1>3, VisitStep

LEMMA FoundStep ==
    ASSUME IInv, NEW n \in Node, Found(n)
    PROVE  IInv'
  <1>1. /\ Pop(n) /\ visited' = visited \cup {n}
        /\ UNCHANGED <<nodeDict, f, g, h, parent>>
        /\ Returned(PathTo(n), g[n])
    BY DEF Found
  <1>2. call'.pc # "search" /\ CallShape' /\ call'.end \in Coordinates /\ call'.todo \subseteq Node
    BY <1>1, ReturnedEnds DEF IInv, TypeOK
  <1> QED BY <1>1, <1>2, VisitStep

(* n hands its cost on to the better neighbors. The cost of a node that is   *)
(* linked can only fall, since both ends of a link have been visited.        *)
LEMMA ExpandStep ==
    ASSUME IInv, NEW n \in Node, Expand(n)
    PROVE  IInv'
  <1> DEFINE d(m) == heuristic(n, m)
  <1>1. /\ Pop(n) /\ UNCHANGED <<nodeDict, call>>
        /\ visited' = visited \cup {n} \cup Better(n)
    BY DEF Expand
  <1>2. Node' = Node
    BY <1>1 DEF Node
  <1>3. Better(n) \subseteq Node /\ n \notin Better(n)
    <2>1. nodeDict[n] \in Seq(Node \ {n})
      BY MapsAssumption DEF IInv, TypeOK, Node
    <2>2. ~Contains(nodeDict[n], n)
      BY <2>1 DEF Contains
    <2> QED BY <2>2 DEF Better
  <1>4. \A m \in Node : d(m) \in Nat /\ heuristic(m, call.end) \in Nat
    BY NodesHavePlaces DEF IInv, TypeOK
  <1>5. g \in [Node -> Nat] /\ f \in [Node -> Nat] /\ h \in [Node -> Nat]
        /\ parent \in [Node -> {<<>>} \cup {<<k>> : k \in Node}]
        /\ visited \subseteq Node
    BY DEF IInv, TypeOK
  <1>6. \A m \in Node :
            /\ g'[m] = IF m \in Better(n) THEN g[n] + d(m) ELSE g[m]
            /\ parent'[m] = IF m \in Better(n) THEN <<n>> ELSE parent[m]
            /\ m \notin Better(n) => f'[m] = f[m] /\ h'[m] = h[m]
    BY DEF Expand, Cost
  <1>7. \A m \in Better(n) : m \notin visited \/ g[m] > g[n] + d(m)
    BY <1>3, <1>4, <1>5 DEF Better, Cost
  <1>8. TypeOK'
    <2>1. g' \in [Node -> Nat]
      BY <1>3, <1>4, <1>5 DEF Expand, Cost
    <2>2. h' \in [Node -> Nat]
      BY <1>3, <1>4, <1>5 DEF Expand
    <2>3. f' \in [Node -> Nat]
      BY <1>3, <1>4, <1>5 DEF Expand, Cost
    <2>4. parent' \in [Node -> {<<>>} \cup {<<k>> : k \in Node}]
      BY <1>5 DEF Expand
    <2>5. visited' \subseteq Node
      BY <1>1, <1>3, <1>5
    <2> QED BY <1>1, <1>2, <2>1, <2>2, <2>3, <2>4, <2>5 DEF IInv, TypeOK, CallShape
  <1>9. LinksAreVisited'
    BY <1>1, <1>2, <1>6 DEF IInv, LinksAreVisited
  <1>10. StartIsPoppedFirst'
    <2>1. call.src \in visited'
      BY <1>1, PoppedStart
    <2> QED BY <1>1, <2>1 DEF StartIsPoppedFirst
  <1>11. VisitedCoversDirty'
    <2>1. call.src \in visited'
      BY <1>1, PoppedStart
    <2>2. ASSUME NEW m \in Node, m \notin visited'
          PROVE  g'[m] = 0 /\ parent'[m] = <<>> /\ h'[m] = 0 /\ f'[m] = 0
      BY <1>1, <1>6, <2>1, <2>2 DEF IInv, VisitedCoversDirty
    <2> QED BY <1>2, <2>2 DEF VisitedCoversDirty
  <1>12. ParentsAreCheaper'
    <2> SUFFICES ASSUME NEW m \in Node, parent'[m] # <<>>
                 PROVE  /\ g'[m] >= g'[parent'[m][1]] + heuristic(parent'[m][1], m)
                        /\ parent'[m][1] # m
      BY <1>2 DEF ParentsAreCheaper
    <2>1. CASE m \in Better(n)
      <3>1. parent'[m] = <<n>> /\ g'[m] = g[n] + d(m) /\ g'[n] = g[n]
        BY <1>3, <1>6, <2>1
      <3>2. g[n] + d(m) \in Nat
        BY <1>4, <1>5
      <3> QED BY <1>3, <2>1, <3>1, <3>2
    <2>2. CASE m \notin Better(n)
      <3> DEFINE p == parent[m][1]
      <3>1. parent'[m] = parent[m] /\ g'[m] = g[m] /\ parent[m] # <<>>
        BY <1>6, <2>2
      <3>2. p \in Node /\ p \in visited
        BY <1>5, <3>1 DEF IInv, LinksAreVisited
      <3>3. g[m] >= g[p] + heuristic(p, m) /\ p # m
        BY <3>1 DEF IInv, ParentsAreCheaper
      <3>4. g'[p] \in Nat /\ g[p] \in Nat /\ g[m] \in Nat /\ g'[p] =< g[p]
        <4>1. g[p] \in Nat /\ g[m] \in Nat
          BY <1>5, <3>2
        <4>2. CASE p \in Better(n)
          <5>1. g'[p] = g[n] + d(p) /\ g[p] > g[n] + d(p)
            BY <1>6, <1>7, <3>2, <4>2
          <5>2. g[n] \in Nat /\ d(p) \in Nat
            BY <1>4, <1>5, <3>2
          <5> QED BY <4>1, <5>1, <5>2
        <4>3. CASE p \notin Better(n)
          BY <1>6, <3>2, <4>1, <4>3
        <4> QED BY <4>2, <4>3
      <3>5. heuristic(p, m) \in Nat
        BY <3>2, NodesHavePlaces DEF IInv
      <3> HIDE DEF p
      <3>6. g[m] >= g'[p] + heuristic(p, m)
        BY <3>3, <3>4, <3>5
      <3> QED BY <3>1, <3>3, <3>6 DEF p
    <2> QED BY <2>1, <2>2
  <1> QED BY <1>8, <1>9, <1>10, <1>11, <1>12 DEF IInv

-----------------------------------------------------------------------------
LEMMA StepIInv == IInv /\ [Next]_vars => IInv'
  <1> SUFFICES ASSUME IInv, [Next]_vars PROVE IInv'
    OBVIOUS
  <1>1. CASE UNCHANGED vars
    <2>1. UNCHANGED <<nodeDict, f, g, h, parent, visited, frontier, call>>
      BY <1>1 DEF vars
    <2> QED BY <2>1 DEF IInv, TypeOK, CallShape, LinksAreVisited, StartIsPoppedFirst,
                        VisitedCoversDirty, ParentsAreCheaper, Node
  <1>2. CASE Next
    <2>1. CASE FindPath
      BY <2>1, FindPathAtNodeStep, FindPathInZoneStep DEF FindPath
    <2>2. ASSUME NEW n \in Node, Expand(n) \/ GiveUp(n) \/ Found(n) PROVE IInv'
      BY <2>2, ExpandStep, GiveUpStep, FoundStep
    <2>3. CASE NextStart \/ Exhausted \/ FindPathReturns
      BY <2>3, NextStartStep, ExhaustedStep, FindPathReturnsStep
    <2>4. CASE createNodes
      BY <2>4, CreateNodesStep
    <2> QED BY <1>2, <2>1, <2>2, <2>3, <2>4 DEF Next, Search
  <1> QED BY <1>1, <1>2

(* aStar (PathFinding.swift) clears only the nodes of the last search, which *)
(* is enough whatever that search was: every node that is not in visited is  *)
(* clean. And g falls along the parents by the cost of each connection: they *)
(* never form a cycle in which getPath would go round.                       *)
THEOREM SearchesAreIndependent ==
    Spec => [](VisitedCoversDirty /\ ParentsAreCheaper)
  <1>1. IInv => VisitedCoversDirty /\ ParentsAreCheaper
    BY DEF IInv
  <1> QED BY <1>1, InitIInv, StepIInv, PTL DEF Spec

(* ParentsAreCheaper on its own: getPath, which follows parent until there   *)
(* is none, cannot go round, whatever map and calls there were.              *)
THEOREM CostsFallAlongParents == Spec => []ParentsAreCheaper
  BY SearchesAreIndependent, PTL

-----------------------------------------------------------------------------
(* What can be reached                                                       *)

(* S cannot be left over nodes of T.                                         *)
Closed(S, T) == \A m \in S, n \in T : Connected(m, n) => n \in S

(* The nodes to be reached are the least set that has s and is closed: the   *)
(* set grows until nothing is new, and there are finitely many nodes.        *)
LEMMA ReachableIsLeast ==
    ASSUME TypeOK, NEW s \in Node, NEW T \in SUBSET Node
    PROVE  /\ s \in Reachable(s, T) /\ Reachable(s, T) \in SUBSET Node
           /\ Closed(Reachable(s, T), T)
           /\ \A U \in SUBSET Node : s \in U /\ Closed(U, T) => Reachable(s, T) \subseteq U
  <1> DEFINE D == SUBSET Node
             Grown(S) == S \cup {n \in T : \E m \in S : Connected(m, n)}
             Stop == {S \in D : Grown(S) = S}
             next == [S \in D |-> Grown(S)]
             base == [S \in D |-> S]
             mu == [S \in D |-> Cardinality(Node) - Cardinality(S)]
             G(r) == [S \in D |-> IF Grown(S) = S THEN S ELSE r[Grown(S)]]
             reach == CHOOSE r : r = G(r)
             Within(S) == s \in S /\ \A U \in SUBSET Node : s \in U /\ Closed(U, T) => S \subseteq U
             I == {S \in D : Within(S)}
  <1>1. Reachable(s, T) = reach[{s}]
    BY DEF Reachable
  <1>2. IsFiniteSet(Node)
    BY MapsAssumption DEF TypeOK, Node
  <1>3. ASSUME NEW S \in D
        PROVE  /\ Cardinality(S) \in Nat /\ Cardinality(Node) - Cardinality(S) \in Nat
               /\ Grown(S) \in D /\ S \subseteq Grown(S)
               /\ Grown(S) # S => Cardinality(S) < Cardinality(Grown(S))
    <2>1. Grown(S) \in D /\ S \in SUBSET Grown(S)
      OBVIOUS
    <2> HIDE DEF Grown
    <2>2. /\ Cardinality(Node) \in Nat
          /\ IsFiniteSet(S) /\ Cardinality(S) =< Cardinality(Node)
          /\ IsFiniteSet(Grown(S)) /\ Cardinality(Grown(S)) =< Cardinality(Node)
      BY <1>2, <2>1, FS_CardinalityType, FS_Subset
    <2>3. Cardinality(S) \in Nat /\ Cardinality(Grown(S)) \in Nat
      BY <2>2, FS_CardinalityType
    <2>4. /\ Cardinality(S) =< Cardinality(Grown(S))
          /\ Cardinality(Grown(S)) = Cardinality(S) => Grown(S) = S
      BY <2>1, <2>2, FS_Subset
    <2> QED BY <2>1, <2>2, <2>3, <2>4
  <1>4. Falls(D, Stop, next, mu)
    <2> HIDE DEF Grown
    <2>1. Stop \in SUBSET D /\ next \in [D -> D] /\ mu \in [D -> Nat]
      BY <1>3
    <2>2. ASSUME NEW S \in D \ Stop PROVE mu[next[S]] < mu[S]
      <3>1. Grown(S) # S /\ S \in D /\ next[S] = Grown(S) /\ Grown(S) \in D
        BY <1>3
      <3>2. /\ Cardinality(S) < Cardinality(Grown(S)) /\ Cardinality(S) \in Nat
            /\ Cardinality(Grown(S)) \in Nat
            /\ Cardinality(Node) - Cardinality(S) \in Nat
            /\ Cardinality(Node) - Cardinality(Grown(S)) \in Nat
        BY <1>3, <3>1
      <3>3. Cardinality(Node) \in Nat
        BY <1>2, FS_CardinalityType
      <3> QED BY <3>1, <3>2, <3>3
    <2> HIDE DEF D, Stop, next, mu
    <2> QED BY <2>1, <2>2 DEF Falls
  <1>5. PICK r \in [D -> D] : Repeats(r, D, Stop, base, next)
    <2>1. base \in [D -> D]
      OBVIOUS
    <2> HIDE DEF D, Stop, next, base, mu
    <2> QED BY <1>4, <2>1, LoopExists
  <1>6. r = G(r)
    <2> HIDE DEF Grown
    <2>1. ASSUME NEW S \in D PROVE r[S] = IF Grown(S) = S THEN S ELSE r[Grown(S)]
      BY <1>5 DEF Repeats
    <2> QED BY <2>1
  <1>7. reach = G(reach)
    <2> HIDE DEF G
    <2> QED BY <1>6
  <1>8. Repeats(reach, D, Stop, base, next)
    <2> SUFFICES ASSUME NEW S \in D
                 PROVE  reach[S] = IF S \in Stop THEN base[S] ELSE reach[next[S]]
      BY DEF Repeats
    <2> HIDE DEF Grown
    <2>1. reach[S] = IF Grown(S) = S THEN S ELSE reach[Grown(S)]
      <3> HIDE DEF reach
      <3> QED BY <1>7
    <2> HIDE DEF reach
    <2> QED BY <2>1
  <1>9. Keeps(I, Stop, next)
    <2> SUFFICES ASSUME NEW S \in I \ Stop PROVE Grown(S) \in I
      BY DEF Keeps
    <2>1. S \in D /\ Within(S) /\ Grown(S) \in D
      OBVIOUS
    <2>2. ASSUME NEW U \in SUBSET Node, s \in U, Closed(U, T) PROVE Grown(S) \subseteq U
      BY <2>1, <2>2 DEF Closed
    <2> QED BY <2>1, <2>2
  <1>10. PICK y \in I \cap Stop : reach[{s}] = base[y]
    <2>1. I \in SUBSET D /\ {s} \in I
      OBVIOUS
    <2> HIDE DEF D, Stop, next, base, mu, reach, I
    <2>2. \E y \in I \cap Stop : reach[{s}] = base[y]
      BY <1>4, <1>8, <1>9, <2>1, LoopResult
    <2> QED BY <2>2
  <1>11. Reachable(s, T) = y /\ y \in SUBSET Node /\ Within(y) /\ Grown(y) = y
    <2> HIDE DEF reach, Grown, Within
    <2> QED BY <1>1, <1>10
  <1>12. Closed(y, T)
    BY <1>11 DEF Closed
  <1> QED BY <1>11, <1>12

-----------------------------------------------------------------------------
(* The path that getPath collects                                            *)

(* Two nodes have a distance.                                                *)
LEMMA DistinctNodes ==
    ASSUME TypeOK, NEW a \in Node, NEW b \in Node, a # b
    PROVE  heuristic(a, b) \in Nat /\ heuristic(a, b) > 0
  <1>1. a \in Int \X Int /\ b \in Int \X Int
    BY MapsAssumption DEF TypeOK, Node, Coordinates
  <1> DEFINE x == a[2] - b[2]
             y == a[1] - b[1]
  <1>2. x \in Int /\ y \in Int /\ (x # 0 \/ y # 0)
    BY <1>1
  <1>3. heuristic(a, b) = x * x + y * y
    BY DEF heuristic
  <1> HIDE DEF x, y
  <1>4. ASSUME NEW z \in Int PROVE z * z \in Nat /\ (z # 0 => z * z > 0)
    OBVIOUS
  <1>5. x * x \in Nat /\ y * y \in Nat /\ (x * x > 0 \/ y * y > 0)
    BY <1>2, <1>4
  <1> QED BY <1>3, <1>5

(* path follows the links from n until there is none.                        *)
FollowsLinks(path, n) ==
    /\ path \in Seq(Node) /\ Len(path) > 0 /\ path[1] = n
    /\ \A i \in 1..(Len(path) - 1) : parent[path[i]] = <<path[i + 1]>>
    /\ parent[path[Len(path)]] = <<>>

(* The recursion of getPath ends, because costs fall along the parents, and  *)
(* what it collects follows them.                                            *)
LEMMA PathFollowsLinks ==
    ASSUME TypeOK, ParentsAreCheaper, NEW end \in Node
    PROVE  FollowsLinks(PathTo(end), end)
  <1> DEFINE R == Seq(Node)
             Stop == {n \in Node : parent[n] = <<>>}
             next == [n \in Node |-> IF parent[n] = <<>> THEN n ELSE parent[n][1]]
             base == [n \in Node |-> <<n>>]
             step == [p \in Node \X R |-> <<p[1]>> \o p[2]]
             G(q) == [n \in Node |-> IF parent[n] = <<>> THEN <<n>>
                                     ELSE <<n>> \o q[parent[n][1]]]
             path == CHOOSE q : q = G(q)
  <1>1. PathTo(end) = path[end]
    BY DEF PathTo
  <1>2. g \in [Node -> Nat] /\ parent \in [Node -> {<<>>} \cup {<<n>> : n \in Node}]
    BY DEF TypeOK
  <1>3. ASSUME NEW n \in Node, parent[n] # <<>>
        PROVE  parent[n][1] \in Node /\ parent[n] = <<parent[n][1]>> /\ g[parent[n][1]] < g[n]
    <2> DEFINE p == parent[n][1]
    <2>1. p \in Node /\ parent[n] = <<p>>
      BY <1>2, <1>3
    <2>2. p # n /\ g[n] >= g[p] + heuristic(p, n)
      BY <1>3 DEF ParentsAreCheaper
    <2> HIDE DEF p
    <2>3. heuristic(p, n) \in Nat /\ heuristic(p, n) > 0
      BY <2>1, <2>2, DistinctNodes
    <2>4. g[p] \in Nat /\ g[n] \in Nat
      BY <1>2, <2>1
    <2> QED BY <2>1, <2>2, <2>3, <2>4 DEF p
  <1>4. Falls(Node, Stop, next, g)
    <2>1. next \in [Node -> Node]
      BY <1>3
    <2>2. ASSUME NEW n \in Node \ Stop PROVE g[next[n]] < g[n]
      BY <1>3
    <2> QED BY <1>2, <2>1, <2>2 DEF Falls
  <1>5. base \in [Node -> R] /\ step \in [Node \X R -> R]
    <2>1. ASSUME NEW p \in Node \X R PROVE <<p[1]>> \o p[2] \in R
      <3>1. <<p[1]>> \in Seq(Node) /\ p[2] \in Seq(Node)
        OBVIOUS
      <3> QED BY <3>1
    <2> QED BY <2>1
  <1>6. PICK q \in [Node -> R] : Solves(q, Node, Stop, base, step, next)
    <2> HIDE DEF R, Stop, next, base, step
    <2> QED BY <1>4, <1>5, RecursionExists
  <1>7. q = G(q)
    <2>1. ASSUME NEW n \in Node
          PROVE  q[n] = IF parent[n] = <<>> THEN <<n>> ELSE <<n>> \o q[parent[n][1]]
      <3>1. CASE parent[n] = <<>>
        BY <1>6, <3>1 DEF Solves
      <3>2. CASE parent[n] # <<>>
        <4> DEFINE p == parent[n][1]
        <4>1. n \notin Stop /\ next[n] = p /\ p \in Node
          BY <1>3, <3>2
        <4> HIDE DEF p
        <4>2. q[n] = step[<<n, q[p]>>] /\ <<n, q[p]>> \in Node \X R
          BY <1>6, <4>1 DEF Solves
        <4>3. step[<<n, q[p]>>] = <<n>> \o q[p]
          BY <4>2
        <4> QED BY <3>2, <4>2, <4>3 DEF p
      <3> QED BY <3>1, <3>2
    <2> QED BY <2>1
  <1>8. path = G(path)
    <2> HIDE DEF G
    <2> QED BY <1>7
  <1> HIDE DEF path
  <1>9. \A n \in Node : path[n] = IF parent[n] = <<>> THEN <<n>>
                                  ELSE <<n>> \o path[parent[n][1]]
    BY <1>8
  <1> DEFINE Bad == {n \in Node : ~FollowsLinks(path[n], n)}
             Costs == {g[n] : n \in Bad}
  <1>10. SUFFICES ASSUME end \in Bad PROVE FALSE
    BY <1>1
  <1>11. Costs \in SUBSET Nat /\ Costs # {}
    BY <1>2, <1>10
  <1>12. PICK c \in Costs : \A k \in Costs : c =< k
    <2> HIDE DEF Costs
    <2> QED BY <1>11, NatMin
  <1>13. PICK n \in Bad : c = g[n]
    OBVIOUS
  <1>14. CASE parent[n] = <<>>
    <2>1. path[n] = <<n>> /\ n \in Node
      BY <1>9, <1>14
    <2>2. FollowsLinks(<<n>>, n)
      BY <1>14 DEF FollowsLinks
    <2> QED BY <2>1, <2>2
  <1>15. CASE parent[n] # <<>>
    <2> DEFINE p == parent[n][1]
               rest == path[p]
    <2>1. p \in Node /\ parent[n] = <<p>> /\ g[p] < g[n] /\ path[n] = <<n>> \o rest
      BY <1>3, <1>9, <1>15
    <2> HIDE DEF p
    <2>2. FollowsLinks(rest, p)
      <3>1. SUFFICES ASSUME p \in Bad PROVE FALSE
        BY <2>1
      <3>2. g[p] \in Costs /\ g[p] \in Nat /\ g[n] \in Nat
        BY <1>2, <3>1
      <3>3. c =< g[p]
        BY <1>12, <3>2
      <3> QED BY <1>13, <2>1, <3>2, <3>3
    <2> HIDE DEF rest
    <2>3. /\ <<n>> \o rest \in Seq(Node) /\ Len(<<n>> \o rest) = Len(rest) + 1
          /\ (<<n>> \o rest)[1] = n
          /\ \A i \in 1..Len(rest) : (<<n>> \o rest)[i + 1] = rest[i]
      BY <2>2 DEF FollowsLinks
    <2> DEFINE whole == <<n>> \o rest
    <2> HIDE DEF whole
    <2>4. /\ Len(rest) \in Nat /\ Len(rest) > 0 /\ rest[1] = p
          /\ \A i \in 1..(Len(rest) - 1) : parent[rest[i]] = <<rest[i + 1]>>
          /\ parent[rest[Len(rest)]] = <<>>
      <3>1. rest \in Seq(Node)
        BY <2>2 DEF FollowsLinks
      <3>2. Len(rest) \in Nat
        BY <3>1
      <3> QED BY <2>2, <3>2, Zenon DEF FollowsLinks
    <2>5. ASSUME NEW i \in 1..(Len(whole) - 1) PROVE parent[whole[i]] = <<whole[i + 1]>>
      <3>1. CASE i = 1
        BY <2>1, <2>3, <2>4, <3>1 DEF whole
      <3>2. CASE i # 1
        <4>1. i - 1 \in 1..(Len(rest) - 1) /\ i - 1 \in 1..Len(rest) /\ i \in 1..Len(rest)
          BY <2>3, <2>4, <3>2 DEF whole
        <4>2. whole[i - 1 + 1] = rest[i - 1] /\ whole[i + 1] = rest[i]
          BY <2>3, <4>1 DEF whole
        <4>3. i - 1 + 1 = i
          BY <4>1
        <4>4. parent[rest[i - 1]] = <<rest[i - 1 + 1]>>
          BY <2>4, <4>1
        <4> QED BY <4>2, <4>3, <4>4
      <3> QED BY <3>1, <3>2
    <2>6. parent[whole[Len(whole)]] = <<>>
      <3>1. Len(whole) = Len(rest) + 1 /\ Len(rest) \in 1..Len(rest)
        BY <2>3, <2>4 DEF whole
      <3>2. whole[Len(rest) + 1] = rest[Len(rest)]
        BY <2>3, <3>1 DEF whole
      <3> QED BY <2>4, <3>1, <3>2
    <2>7. FollowsLinks(whole, n)
      <3>1. whole \in Seq(Node) /\ Len(whole) > 0 /\ whole[1] = n
        BY <2>3, <2>4 DEF whole
      <3> QED BY <2>5, <2>6, <3>1 DEF FollowsLinks
    <2> QED BY <2>1, <2>7 DEF whole
  <1> QED BY <1>14, <1>15

-----------------------------------------------------------------------------
(* What a path costs                                                         *)

(* From each place to the next v falls by d at least, and d is positive.     *)
Descends(v, d, len) ==
    /\ len \in Nat /\ len > 0 /\ v \in [1..len -> Nat] /\ d \in [1..(len - 1) -> Nat]
    /\ \A i \in 1..(len - 1) : d[i] > 0 /\ v[i + 1] + d[i] =< v[i]

(* So v is different at any two places.                                      *)
LEMMA DescentIsStrict ==
    ASSUME NEW v, NEW d, NEW len, Descends(v, d, len), NEW i \in 1..len, NEW j \in 1..len, i < j
    PROVE  v[j] < v[i]
  <1> DEFINE S == {k \in Nat : i + 1 + k =< len => v[i + 1 + k] < v[i]}
  <1>1. 0 \in S
    <2>1. i \in 1..(len - 1) /\ i + 1 \in 1..len
      BY DEF Descends
    <2>2. v[i + 1] + d[i] =< v[i] /\ d[i] > 0 /\ d[i] \in Nat /\ v[i] \in Nat /\ v[i + 1] \in Nat
      BY <2>1 DEF Descends
    <2> QED BY <2>1, <2>2
  <1>2. ASSUME NEW k \in S PROVE k + 1 \in S
    <2> SUFFICES ASSUME i + 1 + (k + 1) =< len PROVE v[i + 1 + (k + 1)] < v[i]
      OBVIOUS
    <2> DEFINE m == i + 1 + k
    <2>1. m \in 1..(len - 1) /\ m + 1 \in 1..len /\ m + 1 = i + 1 + (k + 1) /\ m \in 1..len
      BY DEF Descends
    <2>2. v[m] < v[i]
      BY <2>1 DEF Descends
    <2>3. /\ v[m + 1] + d[m] =< v[m] /\ d[m] > 0 /\ d[m] \in Nat
          /\ v[m] \in Nat /\ v[m + 1] \in Nat /\ v[i] \in Nat
      BY <2>1 DEF Descends
    <2> HIDE DEF m
    <2> QED BY <2>1, <2>2, <2>3
  <1>3. S = Nat
    <2>1. S \in SUBSET Nat
      OBVIOUS
    <2> HIDE DEF S
    <2> QED BY <1>1, <1>2, <2>1, SetInduction
  <1>4. j - i - 1 \in Nat /\ i + 1 + (j - i - 1) = j /\ j =< len
    BY DEF Descends
  <1> QED BY <1>3, <1>4

(* And d adds up to no more than v falls, and to that when v falls by d.     *)
FallsBy(v, d, len) == \A i \in 1..(len - 1) : v[i + 1] + d[i] = v[i]
LEMMA DescentAddsUp ==
    ASSUME NEW v, NEW d, NEW len, Descends(v, d, len)
    PROVE  /\ Total(d, 1..(len - 1)) \in Nat
           /\ Total(d, 1..(len - 1)) + v[len] =< v[1]
           /\ FallsBy(v, d, len) => Total(d, 1..(len - 1)) + v[len] = v[1]
  <1> DEFINE U == 1..(len - 1)
             S == {k \in Nat : k =< len - 1 =>
                     /\ Total(d, 1..k) \in Nat /\ Total(d, 1..k) + v[k + 1] =< v[1]
                     /\ FallsBy(v, d, len) => Total(d, 1..k) + v[k + 1] = v[1]}
  <1>1. Numbers(d, U) /\ len - 1 \in Nat
    <2>1. len - 1 \in Nat /\ d \in [U -> Int]
      BY DEF Descends
    <2> QED BY <2>1, FS_Interval DEF Numbers
  <1>2. 0 \in S
    <2>1. 1..0 = {} /\ 1..0 \in SUBSET U
      OBVIOUS
    <2>2. Total(d, 1..0) = 0
      <3> HIDE DEF U
      <3> QED BY <1>1, <2>1, TotalType
    <2>3. v[1] \in Nat
      BY DEF Descends
    <2> QED BY <2>2, <2>3
  <1>3. ASSUME NEW k \in S PROVE k + 1 \in S
    <2> SUFFICES ASSUME k + 1 =< len - 1
                 PROVE  /\ Total(d, 1..(k + 1)) \in Nat
                        /\ Total(d, 1..(k + 1)) + v[k + 1 + 1] =< v[1]
                        /\ FallsBy(v, d, len) => Total(d, 1..(k + 1)) + v[k + 1 + 1] = v[1]
      OBVIOUS
    <2>1. /\ k \in Nat /\ k + 1 \in U /\ k + 1 \in 1..(k + 1) /\ 1..(k + 1) \in SUBSET U
          /\ (1..(k + 1)) \ {k + 1} = 1..k /\ k + 1 \in 1..len /\ k + 1 + 1 \in 1..len
      <3>1. k \in Nat /\ len \in Nat
        BY DEF Descends
      <3> HIDE DEF S
      <3> QED BY <3>1
    <2>2. /\ Total(d, 1..k) \in Nat /\ Total(d, 1..k) + v[k + 1] =< v[1]
          /\ FallsBy(v, d, len) => Total(d, 1..k) + v[k + 1] = v[1]
      BY <1>1
    <2>3. Total(d, 1..(k + 1)) = d[k + 1] + Total(d, 1..k)
      <3> HIDE DEF U
      <3> QED BY <1>1, <2>1, TotalWithout
    <2>4. /\ v[k + 1 + 1] + d[k + 1] =< v[k + 1] /\ d[k + 1] \in Nat
          /\ v[k + 1] \in Nat /\ v[k + 1 + 1] \in Nat /\ v[1] \in Nat
      BY <2>1 DEF Descends
    <2>5. FallsBy(v, d, len) => v[k + 1 + 1] + d[k + 1] = v[k + 1]
      BY <2>1 DEF FallsBy
    <2> QED BY <2>2, <2>3, <2>4, <2>5
  <1>4. S = Nat
    <2>1. S \in SUBSET Nat
      OBVIOUS
    <2> HIDE DEF S
    <2> QED BY <1>2, <1>3, <2>1, SetInduction
  <1>5. len - 1 \in S
    BY <1>1, <1>4
  <1>6. len - 1 + 1 = len
    BY DEF Descends
  <1> QED BY <1>1, <1>5, <1>6

(* What is known of a path that was found, and of the cost of its end.       *)
Covers(cost, path) ==
    IsInjective(path) /\ LengthOf(path) \in Nat /\ cost \in Nat /\ LengthOf(path) =< cost

(* The length of a path is a sum over its connections.                       *)
LEMMA LengthIsTotal ==
    ASSUME NEW path
    PROVE  LengthOf(path) = Total([i \in 1..(Len(path) - 1) |-> heuristic(path[i + 1], path[i])],
                                  1..(Len(path) - 1))
  BY DEF LengthOf, Total

(* Costs fall along the path that getPath collects, by the length of each    *)
(* connection at least.                                                      *)
LEMMA CostCoversPath ==
    ASSUME IInv, NEW n \in Node
    PROVE  Covers(g[n], PathTo(n))
  <1> DEFINE path == PathTo(n)
             len == Len(path)
             v == [i \in 1..len |-> g[path[i]]]
             d == [i \in 1..(len - 1) |-> heuristic(path[i + 1], path[i])]
  <1>1. FollowsLinks(path, n) /\ TypeOK /\ ParentsAreCheaper
    BY PathFollowsLinks DEF IInv
  <1> HIDE DEF path
  <1>2. path \in Seq(Node) /\ len \in Nat /\ len > 0 /\ path[1] = n
    <2>1. path \in Seq(Node) /\ len > 0 /\ path[1] = n
      BY <1>1 DEF FollowsLinks
    <2> QED BY <2>1
  <1>3. \A i \in 1..(len - 1) : parent[path[i]] = <<path[i + 1]>>
    BY <1>1, Zenon DEF FollowsLinks
  <1>4. ASSUME NEW i \in 1..(len - 1)
        PROVE  d[i] \in Nat /\ d[i] > 0 /\ v[i + 1] + d[i] =< v[i]
    <2> DEFINE a == path[i]
               b == path[i + 1]
    <2>1. a \in Node /\ b \in Node /\ i \in 1..len /\ i + 1 \in 1..len
      BY <1>2
    <2>2. parent[a] = <<b>>
      BY <1>3
    <2>3. d[i] = heuristic(b, a) /\ v[i] = g[a] /\ v[i + 1] = g[b]
      BY <2>1
    <2> HIDE DEF a, b, d, v
    <2>4. b # a /\ g[a] >= g[b] + heuristic(b, a)
      <3>1. parent[a] # <<>> /\ parent[a][1] = b
        BY <2>2
      <3> QED BY <1>1, <2>1, <3>1 DEF ParentsAreCheaper
    <2>5. heuristic(b, a) \in Nat /\ heuristic(b, a) > 0
      BY <1>1, <2>1, <2>4, DistinctNodes
    <2>6. g[a] \in Nat /\ g[b] \in Nat
      BY <1>1, <2>1 DEF TypeOK
    <2> QED BY <2>3, <2>4, <2>5, <2>6
  <1>5. Descends(v, d, len)
    <2>1. \A i \in 1..len : g[path[i]] \in Nat
      BY <1>1, <1>2 DEF TypeOK
    <2>2. v \in [1..len -> Nat]
      BY <2>1
    <2>3. d \in [1..(len - 1) -> Nat]
      BY <1>4
    <2> HIDE DEF v, d, len
    <2> QED BY <1>2, <1>4, <2>2, <2>3 DEF Descends
  <1>6. IsInjective(path)
    <2> SUFFICES ASSUME NEW i \in 1..len, NEW j \in 1..len, i # j, path[i] = path[j] PROVE FALSE
      BY <1>2 DEF IsInjective
    <2>1. v[i] = v[j] /\ v[i] \in Nat
      BY <1>1, <1>2 DEF TypeOK
    <2>2. CASE i < j
      <3> HIDE DEF v, d, len
      <3>1. v[j] < v[i]
        BY <1>5, <2>2, DescentIsStrict
      <3> QED BY <2>1, <3>1
    <2>3. CASE j < i
      <3> HIDE DEF v, d, len
      <3>1. v[i] < v[j]
        BY <1>5, <2>3, DescentIsStrict
      <3> QED BY <2>1, <3>1
    <2> QED BY <1>2, <2>2, <2>3
  <1>7. Total(d, 1..(len - 1)) \in Nat /\ Total(d, 1..(len - 1)) + v[len] =< v[1]
    <2> HIDE DEF v, d, len
    <2> QED BY <1>5, DescentAddsUp
  <1>8. LengthOf(path) = Total(d, 1..(len - 1))
    BY LengthIsTotal
  <1>9. v[len] \in Nat /\ v[1] = g[n] /\ g[n] \in Nat
    BY <1>1, <1>2 DEF TypeOK
  <1>10. LengthOf(path) \in Nat /\ g[n] \in Nat /\ LengthOf(path) =< g[n]
    <2> HIDE DEF d, v, len
    <2> QED BY <1>7, <1>8, <1>9
  <1> QED BY <1>6, <1>10 DEF Covers, path

-----------------------------------------------------------------------------
(* The frontier                                                              *)

(* k holds what q holds, and e, in one place more.                           *)
HoldsAlso(k, q, e) ==
    Len(k) = Len(q) + 1 /\ \A x : Contains(k, x) <=> Contains(q, x) \/ x = e

(* push adds e to what the queue holds.                                      *)
LEMMA PushHolds ==
    ASSUME NEW E, NEW key \in [E -> Nat], NEW q \in Seq(E), NEW e \in E
    PROVE  Push(key, q, e) \in Seq(E) /\ HoldsAlso(Push(key, q, e), q, e)
  <1> DEFINE n == Len(q)
             r == Push(key, q, e)
  <1>1. n \in Nat /\ n + 1 \in Nat /\ q \in Arrays(n, E) /\ key \in [E -> Int]
    BY SeqIsArray
  <1> HIDE DEF n
  <1>2. /\ r \in Arrays(n + 1, E)
        /\ \A x : Copies(r, x) = Copies(q, x) + (IF x = e THEN 1 ELSE 0)
    BY <1>1, PushCopies
  <1> HIDE DEF r
  <1>3. ASSUME NEW x PROVE Contains(r, x) <=> Contains(q, x) \/ x = e
    <2>1. Copies(q, x) \in Nat
      BY <1>1, CopiesType
    <2>2. (Contains(q, x) <=> Copies(q, x) > 0) /\ (Contains(r, x) <=> Copies(r, x) > 0)
      BY <1>1, <1>2, ContainsCopies
    <2> QED BY <1>2, <2>1, <2>2
  <1>4. r \in Seq(E) /\ Len(r) = n + 1
    BY <1>1, <1>2, ArrayIsSeq
  <1> QED BY <1>3, <1>4 DEF r, n, HoldsAlso

(* pop takes nothing but one copy of the first node.                         *)
LEMMA PopHolds ==
    ASSUME NEW E, NEW key \in [E -> Nat], NEW q \in Seq(E), q # <<>>
    PROVE  /\ AfterPop(key, q) \in Seq(E) /\ Len(AfterPop(key, q)) = Len(q) - 1
           /\ \A x : Contains(AfterPop(key, q), x) => Contains(q, x)
           /\ \A x : Contains(q, x) /\ x # Popped(q) => Contains(AfterPop(key, q), x)
  <1> DEFINE n == Len(q)
             r == AfterPop(key, q)
  <1>1. n \in Nat /\ n > 0 /\ n - 1 \in Nat /\ q \in Arrays(n, E) /\ key \in [E -> Int]
    BY SeqIsArray
  <1> HIDE DEF n
  <1>2. /\ r \in Arrays(n - 1, E)
        /\ \A x : Copies(r, x) = Copies(q, x) - (IF x = Popped(q) THEN 1 ELSE 0)
    BY <1>1, PopCopies
  <1> HIDE DEF r
  <1>3. ASSUME NEW x
        PROVE  /\ Contains(r, x) => Contains(q, x)
               /\ Contains(q, x) /\ x # Popped(q) => Contains(r, x)
    <2>1. Copies(q, x) \in Nat
      BY <1>1, CopiesType
    <2>2. (Contains(q, x) <=> Copies(q, x) > 0) /\ (Contains(r, x) <=> Copies(r, x) > 0)
      BY <1>1, <1>2, ContainsCopies
    <2> QED BY <1>2, <2>1, <2>2
  <1>4. r \in Seq(E) /\ Len(r) = n - 1
    BY <1>1, <1>2, ArrayIsSeq
  <1> QED BY <1>3, <1>4 DEF r, n

(* The rounds of PushAll: what f and the heap are before a neighbor m, and    *)
(* what they become.                                                         *)
Queues == [f : [Node -> Nat], heap : Seq(Node)]
KeyWith(n, r, m) == [r.f EXCEPT ![m] = Cost(n, m) + heuristic(m, call.end)]
Round(n, r, m) ==
    IF m \in Better(n)
    THEN [f |-> KeyWith(n, r, m), heap |-> Push(KeyWith(n, r, m), r.heap, m)] ELSE r

(* What PushAll needs of the state: a popped node and its neighbors.         *)
Expands(n) ==
    /\ n \in Node /\ nodeDict[n] \in Seq(Node) /\ IsInjective(nodeDict[n])
    /\ Len(nodeDict[n]) \in Nat /\ IsFiniteSet(Node)
    /\ f \in [Node -> Nat] /\ g \in [Node -> Nat] /\ call.end \in Coordinates
    /\ AfterPop(f, frontier) \in Seq(Node)

(* pushed holds the result of each round.                                    *)
Rounds(pushed, n) ==
    /\ \A k \in 0..Len(nodeDict[n]) :
          /\ pushed[k] \in Queues
          /\ pushed[k] = IF k = 0 THEN [f |-> f, heap |-> AfterPop(f, frontier)]
                         ELSE Round(n, pushed[k - 1], nodeDict[n][k])
    /\ PushAll(n, call.end) = pushed[Len(nodeDict[n])]

LEMMA PoppedExpands ==
    ASSUME TypeOK, NEW n \in Node, Pop(n), frontier \in Seq(Node)
    PROVE  /\ Expands(n)
           /\ Len(AfterPop(f, frontier)) = Len(frontier) - 1
           /\ \A m : Contains(AfterPop(f, frontier), m) => Contains(frontier, m)
           /\ \A m : Contains(frontier, m) /\ m # n => Contains(AfterPop(f, frontier), m)
  <1> DEFINE popped == AfterPop(f, frontier)
             neighbors == nodeDict[n]
  <1>1. /\ neighbors \in Seq(Node) /\ Len(neighbors) \in Nat
        /\ f \in [Node -> Nat] /\ g \in [Node -> Nat] /\ call.end \in Coordinates
        /\ IsInjective(neighbors) /\ IsFiniteSet(Node)
    <2>1. neighbors \in Seq(Node \ {n}) /\ f \in [Node -> Nat]
          /\ g \in [Node -> Nat] /\ call.end \in Coordinates
          /\ IsInjective(neighbors) /\ IsFiniteSet(Node)
      BY MapsAssumption DEF TypeOK, Node
    <2> QED BY <2>1
  <1>2. /\ popped \in Seq(Node) /\ Len(popped) = Len(frontier) - 1
        /\ \A m : Contains(popped, m) => Contains(frontier, m)
        /\ \A m : Contains(frontier, m) /\ m # n => Contains(popped, m)
    <2>1. frontier # <<>> /\ n = Popped(frontier)
      BY DEF Pop
    <2> QED BY <1>1, <2>1, PopHolds
  <1> QED BY <1>1, <1>2 DEF Expands

LEMMA RoundType ==
    ASSUME TypeOK, NEW n \in Node, NEW r \in Queues, NEW m
    PROVE  /\ Round(n, r, m) \in Queues
           /\ m \in Better(n) =>
                 /\ m \in Node /\ KeyWith(n, r, m) \in [Node -> Nat] /\ r.heap \in Seq(Node)
                 /\ Round(n, r, m).f = KeyWith(n, r, m)
                 /\ Round(n, r, m).heap = Push(KeyWith(n, r, m), r.heap, m)
                 /\ HoldsAlso(Round(n, r, m).heap, r.heap, m)
  <1>1. CASE m \in Better(n)
    <2> DEFINE key == KeyWith(n, r, m)
               k == Push(key, r.heap, m)
    <2>1. m \in Node /\ r.f \in [Node -> Nat] /\ r.heap \in Seq(Node)
      BY <1>1 DEF Better, Queues
    <2>2. heuristic(n, m) \in Nat /\ heuristic(m, call.end) \in Nat /\ g[n] \in Nat
      BY <2>1, NodesHavePlaces DEF TypeOK
    <2>3. Cost(n, m) + heuristic(m, call.end) \in Nat
      BY <2>2 DEF Cost
    <2>4. key \in [Node -> Nat]
      BY <2>1, <2>3 DEF KeyWith
    <2> HIDE DEF key
    <2>5. k \in Seq(Node) /\ HoldsAlso(k, r.heap, m)
      BY <2>1, <2>4, PushHolds
    <2>6. Round(n, r, m) = [f |-> key, heap |-> k]
      BY <1>1 DEF Round, key
    <2> QED BY <2>1, <2>4, <2>5, <2>6 DEF Queues, key
  <1>2. CASE m \notin Better(n)
    BY <1>2 DEF Round
  <1> QED BY <1>1, <1>2

LEMMA PushAllRounds ==
    ASSUME TypeOK, NEW n, Expands(n)
    PROVE  \E pushed : Rounds(pushed, n)
  <1> DEFINE neighbors == nodeDict[n]
             len == Len(neighbors)
             D == 0..len
             R == Queues
             first == [f |-> f, heap |-> AfterPop(f, frontier)]
             Stop == {0}
             next == [k \in D |-> IF k = 0 THEN 0 ELSE k - 1]
             base == [k \in D |-> first]
             step == [p \in D \X R |-> Round(n, p[2], neighbors[p[1]])]
             mu == [k \in D |-> k]
             G(q) == [k \in D |-> IF k = 0 THEN first ELSE Round(n, q[k - 1], neighbors[k])]
             pushed == CHOOSE q : q = G(q)
  <1>1. PushAll(n, call.end) = pushed[len]
    BY DEF PushAll, Round, KeyWith
  <1>2. len \in Nat /\ n \in Node
    BY DEF Expands
  <1>3. first \in R
    BY DEF Expands, Queues
  <1> HIDE DEF len, first
  <1>4. Falls(D, Stop, next, mu)
    BY <1>2 DEF Falls
  <1>5. base \in [D -> R] /\ step \in [D \X R -> R]
    <2> HIDE DEF D
    <2> QED BY <1>2, <1>3, RoundType
  <1>6. PICK q \in [D -> R] : Solves(q, D, Stop, base, step, next)
    <2> HIDE DEF R, D, Stop, next, base, step, mu
    <2> QED BY <1>4, <1>5, RecursionExists
  <1>7. ASSUME NEW k \in D
        PROVE  q[k] = IF k = 0 THEN first ELSE Round(n, q[k - 1], neighbors[k])
    <2>1. CASE k = 0
      BY <1>6, <2>1 DEF Solves
    <2>2. CASE k # 0
      <3>1. k \notin Stop /\ next[k] = k - 1 /\ k - 1 \in D
        BY <1>2, <2>2
      <3>2. q[k] = step[<<k, q[k - 1]>>] /\ q[k - 1] \in R
        <4> HIDE DEF Stop, next, step, base, R
        <4> QED BY <1>6, <3>1 DEF Solves
      <3>3. step[<<k, q[k - 1]>>] = Round(n, q[k - 1], neighbors[k])
        <4> HIDE DEF R
        <4> QED BY <3>2
      <3> QED BY <2>2, <3>2, <3>3
    <2> QED BY <2>1, <2>2
  <1>8. q = G(q)
    <2> HIDE DEF R
    <2> QED BY <1>7
  <1>9. pushed = G(pushed)
    <2> HIDE DEF G
    <2> QED BY <1>8
  <1> HIDE DEF pushed
  <1>10. ASSUME NEW k \in D
         PROVE  pushed[k] = IF k = 0 THEN first ELSE Round(n, pushed[k - 1], neighbors[k])
    BY <1>9
  <1> DEFINE S == {k \in Nat : k =< len => pushed[k] \in R}
  <1>11. 0 \in S
    <2>1. 0 \in D
      BY <1>2
    <2>2. pushed[0] = first
      BY <1>10, <2>1
    <2> HIDE DEF R
    <2> QED BY <1>3, <2>2
  <1>12. ASSUME NEW k \in S PROVE k + 1 \in S
    <2> SUFFICES ASSUME k + 1 =< len PROVE pushed[k + 1] \in R
      OBVIOUS
    <2>1. k + 1 \in D /\ k + 1 # 0 /\ k + 1 - 1 = k /\ k \in Nat /\ k =< len
      BY <1>2
    <2>2. pushed[k] \in R
      <3> HIDE DEF R
      <3> QED BY <2>1
    <2>3. pushed[k + 1] = Round(n, pushed[k], neighbors[k + 1])
      <3> HIDE DEF D
      <3> QED BY <1>10, <2>1
    <2> QED BY <1>2, <2>2, <2>3, RoundType
  <1>13. S = Nat
    <2>1. S \in SUBSET Nat
      OBVIOUS
    <2> HIDE DEF S
    <2> QED BY <1>11, <1>12, <2>1, SetInduction
  <1>14. ASSUME NEW k \in D PROVE pushed[k] \in R
    <2>1. k \in Nat /\ k =< len
      BY <1>2
    <2> HIDE DEF R
    <2> QED BY <1>13, <2>1
  <1>15. Rounds(pushed, n)
    BY <1>1, <1>10, <1>14 DEF Rounds, len, first
  <1> QED BY <1>15

(* A node that is expanded leaves the queue, and its better neighbors enter. *)
LEMMA ExpandQueues ==
    ASSUME TypeOK, NEW n \in Node, Pop(n), frontier \in Seq(Node)
    PROVE  LET q == PushAll(n, call.end).heap IN
           /\ q \in Seq(Node)
           /\ \A m : Contains(q, m) => Contains(frontier, m) \/ m \in Better(n)
           /\ \A m : (Contains(frontier, m) /\ m # n) \/ m \in Better(n) => Contains(q, m)
           /\ Len(q) < Len(frontier) + Cardinality(Better(n))
  <1> DEFINE neighbors == nodeDict[n]
             len == Len(neighbors)
             D == 0..len
             R == Queues
             popped == AfterPop(f, frontier)
             first == [f |-> f, heap |-> popped]
  <1>2. /\ Expands(n) /\ neighbors \in Seq(Node) /\ len \in Nat
        /\ IsInjective(neighbors) /\ IsFiniteSet(Node) /\ popped \in Seq(Node)
    BY PoppedExpands DEF Expands
  <1>3. /\ popped \in Seq(Node) /\ Len(popped) = Len(frontier) - 1
        /\ \A m : Contains(popped, m) => Contains(frontier, m)
        /\ \A m : Contains(frontier, m) /\ m # n => Contains(popped, m)
    BY <1>2, PoppedExpands
  <1>4. PICK pushed : Rounds(pushed, n)
    BY <1>2, PushAllRounds
  <1>1. PushAll(n, call.end) = pushed[len]
    BY <1>4 DEF Rounds
  <1> HIDE DEF len
  <1>12. \A k \in D : /\ pushed[k] \in R
                      /\ pushed[k] = IF k = 0 THEN first
                                     ELSE Round(n, pushed[k - 1], neighbors[k])
    BY <1>4 DEF Rounds, len
  <1> DEFINE Entered(k, m) == m \in Better(n) /\ \E i \in 1..k : neighbors[i] = m
             Holds(k) == /\ pushed[k] \in R
                         /\ \A m : Contains(pushed[k].heap, m) <=>
                                      Contains(popped, m) \/ Entered(k, m)
             New(k) == {m \in Node : Entered(k, m)}
             Grown(k) == Len(pushed[k].heap) = Len(popped) + Cardinality(New(k))
             S == {k \in Nat : k =< len => Holds(k) /\ Grown(k)}
  <1>13. 0 \in S
    <2>1. pushed[0] = first
      <3> HIDE DEF first, R
      <3> QED BY <1>2, <1>12
    <2>2. pushed[0].heap = popped
      BY <2>1
    <2>3. \A m : ~Entered(0, m)
      OBVIOUS
    <2>4. Grown(0)
      <3>1. New(0) = {}
        BY <2>3
      <3> HIDE DEF New, popped
      <3>2. Cardinality(New(0)) = 0
        BY <3>1, FS_EmptySet
      <3>3. Len(popped) \in Nat
        BY <1>3
      <3> QED BY <2>2, <3>2, <3>3
    <2>5. Holds(0)
      <3> HIDE DEF first, popped, R, Entered
      <3>1. 0 \in D
        BY <1>2
      <3> QED BY <1>12, <2>1, <2>2, <2>3, <3>1
    <2> HIDE DEF Holds, Grown
    <2> QED BY <2>4, <2>5
  <1>14. ASSUME NEW k \in S PROVE k + 1 \in S
    <2> SUFFICES ASSUME k + 1 =< len PROVE Holds(k + 1) /\ Grown(k + 1)
      OBVIOUS
    <2> DEFINE m == neighbors[k + 1]
               r == pushed[k]
    <2>1. k \in D /\ k + 1 \in D /\ k \in Nat /\ k + 1 # 0 /\ k + 1 - 1 = k
      BY <1>2
    <2>2. Holds(k) /\ Grown(k)
      <3> HIDE DEF Holds, Grown
      <3>1. k \in Nat /\ k =< len
        BY <1>2
      <3> QED BY <3>1
    <2>3. pushed[k + 1] = Round(n, r, m)
      <3> HIDE DEF first, D, R
      <3> QED BY <1>12, <2>1
    <2>4. \A x : Entered(k + 1, x) <=> Entered(k, x) \/ (x \in Better(n) /\ x = m)
      BY <2>1
    <2>5. ~Entered(k, m)
      <3>1. \A i \in 1..len, j \in 1..len : neighbors[i] = neighbors[j] => i = j
        <4>1. DOMAIN neighbors = 1..len /\ IsInjective(neighbors)
          BY <1>2 DEF len
        <4> HIDE DEF neighbors
        <4> QED BY <4>1 DEF IsInjective
      <3>2. \A i \in 1..k : i \in 1..len /\ i # k + 1
        BY <1>2, <2>1
      <3>3. k + 1 \in 1..len
        BY <1>2, <2>1
      <3> HIDE DEF neighbors
      <3> QED BY <3>1, <3>2, <3>3
    <2>6. New(k) \in SUBSET Node /\ New(k + 1) = New(k) \cup ({m} \cap Better(n))
      BY <2>4 DEF Better
    <2>7. m \in Node /\ Better(n) \subseteq Node
      BY <1>2, <2>1 DEF len, Better
    <2> HIDE DEF m, r, Entered
    <2>8. m \notin New(k)
      BY <2>5
    <2>9. /\ Cardinality(New(k)) \in Nat /\ Len(popped) \in Nat
          /\ Cardinality(New(k + 1)) = Cardinality(New(k)) + (IF m \in Better(n) THEN 1 ELSE 0)
      <3> HIDE DEF New, popped
      <3>4. Len(popped) \in Nat
        BY <1>3
      <3>5. IsFiniteSet(New(k)) /\ Cardinality(New(k)) \in Nat
        BY <1>2, <2>6, SubsetSize
      <3>1. IsFiniteSet(New(k)) /\ Cardinality(New(k)) \in Nat /\ Len(popped) \in Nat
        BY <3>4, <3>5
      <3>2. CASE m \in Better(n)
        <4>1. New(k + 1) = New(k) \cup {m}
          BY <2>6, <3>2
        <4>2. Cardinality(New(k) \cup {m}) = Cardinality(New(k)) + 1
          BY <2>8, <3>1, FS_AddElement
        <4> QED BY <3>1, <3>2, <4>1, <4>2
      <3>3. CASE m \notin Better(n)
        <4>1. New(k + 1) = New(k)
          BY <2>6, <3>3
        <4> QED BY <3>1, <3>3, <4>1
      <3> QED BY <3>2, <3>3
    <2> HIDE DEF New
    <2>10. CASE m \in Better(n)
      <3>1. r \in R
        BY <2>2 DEF r
      <3>2. pushed[k + 1] \in R /\ HoldsAlso(pushed[k + 1].heap, r.heap, m)
        BY <2>3, <2>10, <3>1, RoundType
      <3>3. /\ \A x : Contains(pushed[k + 1].heap, x) <=> Contains(r.heap, x) \/ x = m
            /\ Len(pushed[k + 1].heap) = Len(r.heap) + 1
        BY <3>2 DEF HoldsAlso
      <3> HIDE DEF R, popped
      <3>4. Holds(k + 1)
        BY <2>2, <2>4, <2>10, <3>2, <3>3 DEF r
      <3>5. Grown(k + 1)
        BY <2>2, <2>9, <2>10, <3>3 DEF r
      <3> QED BY <3>4, <3>5
    <2>11. CASE m \notin Better(n)
      <3>1. pushed[k + 1] = r
        BY <2>3, <2>11 DEF Round
      <3> HIDE DEF R, popped
      <3>2. Holds(k + 1)
        BY <2>2, <2>4, <2>11, <3>1 DEF r
      <3>3. Grown(k + 1)
        BY <2>2, <2>9, <2>11, <3>1 DEF r
      <3> QED BY <3>2, <3>3
    <2> QED BY <2>10, <2>11
  <1>15. S = Nat
    <2>1. S \in SUBSET Nat
      OBVIOUS
    <2> HIDE DEF S
    <2> QED BY <1>13, <1>14, <2>1, SetInduction
  <1>16. Holds(len) /\ Grown(len)
    <2> HIDE DEF Holds, Grown
    <2>1. len \in S
      BY <1>2, <1>15
    <2> QED BY <1>2, <2>1
  <1>17. \A m \in Better(n) : Entered(len, m)
    BY <1>2 DEF Better, Contains, len
  <1> HIDE DEF popped, Entered
  <1>20. Len(pushed[len].heap) < Len(frontier) + Cardinality(Better(n))
    <2>1. New(len) \in SUBSET Better(n) /\ IsFiniteSet(Better(n))
      <3>1. New(len) \in SUBSET Better(n) /\ Better(n) \in SUBSET Node
        BY DEF Entered, Better
      <3> QED BY <1>2, <3>1, FS_Subset
    <2> HIDE DEF New
    <2>2. Cardinality(New(len)) =< Cardinality(Better(n))
      BY <2>1, FS_Subset
    <2>3. Cardinality(New(len)) \in Nat /\ Cardinality(Better(n)) \in Nat
      BY <2>1, FS_Subset, FS_CardinalityType
    <2>4. Len(popped) = Len(frontier) - 1 /\ Len(frontier) \in Nat
      BY <1>3
    <2> QED BY <1>16, <2>2, <2>3, <2>4
  <1>18. pushed[len].heap \in Seq(Node)
    BY <1>16 DEF Queues
  <1> HIDE DEF R
  <1>19. \A m : Entered(len, m) => m \in Better(n)
    BY DEF Entered
  <1> QED BY <1>1, <1>3, <1>16, <1>17, <1>18, <1>19, <1>20

(* The order of a heap depends on the keys of its elements only.             *)
LEMMA SameKeysSameOrder ==
    ASSUME NEW E, NEW key, NEW other, NEW q \in Seq(E), HeapOrdered(key, q),
           \A x : Contains(q, x) => other[x] = key[x]
    PROVE  HeapOrdered(other, q)
  <1> SUFFICES ASSUME NEW i \in 2..Len(q) PROVE other[q[i \div 2]] =< other[q[i]]
    BY DEF HeapOrdered
  <1>1. Len(q) \in Nat /\ i \in 2..Len(q)
    OBVIOUS
  <1>2. i \in 1..Len(q) /\ i \div 2 \in 1..Len(q)
    BY <1>1
  <1>3. Contains(q, q[i]) /\ Contains(q, q[i \div 2])
    BY <1>2 DEF Contains
  <1>4. key[q[i \div 2]] =< key[q[i]]
    BY DEF HeapOrdered
  <1> QED BY <1>3, <1>4

(* No neighbor that is pushed is queued already.                             *)
PushesNewNodes(n) == \A m \in Better(n) : ~Contains(AfterPop(f, frontier), m)

(* f as Expand leaves it.                                                    *)
NewKeys(n) == [m \in Node |-> IF m \in Better(n)
                              THEN Cost(n, m) + heuristic(m, call.end) ELSE f[m]]

(* Then no key of a queued node changes, and the heap stays in order.        *)
LEMMA ExpandOrders ==
    ASSUME TypeOK, NEW n \in Node, Pop(n), frontier \in Seq(Node), HeapOrdered(f, frontier),
           PushesNewNodes(n)
    PROVE  HeapOrdered(NewKeys(n), PushAll(n, call.end).heap)
  <1> DEFINE neighbors == nodeDict[n]
             len == Len(neighbors)
             D == 0..len
             R == Queues
             popped == AfterPop(f, frontier)
             first == [f |-> f, heap |-> popped]
  <1>1. /\ Expands(n) /\ neighbors \in Seq(Node) /\ len \in Nat
        /\ IsInjective(neighbors) /\ popped \in Seq(Node) /\ f \in [Node -> Nat]
    BY PoppedExpands DEF Expands
  <1>2. HeapOrdered(f, popped)
    <2>1. Len(frontier) \in Nat /\ Len(frontier) > 0 /\ f \in [Node -> Int]
      BY <1>1 DEF Pop
    <2>2. frontier \in Arrays(Len(frontier), Node)
      BY SeqIsArray
    <2> QED BY <2>1, <2>2, PopOrders
  <1>3. PICK pushed : Rounds(pushed, n)
    BY <1>1, PushAllRounds
  <1>4. PushAll(n, call.end) = pushed[len]
    BY <1>3 DEF Rounds
  <1> HIDE DEF len
  <1>5. \A k \in D : /\ pushed[k] \in R
                     /\ pushed[k] = IF k = 0 THEN first
                                    ELSE Round(n, pushed[k - 1], neighbors[k])
    BY <1>3 DEF Rounds, len
  <1> DEFINE Entered(k, m) == m \in Better(n) /\ \E i \in 1..k : neighbors[i] = m
             Key(m) == Cost(n, m) + heuristic(m, call.end)
             Keys(k) == \A m \in Node : pushed[k].f[m] = IF Entered(k, m) THEN Key(m) ELSE f[m]
             Held(k) == \A m : Contains(pushed[k].heap, m) => Contains(popped, m) \/ Entered(k, m)
             Good(k) == Keys(k) /\ Held(k) /\ HeapOrdered(pushed[k].f, pushed[k].heap)
             S == {k \in Nat : k =< len => Good(k)}
  <1>6. 0 \in S
    <2>1. 0 \in D
      BY <1>1
    <2>2. pushed[0].f = f /\ pushed[0].heap = popped
      <3>1. pushed[0] = first
        <4> HIDE DEF first, R
        <4> QED BY <1>5, <2>1
      <3> QED BY <3>1
    <2>3. \A m : ~Entered(0, m)
      OBVIOUS
    <2> HIDE DEF popped, Entered, Key
    <2> QED BY <1>2, <2>2, <2>3
  <1>7. ASSUME NEW k \in S PROVE k + 1 \in S
    <2> SUFFICES ASSUME k + 1 =< len PROVE Good(k + 1)
      OBVIOUS
    <2> DEFINE m == neighbors[k + 1]
               r == pushed[k]
               s == pushed[k + 1]
    <2>1. k \in D /\ k + 1 \in D /\ k \in Nat /\ k + 1 # 0 /\ k + 1 - 1 = k
      BY <1>1
    <2>2. Good(k)
      <3>1. k \in Nat /\ k =< len
        BY <1>1
      <3> HIDE DEF Good
      <3> QED BY <3>1
    <2>3. s = Round(n, r, m) /\ r \in R
      <3> HIDE DEF first, D, R
      <3> QED BY <1>5, <2>1
    <2>4. \A x : Entered(k + 1, x) <=> Entered(k, x) \/ (x \in Better(n) /\ x = m)
      BY <2>1
    <2>5. ~Entered(k, m)
      <3>1. \A i \in 1..len, j \in 1..len : neighbors[i] = neighbors[j] => i = j
        <4>1. DOMAIN neighbors = 1..len /\ IsInjective(neighbors)
          BY <1>1 DEF len
        <4> HIDE DEF neighbors
        <4> QED BY <4>1 DEF IsInjective
      <3>2. \A i \in 1..k : i \in 1..len /\ i # k + 1
        BY <1>1, <2>1
      <3>3. k + 1 \in 1..len
        BY <1>1, <2>1
      <3> HIDE DEF neighbors
      <3> QED BY <3>1, <3>2, <3>3
    <2> HIDE DEF m, r, s, Entered, Key
    <2>6. CASE m \in Better(n)
      <3> DEFINE key == KeyWith(n, r, m)
      <3>1. /\ m \in Node /\ key \in [Node -> Nat] /\ r.heap \in Seq(Node) /\ s.f = key
            /\ s.heap = Push(key, r.heap, m) /\ HoldsAlso(s.heap, r.heap, m)
        BY <2>3, <2>6, RoundType
      <3>2. ~Contains(r.heap, m)
        BY <2>2, <2>5, <2>6 DEF r, PushesNewNodes
      <3>3. \A x \in Node : key[x] = IF x = m THEN Key(m) ELSE r.f[x]
        BY <2>3 DEF KeyWith, Queues, Key
      <3>4. Keys(k + 1)
        BY <2>2, <2>4, <2>5, <2>6, <3>1, <3>3 DEF r, s
      <3>5. Held(k + 1)
        BY <2>2, <2>4, <2>6, <3>1 DEF r, s, HoldsAlso
      <3>6. \A x : Contains(r.heap, x) => key[x] = r.f[x]
        <4>1. \A x : Contains(r.heap, x) => x \in Node
          BY <3>1 DEF Contains
        <4> HIDE DEF key
        <4> QED BY <3>2, <3>3, <4>1
      <3> HIDE DEF key
      <3>7. HeapOrdered(key, r.heap)
        BY <2>2, <3>1, <3>6, SameKeysSameOrder DEF r
      <3>8. HeapOrdered(key, Push(key, r.heap, m))
        <4>1. r.heap \in Arrays(Len(r.heap), Node) /\ Len(r.heap) \in Nat /\ key \in [Node -> Int]
          BY <3>1, SeqIsArray
        <4> QED BY <3>1, <3>7, <4>1, PushOrders
      <3> QED BY <3>1, <3>4, <3>5, <3>8 DEF s
    <2>7. CASE m \notin Better(n)
      <3>1. s = r
        BY <2>3, <2>7 DEF Round
      <3>2. \A x : Entered(k + 1, x) <=> Entered(k, x)
        BY <2>4, <2>7
      <3> QED BY <2>2, <3>1, <3>2 DEF r, s
    <2> QED BY <2>6, <2>7
  <1>8. S = Nat
    <2>1. S \in SUBSET Nat
      OBVIOUS
    <2> HIDE DEF S
    <2> QED BY <1>6, <1>7, <2>1, SetInduction
  <1>9. Good(len)
    <2>1. len \in S
      BY <1>1, <1>8
    <2> HIDE DEF Good
    <2> QED BY <1>1, <2>1
  <1>10. \A m \in Better(n) : Entered(len, m)
    BY <1>1 DEF Better, Contains, len
  <1>11. \A m \in Node : NewKeys(n)[m] = pushed[len].f[m]
    <2>1. \A m : Entered(len, m) => m \in Better(n)
      OBVIOUS
    <2> HIDE DEF Entered
    <2> QED BY <1>9, <1>10, <2>1 DEF NewKeys
  <1>12. pushed[len].heap \in Seq(Node)
    BY <1>1, <1>5 DEF Queues
  <1>13. \A x : Contains(pushed[len].heap, x) => NewKeys(n)[x] = pushed[len].f[x]
    BY <1>11, <1>12 DEF Contains
  <1>14. HeapOrdered(NewKeys(n), pushed[len].heap)
    BY <1>9, <1>12, <1>13, SameKeysSameOrder
  <1> QED BY <1>4, <1>14

-----------------------------------------------------------------------------
(* The second inductive invariant: what is known of routes                   *)

(* The nodes that a search from s may enter.                                 *)
Open(map, zone, s) == DOMAIN map \ (zone \ {s})

(* From the destination back to a start, on the map; the zone is left at     *)
(* once.                                                                     *)
IsRoute(map, zone, path, end) ==
    /\ path \in Seq(DOMAIN map) /\ Len(path) > 0 /\ path[1] = end
    /\ \A i \in 1..(Len(path) - 1) :
          Contains(map[path[i + 1]], path[i]) /\ path[i] \notin zone

(* Some nodes that a search from s cannot leave do not have the destination. *)
CutOff(map, zone, s, end) ==
    \E S \in SUBSET (DOMAIN map) :
        /\ s \in S /\ end \notin S
        /\ \A m \in S, n \in Open(map, zone, s) : Contains(map[m], n) => n \in S

(* Where a route may start.                                                  *)
Starts == IF call.atNode THEN {call.start} ELSE zoneNodes

(* The starts in the zone that were tried and did not lead anywhere better.  *)
Tried == zoneNodes \ (call.todo \cup IF call.pc = "search" THEN {call.src} ELSE {})

(* The links of the running search lead over nodes it did not give up back   *)
(* to its start, and every node in the frontier has one.                     *)
LinksLeadToStart ==
    call.pc = "search" =>
        /\ call.src \in Node /\ g[call.src] = 0 /\ parent[call.src] = <<>>
        /\ \A n \in Node, p \in Node :
              parent[n] = <<p>> => /\ Connected(p, n) /\ ~Blocked(p)
                                   /\ p = call.src \/ parent[p] # <<>>
        /\ frontier \in Seq(Node)
        /\ \A n \in Node : Contains(frontier, n) => n = call.src \/ parent[n] # <<>>

(* What was visited and has left the frontier was given up, or is not the    *)
(* destination and has only visited neighbors.                               *)
NothingIsOverlooked ==
    call.pc = "search" =>
        \A n \in visited :
            \/ Contains(frontier, n) \/ Blocked(n)
            \/ n # call.end /\ \A m \in Node : Connected(n, m) => m \in visited

(* The running call: its best path is a route, and if it has none yet then   *)
(* no start that it tried leads to the destination.                          *)
CallIsSound ==
    /\ call.pc \in {"idle", "choose", "search"}
    /\ call.pc # "idle" =>
          /\ Starts \subseteq Node
          /\ call.pc = "search" => call.src \in Starts
          /\ call.best # <<>> => /\ IsRoute(nodeDict, zoneNodes, call.best, call.end)
                                 /\ First(call.best) \in Starts
          /\ call.atNode => call.pc = "search" /\ call.best = <<>>
          /\ ~call.atNode =>
                /\ call.todo \subseteq zoneNodes
                /\ call.best = <<>> =>
                      \A s \in Tried : CutOff(nodeDict, zoneNodes, s, call.end)

(* The answer: a route, or the destination is cut off from every start.      *)
AnswerIsSound ==
    Answered =>
        /\ Starts \subseteq Node
        /\ HasRoute => /\ IsRoute(nodeDict, zoneNodes, answer.path, call.end)
                       /\ First(answer.path) \in Starts
        /\ ~HasRoute => \A s \in Starts : CutOff(nodeDict, zoneNodes, s, call.end)

RouteInv ==
    /\ LinksLeadToStart
    /\ NothingIsOverlooked
    /\ CallIsSound
    /\ AnswerIsSound

LEMMA InitRouteInv == Init => RouteInv
  <1> SUFFICES ASSUME Init PROVE RouteInv
    OBVIOUS
  <1>1. call.pc = "idle" /\ call.start = NotFound
    BY DEF Init, NoCall
  <1> QED BY <1>1 DEF RouteInv, LinksLeadToStart, NothingIsOverlooked, CallIsSound,
                      AnswerIsSound, Answered

(* No search runs, and neither call nor answer changes.                      *)
LEMMA QuietRoutes ==
    ASSUME RouteInv, UNCHANGED <<nodeDict, zoneNodes, call, answer>>, call.pc # "search"
    PROVE  RouteInv'
  <1>1. CallIsSound' /\ AnswerIsSound'
    BY DEF RouteInv, CallIsSound, AnswerIsSound, Answered, HasRoute, Starts, Tried, First, Node
  <1> QED BY <1>1 DEF RouteInv, LinksLeadToStart, NothingIsOverlooked

(* A search begins at a clean map.                                           *)
LEMMA StartRoutes ==
    ASSUME IInv, NEW s \in Node, NEW end, StartSearch(s, end), UNCHANGED nodeDict,
           call'.src = s
    PROVE  LinksLeadToStart' /\ NothingIsOverlooked'
  <1>1. Node' = Node
    BY DEF Node
  <1>2. g'[s] = 0 /\ \A n \in Node : parent'[n] = <<>>
    BY DEF IInv, VisitedCoversDirty, StartSearch
  <1>3. visited' = {} /\ frontier' = <<s>>
    BY DEF StartSearch
  <1>4. frontier' \in Seq(Node) /\ \A n \in Node : Contains(frontier', n) => n = s
    BY <1>3 DEF Contains
  <1>5. NothingIsOverlooked'
    BY <1>3 DEF NothingIsOverlooked
  <1>6. \A n \in Node, p \in Node : parent'[n] # <<p>>
    <2>1. \A p : <<p>> # <<>>
      OBVIOUS
    <2> QED BY <1>2, <2>1, Zenon
  <1>7. LinksLeadToStart'
    BY <1>1, <1>2, <1>4, <1>6, Zenon DEF LinksLeadToStart
  <1> QED BY <1>5, <1>7

LEMMA FindPathAtNodeRoutes ==
    ASSUME IInv, RouteInv, NEW start \in Places, NEW end \in Goals, FindPathAtNode(start, end)
    PROVE  RouteInv'
  <1>1. /\ start \in Node /\ StartSearch(start, end) /\ UNCHANGED <<nodeDict, zoneNodes>>
        /\ call'.pc = "search" /\ call'.start = start /\ call'.atNode
        /\ call'.src = start /\ call'.best = <<>>
    BY DEF FindPathAtNode, NoCall
  <1>2. Node' = Node
    BY <1>1 DEF Node
  <1>3. LinksLeadToStart' /\ NothingIsOverlooked'
    BY <1>1, StartRoutes
  <1>4. CallIsSound'
    BY <1>1, <1>2 DEF CallIsSound, Starts
  <1>5. AnswerIsSound'
    BY <1>1 DEF AnswerIsSound, Answered
  <1> QED BY <1>3, <1>4, <1>5 DEF RouteInv

LEMMA FindPathInZoneRoutes ==
    ASSUME IInv, RouteInv, NEW start \in Places, NEW end \in Goals, FindPathInZone(start, end)
    PROVE  RouteInv'
  <1>1. /\ zoneNodes' \in FindZone(start) /\ UNCHANGED nodeDict
        /\ call'.pc = "choose" /\ ~call'.atNode /\ call'.best = <<>>
        /\ call'.todo = zoneNodes'
    BY DEF FindPathInZone, NoCall
  <1>2. Node' = Node
    BY <1>1 DEF Node
  <1>3. zoneNodes' \subseteq Node
    BY <1>1, PlacesAssumption DEF IInv, TypeOK, Node
  <1>4. CallIsSound'
    BY <1>1, <1>2, <1>3 DEF CallIsSound, Starts, Tried
  <1> QED BY <1>1, <1>4 DEF RouteInv, LinksLeadToStart, NothingIsOverlooked,
                            AnswerIsSound, Answered

(* The next start is no longer to do, and not yet tried.                     *)
LEMMA NextStartRoutes ==
    ASSUME IInv, RouteInv, NextStart
    PROVE  RouteInv'
  <1>1. PICK s \in call.todo : /\ call' = [call EXCEPT !.pc = "search", !.todo = @ \ {s}, !.src = s]
                               /\ StartSearch(s, call.end)
    BY DEF NextStart
  <1>2. CallShape /\ s \in Node
    BY DEF IInv, TypeOK
  <1>3. /\ call'.pc = "search" /\ call'.src = s /\ call'.todo = call.todo \ {s}
        /\ call'.end = call.end /\ call'.best = call.best
        /\ call'.atNode = call.atNode /\ call'.start = call.start
    BY <1>1, <1>2 DEF CallShape
  <1>4. call.pc = "choose" /\ UNCHANGED <<nodeDict, zoneNodes>> /\ Node' = Node
    BY DEF NextStart, Node
  <1>5. LinksLeadToStart' /\ NothingIsOverlooked'
    BY <1>1, <1>2, <1>3, <1>4, StartRoutes
  <1>6. CallIsSound'
    <2>1. CallIsSound /\ ~call.atNode /\ s \in zoneNodes
      BY <1>4 DEF RouteInv, CallIsSound
    <2>2. Tried' = Tried /\ Starts' = Starts
      BY <1>3, <1>4, <2>1 DEF Tried, Starts
    <2> QED BY <1>3, <1>4, <2>1, <2>2 DEF CallIsSound, Starts, First
  <1>7. AnswerIsSound'
    BY <1>3 DEF AnswerIsSound, Answered
  <1> QED BY <1>5, <1>6, <1>7 DEF RouteInv

(* A step of the search after which it still runs.                           *)
LEMMA SearchGoesOn ==
    ASSUME RouteInv, UNCHANGED <<nodeDict, zoneNodes, call>>, call.pc = "search"
    PROVE  CallIsSound' /\ AnswerIsSound'
  BY DEF RouteInv, CallIsSound, AnswerIsSound, Answered, Starts, Tried, First, Node

(* The neighbors pushed are linked to the node expanded, and all of its      *)
(* neighbors are visited.                                                    *)
LEMMA ExpandRoutes ==
    ASSUME IInv, RouteInv, NEW n \in Node, Expand(n)
    PROVE  RouteInv'
  <1>1. /\ Pop(n) /\ ~Blocked(n) /\ n # call.end
        /\ visited' = visited \cup {n} \cup Better(n)
        /\ UNCHANGED <<nodeDict, zoneNodes, call>> /\ call.pc = "search"
        /\ frontier' = PushAll(n, call.end).heap
    BY DEF Expand, Pop
  <1>2. Node' = Node /\ \A m : Blocked(m)' <=> Blocked(m)
    BY <1>1 DEF Node, Blocked
  <1>3. \A m \in Node :
          /\ g'[m] = IF m \in Better(n) THEN Cost(n, m) ELSE g[m]
          /\ parent'[m] = IF m \in Better(n) THEN <<n>> ELSE parent[m]
    BY DEF Expand
  <1>4. TypeOK /\ LinksLeadToStart /\ NothingIsOverlooked /\ frontier \in Seq(Node)
    BY <1>1 DEF IInv, RouteInv, LinksLeadToStart
  <1>5. /\ frontier' \in Seq(Node)
        /\ \A m : Contains(frontier', m) => Contains(frontier, m) \/ m \in Better(n)
        /\ \A m : (Contains(frontier, m) /\ m # n) \/ m \in Better(n) => Contains(frontier', m)
    BY <1>1, <1>4, ExpandQueues
  <1>6. n = call.src \/ parent[n] # <<>>
    <2>1. Contains(frontier, n)
      BY <1>1, <1>4 DEF Pop, Popped, Contains
    <2> QED BY <1>1, <1>4, <2>1 DEF LinksLeadToStart
  <1>7. call.src \notin Better(n)
    <2>1. call.src \in Node /\ g[call.src] = 0 /\ g[n] \in Nat
      BY <1>1, <1>4 DEF LinksLeadToStart, TypeOK
    <2>2. ~(g[call.src] > Cost(n, call.src))
      <3>1. heuristic(n, call.src) \in Nat
        BY <1>4, <2>1, NodesHavePlaces
      <3> QED BY <2>1, <3>1 DEF Cost
    <2>3. call.src \in visited \cup {n}
      BY <1>1, PoppedStart
    <2> QED BY <2>2, <2>3 DEF Better
  <1>8. LinksLeadToStart'
    <2>1. g'[call.src] = 0 /\ parent'[call.src] = <<>> /\ call.src \in Node
      BY <1>1, <1>3, <1>4, <1>7 DEF LinksLeadToStart
    <2>2. ASSUME NEW m \in Node, NEW p \in Node, parent'[m] = <<p>>
          PROVE  Connected(p, m) /\ ~Blocked(p) /\ (p = call.src \/ parent'[p] # <<>>)
      <3>1. CASE m \in Better(n)
        <4>1. p = n /\ Connected(n, m)
          BY <1>3, <2>2, <3>1 DEF Better, Connected
        <4> QED BY <1>1, <1>3, <1>6, <4>1
      <3>2. CASE m \notin Better(n)
        <4>1. parent[m] = <<p>>
          BY <1>3, <2>2, <3>2
        <4> QED BY <1>1, <1>3, <1>4, <4>1 DEF LinksLeadToStart
      <3> QED BY <3>1, <3>2
    <2>3. ASSUME NEW m \in Node, Contains(frontier', m)
          PROVE  m = call.src \/ parent'[m] # <<>>
      <3>1. Contains(frontier, m) \/ m \in Better(n)
        BY <1>5, <2>3
      <3> QED BY <1>1, <1>3, <1>4, <3>1 DEF LinksLeadToStart
    <2>4. \A m, p : Connected(p, m)' <=> Connected(p, m)
      BY <1>1 DEF Connected
    <2> QED BY <1>1, <1>2, <1>5, <2>1, <2>2, <2>3, <2>4 DEF LinksLeadToStart
  <1>9. NothingIsOverlooked'
    <2> SUFFICES ASSUME NEW k \in visited', ~Contains(frontier', k), ~Blocked(k)
                 PROVE  k # call.end /\ \A m \in Node : Connected(k, m) => m \in visited'
      BY <1>1, <1>2 DEF NothingIsOverlooked, Connected
    <2>1. k \notin Better(n) /\ k \in visited \cup {n}
      BY <1>1, <1>5
    <2>2. CASE k = n
      BY <1>1, <2>2 DEF Better, Connected
    <2>3. CASE k # n
      <3>1. k \in visited /\ ~Contains(frontier, k)
        BY <1>5, <2>1, <2>3
      <3> QED BY <1>1, <1>4, <3>1 DEF NothingIsOverlooked
    <2> QED BY <2>2, <2>3
  <1> QED BY <1>1, <1>8, <1>9, SearchGoesOn DEF RouteInv

(* A node that is given up need not have its neighbors visited.              *)
LEMMA GiveUpRoutes ==
    ASSUME IInv, RouteInv, NEW n \in Node, GiveUp(n)
    PROVE  RouteInv'
  <1>1. /\ Pop(n) /\ Blocked(n) /\ visited' = visited \cup {n}
        /\ UNCHANGED <<nodeDict, g, parent, zoneNodes, call>> /\ call.pc = "search"
        /\ frontier' = AfterPop(f, frontier) /\ frontier # <<>> /\ n = Popped(frontier)
    BY DEF GiveUp, Pop
  <1>2. Node' = Node /\ \A m : Blocked(m)' <=> Blocked(m)
    BY <1>1 DEF Node, Blocked
  <1>3. LinksLeadToStart /\ NothingIsOverlooked /\ frontier \in Seq(Node) /\ f \in [Node -> Nat]
    BY <1>1 DEF IInv, TypeOK, RouteInv, LinksLeadToStart
  <1>4. /\ frontier' \in Seq(Node)
        /\ \A m : Contains(frontier', m) => Contains(frontier, m)
        /\ \A m : Contains(frontier, m) /\ m # n => Contains(frontier', m)
    BY <1>1, <1>3, PopHolds
  <1>5. LinksLeadToStart'
    BY <1>1, <1>2, <1>3, <1>4 DEF LinksLeadToStart, Connected
  <1>6. NothingIsOverlooked'
    <2> SUFFICES ASSUME NEW k \in visited', ~Contains(frontier', k), ~Blocked(k)
                 PROVE  k # call.end /\ \A m \in Node : Connected(k, m) => m \in visited'
      BY <1>1, <1>2 DEF NothingIsOverlooked, Connected
    <2>1. k # n /\ k \in visited /\ ~Contains(frontier, k)
      BY <1>1, <1>4
    <2> QED BY <1>1, <1>3, <2>1 DEF NothingIsOverlooked
  <1> QED BY <1>1, <1>5, <1>6, SearchGoesOn DEF RouteInv

(* getPath collects a route that begins at the start of the search.          *)
LEMMA FoundRoute ==
    ASSUME IInv, LinksLeadToStart, NEW n \in Node, Pop(n), ~Blocked(n), n = call.end
    PROVE  /\ IsRoute(nodeDict, zoneNodes, PathTo(n), call.end)
           /\ First(PathTo(n)) = call.src /\ PathTo(n) # <<>> /\ PathTo(n) # <<NotFound>>
  <1> DEFINE path == PathTo(n)
             len == Len(path)
  <1>1. FollowsLinks(path, n)
    BY PathFollowsLinks DEF IInv
  <1> HIDE DEF path
  <1>2. path \in Seq(Node) /\ len \in Nat /\ len > 0 /\ path[1] = n /\ path[len] \in Node
    <2>1. path \in Seq(Node) /\ len > 0 /\ path[1] = n
      BY <1>1 DEF FollowsLinks
    <2> QED BY <2>1
  <1>3. /\ \A i \in 1..(len - 1) : parent[path[i]] = <<path[i + 1]>>
        /\ parent[path[len]] = <<>>
    BY <1>1, Zenon DEF FollowsLinks
  <1>4. /\ call.src \in Node /\ parent[call.src] = <<>>
        /\ \A m \in Node, p \in Node :
              parent[m] = <<p>> => /\ Connected(p, m) /\ ~Blocked(p)
                                   /\ p = call.src \/ parent[p] # <<>>
        /\ Contains(frontier, n) => n = call.src \/ parent[n] # <<>>
        /\ frontier \in Seq(Node)
    BY DEF LinksLeadToStart, Pop
  <1>5. Contains(frontier, n)
    <2>1. frontier \in Seq(Node) /\ frontier # <<>> /\ frontier[1] = n
      BY <1>4 DEF Pop, Popped
    <2> QED BY <2>1 DEF Contains
  <1> HIDE DEF len
  <1>6. ASSUME NEW i \in 1..(len - 1)
        PROVE  Connected(path[i + 1], path[i]) /\ path[i] \notin zoneNodes
    <2>1. i \in 1..len /\ i + 1 \in 1..len /\ path[i] \in Node /\ path[i + 1] \in Node
      BY <1>2 DEF len
    <2>2. parent[path[i]] = <<path[i + 1]>>
      BY <1>3
    <2>3. Connected(path[i + 1], path[i]) /\ path[i] # call.src
      <3>1. parent[path[i]] # <<>>
        BY <2>2
      <3> QED BY <1>4, <2>1, <2>2, <3>1, Zenon
    <2>4. ~Blocked(path[i])
      <3>1. CASE i = 1
        BY <1>2, <3>1
      <3>2. CASE i # 1
        <4>1. i - 1 \in 1..(len - 1) /\ i - 1 + 1 = i
          BY <1>2, <3>2
        <4>2. parent[path[i - 1]] = <<path[i]>> /\ path[i - 1] \in Node
          <5>1. path[i - 1] \in Node
            BY <1>2, <4>1 DEF len
          <5> QED BY <1>3, <4>1, <5>1
        <4> QED BY <1>4, <2>1, <4>2
      <3> QED BY <3>1, <3>2
    <2> QED BY <2>3, <2>4 DEF Blocked
  <1>7. path[len] = call.src
    <2>1. CASE len = 1
      BY <1>2, <1>3, <1>4, <1>5, <2>1
    <2>2. CASE len # 1
      <3>1. len - 1 \in 1..(len - 1) /\ len - 1 + 1 = len
        BY <1>2, <2>2
      <3>2. parent[path[len - 1]] = <<path[len]>> /\ path[len - 1] \in Node
        <4>1. path[len - 1] \in Node
          BY <1>2, <3>1 DEF len
        <4> QED BY <1>3, <3>1, <4>1
      <3> QED BY <1>2, <1>3, <1>4, <3>2
    <2> QED BY <2>1, <2>2
  <1>8. path # <<>> /\ path # <<NotFound>>
    <2>1. NotFound \notin Node
      BY MapsAssumption DEF IInv, TypeOK, Node
    <2> QED BY <1>2, <2>1 DEF len
  <1>9. IsRoute(nodeDict, zoneNodes, path, call.end)
    BY <1>2, <1>6 DEF IsRoute, Connected, Node, len
  <1> QED BY <1>7, <1>8, <1>9 DEF First, path, len

(* When the frontier is empty, the nodes that were visited and not given up  *)
(* are a set that the search cannot leave.                                   *)
LEMMA ExhaustedCutsOff ==
    ASSUME IInv, RouteInv, Exhausted
    PROVE  CutOff(nodeDict, zoneNodes, call.src, call.end)
  <1> DEFINE S == {n \in visited : ~Blocked(n)}
  <1>1. call.pc = "search" /\ frontier = <<>> /\ \A n : ~Contains(frontier, n)
    BY DEF Exhausted, Contains
  <1>2. S \in SUBSET Node /\ call.src \in S
    <2>1. call.src \in visited
      BY <1>1 DEF IInv, StartIsPoppedFirst
    <2> QED BY <2>1 DEF IInv, TypeOK, Blocked
  <1>3. \A n \in S : n # call.end /\ \A m \in Node : Connected(n, m) => m \in visited
    BY <1>1 DEF RouteInv, NothingIsOverlooked
  <1>4. \A m \in S, n \in Open(nodeDict, zoneNodes, call.src) :
           Contains(nodeDict[m], n) => n \in S
    BY <1>3 DEF Open, Blocked, Connected, Node
  <1>5. call.end \notin S
    BY <1>3
  <1> HIDE DEF S
  <1> QED BY <1>2, <1>4, <1>5 DEF CutOff, Node

(* The search from call.src ends at a node with nothing (path = <<NotFound>>)*)
(* or with a route.                                                          *)
LEMMA ReturnedRoutes ==
    ASSUME IInv, RouteInv, call.pc = "search", UNCHANGED <<nodeDict, zoneNodes>>,
           NEW path, NEW cost, Returned(path, cost), path # <<>>,
           \/ /\ path = <<NotFound>>
              /\ CutOff(nodeDict, zoneNodes, call.src, call.end)
           \/ /\ path # <<NotFound>> /\ IsRoute(nodeDict, zoneNodes, path, call.end)
              /\ First(path) = call.src
    PROVE  RouteInv'
  <1>1. CallIsSound /\ CallShape /\ call.src \in Starts /\ Starts \subseteq Node
    BY DEF IInv, TypeOK, RouteInv, CallIsSound
  <1>2. Node' = Node
    BY DEF Node
  <1>3. CASE call.atNode
    <2>1. call' = Ended /\ answer' = Result(path, cost)
      BY <1>3 DEF Returned
    <2>2. /\ call'.pc = "idle" /\ call'.start = call.start
          /\ call'.end = call.end /\ call'.atNode = call.atNode
      BY <2>1 DEF Ended, NoCall
    <2>3. answer'.path = path
      BY <2>1 DEF Result
    <2>4. Starts' = Starts /\ Starts = {call.src}
      BY <1>1, <1>3, <2>2 DEF Starts
    <2>5. HasRoute' <=> path # <<NotFound>>
      BY <2>3 DEF HasRoute
    <2>6. AnswerIsSound'
      BY <1>1, <1>2, <2>2, <2>3, <2>4, <2>5 DEF AnswerIsSound, First
    <2> QED BY <2>2, <2>6 DEF RouteInv, LinksLeadToStart, NothingIsOverlooked, CallIsSound
  <1>4. CASE ~call.atNode
    <2>1. /\ call'.pc = "choose" /\ call'.start = call.start /\ call'.end = call.end
          /\ call'.atNode = call.atNode /\ call'.todo = call.todo
          /\ \/ call'.best = call.best /\ (path = <<NotFound>> \/ call.best # <<>>)
             \/ call'.best = path /\ path # <<NotFound>>
      BY <1>1, <1>4 DEF Returned, CallShape
    <2>2. Starts' = Starts /\ Tried' \subseteq Tried \cup {call.src}
      BY <2>1 DEF Starts, Tried
    <2>3. /\ call.todo \subseteq zoneNodes
          /\ call.best # <<>> => /\ IsRoute(nodeDict, zoneNodes, call.best, call.end)
                                 /\ First(call.best) \in Starts
          /\ call.best = <<>> => \A s \in Tried : CutOff(nodeDict, zoneNodes, s, call.end)
      BY <1>1, <1>4 DEF CallIsSound
    <2>4. ASSUME call'.best # <<>>
          PROVE  /\ IsRoute(nodeDict, zoneNodes, call'.best, call.end)
                 /\ First(call'.best) \in Starts
      BY <1>1, <2>1, <2>3, <2>4
    <2>5. ASSUME call'.best = <<>>, NEW s \in Tried'
          PROVE  CutOff(nodeDict, zoneNodes, s, call.end)
      BY <2>1, <2>2, <2>3, <2>5
    <2>6. First(call.best)' = First(call'.best)
      BY DEF First
    <2>7. CallIsSound'
      BY <1>1, <1>2, <1>4, <2>1, <2>2, <2>3, <2>4, <2>5, <2>6 DEF CallIsSound
    <2> QED BY <2>1, <2>7 DEF RouteInv, LinksLeadToStart, NothingIsOverlooked,
                              AnswerIsSound, Answered
  <1> QED BY <1>3, <1>4

LEMMA FoundRoutes ==
    ASSUME IInv, RouteInv, NEW n \in Node, Found(n)
    PROVE  RouteInv'
  <1>1. /\ Pop(n) /\ ~Blocked(n) /\ n = call.end /\ call.pc = "search"
        /\ UNCHANGED <<nodeDict, zoneNodes>> /\ Returned(PathTo(n), g[n])
    BY DEF Found, Pop
  <1> DEFINE path == PathTo(n)
  <1>2. /\ IsRoute(nodeDict, zoneNodes, path, call.end)
        /\ First(path) = call.src /\ path # <<>> /\ path # <<NotFound>>
    BY <1>1, FoundRoute DEF RouteInv
  <1> HIDE DEF path
  <1>3. Returned(path, g[n])
    BY <1>1 DEF path
  <1> QED BY <1>1, <1>2, <1>3, ReturnedRoutes

LEMMA ExhaustedRoutes ==
    ASSUME IInv, RouteInv, Exhausted
    PROVE  RouteInv'
  <1>1. /\ call.pc = "search" /\ UNCHANGED <<nodeDict, zoneNodes>>
        /\ Returned(<<NotFound>>, 0) /\ <<NotFound>> # <<>>
    BY DEF Exhausted, nodeVars
  <1>2. CutOff(nodeDict, zoneNodes, call.src, call.end)
    BY ExhaustedCutsOff
  <1> QED BY <1>1, <1>2, ReturnedRoutes

LEMMA FindPathReturnsRoutes ==
    ASSUME IInv, RouteInv, FindPathReturns
    PROVE  RouteInv'
  <1>1. /\ call.pc = "choose" /\ call.todo = {} /\ call' = Ended
        /\ answer' = Result(call.best, call.cost) /\ UNCHANGED <<nodeDict, zoneNodes>>
    BY DEF FindPathReturns
  <1>2. /\ call'.pc = "idle" /\ call'.start = call.start
        /\ call'.end = call.end /\ call'.atNode = call.atNode
    BY <1>1 DEF Ended, NoCall
  <1>3. /\ ~call.atNode /\ Starts \subseteq Node /\ Starts = zoneNodes /\ Tried = zoneNodes
        /\ call.best # <<>> => /\ IsRoute(nodeDict, zoneNodes, call.best, call.end)
                               /\ First(call.best) \in Starts
        /\ call.best = <<>> => \A s \in Tried : CutOff(nodeDict, zoneNodes, s, call.end)
    BY <1>1 DEF RouteInv, CallIsSound, Starts, Tried
  <1>4. Node' = Node /\ Starts' = Starts
    BY <1>1, <1>2 DEF Node, Starts
  <1>5. answer'.path = call.best
    BY <1>1 DEF Result, NoAnswer
  <1>6. call.best # <<NotFound>>
    <2>1. NotFound \notin DOMAIN nodeDict
      BY MapsAssumption DEF IInv, TypeOK
    <2>2. SUFFICES ASSUME call.best = <<NotFound>> PROVE FALSE
      OBVIOUS
    <2>3. call.best # <<>>
      BY <2>2
    <2>4. <<NotFound>> \in Seq(DOMAIN nodeDict)
      BY <1>3, <2>2, <2>3 DEF IsRoute
    <2> QED BY <2>1, <2>4
  <1>7. HasRoute' <=> call.best # <<>>
    BY <1>5, <1>6 DEF HasRoute
  <1>8. AnswerIsSound'
    BY <1>1, <1>2, <1>3, <1>4, <1>5, <1>7 DEF AnswerIsSound, First
  <1> QED BY <1>2, <1>8 DEF RouteInv, LinksLeadToStart, NothingIsOverlooked, CallIsSound

LEMMA StepRouteInv == IInv /\ RouteInv /\ [Next]_vars => RouteInv'
  <1> SUFFICES ASSUME IInv, RouteInv, [Next]_vars PROVE RouteInv'
    OBVIOUS
  <1>1. CASE UNCHANGED vars
    BY <1>1 DEF vars, RouteInv, LinksLeadToStart, NothingIsOverlooked, CallIsSound,
                AnswerIsSound, Answered, HasRoute, Starts, Tried, First, Node,
                Connected, Blocked
  <1>2. CASE createNodes
    <2>1. UNCHANGED <<nodeDict, zoneNodes, call, answer>> /\ call.pc # "search"
      BY <1>2 DEF createNodes
    <2> QED BY <2>1, QuietRoutes
  <1>3. CASE FindPath
    BY <1>3, FindPathAtNodeRoutes, FindPathInZoneRoutes DEF FindPath
  <1>4. CASE Search
    <2>1. ASSUME NEW n \in Node, Expand(n) \/ GiveUp(n) \/ Found(n) PROVE RouteInv'
      BY <2>1, ExpandRoutes, GiveUpRoutes, FoundRoutes
    <2>2. CASE NextStart \/ Exhausted \/ FindPathReturns
      BY <2>2, NextStartRoutes, ExhaustedRoutes, FindPathReturnsRoutes
    <2> QED BY <1>4, <2>1, <2>2 DEF Search
  <1> QED BY <1>1, <1>2, <1>3, <1>4 DEF Next

-----------------------------------------------------------------------------
(* The third inductive invariant: the costs that findPath keeps and reports  *)
CostInv ==
    /\ call.start \in Coordinates
    /\ call.best # <<>> => Covers(call.cost, call.best)
    /\ HasRoute => /\ IsInjective(answer.path)
                   /\ answer.distance >= DistanceOf(answer.path)

LEMMA InitCostInv == Init => CostInv
  <1> SUFFICES ASSUME Init PROVE CostInv
    OBVIOUS
  <1>1. call.start = NotFound /\ call.best = <<>> /\ answer.path = <<>>
    BY DEF Init, NoCall, NoAnswer
  <1>2. NotFound \in Coordinates
    BY DEF NotFound, Coordinates
  <1> QED BY <1>1, <1>2 DEF CostInv, HasRoute

(* Nothing that the invariant speaks of changes.                             *)
LEMMA QuietCosts ==
    ASSUME CostInv, answer' = answer, call'.start = call.start, call'.atNode = call.atNode,
           call'.best = call.best, call'.cost = call.cost
    PROVE  CostInv'
  <1>1. HasRoute' <=> HasRoute
    BY DEF HasRoute
  <1>2. DistanceOf(answer.path)' = DistanceOf(answer.path)
    BY DEF DistanceOf, First
  <1> QED BY <1>1, <1>2 DEF CostInv

(* A call begins: there is neither an answer nor a path.                     *)
LEMMA CallCosts ==
    ASSUME NEW start \in Places, NEW end \in Goals,
           FindPathAtNode(start, end) \/ FindPathInZone(start, end)
    PROVE  CostInv'
  <1>1. answer'.path = <<>> /\ call'.start = start /\ call'.best = <<>>
    <2>1. CASE FindPathAtNode(start, end)
      BY <2>1 DEF FindPathAtNode, NoCall, NoAnswer
    <2>2. CASE FindPathInZone(start, end)
      BY <2>2 DEF FindPathInZone, NoCall, NoAnswer
    <2> QED BY <2>1, <2>2
  <1>2. start \in Coordinates
    BY PlacesAssumption
  <1> QED BY <1>1, <1>2 DEF CostInv, HasRoute

(* The path that aStar returns becomes the best one or the answer, and its   *)
(* cost with it.                                                             *)
LEMMA ReturnedCosts ==
    ASSUME IInv, CostInv, NEW path, NEW cost, Returned(path, cost), path # <<>>,
           path = <<NotFound>> \/ Covers(cost, path)
    PROVE  CostInv'
  <1>1. CallShape
    BY DEF IInv, TypeOK
  <1>2. CASE call.atNode
    <2>1. call' = Ended /\ answer' = Result(path, cost)
      BY <1>2 DEF Returned
    <2>2. call'.start = call.start /\ call'.atNode = call.atNode /\ call'.best = <<>>
      BY <2>1 DEF Ended, NoCall
    <2>3. answer'.path = path /\ answer'.distance = cost
      BY <1>2, <2>1 DEF Result
    <2>4. ASSUME HasRoute'
          PROVE  IsInjective(answer.path)' /\ (answer.distance >= DistanceOf(answer.path))'
      <3>1. Covers(cost, path)
        BY <2>3, <2>4 DEF HasRoute
      <3>2. DistanceOf(answer.path)' = LengthOf(path) + 0
        BY <1>2, <2>2, <2>3 DEF DistanceOf
      <3> QED BY <2>3, <3>1, <3>2 DEF Covers
    <2> QED BY <2>2, <2>4 DEF CostInv
  <1>3. CASE ~call.atNode
    <2>1. /\ answer' = answer /\ call'.start = call.start /\ call'.atNode = call.atNode
          /\ \/ call'.best = call.best /\ call'.cost = call.cost
             \/ call'.best = path /\ call'.cost = cost /\ path # <<NotFound>>
      BY <1>1, <1>3 DEF Returned, CallShape
    <2>2. CASE call'.best = call.best /\ call'.cost = call.cost
      BY <2>1, <2>2, QuietCosts
    <2>3. CASE call'.best = path /\ call'.cost = cost /\ path # <<NotFound>>
      <3>1. HasRoute' <=> HasRoute
        BY <2>1 DEF HasRoute
      <3>2. DistanceOf(answer.path)' = DistanceOf(answer.path)
        BY <2>1 DEF DistanceOf, First
      <3> QED BY <2>1, <2>3, <3>1, <3>2 DEF CostInv
    <2> QED BY <2>1, <2>2, <2>3
  <1> QED BY <1>2, <1>3

LEMMA FindPathReturnsCosts ==
    ASSUME IInv, RouteInv, CostInv, FindPathReturns
    PROVE  CostInv'
  <1>1. call.pc = "choose" /\ call' = Ended /\ answer' = Result(call.best, call.cost)
    BY DEF FindPathReturns
  <1>2. call'.start = call.start /\ call'.atNode = call.atNode /\ call'.best = <<>>
    BY <1>1 DEF Ended, NoCall
  <1>3. ASSUME HasRoute'
        PROVE  IsInjective(answer.path)' /\ (answer.distance >= DistanceOf(answer.path))'
    <2> DEFINE path == call.best
    <2>1. path # <<>> /\ ~call.atNode
      BY <1>1, <1>3 DEF HasRoute, Result, NoAnswer, RouteInv, CallIsSound
    <2>2. /\ answer'.path = path
          /\ answer'.distance = call.cost + heuristic(call.start, First(path))
      BY <1>1, <2>1 DEF Result, First
    <2>3. Covers(call.cost, path) /\ call.start \in Coordinates
      BY <2>1 DEF CostInv
    <2>4. First(path) \in Node
      BY <1>1, <2>1 DEF RouteInv, CallIsSound
    <2>5. heuristic(call.start, First(path)) \in Nat
      <3>1. First(path) \in Coordinates
        BY <2>4, MapsAssumption DEF IInv, TypeOK, Node
      <3> QED BY <2>3, <3>1, HeuristicType
    <2>6. DistanceOf(answer.path)' = LengthOf(path) + heuristic(call.start, First(path))
      BY <1>2, <2>1, <2>2 DEF DistanceOf, First
    <2> HIDE DEF path
    <2> QED BY <2>2, <2>3, <2>5, <2>6 DEF Covers
  <1> QED BY <1>2, <1>3 DEF CostInv

LEMMA StepCostInv == IInv /\ RouteInv /\ CostInv /\ [Next]_vars => CostInv'
  <1> SUFFICES ASSUME IInv, RouteInv, CostInv, [Next]_vars PROVE CostInv'
    OBVIOUS
  <1>1. CASE UNCHANGED vars
    BY <1>1, QuietCosts DEF vars
  <1>2. CASE createNodes
    BY <1>2, QuietCosts DEF createNodes
  <1>3. CASE FindPath
    BY <1>3, CallCosts DEF FindPath
  <1>4. CASE NextStart
    <2>1. CallShape
      BY DEF IInv, TypeOK
    <2>2. /\ answer' = answer /\ call'.start = call.start /\ call'.atNode = call.atNode
          /\ call'.best = call.best /\ call'.cost = call.cost
      BY <1>4, <2>1 DEF NextStart, CallShape
    <2> QED BY <2>2, QuietCosts
  <1>5. CASE Exhausted
    <2>1. Returned(<<NotFound>>, 0) /\ <<NotFound>> # <<>>
      BY <1>5 DEF Exhausted
    <2> QED BY <2>1, ReturnedCosts
  <1>6. CASE FindPathReturns
    BY <1>6, FindPathReturnsCosts
  <1>7. ASSUME NEW n \in Node, Expand(n) \/ GiveUp(n) PROVE CostInv'
    BY <1>7, QuietCosts DEF Expand, GiveUp
  <1>8. ASSUME NEW n \in Node, Found(n) PROVE CostInv'
    <2> DEFINE path == PathTo(n)
    <2>1. Covers(g[n], path)
      BY CostCoversPath
    <2>2. path # <<>>
      <3>1. FollowsLinks(path, n)
        BY PathFollowsLinks DEF IInv
      <3> HIDE DEF path
      <3> QED BY <3>1 DEF FollowsLinks
    <2>3. Returned(path, g[n])
      BY <1>8 DEF Found
    <2> HIDE DEF path
    <2> QED BY <2>1, <2>2, <2>3, ReturnedCosts
  <1> QED BY <1>1, <1>2, <1>3, <1>4, <1>5, <1>6, <1>7, <1>8 DEF Next, Search

-----------------------------------------------------------------------------
(* What the invariant says of the answers                                    *)

(* A route reaches its end: if it did not, there would be a first place on   *)
(* it, seen from its start, that cannot be reached.                          *)
LEMMA RouteReaches ==
    ASSUME TypeOK, NEW path, NEW end, IsRoute(nodeDict, zoneNodes, path, end),
           NEW T \in SUBSET Node, \A i \in 1..(Len(path) - 1) : path[i] \in T
    PROVE  First(path) \in Node /\ end \in Reachable(First(path), T)
  <1> DEFINE len == Len(path)
             s == path[len]
             R == Reachable(s, T)
             Left == {k \in 0..(len - 1) : path[len - k] \notin R}
  <1>1. path \in Seq(Node) /\ len \in Nat /\ len > 0 /\ path[1] = end /\ s \in Node
    <2>1. path \in Seq(Node) /\ len > 0 /\ path[1] = end
      BY DEF IsRoute, Node
    <2> QED BY <2>1
  <1>2. \A i \in 1..(len - 1) : Connected(path[i + 1], path[i]) /\ path[i] \in T
    BY DEF IsRoute, Connected
  <1>3. s \in R /\ Closed(R, T)
    <2> HIDE DEF s
    <2> QED BY <1>1, ReachableIsLeast
  <1> HIDE DEF len, s, R
  <1>4. SUFFICES ASSUME end \notin R PROVE FALSE
    BY <1>1 DEF First, R, s, len
  <1>5. Left \in SUBSET Nat /\ Left # {}
    <2>1. len - 1 \in 0..(len - 1) /\ len - (len - 1) = 1
      BY <1>1
    <2>2. path[len - (len - 1)] = end
      BY <1>1, <2>1
    <2>3. len - 1 \in Left
      BY <1>4, <2>1, <2>2
    <2>4. \A k \in Left : k \in Nat
      OBVIOUS
    <2> HIDE DEF Left
    <2> QED BY <2>3, <2>4
  <1>6. PICK k \in Left : \A j \in Left : k =< j
    <2> HIDE DEF Left
    <2> QED BY <1>5, NatMin
  <1>7. k # 0
    BY <1>1, <1>3 DEF s
  <1>8. k - 1 \in 0..(len - 1) /\ len - k \in 1..(len - 1) /\ len - (k - 1) = len - k + 1
    BY <1>1, <1>7
  <1>9. path[len - k + 1] \in R
    <2>1. k - 1 \notin Left
      BY <1>6, <1>8
    <2> QED BY <1>8, <2>1
  <1>10. path[len - k] \in R
    BY <1>2, <1>3, <1>8, <1>9 DEF Closed
  <1> QED BY <1>10

(* A set that no connection leaves contains all that can be reached.         *)
LEMMA CutOffIsUnreachable ==
    ASSUME TypeOK, NEW s \in Node, NEW end, CutOff(nodeDict, zoneNodes, s, end)
    PROVE  end \notin Reachable(s, Open(nodeDict, zoneNodes, s))
  <1> DEFINE T == Open(nodeDict, zoneNodes, s)
  <1>1. PICK S \in SUBSET Node : s \in S /\ end \notin S /\ Closed(S, T)
    BY DEF CutOff, Closed, Connected, Node
  <1>2. T \in SUBSET Node
    BY DEF Open, Node
  <1> HIDE DEF T
  <1>3. Reachable(s, T) \subseteq S
    BY <1>1, <1>2, ReachableIsLeast
  <1> QED BY <1>1, <1>3 DEF T

(* From a zone: together the sets that cut the destination off from each of  *)
(* its nodes cut it off altogether, since in a node of the zone at which a   *)
(* search gives up another search starts.                                    *)
LEMMA ZoneIsCutOff ==
    ASSUME TypeOK, zoneNodes \subseteq Node, NEW end,
           \A s \in zoneNodes : CutOff(nodeDict, zoneNodes, s, end), NEW s \in zoneNodes
    PROVE  end \notin Reachable(s, Node)
  <1> DEFINE Cuts(S, z) == z \in S /\ end \notin S /\ Closed(S, Open(nodeDict, zoneNodes, z))
             U == UNION {S \in SUBSET Node : \E z \in zoneNodes : Cuts(S, z)}
  <1>1. ASSUME NEW z \in zoneNodes PROVE \E S \in SUBSET Node : Cuts(S, z)
    <2>1. CutOff(nodeDict, zoneNodes, z, end)
      OBVIOUS
    <2> QED BY <2>1 DEF CutOff, Closed, Connected, Node
  <1>2. zoneNodes \subseteq U /\ U \in SUBSET Node /\ end \notin U
    <2>1. ASSUME NEW z \in zoneNodes PROVE z \in U
      <3>1. PICK S \in SUBSET Node : Cuts(S, z)
        BY <1>1
      <3> QED BY <3>1
    <2> QED BY <2>1
  <1>3. Closed(U, Node)
    <2> SUFFICES ASSUME NEW m \in U, NEW n \in Node, Connected(m, n) PROVE n \in U
      BY DEF Closed
    <2>1. CASE n \in zoneNodes
      BY <1>2, <2>1
    <2>2. CASE n \notin zoneNodes
      <3>1. PICK S \in SUBSET Node, z \in zoneNodes : Cuts(S, z) /\ m \in S
        OBVIOUS
      <3>2. n \in Open(nodeDict, zoneNodes, z)
        BY <2>2 DEF Open, Node
      <3>3. n \in S
        BY <3>1, <3>2 DEF Closed
      <3> QED BY <3>1, <3>3
    <2> QED BY <2>1, <2>2
  <1> HIDE DEF U
  <1>4. Node \in SUBSET Node /\ s \in Node /\ s \in U
    BY <1>2
  <1>5. Reachable(s, Node) \subseteq U
    BY <1>2, <1>3, <1>4, ReachableIsLeast
  <1> QED BY <1>2, <1>5

(* What the invariants say of the answer is what the properties ask.         *)
LEMMA SoundAnswers ==
    ASSUME TypeOK, AnswerIsSound, CostInv
    PROVE  AnswerIsARoute /\ ZoneRouteIsFound /\ NodeRouteAvoidsLastZone
  <1> SUFFICES ASSUME Answered
               PROVE  AnswerIsARoute /\ ZoneRouteIsFound /\ NodeRouteAvoidsLastZone
    BY DEF AnswerIsARoute, ZoneRouteIsFound, NodeRouteAvoidsLastZone
  <1> DEFINE path == answer.path
             end == call.end
             IsAnswer == IsRoute(nodeDict, zoneNodes, path, end)
  <1>1. /\ Starts \subseteq Node
        /\ HasRoute => IsAnswer /\ First(path) \in Starts
        /\ ~HasRoute => \A s \in Starts : CutOff(nodeDict, zoneNodes, s, end)
    BY DEF AnswerIsSound
  <1>2. /\ call.atNode => Starts = {call.start}
        /\ ~call.atNode => Starts = zoneNodes
    BY DEF Starts
  <1>3. AnswerIsARoute
    BY <1>1, <1>2 DEF AnswerIsARoute, IsRoute, Connected, CostInv
  <1>4. ASSUME HasRoute, NEW T \in SUBSET Node, Node \ zoneNodes \subseteq T
        PROVE  end \in Reachable(First(path), T)
    <2>1. \A i \in 1..(Len(path) - 1) : path[i] \in T
      <3>1. path \in Seq(Node) /\ \A i \in 1..(Len(path) - 1) : path[i] \notin zoneNodes
        BY <1>1, <1>4 DEF IsRoute, Node
      <3>2. \A i \in 1..(Len(path) - 1) : path[i] \in Node
        BY <3>1
      <3> QED BY <1>4, <3>1, <3>2
    <2> HIDE DEF path, end
    <2> QED BY <1>1, <1>4, <2>1, RouteReaches
  <1> HIDE DEF path, end, IsAnswer
  <1>5. ZoneRouteIsFound
    <2> SUFFICES ASSUME ~call.atNode
                 PROVE  HasRoute <=> \E s \in zoneNodes : end \in Reachable(s, Node)
      BY DEF ZoneRouteIsFound, end
    <2>1. ASSUME HasRoute PROVE \E s \in zoneNodes : end \in Reachable(s, Node)
      <3>1. end \in Reachable(First(path), Node) /\ First(path) \in zoneNodes
        BY <1>1, <1>2, <1>4, <2>1
      <3> QED BY <3>1
    <2>2. ASSUME ~HasRoute, NEW s \in zoneNodes PROVE end \notin Reachable(s, Node)
      <3>1. /\ zoneNodes \subseteq Node
            /\ \A z \in zoneNodes : CutOff(nodeDict, zoneNodes, z, end)
        BY <1>1, <1>2, <2>2
      <3> QED BY <3>1, ZoneIsCutOff
    <2> QED BY <2>1, <2>2
  <1>6. NodeRouteAvoidsLastZone
    <2> DEFINE start == call.start
               T == Open(nodeDict, zoneNodes, start)
    <2>1. T = Node \ (zoneNodes \ {start})
      BY DEF Open, Node
    <2> SUFFICES ASSUME call.atNode PROVE HasRoute <=> end \in Reachable(start, T)
      BY <2>1 DEF NodeRouteAvoidsLastZone, end
    <2>2. T \in SUBSET Node /\ Node \ zoneNodes \subseteq T /\ start \in Node /\ Starts = {start}
      BY <1>1, <1>2, <2>1
    <2>3. ASSUME HasRoute PROVE end \in Reachable(start, T)
      <3> HIDE DEF T
      <3>1. end \in Reachable(First(path), T) /\ First(path) = start
        BY <1>1, <1>4, <2>2, <2>3
      <3> QED BY <3>1
    <2>4. ASSUME ~HasRoute PROVE end \notin Reachable(start, T)
      <3> HIDE DEF start
      <3>1. CutOff(nodeDict, zoneNodes, start, end)
        BY <1>1, <2>2, <2>4
      <3> QED BY <2>2, <3>1, CutOffIsUnreachable
    <2> QED BY <2>3, <2>4
  <1> QED BY <1>3, <1>5, <1>6

-----------------------------------------------------------------------------
(* The search comes to an end                                                *)

(* No connection between nodes costs more than all of them would.            *)
Span == Total([p \in Node \X Node |-> heuristic(p[1], p[2])], Node \X Node)

(* The cost of a node that was visited has been added up from no more        *)
(* connections than there are such nodes.                                    *)
CostsAreBounded == \A n \in Node : g[n] =< Span * Cardinality(visited)

(* The fourth inductive invariant.                                           *)
BoundInv == CostsAreBounded /\ frontier \in Seq(Node)

(* What falls in every iteration of aStar's loop: the cost of a node drops   *)
(* when it is pushed again, and a node that was not visited counts as more   *)
(* expensive than any that was.                                              *)
Most == Span * Cardinality(Node) + 1
Potential == [n \in Node |-> IF n \in visited THEN g[n] ELSE Most]
Inner == Total(Potential, Node) + Len(frontier)

(* What falls whenever findPath begins a search, or one ends.                *)
Outer == 2 * Cardinality(call.todo) +
         (IF call.pc = "search" THEN 2 ELSE IF call.pc = "choose" THEN 1 ELSE 0)

Closer == Outer' < Outer \/ (Outer' = Outer /\ Inner' < Inner)

(* More of the same is not less.                                             *)
LEMMA ScaleUp ==
    ASSUME NEW s \in Nat, NEW a \in Nat, NEW b \in Nat, a =< b
    PROVE  s * a \in Nat /\ s * b \in Nat /\ s * a =< s * b
  <1>1. PICK d \in Nat : b = a + d
    <2>1. b - a \in Nat /\ b = a + (b - a)
      OBVIOUS
    <2> QED BY <2>1
  <1>2. s * a \in Nat /\ s * d \in Nat /\ s * (a + d) = s * a + s * d
    OBVIOUS
  <1> QED BY <1>1, <1>2

(* A connection costs no more than Span, a sum that it is part of.           *)
LEMMA SpanBounds ==
    ASSUME TypeOK
    PROVE  /\ IsFiniteSet(Node) /\ Cardinality(Node) \in Nat /\ Span \in Nat
           /\ \A m \in Node, n \in Node : heuristic(m, n) \in Nat /\ heuristic(m, n) =< Span
  <1> DEFINE P == Node \X Node
             d == [p \in P |-> heuristic(p[1], p[2])]
  <1>1. IsFiniteSet(Node) /\ Cardinality(Node) \in Nat
    BY MapsAssumption, FS_CardinalityType DEF TypeOK, Node
  <1>2. IsFiniteSet(P)
    BY <1>1, FS_Product
  <1>3. \A m \in Node, n \in Node : heuristic(m, n) \in Nat
    BY NodesHavePlaces
  <1>4. d \in [P -> Int] /\ \A p \in P : 0 =< d[p]
    BY <1>3
  <1>5. \A m \in Node, n \in Node : <<m, n>> \in P /\ d[<<m, n>>] = heuristic(m, n)
    OBVIOUS
  <1>6. Span = Total(d, P)
    BY DEF Span
  <1> HIDE DEF P, d
  <1>7. Numbers(d, P) /\ Under(0, d, P)
    BY <1>2, <1>4 DEF Numbers, Under
  <1>8. ASSUME NEW m \in Node, NEW n \in Node PROVE heuristic(m, n) =< Span
    <2> DEFINE p == <<m, n>>
    <2>1. p \in P /\ d[p] = heuristic(m, n)
      BY <1>5
    <2> HIDE DEF p
    <2>2. d[p] =< Total(d, P)
      BY <1>7, <2>1, OneIsLess
    <2> QED BY <1>6, <2>1, <2>2
  <1>9. Span \in Nat
    <2>1. CASE P = {}
      BY <1>6, <1>7, <2>1, TotalType
    <2>2. CASE P # {}
      <3>1. PICK p \in P : TRUE
        BY <2>2
      <3> QED BY <1>6, <1>7, <3>1, OneIsLess
    <2> QED BY <2>1, <2>2
  <1> QED BY <1>1, <1>3, <1>8, <1>9

(* A set of nodes that has one more node is larger by 1 at least.            *)
LEMMA VisitedSize ==
    ASSUME TypeOK, NEW V \in SUBSET Node, NEW W \in SUBSET V
    PROVE  /\ Cardinality(V) \in Nat /\ Cardinality(W) \in Nat
           /\ Cardinality(W) =< Cardinality(V)
           /\ \A n \in V \ W : Cardinality(W) + 1 =< Cardinality(V)
  <1>1. IsFiniteSet(Node)
    BY SpanBounds
  <1>2. IsFiniteSet(V) /\ IsFiniteSet(W) /\ Cardinality(W) =< Cardinality(V)
    BY <1>1, FS_Subset
  <1>3. Cardinality(V) \in Nat /\ Cardinality(W) \in Nat
    BY <1>2, FS_CardinalityType
  <1>4. ASSUME NEW n \in V \ W PROVE Cardinality(W) + 1 =< Cardinality(V)
    <2>1. Cardinality(W) # Cardinality(V)
      BY <1>2, FS_Subset
    <2> QED BY <1>2, <1>3, <2>1
  <1> QED BY <1>2, <1>3, <1>4

(* More nodes were visited, and what is stored got no more expensive.        *)
LEMMA BoundGrows ==
    ASSUME TypeOK, NEW V \in SUBSET Node, NEW W \in SUBSET V
    PROVE  /\ Span * Cardinality(W) \in Nat /\ Span * Cardinality(V) \in Nat
           /\ Span * Cardinality(W) =< Span * Cardinality(V)
           /\ \A n \in V \ W : Span * Cardinality(W) + Span =< Span * Cardinality(V)
  <1>1. /\ Cardinality(V) \in Nat /\ Cardinality(W) \in Nat /\ Span \in Nat
        /\ Cardinality(W) =< Cardinality(V)
        /\ \A n \in V \ W : Cardinality(W) + 1 =< Cardinality(V)
    BY VisitedSize, SpanBounds
  <1>2. Span * (Cardinality(W) + 1) = Span * Cardinality(W) + Span
    <2> DEFINE w == Cardinality(W)
    <2> HIDE DEF w
    <2> SUFFICES Span * (w + 1) = Span * w + Span
      BY DEF w
    <2> QED BY <1>1 DEF w
  <1>3. /\ Span * Cardinality(W) \in Nat /\ Span * Cardinality(V) \in Nat
        /\ Span * Cardinality(W) =< Span * Cardinality(V)
    BY <1>1, ScaleUp
  <1>4. ASSUME NEW n \in V \ W
        PROVE  Span * (Cardinality(W) + 1) =< Span * Cardinality(V)
    <2>1. Cardinality(W) + 1 =< Cardinality(V) /\ Cardinality(W) + 1 \in Nat
      BY <1>1
    <2> QED BY <1>1, <2>1, ScaleUp
  <1> QED BY <1>2, <1>3, <1>4

LEMMA InitBoundInv == Init => BoundInv
  <1> SUFFICES ASSUME Init PROVE BoundInv
    OBVIOUS
  <1>1. TypeOK
    BY InitIInv DEF IInv
  <1>2. frontier \in Seq(Node) /\ \A n \in Node : g[n] = 0
    BY DEF Init
  <1>3. visited \in SUBSET Node
    BY <1>1 DEF TypeOK
  <1>4. Span * Cardinality(visited) \in Nat
    BY <1>1, <1>3, BoundGrows
  <1> QED BY <1>2, <1>4 DEF BoundInv, CostsAreBounded

(* A step that changes no cost and forgets no node that was visited.         *)
LEMMA QuietBounds ==
    ASSUME IInv, IInv', BoundInv, UNCHANGED nodeDict, visited \subseteq visited',
           \A n \in Node : g'[n] = g[n] \/ g'[n] = 0, frontier' \in Seq(Node)
    PROVE  BoundInv'
  <1>1. TypeOK /\ TypeOK' /\ Node' = Node /\ Span' = Span
    BY DEF IInv, Node, Span
  <1>2. visited' \in SUBSET Node /\ visited \in SUBSET visited'
    BY <1>1 DEF TypeOK
  <1>3. /\ Span * Cardinality(visited) \in Nat /\ Span * Cardinality(visited') \in Nat
        /\ Span * Cardinality(visited) =< Span * Cardinality(visited')
    BY <1>1, <1>2, BoundGrows
  <1>4. ASSUME NEW n \in Node PROVE g'[n] =< Span * Cardinality(visited')
    <2>1. g[n] \in Nat /\ g[n] =< Span * Cardinality(visited)
      BY <1>1 DEF BoundInv, CostsAreBounded, TypeOK
    <2> QED BY <1>3, <2>1
  <1> QED BY <1>1, <1>4 DEF BoundInv, CostsAreBounded

(* A search begins with every cost at 0.                                     *)
LEMMA StartBounds ==
    ASSUME IInv, IInv', NEW s \in Node, NEW end, StartSearch(s, end), UNCHANGED nodeDict
    PROVE  BoundInv'
  <1>1. TypeOK /\ TypeOK' /\ Node' = Node /\ Span' = Span
    BY DEF IInv, Node, Span
  <1>2. frontier' \in Seq(Node)
    BY DEF StartSearch
  <1>3. \A n \in Node : g'[n] = 0
    BY DEF IInv, VisitedCoversDirty, StartSearch
  <1>4. visited' \in SUBSET Node
    BY <1>1 DEF TypeOK
  <1>5. Span * Cardinality(visited') \in Nat
    BY <1>1, <1>4, BoundGrows
  <1> QED BY <1>1, <1>2, <1>3, <1>5 DEF BoundInv, CostsAreBounded

(* What an iteration that pops n and goes on does to the costs.              *)
LEMMA ExpandCosts ==
    ASSUME IInv, IInv', BoundInv, NEW n \in Node, Expand(n)
    PROVE  /\ TypeOK /\ TypeOK' /\ Node' = Node /\ Span' = Span
           /\ Better(n) \in SUBSET Node
           /\ visited' = visited \cup {n} \cup Better(n)
           /\ \A m \in Node :
                 /\ g[m] \in Nat /\ g'[m] \in Nat
                 /\ m \notin Better(n) => g'[m] = g[m]
                 /\ m \in Better(n) /\ m \in visited => g'[m] < g[m]
                 /\ m \in Better(n) => g'[m] =< g[n] + Span
  <1>1. /\ TypeOK /\ TypeOK' /\ Node' = Node /\ Span' = Span
        /\ visited' = visited \cup {n} \cup Better(n)
    BY DEF IInv, Expand, Node, Span
  <1>2. Better(n) \in SUBSET Node
    BY DEF Better
  <1>3. ASSUME NEW m \in Node
        PROVE  /\ g[m] \in Nat /\ g'[m] \in Nat
               /\ m \notin Better(n) => g'[m] = g[m]
               /\ m \in Better(n) /\ m \in visited => g'[m] < g[m]
               /\ m \in Better(n) => g'[m] =< g[n] + Span
    <2>1. g[m] \in Nat /\ g'[m] \in Nat /\ g[n] \in Nat
      BY <1>1 DEF TypeOK
    <2>2. g'[m] = IF m \in Better(n) THEN g[n] + heuristic(n, m) ELSE g[m]
      BY DEF Expand, Cost
    <2>3. heuristic(n, m) \in Nat /\ heuristic(n, m) =< Span /\ Span \in Nat
      BY <1>1, SpanBounds
    <2>4. m \in Better(n) /\ m \in visited => g[m] > g[n] + heuristic(n, m)
      BY DEF Better, Cost
    <2> QED BY <2>1, <2>2, <2>3, <2>4
  <1> QED BY <1>1, <1>2, <1>3

(* A node visited for the first time costs one connection more than n does.  *)
LEMMA ExpandBounds ==
    ASSUME IInv, IInv', BoundInv, NEW n \in Node, Expand(n)
    PROVE  BoundInv'
  <1>1. /\ TypeOK /\ TypeOK' /\ Node' = Node /\ Span' = Span
        /\ Better(n) \in SUBSET Node
        /\ visited' = visited \cup {n} \cup Better(n)
    BY ExpandCosts
  <1>2. frontier' \in Seq(Node)
    <2>1. Pop(n) /\ frontier' = PushAll(n, call.end).heap /\ frontier \in Seq(Node)
      BY DEF Expand, BoundInv
    <2> QED BY <1>1, <2>1, ExpandQueues
  <1>3. visited' \in SUBSET Node /\ visited \in SUBSET visited'
    BY <1>1 DEF TypeOK
  <1> DEFINE old == Span * Cardinality(visited)
             new == Span * Cardinality(visited')
  <1>4. /\ old \in Nat /\ new \in Nat /\ old =< new /\ Span \in Nat
        /\ \A m \in visited' \ visited : old + Span =< new
    BY <1>1, <1>3, BoundGrows, SpanBounds
  <1>5. \A m \in Node : g[m] =< old
    BY DEF BoundInv, CostsAreBounded
  <1> HIDE DEF old, new
  <1>6. ASSUME NEW m \in Node PROVE g'[m] =< new
    <2>1. /\ g[m] \in Nat /\ g'[m] \in Nat /\ g[n] \in Nat
          /\ m \notin Better(n) => g'[m] = g[m]
          /\ m \in Better(n) /\ m \in visited => g'[m] < g[m]
          /\ m \in Better(n) => g'[m] =< g[n] + Span
      BY ExpandCosts
    <2>2. g[m] =< old /\ g[n] =< old
      BY <1>5
    <2>3. CASE m \in Better(n) /\ m \notin visited
      <3>1. m \in visited' \ visited
        BY <1>1, <2>3
      <3>2. old + Span =< new /\ g'[m] =< g[n] + Span
        BY <1>4, <2>1, <2>3, <3>1
      <3> QED BY <1>4, <2>1, <2>2, <3>2
    <2>4. CASE ~(m \in Better(n) /\ m \notin visited)
      BY <1>4, <2>1, <2>2, <2>4
    <2> QED BY <2>3, <2>4
  <1> QED BY <1>1, <1>2, <1>6 DEF BoundInv, CostsAreBounded, new

LEMMA StepBoundInv == IInv /\ BoundInv /\ [Next]_vars => BoundInv'
  <1> SUFFICES ASSUME IInv, BoundInv, [Next]_vars PROVE BoundInv'
    OBVIOUS
  <1>1. IInv' /\ TypeOK /\ frontier \in Seq(Node)
    BY StepIInv DEF IInv, BoundInv
  <1>2. CASE UNCHANGED vars
    BY <1>1, <1>2, QuietBounds DEF vars
  <1>3. CASE createNodes
    <2>1. /\ UNCHANGED <<nodeDict, visited, frontier>>
          /\ \A n \in Node : g'[n] = 0
      BY <1>3 DEF createNodes
    <2> QED BY <1>1, <2>1, QuietBounds
  <1>4. CASE FindPath
    <2>1. PICK start \in Places, end \in Goals :
             FindPathAtNode(start, end) \/ FindPathInZone(start, end)
      BY <1>4 DEF FindPath
    <2>2. CASE FindPathAtNode(start, end)
      <3>1. start \in Node /\ StartSearch(start, end) /\ UNCHANGED nodeDict
        BY <2>2 DEF FindPathAtNode
      <3> QED BY <1>1, <3>1, StartBounds
    <2>3. CASE FindPathInZone(start, end)
      <3>1. UNCHANGED <<nodeDict, g, visited, frontier>>
        BY <2>3 DEF FindPathInZone, nodeVars
      <3> QED BY <1>1, <3>1, QuietBounds
    <2> QED BY <2>1, <2>2, <2>3
  <1>5. CASE NextStart
    <2>1. PICK s \in call.todo : StartSearch(s, call.end)
      BY <1>5 DEF NextStart
    <2>2. s \in Node /\ UNCHANGED nodeDict
      BY <1>1, <1>5 DEF NextStart, TypeOK
    <2> QED BY <1>1, <2>1, <2>2, StartBounds
  <1>6. CASE Exhausted \/ FindPathReturns
    <2>1. UNCHANGED <<nodeDict, g, visited, frontier>>
      BY <1>6 DEF Exhausted, FindPathReturns, nodeVars
    <2> QED BY <1>1, <2>1, QuietBounds
  <1>7. ASSUME NEW n \in Node, Expand(n) PROVE BoundInv'
    BY <1>1, <1>7, ExpandBounds
  <1>8. ASSUME NEW n \in Node, GiveUp(n) PROVE BoundInv'
    <2>1. UNCHANGED <<nodeDict, g>> /\ visited \subseteq visited'
          /\ frontier' = AfterPop(f, frontier) /\ frontier # <<>>
      BY <1>8 DEF GiveUp, Pop
    <2>2. frontier' \in Seq(Node)
      <3>1. f \in [Node -> Nat]
        BY <1>1 DEF TypeOK
      <3> QED BY <1>1, <2>1, <3>1, PopHolds
    <2> QED BY <1>1, <2>1, <2>2, QuietBounds
  <1>9. ASSUME NEW n \in Node, Found(n) PROVE BoundInv'
    <2>1. UNCHANGED <<nodeDict, g>> /\ visited \subseteq visited' /\ frontier' = <<>>
      BY <1>9 DEF Found
    <2>2. frontier' \in Seq(Node)
      BY <2>1
    <2> QED BY <1>1, <2>1, <2>2, QuietBounds
  <1> QED BY <1>2, <1>3, <1>4, <1>5, <1>6, <1>7, <1>8, <1>9 DEF Next, Search

(* What a node counts for, in Inner.                                         *)
LEMMA PotentialType ==
    ASSUME TypeOK, CostsAreBounded
    PROVE  /\ Numbers(Potential, Node) /\ Under(0, Potential, Node) /\ Most \in Nat
           /\ \A m \in Node : /\ Potential[m] = IF m \in visited THEN g[m] ELSE Most
                              /\ g[m] \in Nat /\ g[m] < Most
  <1>1. /\ Node \in SUBSET Node /\ visited \in SUBSET Node /\ IsFiniteSet(Node)
        /\ g \in [Node -> Nat]
    BY SpanBounds DEF TypeOK
  <1>2. /\ Span * Cardinality(visited) \in Nat /\ Span * Cardinality(Node) \in Nat
        /\ Span * Cardinality(visited) =< Span * Cardinality(Node)
    BY <1>1, BoundGrows
  <1>3. Most \in Nat
    BY <1>2 DEF Most
  <1>4. \A m \in Node : /\ Potential[m] = IF m \in visited THEN g[m] ELSE Most
                        /\ g[m] \in Nat
    BY <1>1 DEF Potential
  <1>5. \A m \in Node : g[m] < Most
    BY <1>2, <1>4 DEF CostsAreBounded, Most
  <1>6. Potential \in [Node -> Int]
    BY <1>1, <1>3 DEF Potential
  <1>7. \A m \in Node : 0 =< Potential[m]
    BY <1>3, <1>4
  <1> HIDE DEF Potential
  <1> QED BY <1>1, <1>3, <1>4, <1>5, <1>6, <1>7 DEF Numbers, Under

(* The same after a step on the same map.                                    *)
LEMMA NextPotential ==
    ASSUME IInv, IInv', BoundInv, UNCHANGED nodeDict
    PROVE  /\ Numbers(Potential', Node) /\ Inner' = Total(Potential', Node) + Len(frontier')
           /\ \A m \in Node : /\ Potential'[m] = IF m \in visited' THEN g'[m] ELSE Most
                              /\ g'[m] \in Nat
  <1>1. Node' = Node /\ Most' = Most /\ IsFiniteSet(Node)
    <2>1. TypeOK
      BY DEF IInv
    <2>2. IsFiniteSet(Node)
      BY <2>1, SpanBounds
    <2> QED BY <2>2 DEF Most, Span, Node
  <1>2. Most \in Nat /\ g' \in [Node -> Nat]
    BY <1>1, PotentialType DEF IInv, BoundInv, TypeOK
  <1>3. Potential' = [m \in Node |-> IF m \in visited' THEN g'[m] ELSE Most]
    BY <1>1 DEF Potential
  <1>4. Potential' \in [Node -> Int]
    BY <1>2, <1>3
  <1>5. Inner' = Total(Potential', Node) + Len(frontier')
    BY <1>1 DEF Inner
  <1> QED BY <1>1, <1>2, <1>3, <1>4, <1>5 DEF Numbers

(* Inner is a natural number.                                                *)
LEMMA InnerType ==
    ASSUME IInv, BoundInv
    PROVE  Inner \in Nat /\ Total(Potential, Node) \in Nat /\ Len(frontier) \in Nat
  <1>1. Numbers(Potential, Node) /\ Under(0, Potential, Node)
    BY PotentialType DEF IInv, BoundInv
  <1>2. Total(Potential, Node) \in Nat
    <2>1. CASE Node = {}
      BY <1>1, <2>1, TotalType
    <2>2. CASE Node # {}
      <3>1. PICK n \in Node : TRUE
        BY <2>2
      <3> QED BY <1>1, <3>1, OneIsLess
    <2> QED BY <2>1, <2>2
  <1>3. Len(frontier) \in Nat
    BY DEF BoundInv
  <1> QED BY <1>2, <1>3 DEF Inner

(* Outer is a natural number.                                                *)
LEMMA OuterType ==
    ASSUME TypeOK
    PROVE  Outer \in Nat /\ Cardinality(call.todo) \in Nat
  <1>1. call.todo \in SUBSET Node /\ IsFiniteSet(Node)
    BY SpanBounds DEF TypeOK
  <1>2. Cardinality(call.todo) \in Nat
    BY <1>1, SubsetSize
  <1> QED BY <1>2 DEF Outer

(* A popped node that is given up leaves the queue and counts for no more.   *)
LEMMA GiveUpFalls ==
    ASSUME IInv, IInv', BoundInv, BoundInv', NEW n \in Node, GiveUp(n)
    PROVE  Inner' < Inner
  <1>1. /\ UNCHANGED <<nodeDict, g>> /\ visited' = visited \cup {n}
        /\ frontier' = AfterPop(f, frontier) /\ frontier # <<>>
        /\ frontier \in Seq(Node) /\ f \in [Node -> Nat] /\ Node' = Node
    BY DEF GiveUp, Pop, BoundInv, IInv, TypeOK, Node
  <1>2. Len(frontier') = Len(frontier) - 1
    BY <1>1, PopHolds
  <1>3. /\ Numbers(Potential', Node) /\ Inner' = Total(Potential', Node) + Len(frontier')
        /\ \A m \in Node : Potential'[m] = IF m \in visited' THEN g'[m] ELSE Most
    BY <1>1, NextPotential
  <1>4. /\ Numbers(Potential, Node) /\ Numbers(Potential', Node) /\ Most \in Nat
        /\ \A m \in Node :
              /\ Potential[m] = IF m \in visited THEN g[m] ELSE Most
              /\ Potential'[m] = IF m \in visited' THEN g[m] ELSE Most
              /\ g[m] \in Nat /\ g[m] < Most
    <2>1. /\ Numbers(Potential, Node) /\ Most \in Nat
          /\ \A m \in Node : /\ Potential[m] = IF m \in visited THEN g[m] ELSE Most
                             /\ g[m] \in Nat /\ g[m] < Most
      BY PotentialType DEF IInv, BoundInv
    <2>2. \A m \in Node : Potential'[m] = IF m \in visited' THEN g[m] ELSE Most
      BY <1>1, <1>3
    <2> QED BY <1>3, <2>1, <2>2
  <1>5. Below(Potential', Potential, {}, Node)
    BY <1>1, <1>4 DEF Below
  <1>6. Total(Potential', Node) + Cardinality({}) =< Total(Potential, Node)
    BY <1>4, <1>5, TotalFalls
  <1>7. Total(Potential', Node) \in Int /\ Total(Potential, Node) \in Nat /\ Len(frontier) \in Nat
    BY <1>4, InnerType, TotalType
  <1> QED BY <1>2, <1>3, <1>6, <1>7, FS_EmptySet DEF Inner

(* A popped node that is expanded leaves the queue; each neighbor that is    *)
(* pushed counts for less than before, by as much as the queue grows.        *)
LEMMA ExpandFalls ==
    ASSUME IInv, IInv', BoundInv, NEW n \in Node, Expand(n)
    PROVE  Inner' < Inner
  <1>1. /\ Better(n) \in SUBSET Node
        /\ visited' = visited \cup {n} \cup Better(n)
        /\ \A m \in Node :
              /\ g[m] \in Nat /\ g'[m] \in Nat
              /\ m \notin Better(n) => g'[m] = g[m]
              /\ m \in Better(n) /\ m \in visited => g'[m] < g[m]
              /\ m \in Better(n) => g'[m] =< g[n] + Span
    BY ExpandCosts
  <1>2. Len(frontier') < Len(frontier) + Cardinality(Better(n)) /\ Len(frontier') \in Nat
    <2>1. TypeOK /\ Pop(n) /\ frontier' = PushAll(n, call.end).heap /\ frontier \in Seq(Node)
      BY DEF Expand, BoundInv, IInv
    <2>2. /\ PushAll(n, call.end).heap \in Seq(Node)
          /\ Len(PushAll(n, call.end).heap) < Len(frontier) + Cardinality(Better(n))
      BY <2>1, ExpandQueues
    <2> QED BY <2>1, <2>2
  <1>3. /\ Numbers(Potential', Node) /\ Inner' = Total(Potential', Node) + Len(frontier')
        /\ \A m \in Node : Potential'[m] = IF m \in visited' THEN g'[m] ELSE Most
    BY NextPotential DEF Expand
  <1>4. /\ Numbers(Potential, Node) /\ Most \in Nat
        /\ \A m \in Node : /\ Potential[m] = IF m \in visited THEN g[m] ELSE Most
                           /\ g[m] < Most
    BY PotentialType DEF IInv, BoundInv
  <1>5. \A m \in Node : m \notin visited => g[n] + Span < Most
    <2> SUFFICES ASSUME NEW m \in Node, m \notin visited PROVE g[n] + Span < Most
      OBVIOUS
    <2>1. TypeOK /\ visited \in SUBSET Node /\ Node \in SUBSET Node /\ m \in Node \ visited
      BY DEF IInv, TypeOK
    <2>2. /\ Span * Cardinality(visited) \in Nat /\ Span * Cardinality(Node) \in Nat
          /\ Span * Cardinality(visited) + Span =< Span * Cardinality(Node)
      BY <2>1, BoundGrows
    <2>3. g[n] =< Span * Cardinality(visited) /\ g[n] \in Nat /\ Span \in Nat
      BY <1>1, <2>1, SpanBounds DEF BoundInv, CostsAreBounded
    <2> QED BY <2>2, <2>3 DEF Most
  <1>6. Below(Potential', Potential, Better(n), Node)
    <2> SUFFICES ASSUME NEW m \in Node
                 PROVE  /\ Potential'[m] =< Potential[m]
                        /\ m \in Better(n) => Potential'[m] < Potential[m]
      BY DEF Below
    <2>1. CASE m \in Better(n)
      <3>1. Potential'[m] = g'[m]
        BY <1>1, <1>3, <2>1
      <3>2. CASE m \in visited
        BY <1>1, <1>4, <2>1, <3>1, <3>2
      <3>3. CASE m \notin visited
        <4>1. g'[m] =< g[n] + Span /\ g[n] + Span < Most /\ Potential[m] = Most
          BY <1>1, <1>4, <1>5, <2>1, <3>3
        <4>2. g[n] \in Nat /\ Span \in Nat /\ g'[m] \in Nat
          <5>1. TypeOK
            BY DEF IInv
          <5> QED BY <1>1, <5>1, SpanBounds
        <4> QED BY <1>4, <3>1, <4>1, <4>2
      <3> QED BY <3>2, <3>3
    <2>2. CASE m \notin Better(n)
      <3>1. /\ g'[m] = g[m] /\ g[m] < Most /\ g[m] \in Nat
            /\ m \in visited => m \in visited'
        BY <1>1, <1>4, <2>2
      <3> QED BY <1>3, <1>4, <2>2, <3>1
    <2> QED BY <2>1, <2>2
  <1>7. Total(Potential', Node) + Cardinality(Better(n)) =< Total(Potential, Node)
    BY <1>1, <1>3, <1>4, <1>6, TotalFalls
  <1>8. /\ Total(Potential', Node) \in Int /\ Total(Potential, Node) \in Nat
        /\ Len(frontier) \in Nat
    BY <1>3, InnerType, TotalType
  <1>9. Cardinality(Better(n)) \in Nat
    <2>1. TypeOK
      BY DEF IInv
    <2>2. IsFiniteSet(Node)
      BY <2>1, SpanBounds
    <2> QED BY <1>1, <2>2, SubsetSize
  <1> QED BY <1>2, <1>3, <1>7, <1>8, <1>9 DEF Inner

(* aStar returns: no search runs any more.                                   *)
LEMMA ReturnedFalls ==
    ASSUME IInv, RouteInv, call.pc = "search", NEW path, NEW cost, Returned(path, cost)
    PROVE  Outer' < Outer
  <1>1. TypeOK /\ CallShape
    BY DEF IInv, TypeOK
  <1>2. Cardinality(call.todo) \in Nat
    BY <1>1, OuterType
  <1>3. Outer = 2 * Cardinality(call.todo) + 2
    BY DEF Outer
  <1>4. CASE call.atNode
    <2>1. call'.pc = "idle" /\ call'.todo = {}
      BY <1>4 DEF Returned, Ended, NoCall
    <2>2. Cardinality(call'.todo) = 0
      BY <2>1, FS_EmptySet
    <2> QED BY <1>2, <1>3, <2>1, <2>2 DEF Outer
  <1>5. CASE ~call.atNode
    <2>1. call'.pc = "choose" /\ call'.todo = call.todo
      BY <1>1, <1>5 DEF Returned, CallShape
    <2>2. Outer' = 2 * Cardinality(call.todo) + 1
      BY <2>1 DEF Outer
    <2> QED BY <1>2, <1>3, <2>2
  <1> QED BY <1>4, <1>5

(* Every step of the search.                                                 *)
LEMMA SearchComesCloser ==
    ASSUME IInv, RouteInv, BoundInv, Search
    PROVE  Closer
  <1>1. IInv' /\ TypeOK /\ CallShape
    BY StepIInv DEF IInv, TypeOK, Next
  <1>2. Cardinality(call.todo) \in Nat
    BY <1>1, OuterType
  <1>3. CASE NextStart
    <2>1. PICK s \in call.todo : call' = [call EXCEPT !.pc = "search", !.todo = @ \ {s}, !.src = s]
      BY <1>3 DEF NextStart
    <2>2. call'.pc = "search" /\ call'.todo = call.todo \ {s} /\ call.pc = "choose"
      BY <1>1, <1>3, <2>1 DEF NextStart, CallShape
    <2>3. Cardinality(call.todo \ {s}) = Cardinality(call.todo) - 1
      <3>1. call.todo \in SUBSET Node /\ IsFiniteSet(Node)
        BY <1>1, SpanBounds DEF TypeOK
      <3> QED BY <3>1, SubsetSize
    <2>4. Outer' = 2 * (Cardinality(call.todo) - 1) + 2 /\ Outer = 2 * Cardinality(call.todo) + 1
      BY <2>2, <2>3 DEF Outer
    <2> QED BY <1>2, <2>4 DEF Closer
  <1>4. CASE Exhausted
    <2>1. call.pc = "search" /\ Returned(<<NotFound>>, 0)
      BY <1>4 DEF Exhausted
    <2> QED BY <2>1, ReturnedFalls DEF Closer
  <1>5. CASE FindPathReturns
    <2>1. call.pc = "choose" /\ call.todo = {} /\ call' = Ended
      BY <1>5 DEF FindPathReturns
    <2>2. call'.pc = "idle" /\ call'.todo = {}
      BY <2>1 DEF Ended, NoCall
    <2>3. Outer = 1 /\ Outer' = 0
      BY <2>1, <2>2, FS_EmptySet DEF Outer
    <2> QED BY <2>3 DEF Closer
  <1>6. ASSUME NEW n \in Node, Expand(n) PROVE Closer
    <2>1. Inner' < Inner
      BY <1>1, <1>6, ExpandFalls
    <2>2. Outer' = Outer
      BY <1>6 DEF Expand, Outer
    <2> QED BY <2>1, <2>2 DEF Closer
  <1>7. ASSUME NEW n \in Node, GiveUp(n) PROVE Closer
    <2>1. BoundInv'
      BY <1>7, StepBoundInv DEF Next, Search
    <2>2. Inner' < Inner
      BY <1>1, <1>7, <2>1, GiveUpFalls
    <2>3. Outer' = Outer
      BY <1>7 DEF GiveUp, Outer
    <2> QED BY <2>2, <2>3 DEF Closer
  <1>8. ASSUME NEW n \in Node, Found(n) PROVE Closer
    <2>1. call.pc = "search" /\ Returned(PathTo(n), g[n])
      BY <1>8 DEF Found, Pop
    <2> QED BY <2>1, ReturnedFalls DEF Closer
  <1> QED BY <1>3, <1>4, <1>5, <1>6, <1>7, <1>8 DEF Search

LEMMA InvariantHolds == Spec => [](IInv /\ RouteInv /\ CostInv /\ BoundInv)
  <1> QED BY InitIInv, InitRouteInv, InitCostInv, InitBoundInv,
             StepIInv, StepRouteInv, StepCostInv, StepBoundInv, PTL DEF Spec

(* A path that findPath (PathFinding.swift) returns leads along connections  *)
(* of the map from the user's node, or a node of the user's zone, to the     *)
(* destination: the links that searches before it left behind never get into *)
(* it, and getPath ends at the start of the search.                          *)
THEOREM AnswersAreRoutes == Spec => []AnswerIsARoute
  <1>1. IInv /\ RouteInv /\ CostInv /\ BoundInv => AnswerIsARoute
    BY SoundAnswers DEF IInv, RouteInv
  <1> QED BY <1>1, InvariantHolds, PTL

(* From a zone findPath finds a path exactly if there is one, although each  *)
(* of its searches gives up at the other nodes of the zone.                  *)
THEOREM ZoneRoutesAreFound == Spec => []ZoneRouteIsFound
  <1>1. IInv /\ RouteInv /\ CostInv /\ BoundInv => ZoneRouteIsFound
    BY SoundAnswers DEF IInv, RouteInv
  <1> QED BY <1>1, InvariantHolds, PTL

(* At a node findPath finds a path exactly if one avoids the zone the user   *)
(* was in the last time findZone was asked.                                  *)
THEOREM NodeRoutesAvoidLastZone == Spec => []NodeRouteAvoidsLastZone
  <1>1. IInv /\ RouteInv /\ CostInv /\ BoundInv => NodeRouteAvoidsLastZone
    BY SoundAnswers DEF IInv, RouteInv
  <1> QED BY <1>1, InvariantHolds, PTL

(* While findPath runs there is something for it to do: aStar's heap yields  *)
(* a node of the map, unless it is empty.                                    *)
GoesOn ==
    call.pc # "idle" =>
        call.pc = "choose" \/ (call.pc = "search" /\ (frontier = <<>> \/ \E n \in Node : Pop(n)))

(* aStar's loop ends on every map, although a node that was expanded may be  *)
(* pushed and expanded again whenever a cheaper way to it turns up, and      *)
(* although nothing limits how often: every iteration brings a number down   *)
(* that is a sum over the nodes, and every search that begins or ends the    *)
(* number of those to come. So findPath cannot search for ever.              *)
THEOREM SearchesComeToAnEnd ==
    Spec => /\ [](Outer \in Nat /\ Inner \in Nat /\ GoesOn)
            /\ [][Search => Closer]_vars
  <1>1. IInv /\ RouteInv /\ CostInv /\ BoundInv => Outer \in Nat /\ Inner \in Nat /\ GoesOn
    <2> SUFFICES ASSUME IInv, RouteInv, BoundInv PROVE Outer \in Nat /\ Inner \in Nat /\ GoesOn
      OBVIOUS
    <2>1. Outer \in Nat /\ Inner \in Nat
      BY OuterType, InnerType DEF IInv
    <2>2. GoesOn
      <3> SUFFICES ASSUME call.pc = "search", frontier # <<>> PROVE \E n \in Node : Pop(n)
        BY DEF GoesOn, RouteInv, CallIsSound
      <3>1. Popped(frontier) \in Node
        BY DEF BoundInv, Popped
      <3> QED BY <3>1 DEF Pop
    <2> QED BY <2>1, <2>2
  <1>2. IInv /\ RouteInv /\ CostInv /\ BoundInv /\ [Next]_vars => [Search => Closer]_vars
    BY SearchComesCloser
  <1> QED BY <1>1, <1>2, InvariantHolds, PTL DEF Spec


-----------------------------------------------------------------------------
(* The order of the frontier, on every map                                   *)

(* No node is queued between the searches.                                   *)
QueueIsOfTheSearch == call.pc # "search" => frontier = <<>>

(* A queue of one node is in order, and so is an empty one.                  *)
LEMMA ShortQueuesAreOrdered ==
    ASSUME NEW key, NEW q, q = <<>> \/ \E s : q = <<s>>
    PROVE  HeapOrdered(key, q)
  <1>1. Len(q) = 0 \/ Len(q) = 1
    OBVIOUS
  <1>2. 2..Len(q) = {}
    BY <1>1
  <1> QED BY <1>2 DEF HeapOrdered

LEMMA QueueStep == QueueIsOfTheSearch /\ TypeOK /\ [Next]_vars => QueueIsOfTheSearch'
  <1> SUFFICES ASSUME QueueIsOfTheSearch, TypeOK, [Next]_vars, call'.pc # "search"
               PROVE  frontier' = <<>>
    BY DEF QueueIsOfTheSearch
  <1>1. CallShape
    BY DEF TypeOK
  <1>2. CASE UNCHANGED vars \/ createNodes
    BY <1>2 DEF vars, createNodes, QueueIsOfTheSearch
  <1>3. ASSUME NEW start, NEW end, FindPathAtNode(start, end) PROVE FALSE
    BY <1>3 DEF FindPathAtNode, NoCall
  <1>4. ASSUME NEW start, NEW end, FindPathInZone(start, end) PROVE frontier' = <<>>
    BY <1>4 DEF FindPathInZone, nodeVars, QueueIsOfTheSearch
  <1>5. CASE NextStart
    BY <1>1, <1>5 DEF NextStart, CallShape
  <1>6. CASE Exhausted \/ FindPathReturns
    BY <1>6 DEF Exhausted, FindPathReturns, nodeVars, QueueIsOfTheSearch
  <1>7. ASSUME NEW n \in Node, Expand(n) \/ GiveUp(n) PROVE FALSE
    BY <1>7 DEF Expand, GiveUp, Pop
  <1>8. ASSUME NEW n \in Node, Found(n) PROVE frontier' = <<>>
    BY <1>8 DEF Found
  <1> QED BY <1>2, <1>3, <1>4, <1>5, <1>6, <1>7, <1>8 DEF Next, FindPath, Search

(* The heap gets out of order only when a node is expanded and a neighbor    *)
(* that is pushed is queued already.                                         *)
OnlyDropsDisorder ==
    HeapOrdered(f, frontier) /\ ~HeapOrdered(f, frontier)' =>
        \E n \in Node : Expand(n) /\ ~PushesNewNodes(n)

LEMMA StepOrders ==
    ASSUME TypeOK, RouteInv, QueueIsOfTheSearch, [Next]_vars
    PROVE  OnlyDropsDisorder
  <1> SUFFICES ASSUME HeapOrdered(f, frontier),
                      \A n \in Node : ~(Expand(n) /\ ~PushesNewNodes(n))
               PROVE  HeapOrdered(f', frontier')
    BY DEF OnlyDropsDisorder, HeapOrdered
  <1>1. f \in [Node -> Nat] /\ (call.pc = "search" => frontier \in Seq(Node))
    BY DEF TypeOK, RouteInv, LinksLeadToStart
  <1>2. CASE UNCHANGED <<f, frontier>>
    BY <1>2
  <1>3. CASE createNodes
    BY <1>3, ShortQueuesAreOrdered DEF createNodes, QueueIsOfTheSearch
  <1>4. ASSUME NEW s, NEW end, StartSearch(s, end) PROVE HeapOrdered(f', frontier')
    <2>1. frontier' = <<s>>
      BY <1>4 DEF StartSearch
    <2> QED BY <2>1, ShortQueuesAreOrdered
  <1>5. ASSUME NEW n \in Node, Found(n) PROVE HeapOrdered(f', frontier')
    BY <1>5, ShortQueuesAreOrdered DEF Found
  <1>6. ASSUME NEW n \in Node, GiveUp(n) PROVE HeapOrdered(f', frontier')
    <2>1. f' = f /\ frontier' = AfterPop(f, frontier) /\ frontier # <<>> /\ frontier \in Seq(Node)
      BY <1>1, <1>6 DEF GiveUp, Pop
    <2>2. /\ Len(frontier) \in Nat /\ Len(frontier) > 0 /\ f \in [Node -> Int]
          /\ frontier \in Arrays(Len(frontier), Node)
      BY <1>1, <2>1, SeqIsArray
    <2> QED BY <2>1, <2>2, PopOrders
  <1>7. ASSUME NEW n \in Node, Expand(n) PROVE HeapOrdered(f', frontier')
    <2>1. Pop(n) /\ PushesNewNodes(n) /\ frontier \in Seq(Node)
      BY <1>1, <1>7 DEF Expand, Pop
    <2>2. f' = NewKeys(n) /\ frontier' = PushAll(n, call.end).heap
      BY <1>7 DEF Expand, NewKeys
    <2>3. HeapOrdered(NewKeys(n), PushAll(n, call.end).heap)
      BY <2>1, ExpandOrders
    <2> QED BY <2>2, <2>3
  <1>8. CASE UNCHANGED vars \/ Exhausted \/ FindPathReturns
    BY <1>2, <1>8 DEF vars, Exhausted, FindPathReturns, nodeVars
  <1>9. CASE FindPath
    BY <1>2, <1>4, <1>9 DEF FindPath, FindPathAtNode, FindPathInZone, nodeVars
  <1>10. CASE NextStart
    BY <1>4, <1>10 DEF NextStart
  <1> QED BY <1>3, <1>5, <1>6, <1>7, <1>8, <1>9, <1>10 DEF Next, Search

(* What a heap in order is for.                                              *)
LEMMA OrderedPopsLeast ==
    ASSUME TypeOK, RouteInv, HeapOrdered(f, frontier)
    PROVE  PopsTheLeast
  <1> SUFFICES ASSUME NEW n \in Node, Pop(n), NEW i \in 1..Len(frontier)
               PROVE  f[n] =< f[frontier[i]]
    BY DEF PopsTheLeast
  <1>1. f \in [Node -> Int] /\ frontier \in Seq(Node) /\ n = Popped(frontier)
    BY DEF TypeOK, RouteInv, LinksLeadToStart, Pop
  <1>2. Len(frontier) \in Nat /\ frontier \in Arrays(Len(frontier), Node)
    BY <1>1, SeqIsArray
  <1> QED BY <1>1, <1>2, FirstIsLeast


LEMMA QueueHolds == Spec => [](IInv /\ RouteInv /\ QueueIsOfTheSearch)
  <1>1. Init => QueueIsOfTheSearch
    BY DEF Init, QueueIsOfTheSearch
  <1>2. IInv => TypeOK
    BY DEF IInv
  <1> QED BY <1>1, <1>2, InitIInv, StepIInv, InitRouteInv, StepRouteInv, QueueStep, PTL DEF Spec

(* aStar sets f of a neighbor and pushes it, and the heap is not told when   *)
(* the neighbor is queued already (PathFinding.swift). On every map this is  *)
(* the only way in which the frontier gets out of order: the other steps of  *)
(* the search, and those that push new nodes only, keep it in order, and a   *)
(* frontier in order yields its least node.                                  *)
THEOREM OnlyDroppedKeysDisorder ==
    Spec => /\ [](HeapOrdered(f, frontier) => PopsTheLeast)
            /\ [][OnlyDropsDisorder]_vars
  <1>1. IInv /\ RouteInv => (HeapOrdered(f, frontier) => PopsTheLeast)
    BY OrderedPopsLeast DEF IInv
  <1>2. IInv /\ RouteInv /\ QueueIsOfTheSearch /\ [Next]_vars => [OnlyDropsDisorder]_vars
    BY StepOrders DEF IInv
  <1> QED BY <1>1, <1>2, QueueHolds, PTL DEF Spec

-----------------------------------------------------------------------------
(* Walks                                                                     *)

(* phi bounds the costs of the walks from s whose other nodes lie in T, and  *)
(* S is not left by them: it rises along a connection by no more than the    *)
(* connection costs.                                                         *)
Potentials(phi, S, s, T) ==
    /\ S \in SUBSET Node /\ s \in S /\ phi \in [Node -> Nat] /\ phi[s] = 0
    /\ \A a \in S, b \in T :
          Connected(a, b) => b \in S /\ phi[b] =< phi[a] + heuristic(a, b)

(* A round of Cheapest.                                                      *)
WalksFrom(d, n) == {m \in DOMAIN d : Connected(m, n)}
WalkCosts(d, n, T) ==
    {d[n] : x \in DOMAIN d \cap {n}} \cup
    IF n \in T THEN {d[m] + heuristic(m, n) : m \in WalksFrom(d, n)} ELSE {}
NextWalks(d, T) ==
    [n \in DOMAIN d \cup {n \in T : WalksFrom(d, n) # {}} |-> Min(WalkCosts(d, n, T))]

(* The costs of walks within S that are not less than phi.                   *)
BoundedWalks(phi, S) ==
    {d \in UNION {[D -> Nat] : D \in SUBSET S} : \A n \in DOMAIN d : phi[n] =< d[n]}

LEMMA WalkRound ==
    ASSUME TypeOK, NEW phi, NEW S, NEW s, NEW T \in SUBSET Node, Potentials(phi, S, s, T),
           NEW d \in BoundedWalks(phi, S)
    PROVE  NextWalks(d, T) \in BoundedWalks(phi, S)
  <1> DEFINE D == DOMAIN d \cup {n \in T : WalksFrom(d, n) # {}}
             e == NextWalks(d, T)
  <1>1. /\ d \in [DOMAIN d -> Nat] /\ DOMAIN d \in SUBSET S /\ S \in SUBSET Node
        /\ \A n \in DOMAIN d : phi[n] =< d[n]
    BY DEF BoundedWalks, Potentials
  <1>2. D \in SUBSET S
    BY <1>1 DEF Potentials, WalksFrom
  <1>3. ASSUME NEW n \in D PROVE Min(WalkCosts(d, n, T)) \in Nat /\ phi[n] =< Min(WalkCosts(d, n, T))
    <2> DEFINE C == WalkCosts(d, n, T)
    <2>1. phi[n] \in Nat /\ n \in Node
      BY <1>1, <1>2 DEF Potentials
    <2>2. ASSUME NEW c \in C PROVE c \in Nat /\ phi[n] =< c
      <3>1. CASE n \in DOMAIN d /\ c = d[n]
        BY <1>1, <3>1
      <3>2. CASE n \in T /\ c \in {d[m] + heuristic(m, n) : m \in WalksFrom(d, n)}
        <4>1. PICK m \in DOMAIN d : Connected(m, n) /\ c = d[m] + heuristic(m, n)
          BY <3>2 DEF WalksFrom
        <4>2. phi[n] =< phi[m] + heuristic(m, n) /\ phi[m] =< d[m]
          BY <1>1, <3>2, <4>1 DEF Potentials
        <4>3. heuristic(m, n) \in Nat /\ d[m] \in Nat /\ phi[m] \in Nat
          <5>1. m \in Node
            BY <1>1
          <5> QED BY <1>1, <2>1, <5>1, NodesHavePlaces DEF Potentials
        <4> QED BY <2>1, <4>1, <4>2, <4>3
      <3> QED BY <3>1, <3>2 DEF WalkCosts
    <2>3. C # {}
      <3>1. CASE n \in DOMAIN d
        BY <3>1 DEF WalkCosts
      <3>2. CASE n \notin DOMAIN d
        BY <3>2 DEF WalkCosts
      <3> QED BY <3>1, <3>2
    <2>4. C \in SUBSET Nat
      <3> HIDE DEF C
      <3> QED BY <2>2
    <2> HIDE DEF C
    <2>5. \E x \in C : \A y \in C : x =< y
      BY <2>3, <2>4, NatMin
    <2>6. Min(C) \in C
      BY <2>5 DEF Min
    <2> QED BY <2>2, <2>6 DEF C
  <1>4. e \in [D -> Nat] /\ DOMAIN e = D /\ \A n \in D : e[n] = Min(WalkCosts(d, n, T))
    <2>1. e = [n \in D |-> Min(WalkCosts(d, n, T))]
      BY DEF NextWalks
    <2> HIDE DEF D, e
    <2> QED BY <1>3, <2>1
  <1> HIDE DEF D, e
  <1>5. \A n \in D : phi[n] =< e[n]
    BY <1>3, <1>4
  <1>6. e \in BoundedWalks(phi, S)
    BY <1>2, <1>4, <1>5 DEF BoundedWalks
  <1> QED BY <1>6 DEF e

(* So no walk from s to a node is cheaper than phi says, and none leaves S.  *)
LEMMA CheapestIsBounded ==
    ASSUME TypeOK, NEW phi, NEW S, NEW s \in Node, NEW T \in SUBSET Node, Potentials(phi, S, s, T)
    PROVE  Cheapest(s, T) \in BoundedWalks(phi, S)
  <1> DEFINE R == BoundedWalks(phi, S)
             first == [n \in {s} |-> 0]
             Stop == {0}
             next == [k \in Nat |-> IF k = 0 THEN 0 ELSE k - 1]
             base == [k \in Nat |-> first]
             step == [p \in Nat \X R |-> NextWalks(p[2], T)]
             mu == [k \in Nat |-> k]
             G(q) == [k \in Nat |-> IF k = 0 THEN first ELSE NextWalks(q[k - 1], T)]
             walks == CHOOSE q : q = G(q)
  <1>1. Cheapest(s, T) = walks[Cardinality(Node) - 1]
    BY DEF Cheapest, NextWalks, WalkCosts, WalksFrom
  <1>2. first \in R
    <2>1. phi[s] = 0 /\ {s} \in SUBSET S /\ first \in [{s} -> Nat] /\ DOMAIN first = {s}
      BY DEF Potentials
    <2>2. \A n \in {s} : phi[n] =< first[n]
      BY <2>1
    <2> HIDE DEF first
    <2> QED BY <2>1, <2>2 DEF BoundedWalks
  <1> HIDE DEF first
  <1>3. \A d \in R : NextWalks(d, T) \in R
    BY WalkRound
  <1>4. Falls(Nat, Stop, next, mu)
    BY DEF Falls
  <1>5. base \in [Nat -> R] /\ step \in [Nat \X R -> R]
    <2> HIDE DEF R
    <2> QED BY <1>2, <1>3
  <1>6. PICK q \in [Nat -> R] : Solves(q, Nat, Stop, base, step, next)
    <2> HIDE DEF R, Stop, next, base, step, mu
    <2> QED BY <1>4, <1>5, RecursionExists
  <1>7. ASSUME NEW k \in Nat
        PROVE  q[k] = IF k = 0 THEN first ELSE NextWalks(q[k - 1], T)
    <2>1. CASE k = 0
      BY <1>6, <2>1 DEF Solves
    <2>2. CASE k # 0
      <3>1. k \notin Stop /\ next[k] = k - 1 /\ k - 1 \in Nat
        BY <2>2
      <3>2. q[k] = step[<<k, q[k - 1]>>] /\ q[k - 1] \in R
        <4> HIDE DEF Stop, next, step, base, R
        <4> QED BY <1>6, <3>1 DEF Solves
      <3>3. step[<<k, q[k - 1]>>] = NextWalks(q[k - 1], T)
        <4> HIDE DEF R
        <4> QED BY <3>2
      <3> QED BY <2>2, <3>2, <3>3
    <2> QED BY <2>1, <2>2
  <1>8. q = G(q)
    <2> HIDE DEF R
    <2> QED BY <1>7
  <1>9. walks = G(walks)
    <2> HIDE DEF G
    <2> QED BY <1>8
  <1> HIDE DEF walks
  <1>10. ASSUME NEW k \in Nat
         PROVE  walks[k] = IF k = 0 THEN first ELSE NextWalks(walks[k - 1], T)
    BY <1>9
  <1> DEFINE I == {k \in Nat : walks[k] \in R}
  <1>11. 0 \in I
    <2>1. walks[0] = first
      BY <1>10
    <2> HIDE DEF R
    <2> QED BY <1>2, <2>1
  <1>12. ASSUME NEW k \in I PROVE k + 1 \in I
    <2>1. k + 1 # 0 /\ k + 1 - 1 = k /\ k \in Nat /\ k + 1 \in Nat
      OBVIOUS
    <2>2. walks[k + 1] = NextWalks(walks[k], T)
      BY <1>10, <2>1
    <2> HIDE DEF R
    <2> QED BY <1>3, <2>1, <2>2
  <1>13. I = Nat
    <2>1. I \in SUBSET Nat
      OBVIOUS
    <2> HIDE DEF I
    <2> QED BY <1>11, <1>12, <2>1, SetInduction
  <1>14. Cardinality(Node) - 1 \in Nat
    <2>1. IsFiniteSet(Node) /\ s \in Node
      BY MapsAssumption DEF TypeOK, Node
    <2>2. Cardinality(Node) \in Nat /\ Cardinality(Node) # 0
      BY <2>1, FS_CardinalityType, FS_EmptySet
    <2> QED BY <2>2
  <1>15. walks[Cardinality(Node) - 1] \in R
    <2> HIDE DEF R
    <2> QED BY <1>13, <1>14
  <1> QED BY <1>1, <1>15


-----------------------------------------------------------------------------
(* A map without cycles: the fourth inductive invariant                      *)

(* A bound phi on the costs of walks from s shows that none to n is cheaper  *)
(* than c.                                                                   *)
Rises(map, phi) ==
    \A a \in DOMAIN map, b \in DOMAIN map :
        Contains(map[a], b) => phi[b] =< phi[a] + heuristic(a, b)
Least(map, s, n, c) ==
    \E phi \in [DOMAIN map -> Nat] : phi[s] = 0 /\ c =< phi[n] /\ Rises(map, phi)

(* Nodes that the running search has found.                                  *)
Known == visited \cup {call.src}

(* Every node that was found, but the start, has a link.                     *)
FoundNodesAreLinked == \A n \in visited : n = call.src \/ parent[n] # <<>>

(* Costs add up exactly along the links: no node is improved after others    *)
(* were linked to it.                                                        *)
CostsAddUp ==
    \A n \in Node : parent[n] # <<>> => g[n] = g[parent[n][1]] + heuristic(parent[n][1], n)

QueueIsFound == \A n \in Node : Contains(frontier, n) => n \in Known

(* No walk from the start to a node that was found is cheaper than its g.    *)
CostsAreLeast == \A n \in Known : Least(nodeDict, call.src, n, g[n])

SearchIsExact ==
    call.pc = "search" =>
        FoundNodesAreLinked /\ CostsAddUp /\ QueueIsFound /\ CostsAreLeast

(* No start leads to the end at a lower cost.                                *)
NoneIsCheaper(starts, end, cost) ==
    \A s \in starts : CutOff(nodeDict, zoneNodes, s, end) \/ Least(nodeDict, s, end, cost)

(* The best path so far, and the answer.                                     *)
BestIsExact ==
    call.best # <<>> =>
        /\ call.cost \in Nat /\ call.cost = LengthOf(call.best)
        /\ NoneIsCheaper(Tried, call.end, call.cost)
AnswerIsExact ==
    Answered /\ HasRoute =>
        /\ answer.distance = DistanceOf(answer.path) /\ LengthOf(answer.path) \in Nat
        /\ NoneIsCheaper(Starts, call.end, LengthOf(answer.path))

ForestInv ==
    IsForest(nodeDict) =>
        /\ SearchIsExact /\ HeapOrdered(f, frontier)
        /\ BestIsExact /\ AnswerIsExact

(* The links lead into a set of nodes without the start over a connection    *)
(* that comes from outside: the cheapest linked node of the set has a parent *)
(* that is not in it.                                                        *)
LEMMA LinksCross ==
    ASSUME TypeOK, ParentsAreCheaper, LinksLeadToStart, call.pc = "search",
           NEW S, call.src \notin S, NEW m \in Node, m \in S, parent[m] # <<>>
    PROVE  \E x \in Node, p \in Node : x \in S /\ p \notin S /\ parent[x] = <<p>>
  <1> DEFINE Linked == {x \in Node : x \in S /\ parent[x] # <<>>}
             Costs == {g[x] : x \in Linked}
  <1>1. g \in [Node -> Nat] /\ parent \in [Node -> {<<>>} \cup {<<n>> : n \in Node}]
    BY DEF TypeOK
  <1>2. Costs \in SUBSET Nat /\ Costs # {}
    BY <1>1
  <1>3. PICK c \in Costs : \A y \in Costs : c =< y
    <2> HIDE DEF Costs
    <2> QED BY <1>2, NatMin
  <1>4. PICK x \in Linked : c = g[x]
    OBVIOUS
  <1>5. PICK p \in Node : parent[x] = <<p>>
    BY <1>1
  <1>6. SUFFICES ASSUME p \in S PROVE FALSE
    BY <1>5
  <1>7. parent[p] # <<>>
    BY <1>5, <1>6 DEF LinksLeadToStart
  <1>8. g[x] =< g[p]
    BY <1>3, <1>4, <1>6, <1>7
  <1>9. g[x] >= g[p] + heuristic(p, x) /\ p # x
    <2>1. parent[x] # <<>> /\ parent[x][1] = p
      BY <1>5
    <2> QED BY <2>1 DEF ParentsAreCheaper
  <1>10. heuristic(p, x) \in Nat /\ heuristic(p, x) > 0
    BY <1>9, DistinctNodes
  <1>11. g[x] \in Nat /\ g[p] \in Nat
    BY <1>1
  <1> QED BY <1>8, <1>9, <1>10, <1>11

(* So a bridge is taken in one direction only, away from the start.          *)
LEMMA BridgeForth ==
    ASSUME TypeOK, ParentsAreCheaper, LinksLeadToStart, call.pc = "search",
           NEW a \in Node, NEW b \in Node, NEW S \in SUBSET Node, IsBridge(nodeDict, a, b, S),
           call.src \in S, parent[b] # <<>>
    PROVE  parent[b] = <<a>>
  <1> DEFINE O == Node \ S
  <1>1. call.src \notin O /\ b \in O
    BY DEF IsBridge
  <1>2. \E x \in Node, p \in Node : x \in O /\ p \notin O /\ parent[x] = <<p>>
    <2> HIDE DEF O
    <2> QED BY <1>1, LinksCross
  <1>3. PICK x \in Node, p \in Node : x \in O /\ p \notin O /\ parent[x] = <<p>>
    BY <1>2
  <1>4. Contains(nodeDict[p], x)
    BY <1>3 DEF LinksLeadToStart, Connected
  <1>5. p = a /\ x = b
    BY <1>3, <1>4 DEF IsBridge, Node
  <1> QED BY <1>3, <1>5

LEMMA BridgeBack ==
    ASSUME TypeOK, ParentsAreCheaper, LinksLeadToStart, call.pc = "search",
           NEW a \in Node, NEW b \in Node, NEW S \in SUBSET Node, IsBridge(nodeDict, a, b, S),
           call.src \notin S, parent[a] # <<>>
    PROVE  parent[a] = <<b>>
  <1>1. a \in S
    BY DEF IsBridge
  <1>2. \E x \in Node, p \in Node : x \in S /\ p \notin S /\ parent[x] = <<p>>
    BY <1>1, LinksCross
  <1>3. PICK x \in Node, p \in Node : x \in S /\ p \notin S /\ parent[x] = <<p>>
    BY <1>2
  <1>4. Contains(nodeDict[p], x)
    BY <1>3 DEF LinksLeadToStart, Connected
  <1>5. p = b /\ x = a
    BY <1>3, <1>4 DEF IsBridge, Node
  <1> QED BY <1>3, <1>5

(* The other side of the only connection there is to a neighbor is reached   *)
(* from n, or n was reached from there.                                      *)
LEMMA NeighborIsNew ==
    ASSUME IInv, RouteInv, SearchIsExact, IsForest(nodeDict), NEW n \in Node, Pop(n),
           NEW m \in Better(n)
    PROVE  /\ m \in Node /\ m # n /\ m \notin visited /\ m # call.src
           /\ \E S \in SUBSET Node : IsBridge(nodeDict, n, m, S) /\ call.src \in S
  <1>1. /\ TypeOK /\ ParentsAreCheaper /\ LinksAreVisited /\ LinksLeadToStart
        /\ call.pc = "search" /\ FoundNodesAreLinked /\ CostsAddUp
    BY DEF IInv, RouteInv, SearchIsExact, Pop
  <1>2. m \in Node /\ Connected(n, m) /\ (m \notin visited \cup {n} \/ g[m] > Cost(n, m))
    BY DEF Better, Connected
  <1>3. m # n
    <2>1. nodeDict[n] \in Seq(Node \ {n})
      BY <1>1, MapsAssumption DEF TypeOK, Node
    <2> QED BY <1>2, <2>1 DEF Connected, Contains
  <1>4. g[n] \in Nat /\ g[m] \in Nat /\ heuristic(n, m) \in Nat /\ heuristic(m, n) \in Nat
    BY <1>1, <1>2, NodesHavePlaces DEF TypeOK
  <1>5. PICK S \in SUBSET Node : IsBridge(nodeDict, n, m, S)
    BY <1>2 DEF IsForest, Connected, Node
  <1>6. n = call.src \/ parent[n] # <<>>
    <2>1. frontier \in Seq(Node) /\ frontier # <<>> /\ frontier[1] = n
      BY <1>1 DEF Pop, Popped, LinksLeadToStart
    <2>2. Contains(frontier, n)
      BY <2>1 DEF Contains
    <2> QED BY <1>1, <2>2 DEF LinksLeadToStart
  <1>7. n \in S /\ m \notin S
    BY <1>5 DEF IsBridge
  <1>8. CASE call.src \in S
    <2>1. m \notin visited
      <3> SUFFICES ASSUME m \in visited PROVE FALSE
        OBVIOUS
      <3>1. parent[m] # <<>>
        BY <1>1, <1>7, <1>8 DEF FoundNodesAreLinked
      <3>2. parent[m] = <<n>>
        BY <1>1, <1>2, <1>5, <1>8, <3>1, BridgeForth
      <3>3. g[m] = g[n] + heuristic(n, m)
        BY <1>1, <1>2, <3>1, <3>2 DEF CostsAddUp
      <3> QED BY <1>2, <1>3, <1>4, <3>3 DEF Cost
    <2> QED BY <1>2, <1>3, <1>5, <1>7, <1>8, <2>1
  <1>9. CASE call.src \notin S
    <2>1. parent[n] # <<>>
      BY <1>6, <1>7, <1>9
    <2>2. parent[n] = <<m>>
      BY <1>1, <1>2, <1>5, <1>9, <2>1, BridgeBack
    <2>3. m \in visited
      BY <1>1, <2>1, <2>2 DEF LinksAreVisited
    <2>4. g[n] = g[m] + heuristic(m, n)
      BY <1>1, <2>1, <2>2 DEF CostsAddUp
    <2> QED BY <1>2, <1>3, <1>4, <2>3, <2>4 DEF Cost
  <1> QED BY <1>8, <1>9

(* And a bound for n is one for the nodes on the other side as well, with    *)
(* the cost of the bridge added.                                             *)
LEMMA LeastCrosses ==
    ASSUME TypeOK, NEW n \in Node, NEW m \in Node, NEW S \in SUBSET Node,
           IsBridge(nodeDict, n, m, S), NEW s \in S,
           NEW c \in Nat, Least(nodeDict, s, n, c)
    PROVE  Least(nodeDict, s, m, c + heuristic(n, m))
  <1>1. PICK phi \in [Node -> Nat] : phi[s] = 0 /\ c =< phi[n] /\ Rises(nodeDict, phi)
    BY DEF Least, Node
  <1> DEFINE new == [x \in Node |-> IF x \in S THEN phi[x] ELSE phi[n] + heuristic(n, m)]
  <1>2. heuristic(n, m) \in Nat
    BY NodesHavePlaces
  <1>3. new \in [Node -> Nat]
    BY <1>1, <1>2
  <1>4. n \in S /\ m \notin S
    BY DEF IsBridge
  <1>5. new[s] = 0 /\ new[m] = phi[n] + heuristic(n, m)
    BY <1>1, <1>4
  <1>6. c + heuristic(n, m) =< new[m]
    BY <1>1, <1>2, <1>5
  <1>7. ASSUME NEW a \in Node, NEW b \in Node, Contains(nodeDict[a], b)
        PROVE  new[b] =< new[a] + heuristic(a, b)
    <2>1. phi[a] \in Nat /\ phi[b] \in Nat /\ phi[n] \in Nat /\ heuristic(a, b) \in Nat
      BY <1>1, NodesHavePlaces
    <2>2. CASE a \in S /\ b \in S
      <3>1. phi[b] =< phi[a] + heuristic(a, b)
        BY <1>1, <1>7 DEF Rises, Node
      <3> QED BY <2>2, <3>1
    <2>3. CASE a \notin S /\ b \notin S
      BY <1>2, <2>1, <2>3
    <2>4. CASE a \in S /\ b \notin S
      <3>1. a = n /\ b = m
        BY <1>7, <2>4 DEF IsBridge, Node
      <3> QED BY <1>2, <1>4, <2>1, <3>1
    <2>5. CASE a \notin S /\ b \in S
      <3>1. b = n /\ a = m
        BY <1>7, <2>5 DEF IsBridge, Node
      <3>2. new[b] = phi[n] /\ new[a] = phi[n] + heuristic(n, m)
        BY <1>4, <3>1
      <3> HIDE DEF new
      <3> QED BY <1>2, <2>1, <3>2
    <2> QED BY <2>2, <2>3, <2>4, <2>5
  <1> HIDE DEF new
  <1>8. Rises(nodeDict, new)
    BY <1>7 DEF Rises, Node
  <1> QED BY <1>3, <1>5, <1>6, <1>8 DEF Least, Node


(* The path that was found costs what the node of the end stores.            *)
LEMMA CostIsLength ==
    ASSUME IInv, LinksLeadToStart, CostsAddUp, NEW n \in Node, Pop(n), ~Blocked(n), n = call.end
    PROVE  LengthOf(PathTo(n)) = g[n]
  <1> DEFINE path == PathTo(n)
             len == Len(path)
             v == [i \in 1..len |-> g[path[i]]]
             d == [i \in 1..(len - 1) |-> heuristic(path[i + 1], path[i])]
  <1>1. FollowsLinks(path, n) /\ TypeOK /\ ParentsAreCheaper
    BY PathFollowsLinks DEF IInv
  <1>2. First(path) = call.src /\ g[call.src] = 0
    BY FoundRoute DEF LinksLeadToStart, Pop
  <1> HIDE DEF path
  <1>3. path \in Seq(Node) /\ len \in Nat /\ len > 0 /\ path[1] = n
    <2>1. path \in Seq(Node) /\ len > 0 /\ path[1] = n
      BY <1>1 DEF FollowsLinks
    <2> QED BY <2>1
  <1>4. \A i \in 1..(len - 1) : parent[path[i]] = <<path[i + 1]>>
    BY <1>1, Zenon DEF FollowsLinks
  <1>5. ASSUME NEW i \in 1..(len - 1)
        PROVE  d[i] \in Nat /\ d[i] > 0 /\ v[i + 1] + d[i] = v[i] /\ v[i] \in Nat
    <2> DEFINE a == path[i]
               b == path[i + 1]
    <2>1. a \in Node /\ b \in Node /\ i \in 1..len /\ i + 1 \in 1..len
      BY <1>3
    <2>2. parent[a] = <<b>>
      BY <1>4
    <2>3. d[i] = heuristic(b, a) /\ v[i] = g[a] /\ v[i + 1] = g[b]
      BY <2>1
    <2> HIDE DEF a, b, d, v
    <2>4. parent[a] # <<>> /\ parent[a][1] = b
      BY <2>2
    <2>5. b # a /\ g[a] = g[b] + heuristic(b, a)
      BY <1>1, <2>1, <2>4 DEF ParentsAreCheaper, CostsAddUp
    <2>6. heuristic(b, a) \in Nat /\ heuristic(b, a) > 0
      BY <1>1, <2>1, <2>5, DistinctNodes
    <2>7. g[a] \in Nat
      BY <1>1, <2>1 DEF TypeOK
    <2> QED BY <2>3, <2>5, <2>6, <2>7
  <1>6. Descends(v, d, len)
    <2>1. \A i \in 1..len : g[path[i]] \in Nat
      BY <1>1, <1>3 DEF TypeOK
    <2>2. v \in [1..len -> Nat]
      BY <2>1
    <2>3. d \in [1..(len - 1) -> Nat]
      BY <1>5
    <2>4. \A i \in 1..(len - 1) : v[i + 1] + d[i] =< v[i]
      <3> HIDE DEF v, d
      <3> QED BY <1>5
    <2> HIDE DEF v, d, len
    <2> QED BY <1>3, <1>5, <2>2, <2>3, <2>4 DEF Descends
  <1>7. FallsBy(v, d, len)
    <2> HIDE DEF v, d, len
    <2> QED BY <1>5 DEF FallsBy
  <1>8. Total(d, 1..(len - 1)) \in Nat /\ Total(d, 1..(len - 1)) + v[len] = v[1]
    <2> HIDE DEF v, d, len
    <2> QED BY <1>6, <1>7, DescentAddsUp
  <1>9. LengthOf(path) = Total(d, 1..(len - 1))
    BY LengthIsTotal
  <1>10. v[len] = 0 /\ v[1] = g[n]
    BY <1>2, <1>3 DEF First
  <1>11. LengthOf(path) = g[n]
    <2> HIDE DEF d, v, len
    <2> QED BY <1>8, <1>9, <1>10
  <1> QED BY <1>11 DEF path

(* The cost of going nowhere.                                                *)
LEMMA StartIsLeast ==
    ASSUME TypeOK, NEW s \in Node
    PROVE  Least(nodeDict, s, s, 0)
  <1> DEFINE phi == [x \in Node |-> 0]
  <1>1. phi \in [Node -> Nat] /\ phi[s] = 0 /\ \A a \in Node : phi[a] = 0
    OBVIOUS
  <1>2. \A a \in Node, b \in Node : heuristic(a, b) \in Nat
    BY NodesHavePlaces
  <1> HIDE DEF phi
  <1>3. Rises(nodeDict, phi)
    BY <1>1, <1>2 DEF Rises, Node
  <1> QED BY <1>1, <1>3 DEF Least, Node

LEMMA LeastOfLess ==
    ASSUME NEW s, NEW n \in Node, NEW c \in Nat, NEW e \in Nat, e =< c, Least(nodeDict, s, n, c)
    PROVE  Least(nodeDict, s, n, e)
  <1>1. PICK phi \in [Node -> Nat] : phi[s] = 0 /\ c =< phi[n] /\ Rises(nodeDict, phi)
    BY DEF Least, Node
  <1>2. e =< phi[n]
    BY <1>1
  <1> QED BY <1>1, <1>2 DEF Least, Node

(* A search begins.                                                          *)
LEMMA StartIsExact ==
    ASSUME IInv, NEW s \in Node, NEW end, StartSearch(s, end), UNCHANGED nodeDict,
           call'.src = s
    PROVE  SearchIsExact'
  <1>1. Node' = Node
    BY DEF Node
  <1>2. g'[s] = 0 /\ \A n \in Node : parent'[n] = <<>>
    BY DEF IInv, VisitedCoversDirty, StartSearch
  <1>3. visited' = {} /\ frontier' = <<s>> /\ Known' = {s}
    BY DEF StartSearch, Known
  <1>4. FoundNodesAreLinked' /\ CostsAddUp'
    BY <1>1, <1>2, <1>3 DEF FoundNodesAreLinked, CostsAddUp
  <1>5. QueueIsFound'
    BY <1>3 DEF QueueIsFound, Contains
  <1>6. Least(nodeDict, s, s, 0)
    BY StartIsLeast DEF IInv
  <1>7. CostsAreLeast'
    BY <1>2, <1>3, <1>6 DEF CostsAreLeast
  <1> QED BY <1>4, <1>5, <1>7 DEF SearchIsExact

(* A node is given up.                                                       *)
LEMMA GiveUpIsExact ==
    ASSUME IInv, RouteInv, SearchIsExact, NEW n \in Node, GiveUp(n)
    PROVE  SearchIsExact'
  <1>1. /\ Pop(n) /\ visited' = visited \cup {n} /\ call.pc = "search"
        /\ UNCHANGED <<nodeDict, g, parent, call>> /\ frontier' = AfterPop(f, frontier)
        /\ frontier # <<>> /\ n = Popped(frontier)
    BY DEF GiveUp, Pop
  <1>2. /\ TypeOK /\ f \in [Node -> Nat] /\ frontier \in Seq(Node) /\ LinksLeadToStart
        /\ FoundNodesAreLinked /\ CostsAddUp /\ QueueIsFound /\ CostsAreLeast
    BY <1>1 DEF IInv, TypeOK, RouteInv, LinksLeadToStart, SearchIsExact
  <1>3. Contains(frontier, n) /\ \A m : Contains(frontier', m) => Contains(frontier, m)
    <2>1. frontier[1] = n
      BY <1>1 DEF Popped
    <2>2. \A m : Contains(AfterPop(f, frontier), m) => Contains(frontier, m)
      BY <1>1, <1>2, PopHolds
    <2> QED BY <1>1, <1>2, <2>1, <2>2 DEF Contains
  <1>4. n \in Known /\ (n = call.src \/ parent[n] # <<>>)
    BY <1>1, <1>2, <1>3 DEF QueueIsFound, LinksLeadToStart
  <1>5. Node' = Node /\ Known' = Known
    BY <1>1, <1>4 DEF Node, Known
  <1>6. FoundNodesAreLinked'
    BY <1>1, <1>2, <1>4 DEF FoundNodesAreLinked
  <1>7. CostsAddUp' /\ CostsAreLeast'
    BY <1>1, <1>2, <1>5 DEF CostsAddUp, CostsAreLeast
  <1>8. QueueIsFound'
    BY <1>2, <1>3, <1>5 DEF QueueIsFound
  <1> QED BY <1>6, <1>7, <1>8 DEF SearchIsExact

(* A node is expanded: its better neighbors are new, their links are exact   *)
(* and their costs least.                                                    *)
LEMMA ExpandIsExact ==
    ASSUME IInv, RouteInv, SearchIsExact, IsForest(nodeDict), NEW n \in Node, Expand(n)
    PROVE  SearchIsExact' /\ PushesNewNodes(n)
  <1>1. /\ Pop(n) /\ call.pc = "search" /\ visited' = visited \cup {n} \cup Better(n)
        /\ UNCHANGED <<nodeDict, call>> /\ frontier' = PushAll(n, call.end).heap
        /\ frontier # <<>> /\ n = Popped(frontier)
    BY DEF Expand, Pop
  <1>2. /\ TypeOK /\ frontier \in Seq(Node) /\ LinksLeadToStart /\ LinksAreVisited
        /\ FoundNodesAreLinked /\ CostsAddUp /\ QueueIsFound /\ CostsAreLeast
    BY <1>1 DEF IInv, RouteInv, LinksLeadToStart, SearchIsExact
  <1>3. /\ g \in [Node -> Nat] /\ f \in [Node -> Nat]
        /\ parent \in [Node -> {<<>>} \cup {<<k>> : k \in Node}]
    BY <1>2 DEF TypeOK
  <1>4. ASSUME NEW m \in Better(n)
        PROVE  /\ m \in Node /\ m # n /\ m \notin visited /\ m # call.src
               /\ \E S \in SUBSET Node : IsBridge(nodeDict, n, m, S) /\ call.src \in S
    BY <1>1, NeighborIsNew
  <1>5. \A m \in Node :
          /\ g'[m] = IF m \in Better(n) THEN Cost(n, m) ELSE g[m]
          /\ parent'[m] = IF m \in Better(n) THEN <<n>> ELSE parent[m]
    BY DEF Expand
  <1>6. \A m : Contains(frontier', m) => Contains(frontier, m) \/ m \in Better(n)
    BY <1>1, <1>2, ExpandQueues
  <1>7. Contains(frontier, n)
    <2>1. frontier[1] = n
      BY <1>1 DEF Popped
    <2> QED BY <1>1, <1>2, <2>1 DEF Contains
  <1>8. n \in Known /\ (n = call.src \/ parent[n] # <<>>)
    BY <1>1, <1>2, <1>7 DEF QueueIsFound, LinksLeadToStart
  <1>9. Node' = Node /\ Known' = Known \cup Better(n) /\ call'.src = call.src /\ Known \subseteq Node
    BY <1>1, <1>2, <1>8 DEF Node, Known, TypeOK, LinksLeadToStart
  <1>10. \A m \in Known : m \notin Better(n)
    BY <1>4 DEF Known
  <1>11. FoundNodesAreLinked'
    <2> SUFFICES ASSUME NEW m \in visited' PROVE m = call.src \/ parent'[m] # <<>>
      BY <1>9 DEF FoundNodesAreLinked
    <2>1. CASE m \in Better(n)
      BY <1>4, <1>5, <2>1
    <2>2. CASE m \notin Better(n)
      <3>1. m \in Node /\ (m = n \/ m \in visited)
        BY <1>1, <1>2, <2>2 DEF TypeOK
      <3> QED BY <1>2, <1>5, <1>8, <2>2, <3>1 DEF FoundNodesAreLinked
    <2> QED BY <2>1, <2>2
  <1>12. CostsAddUp'
    <2> SUFFICES ASSUME NEW m \in Node, parent'[m] # <<>>
                 PROVE  g'[m] = g'[parent'[m][1]] + heuristic(parent'[m][1], m)
      BY <1>9 DEF CostsAddUp
    <2>1. CASE m \in Better(n)
      <3>1. parent'[m] = <<n>> /\ g'[m] = g[n] + heuristic(n, m) /\ g'[n] = g[n]
        BY <1>5, <1>8, <1>10, <2>1 DEF Cost
      <3> QED BY <3>1
    <2>2. CASE m \notin Better(n)
      <3> DEFINE p == parent[m][1]
      <3>1. parent'[m] = parent[m] /\ g'[m] = g[m] /\ parent[m] # <<>>
        BY <1>5, <2>2
      <3>2. p \in Node /\ p \in visited
        BY <1>2, <1>3, <3>1 DEF LinksAreVisited
      <3>3. g'[p] = g[p]
        BY <1>5, <1>10, <3>2 DEF Known
      <3>4. g[m] = g[p] + heuristic(p, m)
        BY <1>2, <3>1 DEF CostsAddUp
      <3> QED BY <3>1, <3>3, <3>4
    <2> QED BY <2>1, <2>2
  <1>13. QueueIsFound'
    BY <1>2, <1>6, <1>9 DEF QueueIsFound
  <1>14. CostsAreLeast'
    <2> SUFFICES ASSUME NEW m \in Known' PROVE Least(nodeDict, call.src, m, g'[m])
      BY <1>1, <1>9 DEF CostsAreLeast
    <2>1. CASE m \in Better(n)
      <3>1. PICK S \in SUBSET Node : IsBridge(nodeDict, n, m, S) /\ call.src \in S
        BY <1>4, <2>1
      <3>2. Least(nodeDict, call.src, n, g[n]) /\ g[n] \in Nat /\ m \in Node
        BY <1>2, <1>3, <1>4, <1>8, <2>1 DEF CostsAreLeast
      <3>3. Least(nodeDict, call.src, m, g[n] + heuristic(n, m))
        BY <1>2, <3>1, <3>2, LeastCrosses
      <3> QED BY <1>5, <2>1, <3>2, <3>3 DEF Cost
    <2>2. CASE m \notin Better(n)
      <3>1. m \in Known /\ m \in Node
        BY <1>9, <2>2
      <3> QED BY <1>2, <1>5, <2>2, <3>1 DEF CostsAreLeast
    <2> QED BY <2>1, <2>2
  <1>15. PushesNewNodes(n)
    <2>1. \A m : Contains(AfterPop(f, frontier), m) => Contains(frontier, m)
      BY <1>1, <1>2, <1>3, PopHolds
    <2> QED BY <1>2, <1>4, <1>10, <2>1 DEF PushesNewNodes, QueueIsFound
  <1> QED BY <1>11, <1>12, <1>13, <1>14, <1>15 DEF SearchIsExact


(* A path that a search returns: a route of this cost, which is least.       *)
IsLeastRoute(path, cost) ==
    /\ path # <<NotFound>> /\ IsRoute(nodeDict, zoneNodes, path, call.end)
    /\ cost \in Nat /\ cost = LengthOf(path)
    /\ Least(nodeDict, call.src, call.end, cost)

(* findPath keeps the better one of two least paths.                         *)
LEMMA ReturnedIsExact ==
    ASSUME IInv, RouteInv, BestIsExact, call.pc = "search", UNCHANGED <<nodeDict, zoneNodes>>,
           NEW path, NEW cost, Returned(path, cost), path # <<>>,
           \/ /\ path = <<NotFound>>
              /\ CutOff(nodeDict, zoneNodes, call.src, call.end)
           \/ IsLeastRoute(path, cost)
    PROVE  BestIsExact' /\ AnswerIsExact'
  <1>1. CallShape /\ CallIsSound
    BY DEF IInv, TypeOK, RouteInv
  <1>2. CASE call.atNode
    <2>1. call' = Ended /\ answer' = Result(path, cost)
      BY <1>2 DEF Returned
    <2>2. /\ call'.start = call.start /\ call'.end = call.end /\ call'.best = <<>>
          /\ call'.atNode = call.atNode
      BY <2>1 DEF Ended, NoCall
    <2>3. answer'.path = path /\ answer'.distance = cost
      BY <1>2, <2>1 DEF Result
    <2>4. BestIsExact'
      BY <2>2 DEF BestIsExact
    <2>5. ASSUME HasRoute'
          PROVE  /\ (answer.distance = DistanceOf(answer.path))' /\ LengthOf(answer.path)' \in Nat
                 /\ NoneIsCheaper(Starts, call.end, LengthOf(answer.path))'
      <3>1. IsLeastRoute(path, cost)
        BY <2>3, <2>5 DEF HasRoute
      <3>2. DistanceOf(answer.path)' = LengthOf(path) + 0
        BY <1>2, <2>2, <2>3 DEF DistanceOf
      <3>3. answer'.distance = DistanceOf(answer.path)'
        BY <2>3, <3>1, <3>2 DEF IsLeastRoute
      <3>4. Starts' = {call.src}
        BY <1>1, <1>2, <2>2 DEF CallIsSound, Starts
      <3>5. LengthOf(answer.path)' = cost /\ cost \in Nat /\ Least(nodeDict, call.src, call.end, cost)
        BY <2>3, <3>1 DEF IsLeastRoute
      <3>6. NoneIsCheaper(Starts, call.end, LengthOf(answer.path))'
        BY <2>2, <3>4, <3>5 DEF NoneIsCheaper
      <3> QED BY <3>3, <3>5, <3>6
    <2> QED BY <2>4, <2>5 DEF AnswerIsExact
  <1>3. CASE ~call.atNode
    <2>1. /\ call'.pc = "choose" /\ call'.end = call.end
          /\ call'.todo = call.todo
          /\ \/ /\ call'.best = path /\ call'.cost = cost /\ path # <<NotFound>>
                /\ call.best = <<>> \/ call.cost > cost
             \/ /\ call'.best = call.best /\ call'.cost = call.cost
                /\ path = <<NotFound>> \/ (call.best # <<>> /\ ~(call.cost > cost))
      BY <1>1, <1>3 DEF Returned, CallShape
    <2>2. Tried' \subseteq Tried \cup {call.src}
      BY <2>1 DEF Tried
    <2>3. /\ call.best = <<>> => \A s \in Tried : CutOff(nodeDict, zoneNodes, s, call.end)
          /\ call.best # <<>> => /\ call.cost \in Nat /\ call.cost = LengthOf(call.best)
                                 /\ NoneIsCheaper(Tried, call.end, call.cost)
                                 /\ IsRoute(nodeDict, zoneNodes, call.best, call.end)
      BY <1>1, <1>3 DEF CallIsSound, BestIsExact
    <2>4. ASSUME NEW p, IsRoute(nodeDict, zoneNodes, p, call.end) PROVE call.end \in Node
      BY <2>4 DEF IsRoute, Node
    <2>5. CASE call'.best = path /\ call'.cost = cost /\ path # <<NotFound>>
      <3>1. IsLeastRoute(path, cost) /\ call.end \in Node /\ cost \in Nat
        BY <2>4, <2>5 DEF IsLeastRoute
      <3>2. ASSUME NEW s \in Tried'
            PROVE  CutOff(nodeDict, zoneNodes, s, call.end) \/ Least(nodeDict, s, call.end, cost)
        <4>1. CASE s = call.src
          BY <3>1, <4>1 DEF IsLeastRoute
        <4>2. CASE s # call.src /\ call.best = <<>>
          BY <2>2, <2>3, <4>2
        <4>3. CASE s # call.src /\ call.best # <<>> /\ ~CutOff(nodeDict, zoneNodes, s, call.end)
          <5>1. Least(nodeDict, s, call.end, call.cost) /\ call.cost \in Nat
            BY <2>2, <2>3, <4>3 DEF NoneIsCheaper
          <5>2. cost =< call.cost
            BY <2>1, <2>5, <3>1, <4>3, <5>1
          <5> QED BY <3>1, <5>1, <5>2, LeastOfLess
        <4> QED BY <4>1, <4>2, <4>3
      <3>3. NoneIsCheaper(Tried, call.end, call.cost)'
        BY <2>1, <2>5, <3>2 DEF NoneIsCheaper
      <3>4. LengthOf(call.best)' = LengthOf(path)
        BY <2>5
      <3> QED BY <2>1, <2>5, <3>1, <3>3, <3>4 DEF BestIsExact, IsLeastRoute, AnswerIsExact, Answered
    <2>6. CASE /\ call'.best = call.best /\ call'.cost = call.cost
               /\ path = <<NotFound>> \/ (call.best # <<>> /\ ~(call.cost > cost))
      <3>1. SUFFICES ASSUME call.best # <<>> PROVE BestIsExact'
        BY <2>1, <2>6 DEF BestIsExact, AnswerIsExact, Answered
      <3>2. call.end \in Node /\ call.cost \in Nat
        BY <2>3, <2>4, <3>1
      <3>3. ASSUME NEW s \in Tried'
            PROVE  \/ CutOff(nodeDict, zoneNodes, s, call.end)
                   \/ Least(nodeDict, s, call.end, call.cost)
        <4>1. CASE s = call.src /\ path # <<NotFound>>
          <5>1. IsLeastRoute(path, cost) /\ ~(call.cost > cost)
            BY <2>6, <4>1
          <5>2. cost \in Nat /\ call.cost =< cost /\ Least(nodeDict, s, call.end, cost)
            BY <3>2, <4>1, <5>1 DEF IsLeastRoute
          <5> QED BY <3>2, <5>2, LeastOfLess
        <4>2. CASE s = call.src /\ path = <<NotFound>>
          BY <4>2 DEF IsLeastRoute
        <4>3. CASE s # call.src
          BY <2>2, <2>3, <3>1, <4>3 DEF NoneIsCheaper
        <4> QED BY <4>1, <4>2, <4>3
      <3>4. NoneIsCheaper(Tried, call.end, call.cost)'
        BY <2>1, <2>6, <3>3 DEF NoneIsCheaper
      <3>5. LengthOf(call.best)' = LengthOf(call.best)
        BY <2>6
      <3> QED BY <2>3, <2>6, <3>1, <3>4, <3>5 DEF BestIsExact
    <2> QED BY <2>1, <2>5, <2>6
  <1> QED BY <1>2, <1>3

LEMMA FoundIsExact ==
    ASSUME IInv, RouteInv, SearchIsExact, BestIsExact, NEW n \in Node, Found(n)
    PROVE  BestIsExact' /\ AnswerIsExact'
  <1>1. /\ Pop(n) /\ ~Blocked(n) /\ n = call.end /\ call.pc = "search"
        /\ UNCHANGED <<nodeDict, zoneNodes>> /\ Returned(PathTo(n), g[n])
    BY DEF Found, Pop
  <1>2. /\ TypeOK /\ LinksLeadToStart /\ CostsAddUp /\ QueueIsFound /\ CostsAreLeast
        /\ frontier \in Seq(Node) /\ frontier # <<>> /\ frontier[1] = n
    BY <1>1 DEF IInv, RouteInv, LinksLeadToStart, SearchIsExact, Pop, Popped
  <1> DEFINE path == PathTo(n)
  <1>3. /\ IsRoute(nodeDict, zoneNodes, path, call.end)
        /\ path # <<>> /\ path # <<NotFound>>
    BY <1>1, <1>2, FoundRoute
  <1>4. LengthOf(path) = g[n] /\ g[n] \in Nat
    <2>1. LengthOf(path) = g[n]
      BY <1>1, <1>2, CostIsLength
    <2> QED BY <1>2, <2>1 DEF TypeOK
  <1>5. Least(nodeDict, call.src, call.end, g[n])
    <2>1. Contains(frontier, n)
      BY <1>2 DEF Contains
    <2> QED BY <1>1, <1>2, <2>1 DEF QueueIsFound, CostsAreLeast
  <1> HIDE DEF path
  <1>6. IsLeastRoute(path, g[n])
    BY <1>3, <1>4, <1>5 DEF IsLeastRoute
  <1>7. Returned(path, g[n])
    BY <1>1 DEF path
  <1>8. BestIsExact'
    BY <1>1, <1>3, <1>6, <1>7, ReturnedIsExact
  <1>9. AnswerIsExact'
    BY <1>1, <1>3, <1>6, <1>7, ReturnedIsExact
  <1> QED BY <1>8, <1>9

LEMMA ExhaustedIsExact ==
    ASSUME IInv, RouteInv, BestIsExact, Exhausted
    PROVE  BestIsExact' /\ AnswerIsExact'
  <1>1. /\ call.pc = "search" /\ UNCHANGED <<nodeDict, zoneNodes>>
        /\ Returned(<<NotFound>>, 0) /\ <<NotFound>> # <<>>
    BY DEF Exhausted, nodeVars
  <1>2. CutOff(nodeDict, zoneNodes, call.src, call.end)
    BY ExhaustedCutsOff
  <1>3. BestIsExact'
    BY <1>1, <1>2, ReturnedIsExact
  <1>4. AnswerIsExact'
    BY <1>1, <1>2, ReturnedIsExact
  <1> QED BY <1>3, <1>4

(* Every start has been tried: the best path is the answer.                  *)
LEMMA FindPathReturnsIsExact ==
    ASSUME IInv, RouteInv, BestIsExact, FindPathReturns
    PROVE  BestIsExact' /\ AnswerIsExact'
  <1>1. /\ call.pc = "choose" /\ call.todo = {} /\ call' = Ended
        /\ answer' = Result(call.best, call.cost) /\ UNCHANGED <<nodeDict, zoneNodes>>
    BY DEF FindPathReturns
  <1>2. /\ call'.start = call.start /\ call'.end = call.end /\ call'.best = <<>>
        /\ call'.atNode = call.atNode
    BY <1>1 DEF Ended, NoCall
  <1>3. BestIsExact'
    BY <1>2 DEF BestIsExact
  <1>4. ASSUME HasRoute'
        PROVE  /\ (answer.distance = DistanceOf(answer.path))' /\ LengthOf(answer.path)' \in Nat
               /\ NoneIsCheaper(Starts, call.end, LengthOf(answer.path))'
    <2> DEFINE path == call.best
    <2>1. path # <<>> /\ ~call.atNode
      BY <1>1, <1>4 DEF HasRoute, Result, NoAnswer, RouteInv, CallIsSound
    <2>2. /\ answer'.path = path
          /\ answer'.distance = call.cost + heuristic(call.start, First(path))
      BY <1>1, <2>1 DEF Result, First
    <2>3. call.cost = LengthOf(path) /\ call.cost \in Nat /\ NoneIsCheaper(Tried, call.end, LengthOf(path))
      BY <2>1 DEF BestIsExact
    <2>4. DistanceOf(answer.path)' = LengthOf(path) + heuristic(call.start, First(path))
      BY <1>2, <2>1, <2>2 DEF DistanceOf, First
    <2>5. Starts' = Tried
      BY <1>1, <1>2, <2>1 DEF Starts, Tried
    <2>6. LengthOf(answer.path)' = LengthOf(path)
      BY <2>2
    <2>7. NoneIsCheaper(Starts, call.end, LengthOf(answer.path))'
      BY <1>1, <1>2, <2>3, <2>5, <2>6 DEF NoneIsCheaper
    <2> QED BY <2>2, <2>3, <2>4, <2>6, <2>7
  <1> QED BY <1>3, <1>4 DEF AnswerIsExact


LEMMA InitForestInv == Init => ForestInv
  <1> SUFFICES ASSUME Init PROVE ForestInv
    OBVIOUS
  <1>1. call.pc = "idle" /\ call.start = NotFound /\ call.best = <<>> /\ frontier = <<>>
    BY DEF Init, NoCall
  <1>2. HeapOrdered(f, frontier)
    BY <1>1, ShortQueuesAreOrdered
  <1> QED BY <1>1, <1>2 DEF ForestInv, SearchIsExact, BestIsExact, AnswerIsExact, Answered

(* Neither the call nor the answer changes.                                  *)
LEMMA QuietIsExact ==
    ASSUME BestIsExact, AnswerIsExact, UNCHANGED <<nodeDict, zoneNodes, call, answer>>
    PROVE  BestIsExact' /\ AnswerIsExact'
  <1>1. /\ NoneIsCheaper(Tried, call.end, call.cost)' <=> NoneIsCheaper(Tried, call.end, call.cost)
        /\ NoneIsCheaper(Starts, call.end, LengthOf(answer.path))'
               <=> NoneIsCheaper(Starts, call.end, LengthOf(answer.path))
        /\ DistanceOf(answer.path)' = DistanceOf(answer.path)
    BY DEF NoneIsCheaper, Tried, Starts, DistanceOf, First
  <1>2. BestIsExact'
    BY <1>1 DEF BestIsExact
  <1>3. AnswerIsExact'
    BY <1>1 DEF AnswerIsExact, Answered, HasRoute
  <1> QED BY <1>2, <1>3

(* A call begins, and at a node a search with it.                            *)
LEMMA CallIsExact ==
    ASSUME IInv, NEW start \in Places, NEW end \in Goals,
           FindPathAtNode(start, end) \/ FindPathInZone(start, end)
    PROVE  SearchIsExact' /\ BestIsExact' /\ AnswerIsExact'
  <1>1. CASE FindPathAtNode(start, end)
    <2>1. /\ start \in Node /\ StartSearch(start, end) /\ UNCHANGED nodeDict
          /\ call'.pc = "search" /\ call'.src = start /\ call'.best = <<>>
      BY <1>1 DEF FindPathAtNode, NoCall
    <2>2. SearchIsExact'
      BY <2>1, StartIsExact
    <2> QED BY <2>1, <2>2 DEF BestIsExact, AnswerIsExact, Answered
  <1>2. CASE FindPathInZone(start, end)
    <2>1. call'.pc = "choose" /\ call'.best = <<>>
      BY <1>2 DEF FindPathInZone, NoCall
    <2> QED BY <2>1 DEF SearchIsExact, BestIsExact, AnswerIsExact, Answered
  <1> QED BY <1>1, <1>2

(* The next start is no longer to do, and not yet tried.                     *)
LEMMA NextStartIsExact ==
    ASSUME IInv, RouteInv, BestIsExact, NextStart
    PROVE  SearchIsExact' /\ BestIsExact' /\ AnswerIsExact'
  <1>1. PICK s \in call.todo : /\ call' = [call EXCEPT !.pc = "search", !.todo = @ \ {s}, !.src = s]
                               /\ StartSearch(s, call.end)
    BY DEF NextStart
  <1>2. CallShape /\ s \in Node
    BY DEF IInv, TypeOK
  <1>3. /\ call'.pc = "search" /\ call'.src = s /\ call'.todo = call.todo \ {s}
        /\ call'.end = call.end /\ call'.best = call.best /\ call'.cost = call.cost
    BY <1>1, <1>2 DEF CallShape
  <1>4. call.pc = "choose" /\ UNCHANGED <<nodeDict, zoneNodes>>
    BY DEF NextStart
  <1>5. SearchIsExact'
    BY <1>1, <1>2, <1>3, <1>4, StartIsExact
  <1>6. Tried' = Tried
    BY <1>3, <1>4 DEF Tried
  <1>7. NoneIsCheaper(Tried, call.end, call.cost)' <=> NoneIsCheaper(Tried, call.end, call.cost)
    BY <1>3, <1>4, <1>6 DEF NoneIsCheaper
  <1>8. BestIsExact'
    BY <1>3, <1>7 DEF BestIsExact
  <1>9. AnswerIsExact'
    BY <1>3 DEF AnswerIsExact, Answered
  <1> QED BY <1>5, <1>8, <1>9

LEMMA StepForestInv ==
    IInv /\ RouteInv /\ QueueIsOfTheSearch /\ ForestInv /\ [Next]_vars => ForestInv'
  <1> SUFFICES ASSUME IInv, RouteInv, QueueIsOfTheSearch, ForestInv, [Next]_vars,
                      IsForest(nodeDict)'
               PROVE  SearchIsExact' /\ HeapOrdered(f', frontier') /\ BestIsExact' /\ AnswerIsExact'
    BY DEF ForestInv, HeapOrdered
  <1>1. nodeDict' = nodeDict
    BY DEF Next, FindPath, Search, vars, createNodes, FindPathAtNode, FindPathInZone, NextStart,
           Expand, GiveUp, Found, Exhausted, FindPathReturns
  <1>2. IsForest(nodeDict)
    BY <1>1
  <1>3. SearchIsExact /\ HeapOrdered(f, frontier) /\ BestIsExact /\ AnswerIsExact
    BY <1>2 DEF ForestInv
  <1>4. HeapOrdered(f', frontier')
    <2>1. OnlyDropsDisorder
      BY StepOrders DEF IInv
    <2>2. \A n \in Node : Expand(n) => PushesNewNodes(n)
      BY <1>2, <1>3, ExpandIsExact
    <2> QED BY <1>3, <2>1, <2>2 DEF OnlyDropsDisorder, HeapOrdered
  <1>5. CASE UNCHANGED vars
    <2>1. SearchIsExact'
      BY <1>3, <1>5 DEF vars, SearchIsExact, FoundNodesAreLinked, CostsAddUp, QueueIsFound,
                        CostsAreLeast, Known, Node
    <2> QED BY <1>3, <1>4, <1>5, <2>1, QuietIsExact DEF vars
  <1>6. CASE createNodes
    <2>1. UNCHANGED <<nodeDict, zoneNodes, call, answer>> /\ SearchIsExact'
      BY <1>6 DEF createNodes, SearchIsExact
    <2> QED BY <1>3, <1>4, <2>1, QuietIsExact
  <1>7. CASE FindPath
    BY <1>4, <1>7, CallIsExact DEF FindPath
  <1>8. CASE NextStart
    BY <1>3, <1>4, <1>8, NextStartIsExact
  <1>9. ASSUME NEW n \in Node, Expand(n) \/ GiveUp(n) PROVE SearchIsExact' /\ BestIsExact' /\ AnswerIsExact'
    <2>1. SearchIsExact'
      BY <1>2, <1>3, <1>9, ExpandIsExact, GiveUpIsExact
    <2>2. UNCHANGED <<nodeDict, zoneNodes, call, answer>>
      BY <1>9 DEF Expand, GiveUp
    <2> QED BY <1>3, <2>1, <2>2, QuietIsExact
  <1>10. CASE Exhausted \/ FindPathReturns \/ \E n \in Node : Found(n)
    <2>1. BestIsExact'
      BY <1>3, <1>10, ExhaustedIsExact, FindPathReturnsIsExact, FoundIsExact
    <2>2. AnswerIsExact'
      BY <1>3, <1>10, ExhaustedIsExact, FindPathReturnsIsExact, FoundIsExact
    <2>3. call'.pc # "search"
      <3>1. \E path, cost : Returned(path, cost) \/ call' = Ended
        BY <1>10 DEF Exhausted, FindPathReturns, Found
      <3>2. Ended.pc = "idle"
        BY DEF Ended, NoCall
      <3> QED BY <3>1, <3>2, ReturnedEnds DEF IInv
    <2> QED BY <1>4, <2>1, <2>2, <2>3 DEF SearchIsExact
  <1> QED BY <1>4, <1>5, <1>6, <1>7, <1>8, <1>9, <1>10 DEF Next, Search

(* What the invariant says of the answers.                                   *)
LEMMA ExactAnswers ==
    ASSUME TypeOK, AnswerIsSound, AnswerIsExact
    PROVE  PathIsOptimal /\ DistanceIsThatOfThePath
  <1>1. DistanceIsThatOfThePath
    BY DEF AnswerIsExact, DistanceIsThatOfThePath
  <1>2. PathIsOptimal
    <2> DEFINE len == LengthOf(answer.path)
               end == call.end
    <2> SUFFICES ASSUME Answered, HasRoute, NEW s \in Starts,
                        NEW T, T = Node \ (zoneNodes \ {s}), end \in DOMAIN Cheapest(s, T)
                 PROVE  len =< Cheapest(s, T)[end]
      BY DEF PathIsOptimal, Starts
    <2>1. len \in Nat /\ (CutOff(nodeDict, zoneNodes, s, end) \/ Least(nodeDict, s, end, len))
      BY DEF AnswerIsExact, NoneIsCheaper
    <2>2. s \in Node /\ T \in SUBSET Node /\ T = Open(nodeDict, zoneNodes, s)
      BY DEF AnswerIsSound, Open, Node
    <2> HIDE DEF len, end
    <2>3. CASE CutOff(nodeDict, zoneNodes, s, end)
      <3>1. PICK S \in SUBSET Node :
               /\ s \in S /\ end \notin S
               /\ \A m \in S, n \in T : Contains(nodeDict[m], n) => n \in S
        BY <2>2, <2>3 DEF CutOff, Node
      <3> DEFINE phi == [x \in Node |-> 0]
      <3>2. phi \in [Node -> Nat] /\ \A a \in Node : phi[a] = 0
        OBVIOUS
      <3>3. \A a \in Node, b \in Node : heuristic(a, b) \in Nat
        BY NodesHavePlaces
      <3> HIDE DEF phi
      <3>4. Potentials(phi, S, s, T)
        BY <2>2, <3>1, <3>2, <3>3 DEF Potentials, Connected
      <3>5. Cheapest(s, T) \in BoundedWalks(phi, S)
        BY <2>2, <3>4, CheapestIsBounded
      <3>6. DOMAIN Cheapest(s, T) \subseteq S
        BY <3>5 DEF BoundedWalks
      <3> QED BY <3>1, <3>6
    <2>4. CASE Least(nodeDict, s, end, len)
      <3>1. PICK phi \in [Node -> Nat] : phi[s] = 0 /\ len =< phi[end] /\ Rises(nodeDict, phi)
        BY <2>4 DEF Least, Node
      <3>2. Potentials(phi, Node, s, T)
        BY <2>2, <3>1 DEF Potentials, Rises, Connected, Node
      <3>3. Cheapest(s, T) \in BoundedWalks(phi, Node)
        BY <2>2, <3>2, CheapestIsBounded
      <3>4. /\ end \in Node /\ phi[end] =< Cheapest(s, T)[end] /\ Cheapest(s, T)[end] \in Nat
        BY <3>3 DEF BoundedWalks
      <3>5. phi[end] \in Nat
        BY <3>1, <3>4
      <3> QED BY <2>1, <3>1, <3>4, <3>5
    <2> QED BY <2>1, <2>3, <2>4
  <1> QED BY <1>1, <1>2

LEMMA ForestHolds == Spec => [](IInv /\ RouteInv /\ QueueIsOfTheSearch /\ ForestInv)
  BY QueueHolds, InitForestInv, StepForestInv, PTL DEF Spec

(* The estimate of aStar (PathFinding.swift) is not admissible, and the heap *)
(* is not told of costs that drop. On a map without cycles neither matters:  *)
(* every path that findPath returns is the cheapest that the search may      *)
(* take, whatever the searches before it were and in whatever order it tried *)
(* the nodes of a zone.                                                      *)
THEOREM RoutesAreOptimalOnForests == Spec => [](IsForest(nodeDict) => PathIsOptimal)
  <1>1. IInv /\ RouteInv /\ ForestInv => (IsForest(nodeDict) => PathIsOptimal)
    BY ExactAnswers DEF IInv, RouteInv, ForestInv
  <1> QED BY <1>1, ForestHolds, PTL

(* And the distance that findPath reports is that of the path it returns: no *)
(* node is improved after another was linked to it.                          *)
THEOREM DistancesAreExactOnForests == Spec => [](IsForest(nodeDict) => DistanceIsThatOfThePath)
  <1>1. IInv /\ RouteInv /\ ForestInv => (IsForest(nodeDict) => DistanceIsThatOfThePath)
    BY ExactAnswers DEF IInv, RouteInv, ForestInv
  <1> QED BY <1>1, ForestHolds, PTL

(* And the node that aStar pops has the least f of the frontier: no neighbor *)
(* that is pushed is queued already.                                         *)
THEOREM LeastNodesArePoppedOnForests == Spec => [](IsForest(nodeDict) => PopsTheLeast)
  <1>1. IInv /\ RouteInv /\ ForestInv => (IsForest(nodeDict) => PopsTheLeast)
    BY OrderedPopsLeast DEF IInv, ForestInv
  <1> QED BY <1>1, ForestHolds, PTL


-----------------------------------------------------------------------------
(* The zones of a building                                                   *)

(* A place on no border lies within every zone that contains it.             *)
LEMMA OffBordersWithin ==
    ASSUME NEW p \in Coordinates, ~OnABorder(p), NEW z \in Containing(p)
    PROVE  p[1] \in Columns(z) /\ p[2] \in Rows(z)
  <1>1. p[1] \in Int /\ p[2] \in Int
    BY DEF Coordinates
  <1>2. z \in Zone /\ extents[z] \in [x : Int, y : Int, width : Int, height : Int]
    BY ZonesAssumption DEF Containing
  <1>3. z \in Containing(<<p[1] + (-1), p[2] + (-1)>>) /\ z \in Containing(<<p[1] + 1, p[2] + 1>>)
    <2>1. -1 \in {-1, 0, 1} /\ 1 \in {-1, 0, 1}
      OBVIOUS
    <2> QED BY <2>1 DEF OnABorder
  <1>4. Inside(<<p[1] + (-1), p[2] + (-1)>>, z) /\ Inside(<<p[1] + 1, p[2] + 1>>, z)
    BY <1>3 DEF Containing
  <1> DEFINE e == extents[z]
  <1>5. e.x \in Int /\ e.y \in Int /\ e.width \in Int /\ e.height \in Int
    BY <1>2
  <1>6. /\ p[1] + (-1) \in e.x..(e.x + e.width) /\ p[1] + 1 \in e.x..(e.x + e.width)
        /\ p[2] + (-1) \in e.y..(e.y + e.height) /\ p[2] + 1 \in e.y..(e.y + e.height)
    BY <1>4 DEF Inside
  <1> HIDE DEF e
  <1>7. p[1] \in (e.x + 1)..(e.x + e.width - 1) /\ p[2] \in (e.y + 1)..(e.y + e.height - 1)
    BY <1>1, <1>5, <1>6
  <1> QED BY <1>7 DEF Columns, Rows, e

(* So findZone, whichever of them it comes to first, finds all of them.      *)
LEMMA FoundOffBorders ==
    ASSUME OverlapsAreListed, NEW p \in Coordinates, ~OnABorder(p)
    PROVE  findZone(p) = {NodesAround(p)}
  <1>1. ASSUME NEW z \in Containing(p) PROVE FoundFrom(p, z) = NodesAround(p)
    <2>1. z \in Zone /\ Inside(p, z) /\ overlap[z] \subseteq Zone
      BY ZonesAssumption DEF Containing
    <2>2. ASSUME NEW o \in Containing(p), o # z PROVE o \in overlap[z]
      <3>1. /\ p[1] \in Columns(z) /\ p[2] \in Rows(z)
            /\ p[1] \in Columns(o) /\ p[2] \in Rows(o)
        BY OffBordersWithin
      <3>2. o \in Zone
        BY DEF Containing
      <3> QED BY <2>1, <2>2, <3>1, <3>2 DEF OverlapsAreListed
    <2>3. {z} \cup {o \in overlap[z] : Inside(p, o)} = Containing(p)
      BY <2>1, <2>2 DEF Containing
    <2> QED BY <2>3 DEF FoundFrom, NodesAround
  <1>2. CASE Containing(p) = {}
    BY <1>2 DEF findZone, NodesAround, Containing
  <1>3. CASE Containing(p) # {}
    <2>1. findZone(p) = {FoundFrom(p, z) : z \in Containing(p)}
      BY <1>3 DEF findZone, Containing
    <2> QED BY <1>1, <1>3, <2>1
  <1> QED BY <1>2, <1>3

(* Where every zone has a node, a place in a zone has one.                   *)
LEMMA ZoneHasANode ==
    ASSUME ZonesHaveNodes, NEW p, Containing(p) # {}, NEW found \in findZone(p)
    PROVE  found # {}
  <1>1. PICK z \in Containing(p) : found = FoundFrom(p, z)
    BY DEF findZone, Containing
  <1>2. nodes[z] # {} /\ nodes[z] \subseteq FoundFrom(p, z)
    BY DEF ZonesHaveNodes, Containing, FoundFrom
  <1> QED BY <1>1, <1>2

(* The call, and the answer, of a user somewhere: the zone is that of the    *)
(* place.                                                                    *)
CallOfAUser ==
    call.start # NotFound =>
        /\ call.start \in Places /\ call.end \in Goals
        /\ ~call.atNode => zoneNodes \in FindZone(call.start)

LEMMA CallStep == CallOfAUser /\ TypeOK /\ [Next]_vars => CallOfAUser'
  <1> SUFFICES ASSUME CallOfAUser, TypeOK, [Next]_vars PROVE CallOfAUser'
    OBVIOUS
  <1>1. CallShape
    BY DEF TypeOK
  <1>2. ASSUME NEW start \in Places, NEW end \in Goals, FindPathAtNode(start, end)
        PROVE  CallOfAUser'
    <2>1. call'.start = start /\ call'.end = end /\ call'.atNode
      BY <1>2 DEF FindPathAtNode, NoCall
    <2> QED BY <2>1 DEF CallOfAUser
  <1>3. ASSUME NEW start \in Places, NEW end \in Goals, FindPathInZone(start, end)
        PROVE  CallOfAUser'
    <2>1. call'.start = start /\ call'.end = end /\ zoneNodes' \in FindZone(start)
      BY <1>3 DEF FindPathInZone, NoCall
    <2> QED BY <2>1 DEF CallOfAUser
  <1>4. ASSUME call'.start = call.start, call'.end = call.end, call'.atNode = call.atNode,
               zoneNodes' = zoneNodes
        PROVE  CallOfAUser'
    BY <1>4 DEF CallOfAUser
  <1>5. CASE UNCHANGED vars \/ createNodes
    BY <1>4, <1>5 DEF vars, createNodes
  <1>6. CASE NextStart
    BY <1>1, <1>4, <1>6 DEF NextStart, CallShape
  <1>7. ASSUME NEW path, NEW cost, Returned(path, cost)
        PROVE  call'.start = call.start /\ call'.end = call.end /\ call'.atNode = call.atNode
    <2>1. CASE call.atNode
      BY <1>7, <2>1 DEF Returned, Ended, NoCall
    <2>2. CASE ~call.atNode
      BY <1>1, <1>7, <2>2 DEF Returned, CallShape
    <2> QED BY <2>1, <2>2
  <1>8. CASE Exhausted
    BY <1>4, <1>7, <1>8 DEF Exhausted
  <1>9. CASE FindPathReturns
    BY <1>4, <1>9 DEF FindPathReturns, Ended, NoCall
  <1>10. ASSUME NEW n \in Node, Found(n) PROVE CallOfAUser'
    BY <1>4, <1>7, <1>10 DEF Found
  <1>11. ASSUME NEW n \in Node, Expand(n) \/ GiveUp(n) PROVE CallOfAUser'
    BY <1>4, <1>11 DEF Expand, GiveUp
  <1> QED BY <1>2, <1>3, <1>5, <1>6, <1>8, <1>9, <1>10, <1>11 DEF Next, FindPath, Search

LEMMA CallHolds == Spec => [](IInv /\ RouteInv /\ CostInv /\ CallOfAUser)
  <1>1. Init => CallOfAUser
    BY DEF Init, CallOfAUser, NoCall
  <1>2. IInv => TypeOK
    BY DEF IInv
  <1> QED BY <1>1, <1>2, InvariantHolds, InitIInv, StepIInv, CallStep, PTL DEF Spec

(* Were a goal not reached from s, the node reached from s with the fewest   *)
(* steps to the goal would have a neighbor with fewer.                       *)
LEMMA GoalIsReached ==
    ASSUME TypeOK, GoalsAreReached(nodeDict), NEW end \in Goals, NEW s \in Node
    PROVE  end \in Reachable(s, Node)
  <1> DEFINE R == Reachable(s, Node)
  <1>1. PICK steps \in [Node -> Nat] : LeadsTo(nodeDict, end, steps)
    BY DEF GoalsAreReached, Node
  <1>2. s \in R /\ R \in SUBSET Node /\ Closed(R, Node)
    <2>1. Node \in SUBSET Node
      OBVIOUS
    <2> QED BY <2>1, ReachableIsLeast
  <1> HIDE DEF R
  <1> DEFINE Steps == {steps[n] : n \in R}
  <1>3. Steps \in SUBSET Nat /\ Steps # {}
    BY <1>2
  <1>4. PICK c \in Steps : \A y \in Steps : c =< y
    <2> HIDE DEF Steps
    <2> QED BY <1>3, NatMin
  <1>5. PICK n \in R : c = steps[n]
    OBVIOUS
  <1>6. SUFFICES ASSUME end \notin R PROVE FALSE
    BY DEF R
  <1>7. PICK k \in Node : Contains(nodeDict[n], k) /\ steps[k] < steps[n]
    BY <1>1, <1>2, <1>5, <1>6 DEF LeadsTo, Node
  <1>8. k \in R
    BY <1>2, <1>5, <1>7 DEF Closed, Connected
  <1>9. steps[n] =< steps[k] /\ steps[n] \in Nat /\ steps[k] \in Nat
    BY <1>2, <1>4, <1>5, <1>7, <1>8
  <1> QED BY <1>7, <1>9

(* If zones that share more than a border list each other, then findZone     *)
(* (Zone.swift) finds every zone around a user who is on no border, although *)
(* it follows the list of only one of them, and which one is not determined. *)
THEOREM EveryZoneIsFoundOffBorders ==
    Spec => [](OverlapsAreListed => FindsEveryZoneOffBorders)
  <1>1. IInv /\ RouteInv /\ CostInv /\ CallOfAUser => (OverlapsAreListed => FindsEveryZoneOffBorders)
    <2> SUFFICES ASSUME CallOfAUser, OverlapsAreListed, InZone, ~OnABorder(call.start)
                 PROVE  zoneNodes = NodesAround(call.start)
      BY DEF FindsEveryZoneOffBorders
    <2>1. call.start \in Places /\ zoneNodes \in FindZone(call.start)
      BY DEF InZone, Answered, CallOfAUser
    <2>2. call.start \in Coordinates
      BY <2>1, PlacesAssumption
    <2>3. zoneNodes \in findZone(call.start)
      BY <2>1, FindZoneAssumption
    <2> QED BY <2>2, <2>3, FoundOffBorders
  <1> QED BY <1>1, CallHolds, PTL

(* findPath has an answer for every place in a zone and every destination,   *)
(* in every building whose zones all have nodes and in which every node      *)
(* leads on towards every destination: neither the order of the dictionary,  *)
(* nor the nodes at which the searches give up, nor those before can hide    *)
(* it.                                                                       *)
THEOREM EveryPlaceIsAnswered ==
    Spec => [](ZonesHaveNodes /\ GoalsAreReached(nodeDict) => EveryPlaceHasARoute)
  <1>1. IInv /\ RouteInv /\ CostInv /\ CallOfAUser =>
            (ZonesHaveNodes /\ GoalsAreReached(nodeDict) => EveryPlaceHasARoute)
    <2> SUFFICES ASSUME IInv, RouteInv, CostInv, CallOfAUser, ZonesHaveNodes,
                        GoalsAreReached(nodeDict), InZone, Containing(call.start) # {}
                 PROVE  HasRoute
      BY DEF EveryPlaceHasARoute
    <2>1. TypeOK /\ ZoneRouteIsFound /\ Answered /\ ~call.atNode
      BY SoundAnswers DEF IInv, RouteInv, InZone
    <2>2. call.start \in Places /\ call.end \in Goals /\ zoneNodes \in findZone(call.start)
      BY <2>1, FindZoneAssumption DEF Answered, CallOfAUser
    <2>3. zoneNodes # {}
      BY <2>2, ZoneHasANode
    <2>4. PICK s \in zoneNodes : s \in Node
      <3>1. zoneNodes \subseteq Node
        BY <2>1 DEF RouteInv, AnswerIsSound, Starts
      <3> QED BY <2>3, <3>1
    <2>5. call.end \in Reachable(s, Node)
      BY <2>1, <2>2, <2>4, GoalIsReached
    <2> QED BY <2>1, <2>4, <2>5 DEF ZoneRouteIsFound
  <1> QED BY <1>1, CallHolds, PTL
=============================================================================
