------------------------ MODULE PriorityQueue_proofs ------------------------
(* What the operations of the heap do, for every array and every order of    *)
(* the elements. They are loops: recursive functions, whose defining         *)
(* equation is proved first, and then whatever an invariant of the loop      *)
(* says. The library states induction and recursion for operators, which     *)
(* the provers cannot instantiate; here they are about sets and functions,   *)
(* from the theorem that the order of the natural numbers is well founded.   *)
EXTENDS PriorityQueue, TLAPS, WellFoundedInduction, FiniteSetTheorems

-----------------------------------------------------------------------------
(* A set of numbers has a least one.                                         *)
LEMMA NatMin ==
  ASSUME NEW T \in SUBSET Nat, T # {}
  PROVE  \E x \in T : \A y \in T : x =< y
  <1>1. IsWellFoundedOn(OpToRel(<, Nat), Nat)
    BY NatLessThanWellFounded
  <1>2. \E x \in T : \A y \in T : ~(<<y, x>> \in OpToRel(<, Nat))
    BY <1>1, WFMin
  <1>3. PICK x \in T : \A y \in T : ~(<<y, x>> \in OpToRel(<, Nat)) BY <1>2
  <1>4. ASSUME NEW y \in T PROVE x =< y
    <2>1. <<y, x>> \notin OpToRel(<, Nat) BY <1>3
    <2>2. y \in Nat /\ x \in Nat OBVIOUS
    <2>3. ~ (y < x) BY <2>1, <2>2 DEF OpToRel
    <2> QED BY <2>2, <2>3
  <1> QED BY <1>4

(* Induction, on a set of numbers.                                           *)
LEMMA SetInduction ==
  ASSUME NEW S \in SUBSET Nat, 0 \in S, \A n \in S : n + 1 \in S
  PROVE  S = Nat
  <1>1. SUFFICES ASSUME Nat \ S # {} PROVE FALSE OBVIOUS
  <1>2. PICK x \in Nat \ S : \A y \in Nat \ S : x =< y BY <1>1, NatMin
  <1>3. x # 0 OBVIOUS
  <1>4. x - 1 \in Nat /\ x - 1 < x BY <1>3
  <1>5. x - 1 \in S BY <1>2, <1>4
  <1>6. x \in S BY <1>5, <1>4
  <1> QED BY <1>6

(* A recursion goes from x to next[x] until it stops, and mu falls on the    *)
(* way.                                                                      *)
Falls(D, Stop, next, mu) ==
      /\ Stop \in SUBSET D /\ next \in [D -> D] /\ mu \in [D -> Nat]
      /\ \A x \in D \ Stop : mu[next[x]] < mu[x]

(* The recursive definition of f.                                            *)
Solves(f, D, Stop, base, step, next) ==
      \A x \in D : f[x] = IF x \in Stop THEN base[x] ELSE step[<<x, f[next[x]]>>]

(* A recursion of which mu falls has a solution: by induction on n there is  *)
(* one for the x with mu[x] < n, and any two of these agree.                 *)
LEMMA RecursionExists ==
  ASSUME NEW D, NEW R, NEW Stop, NEW base \in [D -> R],
           NEW step \in [D \X R -> R], NEW next, NEW mu, Falls(D, Stop, next, mu)
  PROVE  \E f \in [D -> R] : Solves(f, D, Stop, base, step, next)
  <1> USE DEF Falls
  <1> DEFINE Below(n) == {x \in D : mu[x] < n}
             Right(f, n) == \A x \in Below(n) :
                              f[x] = IF x \in Stop THEN base[x] ELSE step[<<x, f[next[x]]>>]
             S == {n \in Nat : \E f \in [D -> R] : Right(f, n)}
  <1>1. 0 \in S
    <2>1. Below(0) = {} OBVIOUS
    <2>2. Right(base, 0) BY <2>1
    <2> QED BY <2>2
  <1>2. ASSUME NEW n \in S PROVE n + 1 \in S
    <2>1. PICK f \in [D -> R] : Right(f, n) OBVIOUS
    <2> DEFINE e == [x \in D |-> IF x \in Stop THEN base[x] ELSE step[<<x, f[next[x]]>>]]
    <2>2. e \in [D -> R] OBVIOUS
    <2>3. ASSUME NEW y \in Below(n) PROVE e[y] = f[y]
      BY <2>1, <2>3
    <2>4. ASSUME NEW x \in Below(n + 1) PROVE e[x] = IF x \in Stop THEN base[x] ELSE step[<<x, e[next[x]]>>]
      <3>1. CASE x \in Stop BY <3>1
      <3>2. CASE x \notin Stop
        <4>1. mu[next[x]] < mu[x] /\ mu[x] < n + 1 /\ mu[next[x]] \in Nat /\ mu[x] \in Nat BY <2>4, <3>2
        <4>2. next[x] \in Below(n) BY <4>1
        <4>3. e[next[x]] = f[next[x]] BY <4>2, <2>3
        <4> QED BY <4>3, <3>2
      <3> QED BY <3>1, <3>2
    <2>5. Right(e, n + 1) BY <2>4
    <2>6. n + 1 \in Nat OBVIOUS
    <2> HIDE DEF e, Right
    <2> QED BY <2>2, <2>5, <2>6
  <1>3. S = Nat
    <2> HIDE DEF S
    <2>1. S \in SUBSET Nat BY DEF S
    <2> QED BY <1>1, <1>2, <2>1, SetInduction
  <1> DEFINE app == [n \in Nat |-> CHOOSE f \in [D -> R] : Right(f, n)]
  <1>4. ASSUME NEW n \in Nat PROVE app[n] \in [D -> R] /\ Right(app[n], n)
    <2>1. \E f \in [D -> R] : Right(f, n) BY <1>3
    <2> QED BY <2>1
  <1>5. ASSUME NEW f \in [D -> R], NEW e \in [D -> R], NEW n \in Nat, Right(f, n), Right(e, n),
               NEW x \in Below(n)
        PROVE  f[x] = e[x]
    <2>1. SUFFICES ASSUME f[x] # e[x] PROVE FALSE OBVIOUS
    <2> DEFINE Bad == {y \in Below(n) : f[y] # e[y]}
               Sizes == {mu[y] : y \in Bad}
    <2>2. Sizes \in SUBSET Nat /\ Sizes # {} BY <2>1
    <2>3. PICK m \in Sizes : \A k \in Sizes : m =< k
      <3> HIDE DEF Sizes
      <3> QED BY <2>2, NatMin
    <2>4. PICK y \in Bad : m = mu[y] OBVIOUS
    <2>5. y \notin Stop BY <1>5
    <2>6. mu[next[y]] < mu[y] /\ next[y] \in D /\ mu[y] \in Nat /\ mu[next[y]] \in Nat BY <2>5
    <2>7. next[y] \in Below(n) BY <2>6
    <2>8. next[y] \notin Bad
      <3>1. SUFFICES ASSUME next[y] \in Bad PROVE FALSE OBVIOUS
      <3>2. mu[next[y]] \in Sizes BY <3>1
      <3>3. m =< mu[next[y]] BY <3>2, <2>3
      <3> QED BY <3>3, <2>4, <2>6
    <2>9. f[next[y]] = e[next[y]] BY <2>7, <2>8
    <2> QED BY <2>9, <2>5, <1>5
  <1> DEFINE F == [x \in D |-> app[mu[x] + 1][x]]
  <1>6. ASSUME NEW x \in D, NEW n \in Nat, mu[x] < n PROVE F[x] = app[n][x]
    <2>1. mu[x] \in Nat /\ mu[x] + 1 \in Nat /\ mu[x] + 1 =< n BY <1>6
    <2>2. Right(app[n], mu[x] + 1)
      <3>1. Below(mu[x] + 1) \subseteq Below(n) BY <2>1
      <3>2. Right(app[n], n) BY <1>4
      <3> HIDE DEF app
      <3> QED BY <3>1, <3>2
    <2>3. x \in Below(mu[x] + 1) BY <2>1
    <2>4. app[mu[x] + 1] \in [D -> R] /\ Right(app[mu[x] + 1], mu[x] + 1) /\ app[n] \in [D -> R] BY <1>4, <2>1
    <2>5. app[n][x] = app[mu[x] + 1][x]
      <3> HIDE DEF app, Right, Below
      <3> QED BY <2>1, <2>2, <2>3, <2>4, <1>5
    <2> QED BY <2>5
  <1>7. F \in [D -> R]
    <2>1. ASSUME NEW x \in D PROVE app[mu[x] + 1][x] \in R
      <3> HIDE DEF app
      <3> QED BY <1>4
    <2> HIDE DEF app
    <2> QED BY <2>1
  <1>8. ASSUME NEW x \in D PROVE F[x] = IF x \in Stop THEN base[x] ELSE step[<<x, F[next[x]]>>]
    <2> DEFINE n == mu[x] + 1
    <2>1. n \in Nat /\ mu[x] < n /\ mu[x] \in Nat OBVIOUS
    <2>2. F[x] = app[n][x] BY <1>6, <2>1
    <2>3. app[n][x] = IF x \in Stop THEN base[x] ELSE step[<<x, app[n][next[x]]>>]
      <3>1. Right(app[n], n) /\ x \in Below(n) BY <1>4, <2>1
      <3> HIDE DEF app
      <3> QED BY <3>1
    <2>4. CASE x \in Stop BY <2>2, <2>3, <2>4
    <2>5. CASE x \notin Stop
      <3>1. mu[next[x]] < n /\ next[x] \in D BY <2>1, <2>5
      <3>2. F[next[x]] = app[n][next[x]] BY <3>1, <2>1, <1>6
      <3> HIDE DEF F, app
      <3> QED BY <2>2, <2>3, <2>5, <3>2
    <2> QED BY <2>4, <2>5
  <1> HIDE DEF F
  <1> QED BY <1>7, <1>8 DEF Solves

(* f does what a loop does: it has the value of f after one more round.      *)
Repeats(f, D, Stop, base, next) ==
      \A x \in D : f[x] = IF x \in Stop THEN base[x] ELSE f[next[x]]

(* The loop keeps its invariant I.                                           *)
Keeps(I, Stop, next) == \A x \in I \ Stop : next[x] \in I

(* A loop of which mu falls stops, in a state of its invariant I.            *)
LEMMA LoopResult ==
  ASSUME NEW D, NEW Stop, NEW next, NEW mu, Falls(D, Stop, next, mu),
           NEW f, NEW base, Repeats(f, D, Stop, base, next),
           NEW I \in SUBSET D, Keeps(I, Stop, next),
           NEW x \in I
  PROVE  \E y \in I \cap Stop : f[x] = base[y]
  <1> USE DEF Falls, Repeats, Keeps
  <1> DEFINE Bad == {y \in I : ~ \E z \in I \cap Stop : f[y] = base[z]}
             Sizes == {mu[y] : y \in Bad}
  <1>1. SUFFICES ASSUME x \in Bad PROVE FALSE OBVIOUS
  <1>2. Sizes \in SUBSET Nat /\ Sizes # {} BY <1>1
  <1>3. PICK m \in Sizes : \A k \in Sizes : m =< k
    <2> HIDE DEF Sizes
    <2> QED BY <1>2, NatMin
  <1>4. PICK y \in Bad : m = mu[y] OBVIOUS
  <1>5. y \notin Stop OBVIOUS
  <1>6. mu[next[y]] < mu[y] /\ next[y] \in I /\ mu[y] \in Nat /\ mu[next[y]] \in Nat BY <1>5
  <1>7. next[y] \notin Bad
    <2>1. SUFFICES ASSUME next[y] \in Bad PROVE FALSE OBVIOUS
    <2>2. mu[next[y]] \in Sizes BY <2>1
    <2>3. m =< mu[next[y]] BY <2>2, <1>3
    <2> QED BY <2>3, <1>4, <1>6
  <1>8. f[y] = f[next[y]] BY <1>5
  <1> QED BY <1>6, <1>7, <1>8

(* There is such an f.                                                       *)
LEMMA LoopExists ==
    ASSUME NEW D, NEW R, NEW Stop, NEW next, NEW mu, Falls(D, Stop, next, mu),
           NEW base \in [D -> R]
    PROVE  \E f \in [D -> R] : Repeats(f, D, Stop, base, next)
  <1> DEFINE step == [p \in D \X R |-> p[2]]
  <1>1. step \in [D \X R -> R]
    OBVIOUS
  <1>2. PICK f \in [D -> R] : Solves(f, D, Stop, base, step, next)
    <2> HIDE DEF step
    <2> QED BY <1>1, RecursionExists
  <1>3. ASSUME NEW x \in D PROVE f[x] = IF x \in Stop THEN base[x] ELSE f[next[x]]
    <2>1. next[x] \in D /\ f[next[x]] \in R
      BY DEF Falls
    <2>2. step[<<x, f[next[x]]>>] = f[next[x]]
      BY <2>1
    <2> HIDE DEF step
    <2> QED BY <1>2, <2>2 DEF Solves
  <1> QED BY <1>3 DEF Repeats

-----------------------------------------------------------------------------
(* Sums of numbers on a finite set, such as a window of readings or the      *)
(* nodes of a map.                                                           *)
Total(s, I) == MapThenSumSet(LAMBDA j : s[j], I)

(* The element that the sum takes next.                                      *)
Picked(T) == CHOOSE x \in T : TRUE

(* f has the sums of s on the subsets of U, added element by element.        *)
SumsUp(f, s, U) ==
    \A T \in SUBSET U : f[T] = IF T = {} THEN 0 ELSE s[Picked(T)] + f[T \ {Picked(T)}]

(* Numbers on a finite set.                                                  *)
Numbers(s, U) == s \in [U -> Int] /\ IsFiniteSet(U)

(* The sizes of the subsets of a finite set.                                 *)
LEMMA SubsetSize ==
    ASSUME NEW U, IsFiniteSet(U), NEW T \in SUBSET U
    PROVE  /\ IsFiniteSet(T) /\ Cardinality(T) \in Nat
           /\ \A x \in T : Cardinality(T \ {x}) = Cardinality(T) - 1
<1>1. IsFiniteSet(T)
  BY FS_Subset
<1>2. Cardinality(T) \in Nat
  BY <1>1, FS_CardinalityType
<1>3. ASSUME NEW x \in T PROVE Cardinality(T \ {x}) = Cardinality(T) - 1
  BY <1>1, FS_RemoveElement
<1> QED BY <1>1, <1>2, <1>3

(* Adding up element by element defines a function.                          *)
LEMMA SumsExist ==
    ASSUME NEW U, NEW s, Numbers(s, U)
    PROVE  \E f \in [SUBSET U -> Int] : SumsUp(f, s, U)
<1> DEFINE D == SUBSET U
           Stop == {{}}
           next == [T \in D |-> IF T = {} THEN {} ELSE T \ {Picked(T)}]
           base == [T \in D |-> 0]
           step == [p \in D \X Int |-> IF p[1] = {} THEN 0 ELSE s[Picked(p[1])] + p[2]]
           mu == [T \in D |-> Cardinality(T)]
<1>1. ASSUME NEW T \in D, T # {} PROVE Picked(T) \in T /\ Picked(T) \in U
  BY <1>1 DEF Picked
<1>2. Falls(D, Stop, next, mu)
  <2>1. Stop \in SUBSET D /\ next \in [D -> D]
    OBVIOUS
  <2>2. ASSUME NEW T \in D PROVE mu[T] \in Nat
    BY SubsetSize DEF Numbers
  <2>3. mu \in [D -> Nat]
    BY <2>2
  <2>4. ASSUME NEW T \in D \ Stop PROVE mu[next[T]] < mu[T]
    <3>1. Picked(T) \in T /\ next[T] = T \ {Picked(T)} /\ next[T] \in D
      BY <1>1
    <3>2. Cardinality(next[T]) = Cardinality(T) - 1 /\ Cardinality(T) \in Nat
      BY <3>1, SubsetSize DEF Numbers
    <3> QED BY <3>1, <3>2
  <2> HIDE DEF next, mu, Stop, D
  <2> QED BY <2>1, <2>3, <2>4 DEF Falls
<1>3. base \in [D -> Int]
  OBVIOUS
<1>4. step \in [D \X Int -> Int]
  <2>1. ASSUME NEW p \in D \X Int
        PROVE  (IF p[1] = {} THEN 0 ELSE s[Picked(p[1])] + p[2]) \in Int
    <3>1. p[1] \in D /\ p[2] \in Int
      OBVIOUS
    <3>2. CASE p[1] = {}
      BY <3>2
    <3>3. CASE p[1] # {}
      <4>1. s[Picked(p[1])] \in Int
        BY <3>1, <3>3, <1>1 DEF Numbers
      <4> QED BY <4>1, <3>1
    <3> QED BY <3>2, <3>3
  <2> QED BY <2>1
<1>5. PICK f \in [D -> Int] : Solves(f, D, Stop, base, step, next)
  <2> HIDE DEF D, Stop, next, base, step, mu
  <2> QED BY <1>2, <1>3, <1>4, RecursionExists
<1>6. ASSUME NEW T \in D
      PROVE  f[T] = IF T = {} THEN 0 ELSE s[Picked(T)] + f[T \ {Picked(T)}]
  <2>1. f[T] = IF T \in Stop THEN base[T] ELSE step[<<T, f[next[T]]>>]
    <3> HIDE DEF D, Stop, next, base, step
    <3> QED BY <1>5 DEF Solves
  <2>2. CASE T = {}
    BY <2>1, <2>2
  <2>3. CASE T # {}
    <3>1. next[T] = T \ {Picked(T)} /\ next[T] \in D
      BY <2>3
    <3>2. <<T, f[next[T]]>> \in D \X Int
      BY <3>1
    <3> QED BY <2>1, <2>3, <3>1, <3>2
  <2> QED BY <2>2, <2>3
<1> QED BY <1>6 DEF SumsUp

(* There is one way to add up.                                               *)
LEMMA SumsAgree ==
    ASSUME NEW U, NEW s, Numbers(s, U), NEW I \in SUBSET U,
           NEW f, SumsUp(f, s, U), NEW g, SumsUp(g, s, I),
           NEW T \in SUBSET I
    PROVE  f[T] = g[T]
<1> DEFINE Bad == {W \in SUBSET I : f[W] # g[W]}
           Sizes == {Cardinality(W) : W \in Bad}
<1>1. SUFFICES ASSUME T \in Bad PROVE FALSE
  OBVIOUS
<1>2. Sizes \in SUBSET Nat /\ Sizes # {}
  BY <1>1, SubsetSize DEF Numbers
<1>3. PICK m \in Sizes : \A k \in Sizes : m =< k
  <2> HIDE DEF Sizes
  <2> QED BY <1>2, NatMin
<1>4. PICK W \in Bad : m = Cardinality(W)
  OBVIOUS
<1>5. W # {}
  BY DEF SumsUp
<1> DEFINE R == W \ {Picked(W)}
<1>6. Picked(W) \in W /\ R \in SUBSET I
  BY <1>5 DEF Picked
<1>7. Cardinality(R) = m - 1 /\ m \in Nat
  BY <1>4, <1>6, SubsetSize DEF Numbers
<1>8. R \notin Bad
  <2>1. SUFFICES ASSUME R \in Bad PROVE FALSE
    OBVIOUS
  <2>2. Cardinality(R) \in Sizes
    BY <2>1
  <2>3. m =< Cardinality(R)
    BY <2>2, <1>3
  <2> QED BY <2>3, <1>7
<1>9. f[R] = g[R]
  BY <1>6, <1>8
<1>10. f[W] = s[Picked(W)] + f[R] /\ g[W] = s[Picked(W)] + g[R]
  BY <1>5 DEF SumsUp
<1> QED BY <1>9, <1>10

(* Total is the value of such a function.                                    *)
LEMMA TotalIsSum ==
    ASSUME NEW U, NEW s, Numbers(s, U), NEW f, SumsUp(f, s, U), NEW I \in SUBSET U
    PROVE  Total(s, I) = f[I]
<1> DEFINE G(h) == [T \in SUBSET I |->
                      IF T = {} THEN 0 ELSE s[Picked(T)] + h[T \ {Picked(T)}]]
           iter == CHOOSE h : h = G(h)
<1>1. Total(s, I) = iter[I]
  BY DEF Total, MapThenSumSet, MapThenFoldSet, Picked
<1>2. Numbers(s, U) /\ I \in SUBSET U
  OBVIOUS
<1> DEFINE e == [T \in SUBSET I |-> f[T]]
<1>3. e = G(e)
  <2>1. ASSUME NEW T \in SUBSET I
        PROVE  e[T] = IF T = {} THEN 0 ELSE s[Picked(T)] + e[T \ {Picked(T)}]
    <3>1. T \in SUBSET U /\ T \ {Picked(T)} \in SUBSET I
      OBVIOUS
    <3> QED BY <3>1 DEF SumsUp
  <2> HIDE DEF e
  <2>2. e = [T \in SUBSET I |-> e[T]]
    BY DEF e
  <2>3. G(e) = [T \in SUBSET I |-> e[T]]
    BY <2>1
  <2> QED BY <2>2, <2>3
<1>4. iter = G(iter)
  <2> HIDE DEF G, e
  <2> QED BY <1>3
<1>5. SumsUp(iter, s, I)
  <2> HIDE DEF iter
  <2> QED BY <1>4 DEF SumsUp
<1> HIDE DEF iter
<1>6. I \in SUBSET I
  OBVIOUS
<1>7. f[I] = iter[I]
  BY <1>5, <1>6, SumsAgree
<1> QED BY <1>1, <1>7

(* What holds of a set if it holds without any one of its elements holds of  *)
(* all finite sets.                                                          *)
Grows(P, U) == \A T \in SUBSET U : (\A y \in T : T \ {y} \in P) => T \in P

LEMMA SubsetInduction ==
    ASSUME NEW U, IsFiniteSet(U), NEW P, Grows(P, U), NEW T \in SUBSET U
    PROVE  T \in P
<1> DEFINE Bad == {W \in SUBSET U : W \notin P}
           Sizes == {Cardinality(W) : W \in Bad}
<1>1. SUFFICES ASSUME T \in Bad PROVE FALSE
  OBVIOUS
<1>2. Sizes \in SUBSET Nat /\ Sizes # {}
  BY <1>1, SubsetSize
<1>3. PICK m \in Sizes : \A k \in Sizes : m =< k
  <2> HIDE DEF Sizes
  <2> QED BY <1>2, NatMin
<1>4. PICK W \in Bad : m = Cardinality(W)
  OBVIOUS
<1>5. PICK y \in W : W \ {y} \notin P
  BY DEF Grows
<1>6. W \ {y} \in Bad
  BY <1>5
<1>7. Cardinality(W \ {y}) \in Sizes
  BY <1>6
<1>8. Cardinality(W \ {y}) = m - 1 /\ m \in Nat
  BY <1>4, SubsetSize
<1>9. m =< Cardinality(W \ {y})
  BY <1>3, <1>7
<1> QED BY <1>8, <1>9

(* The sum does not depend on the order: any element may be taken first.     *)
Sums(f, s, U) == f \in [SUBSET U -> Int] /\ SumsUp(f, s, U)

LEMMA AnyFirst ==
    ASSUME NEW U, NEW s, Numbers(s, U), NEW f, Sums(f, s, U),
           NEW T \in SUBSET U, NEW y \in T
    PROVE  f[T] = s[y] + f[T \ {y}]
<1> DEFINE P == {W \in SUBSET U : \A x \in W : f[W] = s[x] + f[W \ {x}]}
<1>1. ASSUME NEW W \in SUBSET U, NEW z \in W, \A x \in W : W \ {x} \in P
      PROVE  f[W] = s[z] + f[W \ {z}]
  <2> DEFINE p == Picked(W)
  <2>1. p \in W /\ f[W] = s[p] + f[W \ {p}]
    BY DEF Sums, SumsUp, Picked
  <2>2. CASE z = p
    BY <2>1, <2>2
  <2>3. CASE z # p
    <3>1. W \ {p} \in P /\ W \ {z} \in P
      BY <2>1, <1>1
    <3>2. z \in W \ {p} /\ p \in W \ {z}
      BY <2>1, <2>3
    <3>3. (W \ {p}) \ {z} = (W \ {z}) \ {p}
      OBVIOUS
    <3>4. f[W \ {p}] = s[z] + f[(W \ {p}) \ {z}]
      <4> HIDE DEF p
      <4> QED BY <3>1, <3>2
    <3>5. f[W \ {z}] = s[p] + f[(W \ {p}) \ {z}]
      <4> HIDE DEF p
      <4> QED BY <3>1, <3>2, <3>3
    <3>6. s[z] \in Int /\ s[p] \in Int /\ f[(W \ {p}) \ {z}] \in Int
      <4>1. z \in U /\ p \in U /\ (W \ {p}) \ {z} \in SUBSET U
        BY <2>1
      <4> HIDE DEF p
      <4> QED BY <4>1 DEF Numbers, Sums
    <3> HIDE DEF p, P
    <3> QED BY <2>1, <3>4, <3>5, <3>6
  <2> QED BY <2>2, <2>3
<1>2. Grows(P, U)
  <2> SUFFICES ASSUME NEW W \in SUBSET U, \A x \in W : W \ {x} \in P PROVE W \in P
    BY DEF Grows
  <2> QED BY <1>1
<1>3. T \in P
  <2> HIDE DEF P
  <2> QED BY <1>2, SubsetInduction DEF Numbers
<1> QED BY <1>3

(* The sum of nothing, and the sum without one element.                      *)
LEMMA TotalType ==
    ASSUME NEW U, NEW s, Numbers(s, U), NEW T \in SUBSET U
    PROVE  Total(s, T) \in Int /\ (T = {} => Total(s, T) = 0)
<1>1. PICK f \in [SUBSET U -> Int] : SumsUp(f, s, U)
  BY SumsExist
<1>2. Total(s, T) = f[T]
  BY <1>1, TotalIsSum
<1>3. T = {} => f[T] = 0
  BY <1>1 DEF SumsUp
<1> QED BY <1>2, <1>3

LEMMA TotalWithout ==
    ASSUME NEW U, NEW s, Numbers(s, U), NEW T \in SUBSET U, NEW y \in T
    PROVE  s[y] \in Int /\ Total(s, T) = s[y] + Total(s, T \ {y})
<1>1. PICK f \in [SUBSET U -> Int] : SumsUp(f, s, U)
  BY SumsExist
<1>2. T \ {y} \in SUBSET U /\ s[y] \in Int
  BY DEF Numbers
<1>3. Total(s, T) = f[T]
  BY <1>1, TotalIsSum
<1>4. Total(s, T \ {y}) = f[T \ {y}]
  BY <1>1, <1>2, TotalIsSum
<1>5. Sums(f, s, U)
  BY <1>1 DEF Sums
<1>6. f[T] = s[y] + f[T \ {y}]
  BY <1>5, AnyFirst
<1> QED BY <1>2, <1>3, <1>4, <1>6

(* What a number less than that of every element comes to.                   *)
Under(c, s, T) == c \in Int /\ \A x \in T : c =< s[x]
Over(c, s, T) == c \in Int /\ \A x \in T : s[x] =< c

LEMMA TotalAtLeast ==
    ASSUME NEW U, NEW s, Numbers(s, U), NEW T \in SUBSET U, NEW c, Under(c, s, T)
    PROVE  c * Cardinality(T) =< Total(s, T)
<1> DEFINE P == {W \in SUBSET U : Under(c, s, W) => c * Cardinality(W) =< Total(s, W)}
<1>1. ASSUME NEW W \in SUBSET U, \A x \in W : W \ {x} \in P, Under(c, s, W)
      PROVE  c * Cardinality(W) =< Total(s, W)
  <2>1. CASE W = {}
    <3>1. Cardinality(W) = 0 /\ Total(s, W) = 0
      BY <2>1, TotalType, FS_EmptySet
    <3> QED BY <3>1 DEF Under
  <2>2. CASE W # {}
    <3>1. PICK y \in W : TRUE
      BY <2>2
    <3> DEFINE V == W \ {y}
    <3>2. V \in SUBSET U /\ Under(c, s, V) /\ c \in Int /\ c =< s[y]
      BY <1>1 DEF Under
    <3>3. c * Cardinality(V) =< Total(s, V)
      BY <1>1, <3>2
    <3>4. Cardinality(V) = Cardinality(W) - 1 /\ Cardinality(W) \in Nat
      BY SubsetSize DEF Numbers
    <3>5. Total(s, W) = s[y] + Total(s, V) /\ s[y] \in Int
      BY TotalWithout
    <3>6. Total(s, V) \in Int
      BY <3>2, TotalType
    <3> DEFINE k == Cardinality(W)
    <3>7. c * (k - 1) = c * k - c
      <4> HIDE DEF k
      <4> QED BY <3>2, <3>4 DEF k
    <3>8. c * k \in Int
      BY <3>2, <3>4
    <3> HIDE DEF V
    <3> QED BY <3>2, <3>3, <3>4, <3>5, <3>6, <3>7, <3>8
  <2> QED BY <2>1, <2>2
<1>2. Grows(P, U)
  <2> SUFFICES ASSUME NEW W \in SUBSET U, \A x \in W : W \ {x} \in P PROVE W \in P
    BY DEF Grows
  <2> QED BY <1>1
<1>3. T \in P
  <2> HIDE DEF P
  <2> QED BY <1>2, SubsetInduction DEF Numbers
<1> QED BY <1>3

(* What a number not less than that of any element comes to.                 *)
LEMMA TotalAtMost ==
    ASSUME NEW U, NEW s, Numbers(s, U), NEW T \in SUBSET U, NEW c, Over(c, s, T)
    PROVE  Total(s, T) =< c * Cardinality(T)
<1> DEFINE P == {W \in SUBSET U : Over(c, s, W) => Total(s, W) =< c * Cardinality(W)}
<1>1. ASSUME NEW W \in SUBSET U, \A x \in W : W \ {x} \in P, Over(c, s, W)
      PROVE  Total(s, W) =< c * Cardinality(W)
  <2>1. CASE W = {}
    <3>1. Cardinality(W) = 0 /\ Total(s, W) = 0
      BY <2>1, TotalType, FS_EmptySet
    <3> QED BY <3>1 DEF Over
  <2>2. CASE W # {}
    <3>1. PICK y \in W : TRUE
      BY <2>2
    <3> DEFINE V == W \ {y}
    <3>2. V \in SUBSET U /\ Over(c, s, V) /\ c \in Int /\ s[y] =< c
      BY <1>1 DEF Over
    <3>3. Total(s, V) =< c * Cardinality(V)
      BY <1>1, <3>2
    <3>4. Cardinality(V) = Cardinality(W) - 1 /\ Cardinality(W) \in Nat
      BY SubsetSize DEF Numbers
    <3>5. Total(s, W) = s[y] + Total(s, V) /\ s[y] \in Int
      BY TotalWithout
    <3>6. Total(s, V) \in Int
      BY <3>2, TotalType
    <3> DEFINE k == Cardinality(W)
    <3>7. c * (k - 1) = c * k - c
      <4> HIDE DEF k
      <4> QED BY <3>2, <3>4 DEF k
    <3>8. c * k \in Int
      BY <3>2, <3>4
    <3> HIDE DEF V
    <3> QED BY <3>2, <3>3, <3>4, <3>5, <3>6, <3>7, <3>8
  <2> QED BY <2>1, <2>2
<1>2. Grows(P, U)
  <2> SUFFICES ASSUME NEW W \in SUBSET U, \A x \in W : W \ {x} \in P PROVE W \in P
    BY DEF Grows
  <2> QED BY <1>1
<1>3. T \in P
  <2> HIDE DEF P
  <2> QED BY <1>2, SubsetInduction DEF Numbers
<1> QED BY <1>3

(* A part of numbers that are not negative adds up to no more than all.      *)
LEMMA PartIsLess ==
    ASSUME NEW U, NEW s, Numbers(s, U), NEW A \in SUBSET U, Under(0, s, U)
    PROVE  Total(s, A) =< Total(s, U)
<1> DEFINE P == {W \in SUBSET U : Total(s, W \cap A) =< Total(s, W)}
<1>1. ASSUME NEW W \in SUBSET U, \A x \in W : W \ {x} \in P
      PROVE  Total(s, W \cap A) =< Total(s, W)
  <2>1. CASE W = {}
    <3>1. W \cap A = W
      BY <2>1
    <3>2. Total(s, W) \in Int
      BY TotalType
    <3> QED BY <3>1, <3>2
  <2>2. CASE W # {}
    <3>1. PICK y \in W : TRUE
      BY <2>2
    <3> DEFINE V == W \ {y}
    <3>2. V \in SUBSET U /\ V \cap A \in SUBSET U /\ W \cap A \in SUBSET U /\ 0 =< s[y]
      BY DEF Under
    <3>3. Total(s, V \cap A) =< Total(s, V)
      BY <1>1
    <3>4. Total(s, W) = s[y] + Total(s, V) /\ s[y] \in Int
      <4> HIDE DEF P
      <4>1. s[y] \in Int /\ Total(s, W) = s[y] + Total(s, W \ {y})
        BY TotalWithout
      <4> QED BY <4>1
    <3>5. Total(s, V) \in Int /\ Total(s, V \cap A) \in Int
      BY <3>2, TotalType
    <3>6. CASE y \in A
      <4>1. y \in W \cap A /\ (W \cap A) \ {y} = V \cap A
        BY <3>6
      <4>2. Total(s, W \cap A) = s[y] + Total(s, V \cap A)
        BY <4>1, <3>2, TotalWithout
      <4> HIDE DEF V
      <4> QED BY <4>2, <3>3, <3>4, <3>5
    <3>7. CASE y \notin A
      <4>1. W \cap A = V \cap A
        BY <3>7
      <4> HIDE DEF V
      <4> QED BY <4>1, <3>2, <3>3, <3>4, <3>5
    <3> QED BY <3>6, <3>7
  <2> QED BY <2>1, <2>2
<1>2. Grows(P, U)
  <2> SUFFICES ASSUME NEW W \in SUBSET U, \A x \in W : W \ {x} \in P PROVE W \in P
    BY DEF Grows
  <2> QED BY <1>1
<1>3. U \in P
  <2> HIDE DEF P
  <2> QED BY <1>2, SubsetInduction DEF Numbers
<1>4. U \cap A = A
  OBVIOUS
<1> QED BY <1>3, <1>4

(* No element of a sum is less than nothing, so none is more than the sum.   *)
LEMMA OneIsLess ==
    ASSUME NEW U, NEW s, Numbers(s, U), Under(0, s, U), NEW x \in U
    PROVE  0 =< s[x] /\ s[x] =< Total(s, U) /\ Total(s, U) \in Nat
<1>1. {x} \in SUBSET U /\ x \in {x} /\ {x} \ {x} = {} /\ {} \in SUBSET U
  OBVIOUS
<1>2. Total(s, {x}) = s[x] + Total(s, {x} \ {x})
  BY <1>1, TotalWithout
<1>3. Total(s, {}) = 0 /\ Total(s, U) \in Int
  BY <1>1, TotalType
<1>4. Total(s, {x}) =< Total(s, U)
  BY <1>1, PartIsLess
<1>5. 0 =< s[x] /\ s[x] \in Int
  BY DEF Under, Numbers
<1> QED BY <1>1, <1>2, <1>3, <1>4, <1>5

(* t is below s, on B by 1 at least.                                         *)
Below(t, s, B, U) == \A x \in U : t[x] =< s[x] /\ (x \in B => t[x] < s[x])

(* Numbers below s add up to less than those of s, by the size of B at       *)
(* least.                                                                    *)
LEMMA TotalFalls ==
    ASSUME NEW U, NEW s, Numbers(s, U), NEW t, Numbers(t, U), NEW B \in SUBSET U,
           Below(t, s, B, U)
    PROVE  Total(t, U) + Cardinality(B) =< Total(s, U)
<1> DEFINE P == {W \in SUBSET U : Total(t, W) + Cardinality(W \cap B) =< Total(s, W)}
<1>1. ASSUME NEW W \in SUBSET U, \A x \in W : W \ {x} \in P
      PROVE  Total(t, W) + Cardinality(W \cap B) =< Total(s, W)
  <2>1. CASE W = {}
    <3>1. Total(t, W) = 0 /\ Total(s, W) = 0
      BY <2>1, TotalType
    <3>2. Cardinality(W \cap B) = 0
      BY <2>1, FS_EmptySet
    <3> QED BY <3>1, <3>2
  <2>2. CASE W # {}
    <3>1. PICK y \in W : TRUE
      BY <2>2
    <3> DEFINE V == W \ {y}
    <3>2. V \in SUBSET U /\ W \cap B \in SUBSET U /\ V \cap B \in SUBSET U /\ y \in U
      OBVIOUS
    <3>3. Total(t, V) + Cardinality(V \cap B) =< Total(s, V)
      BY <1>1
    <3>4. Total(s, W) = s[y] + Total(s, V) /\ s[y] \in Int
      <4>1. s[y] \in Int
        BY <3>2 DEF Numbers
      <4>2. Total(s, W) = s[y] + Total(s, W \ {y})
        BY TotalWithout
      <4> QED BY <4>1, <4>2
    <3>5. Total(t, W) = t[y] + Total(t, V) /\ t[y] \in Int
      <4>1. t[y] \in Int
        BY <3>2 DEF Numbers
      <4>2. Total(t, W) = t[y] + Total(t, W \ {y})
        BY TotalWithout
      <4> QED BY <4>1, <4>2
    <3>6. Total(s, V) \in Int /\ Total(t, V) \in Int
      BY <3>2, TotalType
    <3>7. Cardinality(W \cap B) \in Nat /\ Cardinality(V \cap B) \in Nat
      BY <3>2, SubsetSize DEF Numbers
    <3>8. t[y] =< s[y] /\ (y \in B => t[y] < s[y])
      BY <3>2 DEF Below
    <3>9. CASE y \in B
      <4>1. (W \cap B) \ {y} = V \cap B /\ y \in W \cap B
        BY <3>9
      <4>2. Cardinality(V \cap B) = Cardinality(W \cap B) - 1
        <5> HIDE DEF V
        <5> QED BY <4>1, <3>2, SubsetSize DEF Numbers
      <4> HIDE DEF V
      <4> QED BY <3>3, <3>4, <3>5, <3>6, <3>7, <3>8, <3>9, <4>2
    <3>10. CASE y \notin B
      <4>1. Cardinality(W \cap B) = Cardinality(V \cap B)
        <5>1. W \cap B = V \cap B
          BY <3>10
        <5> QED BY <5>1
      <4> HIDE DEF V
      <4> QED BY <3>3, <3>4, <3>5, <3>6, <3>7, <3>8, <4>1
    <3> QED BY <3>9, <3>10
  <2> QED BY <2>1, <2>2
<1>2. Grows(P, U)
  <2> SUFFICES ASSUME NEW W \in SUBSET U, \A x \in W : W \ {x} \in P PROVE W \in P
    BY DEF Grows
  <2> QED BY <1>1
<1>3. U \in P
  <2> HIDE DEF P
  <2> QED BY <1>2, SubsetInduction DEF Numbers
<1>4. U \cap B = B
  OBVIOUS
<1> QED BY <1>3, <1>4

-----------------------------------------------------------------------------
(* The loops swim and sink                                                   *)

(* The arrays of n elements of E.                                            *)
Arrays(n, E) == [1..n -> E]

(* Swap exchanges two places and leaves the others alone.                    *)
LEMMA SwapType ==
    ASSUME NEW E, NEW n \in Nat, NEW h \in Arrays(n, E), NEW i \in 1..n, NEW j \in 1..n
    PROVE  /\ Swap(h, i, j) \in Arrays(n, E)
           /\ Swap(h, i, j)[i] = h[j] /\ Swap(h, i, j)[j] = h[i]
           /\ \A k \in (1..n) \ {i, j} : Swap(h, i, j)[k] = h[k]
  BY DEF Swap, Arrays

(* The parent of a place that is not the first is before it.                 *)
LEMMA Halves ==
    ASSUME NEW i \in Nat, i > 1
    PROVE  i \div 2 \in Nat /\ 1 =< i \div 2 /\ i \div 2 < i
  OBVIOUS

(* swim at i goes on.                                                        *)
Swims(key, h, i) == i > 1 /\ key[h[i \div 2]] > key[h[i]]

(* swim ends in a state of any invariant of its loop.                        *)
LEMMA SwimLoop ==
    ASSUME NEW E, NEW key \in [E -> Int], NEW n \in Nat, NEW heap \in Arrays(n, E),
           NEW k \in 1..n,
           NEW I \in SUBSET (Arrays(n, E) \X (1..n)), <<heap, k>> \in I,
           \A h \in Arrays(n, E), i \in 1..n :
              <<h, i>> \in I /\ Swims(key, h, i) => <<Swap(h, i \div 2, i), i \div 2>> \in I
    PROVE  \E i \in 1..n : /\ <<Swim(key, heap, k), i>> \in I
                           /\ ~Swims(key, Swim(key, heap, k), i)
  <1> DEFINE B == Arrays(n, E)
             D == B \X (1..n)
             Stop == {x \in D : ~Swims(key, x[1], x[2])}
             Nx(h, i) == <<Swap(h, i \div 2, i), i \div 2>>
             next == [x \in D |-> IF x \in Stop THEN x ELSE Nx(x[1], x[2])]
             base == [x \in D |-> x[1]]
             mu == [x \in D |-> x[2]]
             G(f) == [x \in D |-> IF Swims(key, x[1], x[2]) THEN f[Nx(x[1], x[2])] ELSE x[1]]
             up == CHOOSE f : f = G(f)
             start == <<heap, k>>
  <1>1. Swim(key, heap, k) = up[start]
    <2>1. DOMAIN heap = 1..n /\ DOMAIN key = E
      BY DEF Arrays
    <2> QED BY <2>1 DEF Arrays, Swim, Swims
  <1>2. ASSUME NEW x \in D PROVE x[1] \in B /\ x[2] \in 1..n /\ x = <<x[1], x[2]>>
    OBVIOUS
  <1>3. ASSUME NEW x \in D \ Stop
        PROVE  next[x] = Nx(x[1], x[2]) /\ next[x] \in D /\ mu[next[x]] < mu[x]
    <2>1. x[1] \in B /\ x[2] \in 1..n /\ x[2] > 1
      BY <1>2 DEF Swims
    <2>2. x[2] \div 2 \in 1..n /\ x[2] \div 2 < x[2]
      BY <2>1, Halves
    <2>3. Nx(x[1], x[2]) \in D
      BY <2>1, <2>2, SwapType
    <2>4. next[x] = Nx(x[1], x[2])
      OBVIOUS
    <2>5. mu[next[x]] = x[2] \div 2
      BY <2>3, <2>4
    <2> QED BY <2>2, <2>3, <2>4, <2>5
  <1>4. Falls(D, Stop, next, mu)
    <2>1. Stop \in SUBSET D /\ mu \in [D -> Nat]
      OBVIOUS
    <2>2. ASSUME NEW x \in D PROVE next[x] \in D
      <3>1. CASE x \in Stop
        BY <3>1
      <3>2. CASE x \notin Stop
        BY <3>2, <1>3
      <3> QED BY <3>1, <3>2
    <2>3. next \in [D -> D]
      BY <2>2
    <2> QED BY <2>1, <2>3, <1>3 DEF Falls
  <1>5. base \in [D -> B]
    OBVIOUS
  <1>6. PICK f \in [D -> B] : Repeats(f, D, Stop, base, next)
    <2> HIDE DEF B, D, Stop, next, base, mu
    <2> QED BY <1>4, <1>5, LoopExists
  <1>7. f = G(f)
    <2>1. ASSUME NEW x \in D
          PROVE  f[x] = IF Swims(key, x[1], x[2]) THEN f[Nx(x[1], x[2])] ELSE x[1]
      <3>1. CASE x \in Stop
        BY <3>1, <1>6 DEF Repeats
      <3>2. CASE x \notin Stop
        <4>1. f[x] = f[next[x]]
          BY <1>6, <3>2 DEF Repeats
        <4>2. Swims(key, x[1], x[2])
          BY <3>2
        <4> QED BY <4>1, <4>2, <3>2, <1>3
      <3> QED BY <3>1, <3>2
    <2> QED BY <2>1
  <1>8. up = G(up)
    <2> HIDE DEF G
    <2> QED BY <1>7
  <1>9. Repeats(up, D, Stop, base, next)
    <2> SUFFICES ASSUME NEW x \in D
                 PROVE  up[x] = IF x \in Stop THEN base[x] ELSE up[next[x]]
      BY DEF Repeats
    <2>1. up[x] = IF Swims(key, x[1], x[2]) THEN up[Nx(x[1], x[2])] ELSE x[1]
      <3> HIDE DEF up, Nx
      <3> QED BY <1>8
    <2> HIDE DEF up
    <2>2. CASE x \in Stop
      BY <2>1, <2>2
    <2>3. CASE x \notin Stop
      <3>1. Swims(key, x[1], x[2])
        BY <2>3
      <3> HIDE DEF next, Nx
      <3> QED BY <2>1, <2>3, <3>1, <1>3
    <2> QED BY <2>2, <2>3
  <1>10. Keeps(I, Stop, next)
    <2> SUFFICES ASSUME NEW x \in I \ Stop PROVE next[x] \in I
      BY DEF Keeps
    <2>1. x \in D
      OBVIOUS
    <2>2. Swims(key, x[1], x[2]) /\ <<x[1], x[2]>> \in I
      BY <2>1, <1>2
    <2>3. Nx(x[1], x[2]) \in I
      BY <2>1, <2>2, <1>2
    <2> QED BY <2>1, <2>3, <1>3
  <1>11. PICK y \in I \cap Stop : up[start] = base[y]
    <2>1. I \in SUBSET D /\ start \in I
      OBVIOUS
    <2> HIDE DEF B, D, Stop, next, base, mu, up, start
    <2>2. \E y \in I \cap Stop : up[start] = base[y]
      BY <1>4, <1>9, <1>10, <2>1, LoopResult
    <2> QED BY <2>2
  <1>12. /\ Swim(key, heap, k) = y[1] /\ y[2] \in 1..n
         /\ <<y[1], y[2]>> \in I /\ ~Swims(key, y[1], y[2])
    <2> HIDE DEF up
    <2> QED BY <1>11, <1>1, <1>2
  <1> QED BY <1>12

(* An array of n elements is a sequence of length n.                         *)
LEMMA ArrayIsSeq ==
    ASSUME NEW E, NEW n \in Nat, NEW h \in Arrays(n, E)
    PROVE  h \in Seq(E) /\ Len(h) = n
  BY DEF Arrays

(* The child is after its parent, and in the array.                          *)
LEMMA ChildPlace ==
    ASSUME NEW E, NEW key, NEW n \in Nat, NEW h \in Arrays(n, E), NEW i \in 1..n,
           2 * i =< Len(h)
    PROVE  /\ Child(key, h, i) \in {2 * i, 2 * i + 1}
           /\ Child(key, h, i) \in 1..n /\ Child(key, h, i) > i
  BY ArrayIsSeq DEF Child, Arrays

(* sink at i goes on.                                                        *)
Sinks(key, h, i) == 2 * i =< Len(h) /\ key[h[i]] > key[h[Child(key, h, i)]]

(* sink ends in a state of any invariant of its loop.                        *)
LEMMA SinkLoop ==
    ASSUME NEW E, NEW key \in [E -> Int], NEW n \in Nat, NEW heap \in Arrays(n, E),
           NEW k \in 1..n,
           NEW I \in SUBSET (Arrays(n, E) \X (1..n)), <<heap, k>> \in I,
           \A h \in Arrays(n, E), i \in 1..n :
              <<h, i>> \in I /\ Sinks(key, h, i) => 
                 <<Swap(h, i, Child(key, h, i)), Child(key, h, i)>> \in I
    PROVE  \E i \in 1..n : /\ <<Sink(key, heap, k), i>> \in I
                           /\ ~Sinks(key, Sink(key, heap, k), i)
  <1> DEFINE B == Arrays(n, E)
             D == B \X (1..n)
             Stop == {x \in D : ~Sinks(key, x[1], x[2])}
             Nx(h, i) == <<Swap(h, i, Child(key, h, i)), Child(key, h, i)>>
             next == [x \in D |-> IF x \in Stop THEN x ELSE Nx(x[1], x[2])]
             base == [x \in D |-> x[1]]
             mu == [x \in D |-> n - x[2]]
             G(f) == [x \in D |-> IF Sinks(key, x[1], x[2]) THEN f[Nx(x[1], x[2])] ELSE x[1]]
             down == CHOOSE f : f = G(f)
             start == <<heap, k>>
  <1>1. Sink(key, heap, k) = down[start]
    <2>1. DOMAIN heap = 1..n /\ DOMAIN key = E
      BY DEF Arrays
    <2> QED BY <2>1 DEF Arrays, Sink, Sinks
  <1>2. ASSUME NEW x \in D PROVE x[1] \in B /\ x[2] \in 1..n /\ x = <<x[1], x[2]>>
    OBVIOUS
  <1>3. ASSUME NEW x \in D \ Stop
        PROVE  next[x] = Nx(x[1], x[2]) /\ next[x] \in D /\ mu[next[x]] < mu[x]
    <2> DEFINE c == Child(key, x[1], x[2])
    <2>1. x[1] \in B /\ x[2] \in 1..n /\ 2 * x[2] =< Len(x[1])
      BY <1>2 DEF Sinks
    <2>2. c \in 1..n /\ c > x[2]
      BY <2>1, ChildPlace
    <2>3. Nx(x[1], x[2]) \in D
      <3>1. Nx(x[1], x[2]) = <<Swap(x[1], x[2], c), c>>
        OBVIOUS
      <3> HIDE DEF c
      <3>2. Swap(x[1], x[2], c) \in B
        BY <2>1, <2>2, SwapType
      <3> QED BY <3>1, <3>2, <2>2
    <2>4. next[x] = Nx(x[1], x[2])
      OBVIOUS
    <2>5. mu[next[x]] = n - c
      BY <2>3, <2>4
    <2>6. n - c < mu[x]
      <3> HIDE DEF c
      <3> QED BY <2>1, <2>2
    <2> QED BY <2>3, <2>4, <2>5, <2>6
  <1>4. Falls(D, Stop, next, mu)
    <2>1. Stop \in SUBSET D /\ mu \in [D -> Nat]
      OBVIOUS
    <2>2. ASSUME NEW x \in D PROVE next[x] \in D
      <3>1. CASE x \in Stop
        BY <3>1
      <3>2. CASE x \notin Stop
        BY <3>2, <1>3
      <3> QED BY <3>1, <3>2
    <2>3. next \in [D -> D]
      BY <2>2
    <2> QED BY <2>1, <2>3, <1>3 DEF Falls
  <1>5. base \in [D -> B]
    OBVIOUS
  <1>6. PICK f \in [D -> B] : Repeats(f, D, Stop, base, next)
    <2> HIDE DEF B, D, Stop, next, base, mu
    <2> QED BY <1>4, <1>5, LoopExists
  <1>7. f = G(f)
    <2>1. ASSUME NEW x \in D
          PROVE  f[x] = IF Sinks(key, x[1], x[2]) THEN f[Nx(x[1], x[2])] ELSE x[1]
      <3>1. CASE x \in Stop
        BY <3>1, <1>6 DEF Repeats
      <3>2. CASE x \notin Stop
        <4>1. f[x] = f[next[x]]
          BY <1>6, <3>2 DEF Repeats
        <4>2. Sinks(key, x[1], x[2])
          BY <3>2
        <4> QED BY <4>1, <4>2, <3>2, <1>3
      <3> QED BY <3>1, <3>2
    <2> QED BY <2>1
  <1>8. down = G(down)
    <2> HIDE DEF G
    <2> QED BY <1>7
  <1>9. Repeats(down, D, Stop, base, next)
    <2> SUFFICES ASSUME NEW x \in D
                 PROVE  down[x] = IF x \in Stop THEN base[x] ELSE down[next[x]]
      BY DEF Repeats
    <2>1. down[x] = IF Sinks(key, x[1], x[2]) THEN down[Nx(x[1], x[2])] ELSE x[1]
      <3> HIDE DEF down, Nx
      <3> QED BY <1>8
    <2> HIDE DEF down
    <2>2. CASE x \in Stop
      BY <2>1, <2>2
    <2>3. CASE x \notin Stop
      <3>1. Sinks(key, x[1], x[2])
        BY <2>3
      <3> HIDE DEF next, Nx
      <3> QED BY <2>1, <2>3, <3>1, <1>3
    <2> QED BY <2>2, <2>3
  <1>10. Keeps(I, Stop, next)
    <2> SUFFICES ASSUME NEW x \in I \ Stop PROVE next[x] \in I
      BY DEF Keeps
    <2>1. x \in D
      OBVIOUS
    <2>2. Sinks(key, x[1], x[2]) /\ <<x[1], x[2]>> \in I
      BY <2>1, <1>2
    <2>3. Nx(x[1], x[2]) \in I
      BY <2>1, <2>2, <1>2
    <2> QED BY <2>1, <2>3, <1>3
  <1>11. PICK y \in I \cap Stop : down[start] = base[y]
    <2>1. I \in SUBSET D /\ start \in I
      OBVIOUS
    <2> HIDE DEF B, D, Stop, next, base, mu, down, start
    <2>2. \E y \in I \cap Stop : down[start] = base[y]
      BY <1>4, <1>9, <1>10, <2>1, LoopResult
    <2> QED BY <2>2
  <1>12. /\ Sink(key, heap, k) = y[1] /\ y[2] \in 1..n
         /\ <<y[1], y[2]>> \in I /\ ~Sinks(key, y[1], y[2])
    <2> HIDE DEF down
    <2> QED BY <1>11, <1>1, <1>2
  <1> QED BY <1>12

-----------------------------------------------------------------------------
(* What is in the array                                                      *)

(* How often e is in the array.                                              *)
Copies(h, e) == Cardinality({i \in DOMAIN h : h[i] = e})

(* The places of an array are finitely many.                                 *)
LEMMA PositionsAreFinite ==
    ASSUME NEW n \in Nat, NEW S \in SUBSET (1..n)
    PROVE  IsFiniteSet(S) /\ Cardinality(S) \in Nat
  <1>1. IsFiniteSet(1..n)
    BY FS_Interval
  <1>2. IsFiniteSet(S)
    BY <1>1, FS_Subset
  <1> QED BY <1>2, FS_CardinalityType

(* Copies counts, and is 0 for what is not in the array.                     *)
LEMMA CopiesType ==
    ASSUME NEW E, NEW n \in Nat, NEW h \in Arrays(n, E), NEW e
    PROVE  /\ Copies(h, e) \in Nat
           /\ Copies(h, e) # 0 <=> \E i \in 1..n : h[i] = e
  <1> DEFINE S == {i \in 1..n : h[i] = e}
  <1>1. S \in SUBSET (1..n)
    OBVIOUS
  <1>2. IsFiniteSet(S) /\ Cardinality(S) \in Nat
    <2> HIDE DEF S
    <2> QED BY <1>1, PositionsAreFinite
  <1>4. Cardinality(S) = 0 <=> S = {}
    <2> HIDE DEF S
    <2> QED BY <1>2, FS_EmptySet
  <1>5. Copies(h, e) = Cardinality(S)
    BY DEF Copies, Arrays
  <1>6. S # {} <=> \E i \in 1..n : h[i] = e
    OBVIOUS
  <1> HIDE DEF S
  <1> QED BY <1>2, <1>4, <1>5, <1>6 DEF S

(* A swap changes no count: it is a bijection of the places.                 *)
LEMMA SwapCopies ==
    ASSUME NEW E, NEW n \in Nat, NEW h \in Arrays(n, E), NEW i \in 1..n, NEW j \in 1..n, NEW e
    PROVE  Copies(Swap(h, i, j), e) = Copies(h, e)
  <1> DEFINE k == Swap(h, i, j)
             S == {x \in 1..n : h[x] = e}
             T == {x \in 1..n : k[x] = e}
  <1>1. /\ k \in Arrays(n, E) /\ k[i] = h[j] /\ k[j] = h[i]
        /\ \A x \in (1..n) \ {i, j} : k[x] = h[x]
    BY DEF Swap, Arrays
  <1>2. Copies(h, e) = Cardinality(S) /\ Copies(k, e) = Cardinality(T)
    BY <1>1 DEF Copies, Arrays
  <1>3. IsFiniteSet(S) /\ Cardinality(S) \in Nat
    <2>1. S \in SUBSET (1..n)
      OBVIOUS
    <2> HIDE DEF S
    <2> QED BY <2>1, PositionsAreFinite
  <1> HIDE DEF k
  <1>4. CASE h[i] = e <=> h[j] = e
    <2>1. S = T
      BY <1>1, <1>4
    <2> QED BY <2>1, <1>2 DEF k
  <1>5. ASSUME NEW a \in {i, j}, NEW b \in {i, j}, i # j, h[a] = e, h[b] # e
        PROVE  Cardinality(T) = Cardinality(S)
    <2>1. T = (S \ {a}) \cup {b} /\ a \in S /\ b \notin S \ {a}
      BY <1>1, <1>5
    <2> HIDE DEF S, T
    <2>2. IsFiniteSet(S \ {a}) /\ Cardinality(S \ {a}) = Cardinality(S) - 1
      BY <1>3, <2>1, FS_RemoveElement
    <2>3. Cardinality(T) = Cardinality(S \ {a}) + 1
      BY <2>1, <2>2, FS_AddElement
    <2> QED BY <1>3, <2>2, <2>3
  <1>6. CASE ~(h[i] = e <=> h[j] = e)
    <2>1. i # j
      BY <1>6
    <2> QED BY <1>2, <1>5, <1>6, <2>1 DEF k
  <1> QED BY <1>4, <1>6

(* The loops only swap elements.                                             *)
LEMMA SwimCopies ==
    ASSUME NEW E, NEW key \in [E -> Int], NEW n \in Nat, NEW heap \in Arrays(n, E),
           NEW k \in 1..n
    PROVE  /\ Swim(key, heap, k) \in Arrays(n, E)
           /\ \A e : Copies(Swim(key, heap, k), e) = Copies(heap, e)
  <1> DEFINE Same(h) == \A e : Copies(h, e) = Copies(heap, e)
             I == {x \in Arrays(n, E) \X (1..n) : Same(x[1])}
  <1>1. ASSUME NEW h \in Arrays(n, E), NEW i \in 1..n, <<h, i>> \in I, Swims(key, h, i)
        PROVE  <<Swap(h, i \div 2, i), i \div 2>> \in I
    <2>1. i \div 2 \in 1..n
      BY <1>1, Halves DEF Swims
    <2>2. Swap(h, i \div 2, i) \in Arrays(n, E) /\ Same(h)
      BY <1>1, <2>1, SwapType
    <2>3. ASSUME NEW e
          PROVE  Copies(Swap(h, i \div 2, i), e) = Copies(heap, e)
      <3>1. Copies(Swap(h, i \div 2, i), e) = Copies(h, e)
        BY <2>1, SwapCopies
      <3> QED BY <3>1, <2>2
    <2>4. Same(Swap(h, i \div 2, i))
      BY <2>3
    <2> HIDE DEF Same
    <2> QED BY <2>1, <2>2, <2>4
  <1>2. <<heap, k>> \in I /\ I \in SUBSET (Arrays(n, E) \X (1..n))
    OBVIOUS
  <1>3. PICK i \in 1..n : <<Swim(key, heap, k), i>> \in I
    <2> HIDE DEF I
    <2> QED BY <1>1, <1>2, SwimLoop
  <1> QED BY <1>3

LEMMA SinkCopies ==
    ASSUME NEW E, NEW key \in [E -> Int], NEW n \in Nat, NEW heap \in Arrays(n, E),
           NEW k \in 1..n
    PROVE  /\ Sink(key, heap, k) \in Arrays(n, E)
           /\ \A e : Copies(Sink(key, heap, k), e) = Copies(heap, e)
  <1> DEFINE Same(h) == \A e : Copies(h, e) = Copies(heap, e)
             I == {x \in Arrays(n, E) \X (1..n) : Same(x[1])}
  <1>1. ASSUME NEW h \in Arrays(n, E), NEW i \in 1..n, <<h, i>> \in I, Sinks(key, h, i)
        PROVE  <<Swap(h, i, Child(key, h, i)), Child(key, h, i)>> \in I
    <2>1. Child(key, h, i) \in 1..n
      BY <1>1, ChildPlace DEF Sinks
    <2>2. Swap(h, i, Child(key, h, i)) \in Arrays(n, E) /\ Same(h)
      BY <1>1, <2>1, SwapType
    <2>3. ASSUME NEW e
          PROVE  Copies(Swap(h, i, Child(key, h, i)), e) = Copies(heap, e)
      <3>1. Copies(Swap(h, i, Child(key, h, i)), e) = Copies(h, e)
        BY <2>1, SwapCopies
      <3> QED BY <3>1, <2>2
    <2>4. Same(Swap(h, i, Child(key, h, i)))
      BY <2>3
    <2> HIDE DEF Same
    <2> QED BY <2>1, <2>2, <2>4
  <1>2. <<heap, k>> \in I /\ I \in SUBSET (Arrays(n, E) \X (1..n))
    OBVIOUS
  <1>3. PICK i \in 1..n : <<Sink(key, heap, k), i>> \in I
    <2> HIDE DEF I
    <2> QED BY <1>1, <1>2, SinkLoop
  <1> QED BY <1>3

(* A sequence is an array of as many elements as it is long.                 *)
LEMMA SeqIsArray ==
    ASSUME NEW E, NEW s \in Seq(E)
    PROVE  Len(s) \in Nat /\ s \in Arrays(Len(s), E)
  BY DEF Arrays

(* Without its last place the array has one copy less of what was there.     *)
LEMMA FrontCopies ==
    ASSUME NEW E, NEW n \in Nat, n > 0, NEW h \in Arrays(n, E)
    PROVE  /\ Front(h) \in Arrays(n - 1, E)
           /\ \A i \in 1..(n - 1) : Front(h)[i] = h[i]
           /\ \A e : Copies(Front(h), e) = Copies(h, e) - (IF e = h[n] THEN 1 ELSE 0)
  <1>1. h \in Seq(E) /\ Len(h) = n /\ n - 1 \in Nat
    BY ArrayIsSeq
  <1>2. Front(h) \in Arrays(n - 1, E) /\ \A i \in 1..(n - 1) : Front(h)[i] = h[i]
    <2>1. /\ Front(h) \in Seq(E) /\ Len(Front(h)) = n - 1
          /\ \A i \in 1..(n - 1) : Front(h)[i] = h[i]
      BY <1>1 DEF Front
    <2> QED BY <2>1, SeqIsArray
  <1>3. ASSUME NEW e
        PROVE  Copies(Front(h), e) = Copies(h, e) - (IF e = h[n] THEN 1 ELSE 0)
    <2> DEFINE S == {i \in 1..n : h[i] = e}
               T == {i \in 1..(n - 1) : Front(h)[i] = e}
    <2>1. Copies(h, e) = Cardinality(S) /\ Copies(Front(h), e) = Cardinality(T)
      BY <1>2 DEF Copies, Arrays
    <2>2. IsFiniteSet(S) /\ Cardinality(S) \in Nat
      <3>1. S \in SUBSET (1..n)
        OBVIOUS
      <3> HIDE DEF S
      <3> QED BY <3>1, PositionsAreFinite
    <2>3. T = S \ {n} /\ (n \in S <=> e = h[n])
      BY <1>2
    <2> HIDE DEF S, T
    <2>4. Cardinality(T) = IF n \in S THEN Cardinality(S) - 1 ELSE Cardinality(S)
      BY <2>2, <2>3, FS_RemoveElement
    <2> QED BY <2>1, <2>2, <2>3, <2>4
  <1> QED BY <1>2, <1>3

(* A place appended is one copy more of what is put there.                   *)
LEMMA AppendCopies ==
    ASSUME NEW E, NEW n \in Nat, NEW h \in Arrays(n, E), NEW x \in E
    PROVE  /\ Append(h, x) \in Arrays(n + 1, E)
           /\ Append(h, x)[n + 1] = x /\ \A i \in 1..n : Append(h, x)[i] = h[i]
           /\ \A e : Copies(Append(h, x), e) = Copies(h, e) + (IF e = x THEN 1 ELSE 0)
  <1>1. h \in Seq(E) /\ Len(h) = n
    BY ArrayIsSeq
  <1> DEFINE k == Append(h, x)
  <1>2. k \in Arrays(n + 1, E) /\ k[n + 1] = x /\ \A i \in 1..n : k[i] = h[i]
    <2>1. k \in Seq(E) /\ Len(k) = n + 1 /\ k[n + 1] = x /\ \A i \in 1..n : k[i] = h[i]
      BY <1>1
    <2> HIDE DEF k
    <2> QED BY <2>1, SeqIsArray
  <1>3. Front(k) = h
    BY <1>1 DEF Front
  <1> HIDE DEF k
  <1>4. ASSUME NEW e PROVE Copies(k, e) = Copies(h, e) + (IF e = x THEN 1 ELSE 0)
    <2>1. n + 1 \in Nat /\ n + 1 > 0 /\ n + 1 - 1 = n
      OBVIOUS
    <2>2. Copies(h, e) = Copies(k, e) - (IF e = x THEN 1 ELSE 0)
      BY <1>2, <1>3, <2>1, FrontCopies
    <2>3. Copies(k, e) \in Nat
      BY <1>2, <2>1, CopiesType
    <2> QED BY <2>2, <2>3
  <1> QED BY <1>2, <1>4 DEF k

-----------------------------------------------------------------------------
(* The operations of the heap: what they add and take                        *)

(* push adds e and nothing else.                                             *)
LEMMA PushCopies ==
    ASSUME NEW E, NEW key \in [E -> Int], NEW n \in Nat, NEW heap \in Arrays(n, E),
           NEW e \in E
    PROVE  /\ Push(key, heap, e) \in Arrays(n + 1, E)
           /\ \A x : Copies(Push(key, heap, e), x) = Copies(heap, x) + (IF x = e THEN 1 ELSE 0)
  <1> DEFINE h == Append(heap, e)
  <1>1. h \in Arrays(n + 1, E) /\ Len(heap) = n /\ n + 1 \in Nat /\ n + 1 \in 1..(n + 1)
    BY AppendCopies, ArrayIsSeq
  <1>2. Push(key, heap, e) = Swim(key, h, n + 1)
    BY <1>1 DEF Push
  <1>3. \A x : Copies(h, x) = Copies(heap, x) + (IF x = e THEN 1 ELSE 0)
    BY AppendCopies
  <1> HIDE DEF h
  <1>4. /\ Swim(key, h, n + 1) \in Arrays(n + 1, E)
        /\ \A x : Copies(Swim(key, h, n + 1), x) = Copies(h, x)
    BY <1>1, SwimCopies
  <1> QED BY <1>2, <1>3, <1>4

(* pop takes the first element and nothing else.                             *)
LEMMA PopCopies ==
    ASSUME NEW E, NEW key \in [E -> Int], NEW n \in Nat, n > 0, NEW heap \in Arrays(n, E)
    PROVE  /\ AfterPop(key, heap) \in Arrays(n - 1, E)
           /\ \A e : Copies(AfterPop(key, heap), e) =
                        Copies(heap, e) - (IF e = Popped(heap) THEN 1 ELSE 0)
  <1>1. Len(heap) = n
    BY ArrayIsSeq
  <1> DEFINE s == Swap(heap, 1, n)
             h == Front(s)
  <1>2. s \in Arrays(n, E) /\ s[n] = Popped(heap) /\ 1 \in 1..n /\ n \in 1..n
    BY SwapType DEF Popped
  <1>3. \A e : Copies(s, e) = Copies(heap, e)
    BY <1>2, SwapCopies
  <1>4. CASE n = 1
    <2>1. Front(heap) \in Arrays(0, E) /\ Len(Front(heap)) = 0
      BY <1>4, FrontCopies, ArrayIsSeq
    <2>2. Front(heap) = <<>>
      BY <2>1, ArrayIsSeq
    <2>3. AfterPop(key, heap) = Front(heap)
      BY <1>1, <1>4, <2>2 DEF AfterPop
    <2> QED BY <1>4, <2>3, FrontCopies DEF Popped
  <1>5. CASE n # 1
    <2>1. AfterPop(key, heap) = Sink(key, h, 1)
      BY <1>1, <1>5 DEF AfterPop
    <2> HIDE DEF s
    <2>2. /\ h \in Arrays(n - 1, E) /\ n - 1 \in Nat /\ 1 \in 1..(n - 1)
          /\ \A e : Copies(h, e) = Copies(s, e) - (IF e = Popped(heap) THEN 1 ELSE 0)
      BY <1>2, <1>5, FrontCopies
    <2> HIDE DEF h
    <2>3. Sink(key, h, 1) \in Arrays(n - 1, E) /\ \A e : Copies(Sink(key, h, 1), e) = Copies(h, e)
      BY <2>2, SinkCopies
    <2> QED BY <1>3, <2>1, <2>2, <2>3
  <1> QED BY <1>4, <1>5

-----------------------------------------------------------------------------
(* The heap property                                                         *)

(* The element at j does not come before its parent.                         *)
InOrder(key, h, j) == key[h[j \div 2]] =< key[h[j]]

(* What one element at i can disturb: its order with its parent and with its *)
(* children, but not that of its parent with its children.                   *)
OrderedAround(key, h, n, i) ==
    /\ \A j \in 2..n : j # i /\ j \div 2 # i => InOrder(key, h, j)
    /\ \A j \in 2..n : j \div 2 = i /\ i > 1 => key[h[i \div 2]] =< key[h[j]]

(* After a step of swim only the order of i with its parent is left to see.  *)
OrderedBelow(key, h, n, i) ==
    /\ OrderedAround(key, h, n, i)
    /\ \A j \in 2..n : j # i => InOrder(key, h, j)

LEMMA SwimStepOrders ==
    ASSUME NEW E, NEW key \in [E -> Int], NEW n \in Nat, NEW h \in Arrays(n, E),
           NEW i \in 1..n, OrderedAround(key, h, n, i), Swims(key, h, i)
    PROVE  OrderedBelow(key, Swap(h, i \div 2, i), n, i \div 2)
  <1> DEFINE p == i \div 2
             s == Swap(h, p, i)
             v == [j \in 1..n |-> key[h[j]]]
             w == [j \in 1..n |-> key[s[j]]]
  <1>1. p \in 1..n /\ p < i /\ i > 1
    BY Halves DEF Swims
  <1>2. /\ s \in Arrays(n, E) /\ s[p] = h[i] /\ s[i] = h[p]
        /\ \A j \in (1..n) \ {p, i} : s[j] = h[j]
    <2> HIDE DEF p
    <2> QED BY <1>1, SwapType
  <1>3. \A j \in 2..n : j \div 2 \in 1..n /\ j \div 2 < j
    BY Halves
  <1>4. \A j \in 1..n : v[j] \in Int /\ w[j] \in Int
    BY <1>2 DEF Arrays
  <1>5. v[p] > v[i] /\ w[p] = v[i] /\ w[i] = v[p] /\ \A j \in (1..n) \ {p, i} : w[j] = v[j]
    BY <1>1, <1>2 DEF Swims
  <1>6. /\ \A j \in 2..n : j # i /\ j \div 2 # i => v[j \div 2] =< v[j]
        /\ \A j \in 2..n : j \div 2 = i => v[p] =< v[j]
    BY <1>1, <1>3 DEF OrderedAround, InOrder
  <1> HIDE DEF v, w, s
  <1>7. ASSUME NEW j \in 2..n, j # p PROVE w[j \div 2] =< w[j]
    <2>1. CASE j = i
      BY <1>1, <1>4, <1>5, <2>1
    <2>2. CASE j # i /\ j \div 2 = i
      BY <1>1, <1>3, <1>4, <1>5, <1>6, <1>7, <2>2
    <2>3. CASE j # i /\ j \div 2 = p
      <3>1. v[p] =< v[j] /\ w[j] = v[j] /\ w[p] = v[i]
        BY <1>1, <1>5, <1>6, <1>7, <2>3
      <3> QED BY <1>1, <1>4, <1>5, <2>3, <3>1
    <2>4. CASE j # i /\ j \div 2 # i /\ j \div 2 # p
      BY <1>3, <1>5, <1>6, <1>7, <2>4
    <2> QED BY <2>1, <2>2, <2>3, <2>4
  <1>8. ASSUME NEW j \in 2..n, j \div 2 = p, p > 1 PROVE w[p \div 2] =< w[j]
    <2>1. p \div 2 \in 1..n /\ p \div 2 < p /\ p \in 2..n
      BY <1>1, <1>3, <1>8
    <2>2. v[p \div 2] =< v[p] /\ w[p \div 2] = v[p \div 2]
      BY <1>1, <1>5, <1>6, <2>1
    <2>3. CASE j = i
      BY <1>5, <2>2, <2>3
    <2>4. CASE j # i
      <3>1. v[p] =< v[j] /\ w[j] = v[j]
        BY <1>1, <1>3, <1>5, <1>6, <1>8, <2>4
      <3> QED BY <1>4, <1>1, <2>1, <2>2, <3>1
    <2> QED BY <2>3, <2>4
  <1>9. \A j \in 1..n : w[j] = key[s[j]]
    BY DEF w
  <1>10. OrderedAround(key, s, n, p)
    BY <1>1, <1>3, <1>7, <1>8, <1>9 DEF OrderedAround, InOrder
  <1>11. \A j \in 2..n : j # p => InOrder(key, s, j)
    BY <1>3, <1>7, <1>9 DEF InOrder
  <1> QED BY <1>10, <1>11 DEF OrderedBelow, s

(* swim repairs the heap, unless it has nothing to do: then what is out of   *)
(* order is the element and its children.                                    *)
LEMMA SwimOrders ==
    ASSUME NEW E, NEW key \in [E -> Int], NEW n \in Nat, NEW heap \in Arrays(n, E),
           NEW k \in 1..n, OrderedAround(key, heap, n, k)
    PROVE  \/ HeapOrdered(key, Swim(key, heap, k))
           \/ Swim(key, heap, k) = heap /\ ~Swims(key, heap, k)
  <1> DEFINE B == Arrays(n, E) \X (1..n)
             I == {x \in B : x = <<heap, k>> \/ OrderedBelow(key, x[1], n, x[2])}
             r == Swim(key, heap, k)
  <1>1. ASSUME NEW h \in Arrays(n, E), NEW i \in 1..n, <<h, i>> \in I, Swims(key, h, i)
        PROVE  <<Swap(h, i \div 2, i), i \div 2>> \in I
    <2>1. i \div 2 \in 1..n
      BY <1>1, Halves DEF Swims
    <2>2. Swap(h, i \div 2, i) \in Arrays(n, E)
      BY <2>1, SwapType
    <2>3. OrderedAround(key, h, n, i)
      BY <1>1 DEF OrderedBelow
    <2>4. OrderedBelow(key, Swap(h, i \div 2, i), n, i \div 2)
      BY <1>1, <2>3, SwimStepOrders
    <2> QED BY <2>1, <2>2, <2>4
  <1>2. <<heap, k>> \in I /\ I \in SUBSET (Arrays(n, E) \X (1..n))
    OBVIOUS
  <1>3. PICK i \in 1..n : <<r, i>> \in I /\ ~Swims(key, r, i)
    <2> HIDE DEF I
    <2> QED BY <1>1, <1>2, SwimLoop
  <1>4. CASE <<r, i>> = <<heap, k>>
    BY <1>3, <1>4
  <1>5. CASE OrderedBelow(key, r, n, i)
    <2>1. r \in Arrays(n, E) /\ Len(r) = n
      BY SwimCopies, ArrayIsSeq
    <2> HIDE DEF r
    <2>2. ASSUME NEW j \in 2..n PROVE InOrder(key, r, j)
      <3>1. CASE j # i
        BY <1>5, <3>1 DEF OrderedBelow
      <3>2. CASE j = i
        <4>1. j \div 2 \in 1..n /\ key[r[j \div 2]] \in Int /\ key[r[j]] \in Int
          BY <2>1, Halves DEF Arrays
        <4>2. ~(key[r[j \div 2]] > key[r[j]])
          BY <1>3, <3>2 DEF Swims
        <4> QED BY <4>1, <4>2 DEF InOrder
      <3> QED BY <3>1, <3>2
    <2> QED BY <2>1, <2>2 DEF HeapOrdered, InOrder, r
  <1> QED BY <1>3, <1>4, <1>5

(* The heap property of the positions whose parent is lo or after it.        *)
OrderedFrom(key, h, n, lo) == \A j \in 2..n : j \div 2 >= lo => InOrder(key, h, j)

(* There, what sink has left to see is the order of i with its children.     *)
OrderedAbove(key, h, n, lo, i) ==
    /\ i >= lo
    /\ \A j \in 2..n : j \div 2 >= lo /\ j \div 2 # i => InOrder(key, h, j)
    /\ \A j \in 2..n : j \div 2 = i /\ i \div 2 >= lo => key[h[i \div 2]] =< key[h[j]]

LEMMA SinkStepOrders ==
    ASSUME NEW E, NEW key \in [E -> Int], NEW n \in Nat, NEW h \in Arrays(n, E),
           NEW lo \in Nat \ {0}, NEW i \in 1..n, OrderedAbove(key, h, n, lo, i),
           Sinks(key, h, i)
    PROVE  OrderedAbove(key, Swap(h, i, Child(key, h, i)), n, lo, Child(key, h, i))
  <1> DEFINE c == Child(key, h, i)
             s == Swap(h, i, c)
             v == [j \in 1..n |-> key[h[j]]]
             w == [j \in 1..n |-> key[s[j]]]
  <1>1. /\ c \in 1..n /\ c > i /\ c \div 2 = i /\ c \in 2..n /\ v[i] > v[c]
    <2>1. Len(h) = n /\ 2 * i =< n
      BY ArrayIsSeq DEF Sinks
    <2>2. c \in {2 * i, 2 * i + 1} /\ c \in 1..n /\ c > i
      BY <2>1, ChildPlace
    <2>3. v[i] > v[c]
      BY <2>2 DEF Sinks
    <2> HIDE DEF c, v
    <2> QED BY <2>2, <2>3
  <1>2. \A j \in 1..n : v[j] \in Int
    BY DEF Arrays
  <1>3. \A j \in 2..n : j \div 2 = i => v[c] =< v[j]
    <2> SUFFICES ASSUME NEW j \in 2..n, j \div 2 = i PROVE v[c] =< v[j]
      OBVIOUS
    <2>1. Len(h) = n
      BY ArrayIsSeq
    <2>2. j = 2 * i \/ j = 2 * i + 1
      OBVIOUS
    <2>3. c = IF 2 * i < n /\ v[2 * i] > v[2 * i + 1] THEN 2 * i + 1 ELSE 2 * i
      BY <2>1 DEF Child
    <2> HIDE DEF c, v
    <2> QED BY <1>2, <2>2, <2>3
  <1>4. /\ s \in Arrays(n, E) /\ s[c] = h[i] /\ s[i] = h[c]
        /\ \A j \in (1..n) \ {i, c} : s[j] = h[j]
    <2>1. c \in 1..n /\ c # i
      BY <1>1
    <2> HIDE DEF c
    <2> QED BY <2>1, SwapType
  <1>5. w[c] = v[i] /\ w[i] = v[c] /\ \A j \in (1..n) \ {i, c} : w[j] = v[j]
    <2> HIDE DEF c, s
    <2> QED BY <1>1, <1>4
  <1>6. \A j \in 2..n : j \div 2 \in 1..n /\ j \div 2 < j
    BY Halves
  <1>7. /\ i >= lo
        /\ \A j \in 2..n : j \div 2 >= lo /\ j \div 2 # i => v[j \div 2] =< v[j]
        /\ \A j \in 2..n : j \div 2 = i /\ i \div 2 >= lo => v[i \div 2] =< v[j]
    BY <1>6 DEF OrderedAbove, InOrder
  <1>8. \A j \in 1..n : w[j] = key[s[j]]
    OBVIOUS
  <1> HIDE DEF v, w, s, c
  <1>9. ASSUME NEW j \in 2..n, j \div 2 >= lo, j \div 2 # c PROVE w[j \div 2] =< w[j]
    <2>1. CASE j = c
      BY <1>1, <1>2, <1>5, <2>1
    <2>2. CASE j # c /\ j \div 2 = i
      BY <1>1, <1>3, <1>5, <1>6, <2>2
    <2>3. CASE j = i
      <3>1. i \div 2 \in 1..n /\ i \div 2 \notin {i, c} /\ v[i \div 2] =< v[c]
        BY <1>1, <1>6, <1>7, <1>9, <2>3
      <3> QED BY <1>5, <2>3, <3>1
    <2>4. CASE j # c /\ j # i /\ j \div 2 # i
      BY <1>5, <1>6, <1>7, <1>9, <2>4
    <2> QED BY <2>1, <2>2, <2>3, <2>4
  <1>10. ASSUME NEW j \in 2..n, j \div 2 = c, c \div 2 >= lo PROVE w[c \div 2] =< w[j]
    <2>1. j > c /\ c > i
      BY <1>1, <1>6, <1>10
    <2>2. v[c] =< v[j] /\ w[j] = v[j]
      BY <1>1, <1>5, <1>7, <1>10, <2>1
    <2> QED BY <1>1, <1>5, <2>2
  <1>11. c >= lo
    BY <1>1, <1>7
  <1> QED BY <1>1, <1>6, <1>8, <1>9, <1>10, <1>11 DEF OrderedAbove, InOrder, s, c

(* sink repairs the part of the heap that begins at lo.                      *)
LEMMA SinkOrders ==
    ASSUME NEW E, NEW key \in [E -> Int], NEW n \in Nat, NEW heap \in Arrays(n, E),
           NEW lo \in Nat \ {0}, NEW k \in 1..n, OrderedAbove(key, heap, n, lo, k)
    PROVE  OrderedFrom(key, Sink(key, heap, k), n, lo)
  <1> DEFINE B == Arrays(n, E) \X (1..n)
             I == {x \in B : OrderedAbove(key, x[1], n, lo, x[2])}
             r == Sink(key, heap, k)
  <1>1. ASSUME NEW h \in Arrays(n, E), NEW i \in 1..n, <<h, i>> \in I, Sinks(key, h, i)
        PROVE  <<Swap(h, i, Child(key, h, i)), Child(key, h, i)>> \in I
    <2>1. Child(key, h, i) \in 1..n
      BY <1>1, ChildPlace DEF Sinks
    <2>2. Swap(h, i, Child(key, h, i)) \in Arrays(n, E)
      BY <2>1, SwapType
    <2>3. OrderedAbove(key, h, n, lo, i)
      BY <1>1
    <2>4. OrderedAbove(key, Swap(h, i, Child(key, h, i)), n, lo, Child(key, h, i))
      BY <1>1, <2>3, SinkStepOrders
    <2> QED BY <2>1, <2>2, <2>4
  <1>2. <<heap, k>> \in I /\ I \in SUBSET (Arrays(n, E) \X (1..n))
    OBVIOUS
  <1>3. PICK i \in 1..n : <<r, i>> \in I /\ ~Sinks(key, r, i)
    <2> HIDE DEF I
    <2> QED BY <1>1, <1>2, SinkLoop
  <1>4. r \in Arrays(n, E) /\ Len(r) = n /\ OrderedAbove(key, r, n, lo, i)
    BY <1>3, ArrayIsSeq
  <1> HIDE DEF r
  <1>5. \A j \in 1..n : key[r[j]] \in Int
    BY <1>4 DEF Arrays
  <1>6. ASSUME NEW j \in 2..n, j \div 2 >= lo PROVE InOrder(key, r, j)
    <2>1. CASE j \div 2 # i
      BY <1>4, <1>6, <2>1 DEF OrderedAbove
    <2>2. CASE j \div 2 = i
      <3>1. (j = 2 * i \/ j = 2 * i + 1) /\ 2 * i =< n
        BY <2>2
      <3>2. ~(key[r[i]] > key[r[Child(key, r, i)]])
        BY <1>3, <1>4, <3>1 DEF Sinks
      <3>3. Child(key, r, i) =
              IF 2 * i < n /\ key[r[2 * i]] > key[r[2 * i + 1]] THEN 2 * i + 1 ELSE 2 * i
        BY <1>4 DEF Child
      <3> QED BY <1>5, <2>2, <3>1, <3>2, <3>3 DEF InOrder
    <2> QED BY <2>1, <2>2
  <1> QED BY <1>6 DEF OrderedFrom, r

-----------------------------------------------------------------------------
(* The operations of the heap: its order                                     *)

LEMMA HeapIsOrderedFromTop ==
    ASSUME NEW E, NEW key \in [E -> Int], NEW n \in Nat, NEW h \in Arrays(n, E)
    PROVE  HeapOrdered(key, h) <=> OrderedFrom(key, h, n, 1)
  <1>1. Len(h) = n /\ \A j \in 2..n : j \div 2 >= 1
    BY ArrayIsSeq
  <1> QED BY <1>1 DEF HeapOrdered, OrderedFrom, InOrder

(* push keeps the heap ordered: the new element has no children.             *)
LEMMA PushOrders ==
    ASSUME NEW E, NEW key \in [E -> Int], NEW n \in Nat, NEW heap \in Arrays(n, E),
           NEW e \in E, HeapOrdered(key, heap)
    PROVE  HeapOrdered(key, Push(key, heap, e))
  <1> DEFINE h == Append(heap, e)
             k == n + 1
  <1>1. /\ h \in Arrays(k, E) /\ Len(heap) = n /\ k \in Nat /\ k \in 1..k
        /\ \A i \in 1..n : h[i] = heap[i]
    BY AppendCopies, ArrayIsSeq
  <1>2. Push(key, heap, e) = Swim(key, h, k)
    BY <1>1 DEF Push
  <1>3. \A j \in 2..k : j \div 2 \in 1..n /\ j \div 2 < k /\ (j # k => j \in 2..n)
    OBVIOUS
  <1>4. \A j \in 2..k : j # k => InOrder(key, h, j)
    BY <1>1, <1>3 DEF HeapOrdered, InOrder
  <1>5. OrderedAround(key, h, k, k)
    <2>1. \A j \in 2..k : j \div 2 # k
      BY <1>3
    <2> HIDE DEF h, k
    <2> QED BY <1>4, <2>1 DEF OrderedAround
  <1> HIDE DEF h
  <1>6. CASE HeapOrdered(key, Swim(key, h, k))
    BY <1>2, <1>6
  <1>7. CASE Swim(key, h, k) = h /\ ~Swims(key, h, k)
    <2>1. ASSUME NEW j \in 2..k PROVE InOrder(key, h, j)
      <3>1. key[h[j \div 2]] \in Int /\ key[h[j]] \in Int
        BY <1>1, <1>3 DEF Arrays
      <3>2. CASE j = k
        BY <1>7, <3>1, <3>2 DEF Swims, InOrder
      <3> QED BY <1>4, <3>2
    <2>2. Len(h) = k
      BY <1>1, ArrayIsSeq
    <2> HIDE DEF k
    <2> QED BY <1>2, <1>7, <2>1, <2>2 DEF HeapOrdered, InOrder
  <1> HIDE DEF k
  <1>8. HeapOrdered(key, Swim(key, h, k)) \/ (Swim(key, h, k) = h /\ ~Swims(key, h, k))
    BY <1>1, <1>5, SwimOrders
  <1> QED BY <1>6, <1>7, <1>8

(* What is out of order when an element of a heap is replaced by the last    *)
(* one: nothing but that element.                                            *)
LEMMA ReplaceOrders ==
    ASSUME NEW E, NEW key \in [E -> Int], NEW n \in Nat, NEW heap \in Arrays(n, E),
           HeapOrdered(key, heap), NEW i \in 1..(n - 1)
    PROVE  /\ Front(Swap(heap, i, n)) \in Arrays(n - 1, E)
           /\ OrderedAround(key, Front(Swap(heap, i, n)), n - 1, i)
  <1> DEFINE s == Swap(heap, i, n)
             h == Front(s)
             m == n - 1
  <1>1. n > 0 /\ m \in Nat /\ n \in 1..n /\ i \in 1..n /\ m < n
    OBVIOUS
  <1>2. s \in Arrays(n, E) /\ \A j \in (1..n) \ {i, n} : s[j] = heap[j]
    BY <1>1, SwapType
  <1>3. h \in Arrays(m, E) /\ \A j \in 1..m : h[j] = s[j]
    <2> HIDE DEF s
    <2> QED BY <1>1, <1>2, FrontCopies
  <1>4. \A j \in (1..m) \ {i} : h[j] = heap[j]
    <2> HIDE DEF s, h
    <2> QED BY <1>1, <1>2, <1>3
  <1>5. \A j \in 2..n : key[heap[j \div 2]] =< key[heap[j]]
    BY ArrayIsSeq DEF HeapOrdered
  <1>6. \A j \in 2..m : j \div 2 \in 1..m /\ j \div 2 < j /\ j \in 2..n
    BY Halves
  <1>7. \A j \in 1..n : key[heap[j]] \in Int
    BY DEF Arrays
  <1> HIDE DEF s, h
  <1>8. \A j \in 2..m : j # i /\ j \div 2 # i => InOrder(key, h, j)
    BY <1>4, <1>5, <1>6 DEF InOrder
  <1>9. ASSUME NEW j \in 2..m, j \div 2 = i, i > 1
        PROVE  key[h[i \div 2]] =< key[h[j]]
    <2>1. i \in 2..m /\ i \div 2 \in 1..m /\ i \div 2 # i /\ j # i
      BY <1>6, <1>9
    <2>2. key[heap[i \div 2]] =< key[heap[i]] /\ key[heap[i]] =< key[heap[j]]
      BY <1>5, <1>6, <1>9, <2>1
    <2>3. h[i \div 2] = heap[i \div 2] /\ h[j] = heap[j]
      BY <1>4, <2>1
    <2> QED BY <1>1, <1>6, <1>7, <2>1, <2>2, <2>3
  <1> QED BY <1>3, <1>8, <1>9 DEF OrderedAround, h, s

(* What is out of order around a place that swim leaves alone is out of      *)
(* order with its children.                                                  *)
LEMMA AroundIsAbove ==
    ASSUME NEW E, NEW key \in [E -> Int], NEW n \in Nat, NEW h \in Arrays(n, E),
           NEW i \in 1..n, OrderedAround(key, h, n, i), ~Swims(key, h, i)
    PROVE  OrderedAbove(key, h, n, 1, i)
  <1>1. \A j \in 1..n : key[h[j]] \in Int
    BY DEF Arrays
  <1>2. i > 1 => i \div 2 \in 1..n /\ key[h[i \div 2]] =< key[h[i]]
    BY <1>1 DEF Swims
  <1>3. \A j \in 2..n : j \div 2 # i => InOrder(key, h, j)
    BY <1>2 DEF OrderedAround, InOrder
  <1>4. \A j \in 2..n : j \div 2 = i /\ i \div 2 >= 1 => key[h[i \div 2]] =< key[h[j]]
    BY DEF OrderedAround
  <1> QED BY <1>3, <1>4 DEF OrderedAbove

(* pop keeps the heap ordered.                                               *)
LEMMA PopOrders ==
    ASSUME NEW E, NEW key \in [E -> Int], NEW n \in Nat, n > 0, NEW heap \in Arrays(n, E),
           HeapOrdered(key, heap)
    PROVE  HeapOrdered(key, AfterPop(key, heap))
  <1>1. Len(heap) = n
    BY ArrayIsSeq
  <1>2. CASE n = 1
    BY <1>1, <1>2 DEF AfterPop, HeapOrdered
  <1>3. CASE n # 1
    <2> DEFINE h == Front(Swap(heap, 1, n))
               m == n - 1
    <2>1. AfterPop(key, heap) = Sink(key, h, 1) /\ m \in Nat /\ 1 \in 1..m
      BY <1>1, <1>3 DEF AfterPop
    <2>2. h \in Arrays(m, E) /\ OrderedAround(key, h, m, 1)
      BY <2>1, ReplaceOrders
    <2> HIDE DEF h, m
    <2>3. OrderedAbove(key, h, m, 1, 1)
      BY <2>1, <2>2, AroundIsAbove DEF Swims
    <2>4. OrderedFrom(key, Sink(key, h, 1), m, 1)
      BY <2>1, <2>2, <2>3, SinkOrders
    <2>5. Sink(key, h, 1) \in Arrays(m, E)
      BY <2>1, <2>2, SinkCopies
    <2> QED BY <2>1, <2>4, <2>5, HeapIsOrderedFromTop
  <1> QED BY <1>2, <1>3

(* The first element of a heap is least: were i the first position with a    *)
(* smaller one, its parent would hold a smaller one as well.                 *)
LEMMA FirstIsLeast ==
    ASSUME NEW E, NEW key \in [E -> Int], NEW n \in Nat, NEW heap \in Arrays(n, E),
           HeapOrdered(key, heap), NEW i \in 1..n
    PROVE  key[Popped(heap)] =< key[heap[i]]
  <1> DEFINE v == [j \in 1..n |-> key[heap[j]]]
             Bad == {j \in 1..n : v[j] < v[1]}
  <1>1. \A j \in 1..n : v[j] \in Int
    BY DEF Arrays
  <1>2. \A j \in 2..n : j \div 2 \in 1..n /\ j \div 2 < j /\ v[j \div 2] =< v[j]
    BY Halves, ArrayIsSeq DEF HeapOrdered
  <1>3. SUFFICES ASSUME Bad # {} PROVE FALSE
    BY <1>1 DEF Popped
  <1>4. PICK j \in Bad : \A k \in Bad : j =< k
    <2>1. Bad \in SUBSET Nat
      OBVIOUS
    <2> HIDE DEF Bad
    <2> QED BY <1>3, <2>1, NatMin
  <1> HIDE DEF v
  <1>5. j \in 2..n
    BY <1>1
  <1>6. j \div 2 \in Bad
    BY <1>1, <1>2, <1>5
  <1> QED BY <1>2, <1>4, <1>5, <1>6

(* FirstIndex finds a place of an element that is there.                     *)
LEMMA FirstIndexType ==
    ASSUME NEW E, NEW n \in Nat, NEW h \in Arrays(n, E), NEW e, Contains(h, e)
    PROVE  FirstIndex(h, e) \in 1..n /\ h[FirstIndex(h, e)] = e
  <1> DEFINE At == {i \in 1..n : h[i] = e}
  <1>1. At # {} /\ At \in SUBSET Nat
    BY ArrayIsSeq DEF Contains
  <1>2. PICK i \in At : \A j \in At : i =< j
    <2> HIDE DEF At
    <2> QED BY <1>1, NatMin
  <1>3. i \in 1..n /\ h[i] = e /\ \A j \in 1..(i - 1) : h[j] # e
    BY <1>2
  <1>4. DOMAIN h = 1..n
    BY DEF Arrays
  <1> QED BY <1>3, <1>4 DEF FirstIndex

(* What the array contains it has copies of.                                 *)
LEMMA ContainsCopies ==
    ASSUME NEW E, NEW n \in Nat, NEW h \in Arrays(n, E), NEW e
    PROVE  Contains(h, e) <=> Copies(h, e) > 0
  <1>1. Len(h) = n
    BY ArrayIsSeq
  <1>2. Copies(h, e) \in Nat /\ (Copies(h, e) # 0 <=> \E i \in 1..n : h[i] = e)
    BY CopiesType
  <1> QED BY <1>1, <1>2 DEF Contains

(* remove takes one e, if there is one, and nothing else, and keeps the heap *)
(* ordered. The last element can belong above its new place or below it.     *)
LEMMA RemoveKeepsHeap ==
    ASSUME NEW E, NEW key \in [E -> Int], NEW n \in Nat, NEW heap \in Arrays(n, E),
           NEW e, Contains(heap, e)
    PROVE  LET r == Remove1(key, heap, e) IN
           /\ n > 0 /\ r \in Arrays(n - 1, E)
           /\ \A x : Copies(r, x) = Copies(heap, x) - (IF x = e THEN 1 ELSE 0)
           /\ HeapOrdered(key, heap) => HeapOrdered(key, r)
  <1> DEFINE i == FirstIndex(heap, e)
             s == Swap(heap, i, n)
             h == Front(s)
             m == n - 1
             r == Remove1(key, heap, e)
  <1>1. i \in 1..n /\ heap[i] = e /\ n > 0 /\ n \in 1..n /\ m \in Nat /\ Len(heap) = n
    BY FirstIndexType, ArrayIsSeq
  <1>2. s \in Arrays(n, E) /\ s[n] = e /\ \A x : Copies(s, x) = Copies(heap, x)
    <2> HIDE DEF i
    <2> QED BY <1>1, SwapType, SwapCopies
  <1>3. /\ h \in Arrays(m, E) /\ Len(h) = m
        /\ \A x : Copies(h, x) = Copies(heap, x) - (IF x = e THEN 1 ELSE 0)
    <2> HIDE DEF s
    <2> QED BY <1>1, <1>2, FrontCopies, ArrayIsSeq
  <1>4. r = IF i =< m THEN Sink(key, Swim(key, h, i), i) ELSE h
    BY <1>1, <1>3 DEF Remove1
  <1> HIDE DEF r
  <1>5. CASE i = n
    <2>1. r = h
      BY <1>1, <1>4, <1>5
    <2>2. ASSUME HeapOrdered(key, heap) PROVE HeapOrdered(key, h)
      <3>1. s = heap
        BY <1>1, <1>5 DEF Swap, Arrays
      <3>2. \A j \in 1..m : h[j] = heap[j]
        <4> HIDE DEF s
        <4> QED BY <1>1, <3>1, FrontCopies
      <3> HIDE DEF h
      <3>3. \A j \in 2..m : j \div 2 \in 1..m /\ j \in 1..m /\ j \in 2..n
        OBVIOUS
      <3> QED BY <1>1, <1>3, <2>2, <3>2, <3>3 DEF HeapOrdered
    <2> QED BY <1>1, <1>3, <2>1, <2>2 DEF r
  <1>6. CASE i # n
    <2>1. i \in 1..m
      BY <1>1, <1>6
    <2> DEFINE u == Swim(key, h, i)
    <2>2. r = Sink(key, u, i)
      BY <1>4, <2>1
    <2> HIDE DEF i, h, s
    <2>3. u \in Arrays(m, E) /\ \A x : Copies(u, x) = Copies(h, x)
      BY <1>1, <1>3, <2>1, SwimCopies
    <2>4. Sink(key, u, i) \in Arrays(m, E) /\ \A x : Copies(Sink(key, u, i), x) = Copies(u, x)
      <3> HIDE DEF u
      <3> QED BY <1>1, <2>1, <2>3, SinkCopies
    <2>5. ASSUME HeapOrdered(key, heap) PROVE HeapOrdered(key, r)
      <3>1. OrderedAround(key, h, m, i)
        <4>1. i \in 1..(n - 1)
          BY <2>1
        <4> QED BY <4>1, <2>5, ReplaceOrders DEF h, s
      <3>2. HeapOrdered(key, u) \/ (u = h /\ ~Swims(key, h, i))
        BY <1>1, <1>3, <2>1, <3>1, SwimOrders
      <3> HIDE DEF u
      <3>3. OrderedAbove(key, u, m, 1, i)
        <4>1. CASE u = h /\ ~Swims(key, h, i)
          BY <1>1, <1>3, <2>1, <3>1, <4>1, AroundIsAbove
        <4>2. CASE HeapOrdered(key, u)
          <5>1. \A j \in 2..m : InOrder(key, u, j)
            BY <1>1, <2>3, <4>2, ArrayIsSeq DEF HeapOrdered, InOrder
          <5>2. \A j \in 1..m : key[u[j]] \in Int
            BY <2>3 DEF Arrays
          <5>3. ~Swims(key, u, i)
            <6>1. i > 1 => i \in 2..m /\ i \div 2 \in 1..m
              BY <2>1
            <6> QED BY <5>1, <5>2, <6>1, <2>1 DEF Swims, InOrder
          <5>4. ASSUME NEW j \in 2..m, j \div 2 = i, i > 1
                PROVE  key[u[i \div 2]] =< key[u[j]]
            <6>1. i \in 2..m /\ i \div 2 \in 1..m /\ j \in 1..m
              BY <2>1, <5>4
            <6>2. key[u[i \div 2]] =< key[u[i]] /\ key[u[i]] =< key[u[j]]
              BY <5>1, <5>4, <6>1 DEF InOrder
            <6> QED BY <2>1, <5>2, <6>1, <6>2
          <5>5. OrderedAround(key, u, m, i)
            BY <5>1, <5>4 DEF OrderedAround
          <5> QED BY <1>1, <2>1, <2>3, <5>3, <5>5, AroundIsAbove
        <4> QED BY <3>2, <4>1, <4>2
      <3>4. OrderedFrom(key, r, m, 1)
        BY <1>1, <2>1, <2>2, <2>3, <3>3, SinkOrders
      <3> QED BY <1>1, <2>2, <2>4, <3>4, HeapIsOrderedFromTop
    <2> QED BY <1>1, <1>3, <2>2, <2>3, <2>4, <2>5 DEF r
  <1> QED BY <1>5, <1>6

(* removeAll takes every e and nothing else, and keeps the heap ordered.     *)
LEMMA RemoveAllKeepsHeap ==
    ASSUME NEW E, NEW key \in [E -> Int], NEW heap \in Seq(E), NEW e
    PROVE  LET r == RemoveAll(key, heap, e) IN
           /\ r \in Seq(E)
           /\ \A x : Copies(r, x) = IF x = e THEN 0 ELSE Copies(heap, x)
           /\ HeapOrdered(key, heap) => HeapOrdered(key, r)
  <1> DEFINE D == Seq(E)
             Goes(h) == Len(Remove1(key, h, e)) < Len(h)
             Stop == {h \in D : ~Goes(h)}
             next == [h \in D |-> IF Goes(h) THEN Remove1(key, h, e) ELSE h]
             base == [h \in D |-> h]
             mu == [h \in D |-> Len(h)]
             G(f) == [h \in D |-> IF Goes(h) THEN f[Remove1(key, h, e)] ELSE h]
             left == CHOOSE f : f = G(f)
             Others(h) == \A x : x # e => Copies(h, x) = Copies(heap, x)
             I == {h \in D : Others(h) /\ (HeapOrdered(key, heap) => HeapOrdered(key, h))}
  <1>1. RemoveAll(key, heap, e) = left[heap]
    <2>1. DOMAIN key = E
      OBVIOUS
    <2> QED BY <2>1 DEF RemoveAll
  <1>2. ASSUME NEW h \in D
        PROVE  /\ Goes(h) <=> Contains(h, e)
               /\ Goes(h) => /\ Remove1(key, h, e) \in D
                             /\ Others(h) => Others(Remove1(key, h, e))
                             /\ HeapOrdered(key, h) => HeapOrdered(key, Remove1(key, h, e))
    <2> DEFINE n == Len(h)
               r == Remove1(key, h, e)
    <2>1. n \in Nat /\ h \in Arrays(n, E)
      BY SeqIsArray
    <2>2. CASE ~Contains(h, e)
      BY <2>1, <2>2 DEF Remove1
    <2>3. CASE Contains(h, e)
      <3> HIDE DEF n
      <3>1. /\ n > 0 /\ r \in Arrays(n - 1, E)
            /\ \A x : Copies(r, x) = Copies(h, x) - (IF x = e THEN 1 ELSE 0)
            /\ HeapOrdered(key, h) => HeapOrdered(key, r)
        BY <2>1, <2>3, RemoveKeepsHeap
      <3>2. r \in Seq(E) /\ Len(r) = n - 1 /\ n - 1 < n
        BY <2>1, <3>1, ArrayIsSeq
      <3>3. ASSUME NEW x, x # e PROVE Copies(r, x) = Copies(h, x)
        <4>1. Copies(h, x) \in Nat
          BY <2>1, CopiesType
        <4> HIDE DEF r
        <4> QED BY <3>1, <3>3, <4>1
      <3> HIDE DEF r
      <3> QED BY <2>3, <3>1, <3>2, <3>3 DEF r, n
    <2> QED BY <2>2, <2>3
  <1> HIDE DEF Goes, Others
  <1>3. Falls(D, Stop, next, mu)
    <2>1. Stop \in SUBSET D /\ mu \in [D -> Nat]
      OBVIOUS
    <2>2. next \in [D -> D]
      BY <1>2
    <2>3. ASSUME NEW h \in D \ Stop PROVE mu[next[h]] < mu[h]
      <3>1. Goes(h) /\ next[h] = Remove1(key, h, e) /\ Remove1(key, h, e) \in D
        BY <1>2
      <3>2. Len(Remove1(key, h, e)) < Len(h)
        BY <3>1 DEF Goes
      <3> QED BY <3>1, <3>2
    <2> HIDE DEF Stop, next, mu, D
    <2> QED BY <2>1, <2>2, <2>3 DEF Falls
  <1>4. PICK f \in [D -> D] : Repeats(f, D, Stop, base, next)
    <2>1. base \in [D -> D]
      OBVIOUS
    <2> HIDE DEF Stop, next, base, mu, D
    <2> QED BY <1>3, <2>1, LoopExists
  <1>5. f = G(f)
    <2>1. ASSUME NEW h \in D
          PROVE  f[h] = IF Goes(h) THEN f[Remove1(key, h, e)] ELSE h
      BY <1>4 DEF Repeats
    <2> QED BY <2>1
  <1>6. left = G(left)
    <2> HIDE DEF G
    <2> QED BY <1>5
  <1>7. Repeats(left, D, Stop, base, next)
    <2> SUFFICES ASSUME NEW h \in D
                 PROVE  left[h] = IF h \in Stop THEN base[h] ELSE left[next[h]]
      BY DEF Repeats
    <2>1. left[h] = IF Goes(h) THEN left[Remove1(key, h, e)] ELSE h
      <3> HIDE DEF left
      <3> QED BY <1>6
    <2> HIDE DEF left
    <2> QED BY <2>1
  <1>8. Keeps(I, Stop, next)
    <2> SUFFICES ASSUME NEW h \in I \ Stop PROVE next[h] \in I
      BY DEF Keeps
    <2>1. h \in D /\ Goes(h) /\ next[h] = Remove1(key, h, e)
      OBVIOUS
    <2> QED BY <1>2, <2>1
  <1>9. PICK y \in I \cap Stop : left[heap] = base[y]
    <2>1. I \in SUBSET D /\ heap \in I
      BY DEF Others
    <2> HIDE DEF D, Stop, next, base, mu, left, I
    <2>2. \E y \in I \cap Stop : left[heap] = base[y]
      BY <1>3, <1>7, <1>8, <2>1, LoopResult
    <2> QED BY <2>2
  <1>10. /\ RemoveAll(key, heap, e) = y /\ y \in Seq(E) /\ ~Goes(y) /\ Others(y)
         /\ HeapOrdered(key, heap) => HeapOrdered(key, y)
    <2> HIDE DEF left
    <2> QED BY <1>1, <1>9
  <1>11. Copies(y, e) = 0
    <2>1. ~Contains(y, e) /\ Len(y) \in Nat /\ y \in Arrays(Len(y), E)
      BY <1>2, <1>10, SeqIsArray
    <2>2. Copies(y, e) \in Nat /\ ~(Copies(y, e) > 0)
      BY <2>1, ContainsCopies, CopiesType
    <2> QED BY <2>2
  <1> QED BY <1>10, <1>11 DEF Others

(* The initial construction makes a heap of the values it is given: when the *)
(* positions from i on have been sunk, the array is in order from i on.      *)
LEMMA FromValuesMakesHeap ==
    ASSUME NEW E, NEW key \in [E -> Int], NEW n \in Nat, NEW values \in Arrays(n, E)
    PROVE  LET r == FromValues(key, values) IN
           /\ r \in Arrays(n, E)
           /\ \A x : Copies(r, x) = Copies(values, x)
           /\ HeapOrdered(key, r)
  <1> DEFINE inner == n \div 2
             R == Arrays(n, E)
             D == 1..(inner + 1)
             Stop == {inner + 1}
             next == [i \in D |-> IF i > inner THEN i ELSE i + 1]
             base == [i \in D |-> values]
             step == [p \in D \X R |-> IF p[1] > inner THEN p[2] ELSE Sink(key, p[2], p[1])]
             mu == [i \in D |-> inner + 1 - i]
             G(f) == [i \in D |-> IF i > inner THEN values ELSE Sink(key, f[i + 1], i)]
             sunk == CHOOSE f : f = G(f)
  <1>1. Len(values) = n /\ inner \in Nat /\ inner + 1 \in D /\ 1 \in D
    BY ArrayIsSeq
  <1>2. FromValues(key, values) = sunk[1]
    BY <1>1 DEF FromValues
  <1>3. \A i \in D : i =< inner => i \in 1..n /\ i + 1 \in D
    OBVIOUS
  <1> HIDE DEF inner
  <1>4. Falls(D, Stop, next, mu)
    BY <1>1, <1>3 DEF Falls
  <1>5. base \in [D -> R] /\ step \in [D \X R -> R]
    <2>1. ASSUME NEW p \in D \X R
          PROVE  (IF p[1] > inner THEN p[2] ELSE Sink(key, p[2], p[1])) \in R
      <3>1. p[1] \in D /\ p[2] \in R
        OBVIOUS
      <3>2. CASE p[1] > inner
        BY <3>1, <3>2
      <3>3. CASE ~(p[1] > inner)
        <4>1. p[1] \in 1..n
          BY <1>1, <1>3, <3>1, <3>3
        <4> QED BY <3>1, <3>3, <4>1, SinkCopies
      <3> QED BY <3>2, <3>3
    <2> HIDE DEF R, D
    <2>2. step \in [D \X R -> R]
      BY <2>1
    <2> QED BY <2>2 DEF R
  <1>6. PICK f \in [D -> R] : Solves(f, D, Stop, base, step, next)
    <2> HIDE DEF R, D, Stop, next, base, step, mu
    <2> QED BY <1>4, <1>5, RecursionExists
  <1>7. f = G(f)
    <2>1. ASSUME NEW i \in D
          PROVE  f[i] = IF i > inner THEN values ELSE Sink(key, f[i + 1], i)
      <3>1. CASE i > inner
        <4>1. i \in Stop
          BY <1>1, <3>1
        <4> QED BY <1>6, <3>1, <4>1 DEF Solves
      <3>2. CASE ~(i > inner)
        <4>1. i \notin Stop /\ next[i] = i + 1 /\ i + 1 \in D
          BY <1>1, <1>3, <3>2
        <4>2. f[i] = step[<<i, f[i + 1]>>]
          BY <1>6, <4>1 DEF Solves
        <4>3. <<i, f[i + 1]>> \in D \X R
          BY <4>1
        <4>4. step[<<i, f[i + 1]>>] = Sink(key, f[i + 1], i)
          BY <3>2, <4>3
        <4> QED BY <3>2, <4>2, <4>4
      <3> QED BY <3>1, <3>2
    <2> QED BY <2>1
  <1>8. sunk = G(sunk)
    <2> HIDE DEF G
    <2> QED BY <1>7
  <1>9. \A i \in D : sunk[i] = IF i > inner THEN values ELSE Sink(key, sunk[i + 1], i)
    <2> HIDE DEF sunk
    <2> QED BY <1>8
  <1> HIDE DEF sunk
  <1> DEFINE Done(h, i) == /\ h \in R
                           /\ \A x : Copies(h, x) = Copies(values, x)
                           /\ OrderedFrom(key, h, n, i)
             S == {k \in Nat : k =< inner => Done(sunk[inner + 1 - k], inner + 1 - k)}
  <1>10. 0 \in S
    <2>1. sunk[inner + 1] = values
      BY <1>1, <1>9
    <2>2. OrderedFrom(key, values, n, inner + 1)
      <3>1. \A j \in 2..n : ~(j \div 2 >= inner + 1)
        BY DEF inner
      <3> QED BY <3>1 DEF OrderedFrom
    <2> QED BY <1>1, <2>1, <2>2
  <1>11. ASSUME NEW k \in S PROVE k + 1 \in S
    <2> SUFFICES ASSUME k + 1 =< inner PROVE Done(sunk[inner - k], inner - k)
      BY <1>1
    <2> DEFINE i == inner - k
               h == sunk[i + 1]
    <2>1. i \in D /\ i =< inner /\ i \in 1..n /\ i + 1 = inner + 1 - k /\ i \in Nat \ {0}
      BY <1>1, <1>3
    <2>2. Done(h, i + 1)
      <3> HIDE DEF Done
      <3>1. Done(sunk[inner + 1 - k], inner + 1 - k)
        BY <1>1
      <3> HIDE DEF i
      <3> QED BY <2>1, <3>1
    <2> HIDE DEF i
    <2>3. sunk[i] = Sink(key, h, i)
      <3>1. ~(i > inner)
        BY <1>1, <2>1
      <3> QED BY <1>9, <2>1, <3>1
    <2> HIDE DEF h
    <2>4. /\ Sink(key, h, i) \in R
          /\ \A x : Copies(Sink(key, h, i), x) = Copies(h, x)
      BY <2>1, <2>2, SinkCopies
    <2>5. OrderedAbove(key, h, n, i, i)
      <3>1. \A j \in 2..n : j \div 2 >= i /\ j \div 2 # i => j \div 2 >= i + 1
        BY <2>1
      <3>2. ~(i \div 2 >= i)
        BY <2>1
      <3> QED BY <2>1, <2>2, <3>1, <3>2 DEF OrderedAbove, OrderedFrom
    <2>6. OrderedFrom(key, Sink(key, h, i), n, i)
      BY <2>1, <2>2, <2>5, SinkOrders
    <2> QED BY <2>2, <2>3, <2>4, <2>6 DEF i
  <1>12. S = Nat
    <2>1. S \in SUBSET Nat
      OBVIOUS
    <2> HIDE DEF S
    <2> QED BY <1>10, <1>11, <2>1, SetInduction
  <1>13. Done(sunk[1], 1)
    <2>1. inner \in S
      BY <1>1, <1>12
    <2> HIDE DEF Done
    <2>2. inner + 1 - inner = 1
      BY <1>1
    <2> QED BY <1>1, <2>1, <2>2
  <1> QED BY <1>2, <1>13, HeapIsOrderedFromTop
=============================================================================
