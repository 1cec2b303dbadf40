-------------------------- MODULE ConfigReviewProofs --------------------------
(***************************************************************************)
(* Proofs about what ConfigReview and its modules compute, for any texts   *)
(* and any devices. Which lines of the two texts a report quotes, and that *)
(* it quotes no other; that rules which changed places are a change, that  *)
(* comments are none, and in the set-style dialects neither is another     *)
(* order of the statements; that a block is at most one change, its risks  *)
(* are all found and a rule that broadened is a high one; that a global    *)
(* setting is paired with its old value, that a dangling reference is one; *)
(* what the rollback commands restore; what a policy evaluation finds; and *)
(* whom the blast radius of a change reaches.                              *)
(***************************************************************************)
EXTENDS ConfigReview, Induction

----------------------------------------------------------------------------
\* The walk

Advance(g, last) ==
    [visited |-> last.visited \cup (Neighbours(g, last.frontier) \ last.visited),
     frontier |-> Neighbours(g, last.frontier) \ last.visited]
Outset(start) == [visited |-> {start}, frontier |-> {start}]
Ends(g) == {e[1] : e \in g.edges} \cup {e[2] : e \in g.edges}

\* The recursion has a solution, so its equations hold at every depth.
LEMMA WalkSteps ==
    ASSUME NEW g, NEW start
    PROVE  /\ Walk(g, start)[0] = Outset(start)
           /\ \A d \in Nat : Walk(g, start)[d + 1] = Advance(g, Walk(g, start)[d])
<1> DEFINE S == [visited : SUBSET ({start} \cup Ends(g)), frontier : SUBSET ({start} \cup Ends(g))]
           step == [w \in S |-> Advance(g, w)]
<1>1. Outset(start) \in S
  BY DEF Outset
<1>2. step \in [S -> S]
  <2>1. \A X : Neighbours(g, X) \subseteq Ends(g)
    BY DEF Neighbours, Ends
  <2>2. ASSUME NEW w \in S
        PROVE  Advance(g, w) \in S
    BY <2>1 DEF Advance
  <2> QED  BY <2>2
<1>3. \A w \in S : step[w] = Advance(g, w)
  OBVIOUS
<1> HIDE DEF step, S
<1>4. PICK f \in [Nat -> S] : f[0] = Outset(start) /\ \A n \in Nat : f[n + 1] = step[f[n]]
  BY <1>1, <1>2, Iteration
<1> DEFINE F(w) == [depth \in Nat |-> IF depth = 0 THEN Outset(start) ELSE Advance(g, w[depth - 1])]
<1>5. f = F(f)
  <2>1. ASSUME NEW n \in Nat
        PROVE  f[n] = F(f)[n]
    <3>1. CASE n = 0
      BY <1>4, <3>1
    <3>2. CASE n # 0
      <4>1. n - 1 \in Nat /\ (n - 1) + 1 = n /\ f[n - 1] \in S
        BY <1>4, <3>2
      <4>2. f[n] = Advance(g, f[n - 1])
        BY <1>3, <1>4, <4>1
      <4> QED  BY <3>2, <4>2
    <3> QED  BY <3>1, <3>2
  <2>2. f = [n \in Nat |-> f[n]] /\ F(f) = [n \in Nat |-> F(f)[n]]
    BY <1>4
  <2> QED  BY <2>1, <2>2
<1>6. Walk(g, start) = CHOOSE w : w = F(w)
  BY DEF Walk, Outset, Advance
<1>7. Walk(g, start) = F(Walk(g, start))
  <2> HIDE DEF F
  <2> QED  BY <1>5, <1>6
<1>8. Walk(g, start)[0] = Outset(start)
  BY <1>7
<1>9. ASSUME NEW d \in Nat
      PROVE  Walk(g, start)[d + 1] = Advance(g, Walk(g, start)[d])
  <2>1. d + 1 \in Nat /\ d + 1 # 0 /\ (d + 1) - 1 = d
    OBVIOUS
  <2> QED  BY <1>7, <2>1
<1> QED  BY <1>8, <1>9

\* What is within d hops, and what is d hops away.
Within(g, start, d) == Walk(g, start)[d].visited
Away(g, start, d) == Walk(g, start)[d].frontier

\* A round adds all neighbours of what is within reach.
LEMMA WalkGrows ==
    ASSUME NEW g, NEW start
    PROVE  /\ Within(g, start, 0) = {start} /\ Away(g, start, 0) = {start}
           /\ \A d \in Nat :
                /\ Within(g, start, d + 1) = Within(g, start, d) \cup Neighbours(g, Within(g, start, d))
                /\ Away(g, start, d + 1) = Within(g, start, d + 1) \ Within(g, start, d)
<1> DEFINE V(d) == Within(g, start, d)
           F(d) == Away(g, start, d)
           Good == {d \in Nat : F(d) \subseteq V(d) /\ Neighbours(g, V(d) \ F(d)) \subseteq V(d)}
<1>0. /\ Walk(g, start)[0] = Outset(start)
      /\ \A d \in Nat : Walk(g, start)[d + 1] = Advance(g, Walk(g, start)[d])
  BY WalkSteps
<1>1. V(0) = {start} /\ F(0) = {start}
  BY <1>0 DEF Within, Away, Outset
<1>2. ASSUME NEW d \in Nat
      PROVE  /\ V(d + 1) = V(d) \cup (Neighbours(g, F(d)) \ V(d))
             /\ F(d + 1) = Neighbours(g, F(d)) \ V(d)
  <2>1. Walk(g, start)[d + 1] = Advance(g, Walk(g, start)[d])
    BY <1>0
  <2> QED  BY <2>1 DEF Within, Away, Advance
<1>3. \A X, Y : Neighbours(g, X \cup Y) = Neighbours(g, X) \cup Neighbours(g, Y)
  BY DEF Neighbours
<1>4. Neighbours(g, {}) = {}
  BY DEF Neighbours
<1> HIDE DEF V, F
<1>5. 0 \in Good
  <2>1. V(0) \ F(0) = {}
    BY <1>1
  <2> QED  BY <1>1, <1>4, <2>1
<1>6. ASSUME NEW d \in Nat, F(d) \subseteq V(d), Neighbours(g, V(d) \ F(d)) \subseteq V(d)
      PROVE  Neighbours(g, V(d)) \subseteq V(d + 1)
  <2>1. V(d) = (V(d) \ F(d)) \cup F(d)
    BY <1>6
  <2>2. Neighbours(g, V(d)) = Neighbours(g, V(d) \ F(d)) \cup Neighbours(g, F(d))
    BY <1>3, <2>1
  <2> QED  BY <1>2, <1>6, <2>2
<1>7. ASSUME NEW d \in Good
      PROVE  d + 1 \in Good
  <2>1. V(d + 1) \ F(d + 1) = V(d)
    BY <1>2
  <2>2. Neighbours(g, V(d)) \subseteq V(d + 1)
    BY <1>6
  <2>3. F(d + 1) \subseteq V(d + 1)
    BY <1>2
  <2>4. Neighbours(g, V(d + 1) \ F(d + 1)) \subseteq V(d + 1)
    BY <2>1, <2>2
  <2> QED  BY <2>3, <2>4
<1>8. Good = Nat
  <2>1. Good \in SUBSET Nat
    OBVIOUS
  <2> HIDE DEF Good
  <2> QED  BY <1>5, <1>7, <2>1, Succession
<1>9. ASSUME NEW d \in Nat
      PROVE  V(d + 1) = V(d) \cup Neighbours(g, V(d)) /\ F(d + 1) = V(d + 1) \ V(d)
  <2>1. F(d) \subseteq V(d) /\ Neighbours(g, V(d)) \subseteq V(d + 1)
    BY <1>6, <1>8
  <2>2. V(d + 1) = V(d) \cup (Neighbours(g, F(d)) \ V(d)) /\ F(d + 1) = Neighbours(g, F(d)) \ V(d)
    BY <1>2
  <2>3. Neighbours(g, V(d)) = Neighbours(g, V(d)) \cup Neighbours(g, F(d))
    <3>1. V(d) = V(d) \cup F(d)
      BY <2>1
    <3> QED  BY <1>3, <3>1
  <2>4. Neighbours(g, F(d)) \subseteq Neighbours(g, V(d))
    BY <2>3
  <2> QED  BY <2>1, <2>2, <2>4
<1> QED  BY <1>1, <1>9 DEF V, F

\* A set that holds the start and its members' neighbours holds the walk.
LEMMA WalkStaysInside ==
    ASSUME NEW g, NEW start, NEW X, start \in X, Neighbours(g, X) \subseteq X
    PROVE  \A d \in Nat : Within(g, start, d) \subseteq X
<1> DEFINE Good == {d \in Nat : Within(g, start, d) \subseteq X}
<1>0. \A d \in Nat :
        /\ Within(g, start, d + 1) = Within(g, start, d) \cup Neighbours(g, Within(g, start, d))
        /\ Away(g, start, d + 1) = Within(g, start, d + 1) \ Within(g, start, d)
  BY WalkGrows
<1>1. 0 \in Good
  BY WalkGrows
<1>2. ASSUME NEW d \in Good
      PROVE  d + 1 \in Good
  <2>1. Within(g, start, d + 1) = Within(g, start, d) \cup Neighbours(g, Within(g, start, d))
    BY <1>0
  <2>2. Neighbours(g, Within(g, start, d)) \subseteq Neighbours(g, X)
    <3>1. Within(g, start, d) \subseteq X
      OBVIOUS
    <3> HIDE DEF Good
    <3> QED  BY <3>1 DEF Neighbours
  <2> QED  BY <2>1, <2>2
<1>3. Good = Nat
  <2>1. Good \in SUBSET Nat
    OBVIOUS
  <2> HIDE DEF Good
  <2> QED  BY <1>1, <1>2, <2>1, Succession
<1> QED  BY <1>3

\* Nothing new at one depth is nothing new ever after.
LEMMA WalkIsOver ==
    ASSUME NEW g, NEW start, NEW m \in Nat, Away(g, start, m) = {}
    PROVE  \A d \in Nat : d >= m => Within(g, start, d) = Within(g, start, m)
<1> DEFINE V(d) == Within(g, start, d)
           Good == {d \in Nat : d >= m => V(d) = V(m) /\ Neighbours(g, V(d)) \subseteq V(d)}
<1>0. \A d \in Nat :
        /\ Within(g, start, d + 1) = Within(g, start, d) \cup Neighbours(g, Within(g, start, d))
        /\ Away(g, start, d + 1) = Within(g, start, d + 1) \ Within(g, start, d)
  BY WalkGrows
<1>1. Neighbours(g, V(m)) \subseteq V(m)
  <2>1. m # 0
    BY WalkGrows
  <2>2. m - 1 \in Nat /\ (m - 1) + 1 = m
    BY <2>1
  <2>3. V(m) = V(m - 1) \cup Neighbours(g, V(m - 1)) /\ Away(g, start, m) = V(m) \ V(m - 1)
    BY <1>0, <2>2
  <2> HIDE DEF V
  <2>4. V(m) = V(m - 1)
    BY <2>3
  <2> QED  BY <2>3, <2>4
<1>2. ASSUME NEW d \in Nat
      PROVE  V(d + 1) = V(d) \cup Neighbours(g, V(d))
  BY <1>0
<1> HIDE DEF V
<1>3. 0 \in Good
  BY <1>1
<1>4. ASSUME NEW d \in Good
      PROVE  d + 1 \in Good
  <2>1. CASE d >= m
    <3>1. V(d + 1) = V(d)
      BY <1>2, <2>1
    <3> QED  BY <2>1, <3>1
  <2>2. CASE d + 1 = m
    BY <1>1, <2>2
  <2>3. CASE d + 1 < m
    BY <2>3
  <2> QED  BY <2>1, <2>2, <2>3
<1>5. Good = Nat
  <2>1. Good \in SUBSET Nat
    OBVIOUS
  <2> HIDE DEF Good
  <2> QED  BY <1>3, <1>4, <2>1, Succession
<1> QED  BY <1>5 DEF V

----------------------------------------------------------------------------
\* Where the walk ends

Goes(walk, maxDepth, d) == walk[d].frontier # {} /\ (maxDepth = 0 \/ d < maxDepth)

\* The loop ends at the first depth at which it does not go on.
LEMMA EndIsFirst ==
    ASSUME NEW walk, NEW maxDepth \in Nat, NEW e \in Nat, ~Goes(walk, maxDepth, e),
           \A d \in Nat : d < e => Goes(walk, maxDepth, d)
    PROVE  EndDepth(walk, maxDepth) = e
<1> DEFINE P(d) == Goes(walk, maxDepth, d)
           F(w) == [depth \in Nat |-> IF P(depth) THEN w[depth + 1] ELSE depth]
           Later(d) == {m \in Nat : m >= d /\ ~P(m)}
           f == [d \in Nat |-> IF Later(d) # {} THEN Min(Later(d)) ELSE 0]
           end == CHOOSE w : w = F(w)
<1> HIDE DEF P
<1>1. ASSUME NEW d \in Nat
      PROVE  f[d] = IF P(d) THEN f[d + 1] ELSE d
  <2>1. f[d] = (IF Later(d) # {} THEN Min(Later(d)) ELSE 0)
        /\ f[d + 1] = (IF Later(d + 1) # {} THEN Min(Later(d + 1)) ELSE 0)
    OBVIOUS
  <2>2. CASE P(d)
    <3>1. Later(d) = Later(d + 1)
      BY <2>2
    <3> HIDE DEF f, Later
    <3> QED  BY <2>1, <2>2, <3>1
  <2>3. CASE ~P(d)
    <3>1. d \in Later(d) /\ Later(d) \in SUBSET Nat /\ \A m \in Later(d) : m >= d
      BY <2>3
    <3> HIDE DEF f, Later
    <3>2. Min(Later(d)) \in Later(d) /\ \A m \in Later(d) : Min(Later(d)) <= m
      BY <3>1, MinIsLeast
    <3>3. Min(Later(d)) = d
      BY <3>1, <3>2
    <3> QED  BY <2>1, <2>3, <3>1, <3>3
  <2> QED  BY <2>2, <2>3
<1>2. f = F(f)
  <2>1. f = [d \in Nat |-> f[d]]
    OBVIOUS
  <2> HIDE DEF f
  <2> QED  BY <1>1, <2>1
<1>3. end = F(end)
  <2> HIDE DEF F, f
  <2> QED  BY <1>2
<1>4. EndDepth(walk, maxDepth) = end[0]
  BY DEF EndDepth, P, Goes
<1> HIDE DEF end
<1>5. \A d \in Nat : end[d] = IF P(d) THEN end[d + 1] ELSE d
  <2>1. \A d \in Nat : F(end)[d] = IF P(d) THEN end[d + 1] ELSE d
    OBVIOUS
  <2> HIDE DEF F
  <2> QED  BY <1>3, <2>1
<1>6. ~P(e) /\ \A d \in Nat : d < e => P(d)
  BY DEF P
<1> DEFINE Good == {d \in Nat : d <= e => end[0] = end[d]}
<1>7. 0 \in Good
  OBVIOUS
<1>8. ASSUME NEW d \in Good
      PROVE  d + 1 \in Good
  BY <1>5, <1>6
<1>9. Good = Nat
  <2>1. Good \in SUBSET Nat
    OBVIOUS
  <2> HIDE DEF Good
  <2> QED  BY <1>7, <1>8, <2>1, Succession
<1> QED  BY <1>4, <1>5, <1>6, <1>9

\* The blast radius is what is within the depth asked for, and all that can be
\* reached when none is asked for and the walk comes to an end.
LEMMA BlastRadiusIs ==
    ASSUME NEW g, NEW start, NEW maxDepth \in Nat, NEW m \in Nat,
           IF maxDepth = 0 THEN Away(g, start, m) = {} ELSE m = maxDepth
    PROVE  BlastRadius(g, start, maxDepth) = Within(g, start, m) \ {start}
<1> DEFINE walk == Walk(g, start)
           Stops == {d \in Nat : ~Goes(walk, maxDepth, d)}
<1>1. \A d : Goes(walk, maxDepth, d) <=> Away(g, start, d) # {} /\ (maxDepth = 0 \/ d < maxDepth)
  BY DEF Goes, Away
<1>2. m \in Stops
  BY <1>1
<1>3. PICK e \in Stops : \A d \in Stops : e <= d
  BY <1>2, LeastElement
<1>4. EndDepth(walk, maxDepth) = e
  <2> HIDE DEF walk
  <2> QED  BY <1>3, EndIsFirst
<1>5. BlastRadius(g, start, maxDepth) = Within(g, start, e) \ {start}
  BY <1>4 DEF BlastRadius, Within
<1>6. e <= m
  BY <1>2, <1>3
<1>7. Within(g, start, m) = Within(g, start, e)
  <2>1. CASE Away(g, start, e) = {}
    BY <1>6, <2>1, WalkIsOver
  <2>2. CASE Away(g, start, e) # {}
    <3>1. maxDepth # 0 /\ e >= maxDepth
      BY <1>1, <1>3, <2>2
    <3>2. m = e
      BY <1>6, <3>1
    <3> QED  BY <3>2
  <2> QED  BY <2>1, <2>2
<1> QED  BY <1>5, <1>7

----------------------------------------------------------------------------
\* Two devices in one graph

Joins(E, x, y) == \E e \in E : e[1] = x /\ e[2] = y
Joined(g, x, y) == Joins(g.edges, x, y)
Firsts(R) == {p[1] : p \in R}
Seconds(R) == {p[2] : p \in R}

LEMMA NeighboursAreJoined ==
    ASSUME NEW g, NEW X, NEW y
    PROVE  y \in Neighbours(g, X) <=> \E x \in X : Joined(g, x, y) \/ Joined(g, y, x)
BY DEF Neighbours, Joined, Joins

\* Two stars, around this and that, whose rays may go on to one more node: the
\* centres are two hops apart when they share a ray, four when they share the
\* end of one, and not connected otherwise.
Stars(g, this, that, A, B, R, S) ==
    /\ this # that /\ this \notin A \cup B /\ that \notin A \cup B
    /\ R \subseteq A \X Seconds(R) /\ S \subseteq B \X Seconds(S)
    /\ (Seconds(R) \cup Seconds(S)) \cap (A \cup B \cup {this, that}) = {}
    /\ Firsts(R) \cap B = {} /\ Firsts(S) \cap A = {}
    /\ \A x, y : Joined(g, x, y) <=> \/ x = this /\ y \in A
                                     \/ x = that /\ y \in B
                                     \/ <<x, y>> \in R \cup S

LEMMA TwoStars ==
    ASSUME NEW g, NEW this, NEW that, NEW A, NEW B, NEW R, NEW S,
           Stars(g, this, that, A, B, R, S), NEW depth \in 0 .. 4
    PROVE  that \in BlastRadius(g, this, depth) <=>
                \/ A \cap B # {} /\ (depth = 0 \/ depth >= 2)
                \/ Seconds(R) \cap Seconds(S) # {} /\ (depth = 0 \/ depth >= 4)
<1> DEFINE V(d) == Within(g, this, d)
           F(d) == Away(g, this, d)
           N(X) == Neighbours(g, X)
           HR == Seconds(R)
           HS == Seconds(S)
<1> USE DEF Stars
<1>1. V(0) = {this} /\ \A d \in Nat : V(d + 1) = V(d) \cup N(V(d)) /\ F(d + 1) = V(d + 1) \ V(d)
  BY WalkGrows
<1> DEFINE Leads(x, y) == <<x, y>> \in R \cup S
           Link(x, y) == \/ x = this /\ y \in A
                         \/ x = that /\ y \in B
                         \/ Leads(x, y)
<1>2. \A X, y : y \in N(X) <=> \E x \in X : Link(x, y) \/ Link(y, x)
  <2>1. \A x, y : Joined(g, x, y) <=> Link(x, y)
    OBVIOUS
  <2> HIDE DEF Link
  <2>2. \A X, y : y \in Neighbours(g, X) <=> \E x \in X : Joined(g, x, y) \/ Joined(g, y, x)
    BY NeighboursAreJoined
  <2> QED  BY <2>1, <2>2
<1>3. /\ \A x, y : Leads(x, y) => \/ x \in A /\ x \notin B /\ y \in HR
                                  \/ x \in B /\ x \notin A /\ y \in HS
      /\ \A y \in HR : \E x \in A : Leads(x, y)
      /\ \A y \in HS : \E x \in B : Leads(x, y)
  <2>1. ASSUME NEW x, NEW y, <<x, y>> \in R
        PROVE  x \in A /\ x \notin B /\ y \in HR
    BY <2>1 DEF Firsts, Seconds
  <2>2. ASSUME NEW x, NEW y, <<x, y>> \in S
        PROVE  x \in B /\ x \notin A /\ y \in HS
    BY <2>2 DEF Firsts, Seconds
  <2>3. ASSUME NEW y \in HR
        PROVE  \E x \in A : <<x, y>> \in R
    BY <2>3 DEF Seconds
  <2>4. ASSUME NEW y \in HS
        PROVE  \E x \in B : <<x, y>> \in S
    BY <2>4 DEF Seconds
  <2> QED  BY <2>1, <2>2, <2>3, <2>4
<1>4. \A y \in HR \cup HS : y \notin A /\ y \notin B /\ y # this /\ y # that
  OBVIOUS
<1> HIDE DEF V, F, N, HR, HS, Leads
<1>5. V(1) = {this} \cup A
  <2>1. V(1) = V(0) \cup N(V(0))
    <3>1. \A d \in {0} : V(d + 1) = V(d) \cup N(V(d))
      BY <1>1
    <3> QED  BY <3>1
  <2>2. ASSUME NEW y
        PROVE  y \in N({this}) <=> y \in A
    <3>1. y \in N({this}) <=> Link(this, y) \/ Link(y, this)
      BY <1>2
    <3>2. ~Leads(this, y) /\ ~Leads(y, this)
      BY <1>3, <1>4
    <3> QED  BY <3>1, <3>2
  <2>3. N({this}) = A
    BY <2>2
  <2>4. V(1) = {this} \cup N({this})
    BY <1>1, <2>1
  <2> QED  BY <2>3, <2>4
<1>6. \A y : y \in V(2) <=> y = this \/ y \in A \/ y \in HR \/ (y = that /\ A \cap B # {})
  <2>1. V(2) = V(1) \cup N(V(1))
    <3>1. \A d \in {1} : V(d + 1) = V(d) \cup N(V(d))
      BY <1>1
    <3> QED  BY <3>1
  <2>2. ASSUME NEW y
        PROVE  y = this \/ y \in N({this} \cup A) <=>
                  y = this \/ y \in A \/ y \in HR \/ (y = that /\ A \cap B # {})
    <3>1. y \in N({this} \cup A) <=> \/ Link(this, y) \/ Link(y, this)
                                     \/ \E x \in A : Link(x, y) \/ Link(y, x)
      BY <1>2
    <3>2. ~Leads(this, y) /\ ~Leads(y, this)
      BY <1>3, <1>4
    <3>3. (\E x \in A : Link(x, y)) <=> y \in HR
      BY <1>3, <1>4
    <3>4. (\E x \in A : Link(y, x)) <=> (y = this /\ A # {}) \/ (y = that /\ A \cap B # {})
      BY <1>3, <1>4
    <3> QED  BY <3>1, <3>2, <3>3, <3>4
  <2>3. V(2) = {this} \cup A \cup N({this} \cup A)
    BY <1>5, <2>1
  <2>4. \A y : y \in V(2) <=> y = this \/ y \in A \/ y \in N({this} \cup A)
    BY <2>3
  <2> HIDE DEF Link
  <2> QED  BY <2>2, <2>4
<1>7. V(3) = V(2) \cup N(V(2)) /\ V(4) = V(3) \cup N(V(3)) /\ V(5) = V(4) \cup N(V(4))
      /\ V(6) = V(5) \cup N(V(5)) /\ V(7) = V(6) \cup N(V(6)) /\ F(3) = V(3) \ V(2) /\ F(7) = V(7) \ V(6)
  <2>1. \A d \in {2, 3, 4, 5, 6} : V(d + 1) = V(d) \cup N(V(d)) /\ F(d + 1) = V(d + 1) \ V(d)
    BY <1>1
  <2> QED  BY <2>1
<1>8. that \notin V(1) /\ (that \in V(2) <=> A \cap B # {})
  BY <1>4, <1>5, <1>6
<1>9. that \in V(3) <=> A \cap B # {}
  <2>1. CASE A \cap B # {}
    BY <1>7, <1>8, <2>1
  <2>2. CASE A \cap B = {}
    <3>1. that \notin N(V(2))
      BY <1>2, <1>3, <1>4, <1>6, <2>2
    <3> QED  BY <1>7, <1>8, <2>2, <3>1
  <2> QED  BY <2>1, <2>2
<1>10. HR \cap HS # {} => that \in V(4)
  <2> SUFFICES ASSUME NEW h \in HR, h \in HS
               PROVE  that \in V(4)
    OBVIOUS
  <2>1. PICK x \in B : Leads(x, h)
    BY <1>3
  <2>2. h \in V(2)
    BY <1>6
  <2>3. x \in V(3)
    BY <1>2, <1>7, <2>1, <2>2
  <2> QED  BY <1>2, <1>7, <2>1, <2>3
<1>11. A \cap B # {} => that \in V(4)
  BY <1>7, <1>8
<1>12. ASSUME A \cap B = {}, HR \cap HS = {}
       PROVE  N(V(2)) \subseteq V(2) /\ \A d \in Nat : that \notin V(d)
  <2>1. V(2) = {this} \cup A \cup HR
    BY <1>6, <1>12
  <2>2. ASSUME NEW y \in N(V(2))
        PROVE  y \in V(2)
    BY <1>2, <1>3, <1>4, <1>12, <2>1, <2>2
  <2>3. \A d \in Nat : V(d) \subseteq V(2)
    BY <2>1, <2>2, WalkStaysInside DEF V, N
  <2> QED  BY <1>4, <2>1, <2>2, <2>3
<1>13. \E m \in Nat : F(m) = {} /\ (that \in V(m) <=> A \cap B # {} \/ HR \cap HS # {})
  <2>1. CASE A \cap B = {} /\ HR \cap HS = {}
    <3>1. V(3) = V(2)
      BY <1>7, <1>12, <2>1
    <3>2. F(3) = {}
      BY <1>7, <3>1
    <3> QED  BY <1>12, <2>1, <3>2
  <2>2. CASE A \cap B # {} \/ HR \cap HS # {}
    <3>1. that \in V(4)
      BY <1>10, <1>11, <2>2
    <3>2. V(2) \subseteq V(4)
      BY <1>7
    <3>3. B \subseteq V(5) /\ V(4) \subseteq V(5)
      BY <1>2, <1>7, <3>1
    <3>4. HS \subseteq V(6) /\ V(5) \subseteq V(6)
      BY <1>2, <1>3, <1>7, <3>3
    <3> DEFINE All == {this, that} \cup A \cup B \cup HR \cup HS
    <3>5. All \subseteq V(6)
      BY <1>6, <3>1, <3>2, <3>3, <3>4
    <3>6. N(All) \subseteq All
      BY <1>2, <1>3
    <3>7. V(7) \subseteq All
      BY <3>6, WalkStaysInside DEF V, N
    <3>8. V(7) = V(6)
      BY <1>7, <3>5, <3>7
    <3> QED  BY <1>7, <2>2, <3>1, <3>2, <3>3, <3>4, <3>8
  <2> QED  BY <2>1, <2>2
<1>14. CASE depth = 0
  <2>1. PICK m \in Nat : F(m) = {} /\ (that \in V(m) <=> A \cap B # {} \/ HR \cap HS # {})
    BY <1>13
  <2>2. BlastRadius(g, this, 0) = V(m) \ {this}
    BY <2>1, BlastRadiusIs DEF V, F
  <2> QED  BY <1>14, <2>1, <2>2 DEF HR, HS
<1>15. CASE depth # 0
  <2>1. BlastRadius(g, this, depth) = V(depth) \ {this}
    BY <1>15, BlastRadiusIs DEF V
  <2>2. that \in V(4) <=> A \cap B # {} \/ HR \cap HS # {}
    BY <1>10, <1>11, <1>12
  <2>3. that \in V(depth) <=> \/ A \cap B # {} /\ depth >= 2
                              \/ HR \cap HS # {} /\ depth >= 4
    <3>1. depth \in {1, 2, 3, 4}
      BY <1>15
    <3> QED  BY <1>8, <1>9, <2>2, <3>1
  <2> QED  BY <1>15, <2>1, <2>3 DEF HR, HS
<1> QED  BY <1>14, <1>15

\* The nodes next to a device, and from which of them which next hop is reached.
Names(touched) == {t[1] : t \in touched}
Hops(a) == {r.afterHop : r \in a.routes} \ {<<>>}
Rays(device, a) ==
    {Scoped(device, "interface", n) : n \in Names(a.interfaces)}
    \cup {VlanNode(v) : v \in Names(a.vlans)}
    \cup {Scoped(device, "route", r.prefix) : r \in a.routes}
    \cup {Scoped(device, "rule", n) : n \in Names(a.rules)}
Onward(device, a) ==
    {<<Scoped(device, "route", r.prefix), NextHopNode(r.afterHop)>> : r \in {x \in a.routes : x.afterHop # <<>>}}

Star(self, X, type) == {<<self, x, type>> : x \in X}

LEMMA JoinedInStar ==
    ASSUME NEW self, NEW X, NEW type, NEW x, NEW y
    PROVE  Joins(Star(self, X, type), x, y) <=> x = self /\ y \in X
<1>1. Joins(Star(self, X, type), x, y) => x = self /\ y \in X
  BY DEF Joins, Star
<1>2. ASSUME x = self, y \in X
      PROVE  Joins(Star(self, X, type), x, y)
  <2>1. <<self, y, type>> \in Star(self, X, type)
    BY <1>2 DEF Star
  <2> QED  BY <1>2, <2>1 DEF Joins
<1> QED  BY <1>1, <1>2

LEMMA JoinedInDevice ==
    ASSUME NEW d, NEW a, NEW x, NEW y
    PROVE  Joined(Derive(d, a), x, y) <=> (x = DeviceNode(d) /\ y \in Rays(d, a)) \/ <<x, y>> \in Onward(d, a)
<1> DEFINE self == DeviceNode(d)
           I == {Scoped(d, "interface", n) : n \in Names(a.interfaces)}
           V == {VlanNode(v) : v \in Names(a.vlans)}
           T == {Scoped(d, "route", r.prefix) : r \in a.routes}
           U == {Scoped(d, "rule", n) : n \in Names(a.rules)}
           to == {r \in a.routes : r.afterHop # <<>>}
           hops == {<<Scoped(d, "route", r.prefix), NextHopNode(r.afterHop), "next_hop">> : r \in to}
<1>1. Derive(d, a).edges
        = Star(self, I, "has_interface") \cup Star(self, V, "has_vlan") \cup Star(self, T, "has_route")
          \cup hops \cup Star(self, U, "has_rule")
  <2>1. /\ Star(self, I, "has_interface")
             = {<<self, Scoped(d, "interface", n), "has_interface">> : n \in Names(a.interfaces)}
        /\ Star(self, V, "has_vlan") = {<<self, VlanNode(v), "has_vlan">> : v \in Names(a.vlans)}
        /\ Star(self, T, "has_route") = {<<self, Scoped(d, "route", r.prefix), "has_route">> : r \in a.routes}
        /\ Star(self, U, "has_rule") = {<<self, Scoped(d, "rule", n), "has_rule">> : n \in Names(a.rules)}
    BY DEF Star
  <2> QED  BY <2>1 DEF Derive, Names
<1>2. Joins(hops, x, y) => <<x, y>> \in Onward(d, a)
  BY DEF Joins, Onward
<1>3. ASSUME <<x, y>> \in Onward(d, a)
      PROVE  Joins(hops, x, y)
  <2>1. PICK r \in to : x = Scoped(d, "route", r.prefix) /\ y = NextHopNode(r.afterHop)
    BY <1>3 DEF Onward
  <2>2. <<x, y, "next_hop">> \in hops
    BY <2>1
  <2> HIDE DEF hops
  <2> QED  BY <2>2 DEF Joins
<1>4. Rays(d, a) = I \cup V \cup T \cup U
  BY DEF Rays
<1> HIDE DEF self, I, V, T, U, hops
<1>5. Joined(Derive(d, a), x, y) <=>
        \/ Joins(Star(self, I, "has_interface"), x, y) \/ Joins(Star(self, V, "has_vlan"), x, y)
        \/ Joins(Star(self, T, "has_route"), x, y) \/ Joins(hops, x, y)
        \/ Joins(Star(self, U, "has_rule"), x, y)
  BY <1>1 DEF Joined, Joins
<1>6. Joined(Derive(d, a), x, y) <=> (x = self /\ y \in I \cup V \cup T \cup U) \/ Joins(hops, x, y)
  BY <1>5, JoinedInStar
<1> QED  BY <1>2, <1>3, <1>4, <1>6 DEF self

LEMMA HopsOnward ==
    ASSUME NEW d, NEW a
    PROVE  Seconds(Onward(d, a)) = {NextHopNode(h) : h \in Hops(a)}
<1>1. ASSUME NEW y \in Seconds(Onward(d, a))
      PROVE  y \in {NextHopNode(h) : h \in Hops(a)}
  BY DEF Seconds, Onward, Hops
<1>2. ASSUME NEW r \in a.routes, r.afterHop # <<>>
      PROVE  NextHopNode(r.afterHop) \in Seconds(Onward(d, a))
  <2> DEFINE p == <<Scoped(d, "route", r.prefix), NextHopNode(r.afterHop)>>
  <2>1. p \in Onward(d, a)
    BY <1>2 DEF Onward
  <2>2. p[2] = NextHopNode(r.afterHop)
    OBVIOUS
  <2> HIDE DEF p
  <2> QED  BY <2>1, <2>2 DEF Seconds
<1> QED  BY <1>1, <1>2 DEF Hops

\* Nodes of different kinds are different, and so are one device's and another's.
LEMMA NodesDiffer ==
    /\ \A d, e : DeviceNode(d) = DeviceNode(e) => d = e
    /\ \A u, v : VlanNode(u) = VlanNode(v) => u = v
    /\ \A h, i : NextHopNode(h) = NextHopNode(i) => h = i
    /\ \A d, v : DeviceNode(d) # VlanNode(v) /\ DeviceNode(d) # NextHopNode(v)
    /\ \A h, v : NextHopNode(h) # VlanNode(v)
    /\ \A d, k, n, x : /\ Scoped(d, k, n) # DeviceNode(x) /\ Scoped(d, k, n) # VlanNode(x)
                       /\ Scoped(d, k, n) # NextHopNode(x)
    /\ \A d, k, n, e, l, m : Scoped(d, k, n) = Scoped(e, l, m) => d = e
BY DEF DeviceNode, VlanNode, NextHopNode, Scoped

\* Whatever the changes of two devices touch: one is in the blast radius of the
\* other at two hops when both touch a VLAN, at four when routes of both get
\* one next hop, and at no depth otherwise.
LEMMA DevicesMeet ==
    ASSUME NEW d, NEW e, d # e, NEW a, NEW b, NEW depth \in 0 .. 4
    PROVE  DeviceNode(e) \in BlastRadius(Merge(Derive(d, a), Derive(e, b)), DeviceNode(d), depth) <=>
                \/ Names(a.vlans) \cap Names(b.vlans) # {} /\ (depth = 0 \/ depth >= 2)
                \/ Hops(a) \cap Hops(b) # {} /\ (depth = 0 \/ depth >= 4)
<1> DEFINE g == Merge(Derive(d, a), Derive(e, b))
           this == DeviceNode(d)
           that == DeviceNode(e)
           A == Rays(d, a)
           B == Rays(e, b)
           R == Onward(d, a)
           S == Onward(e, b)
<1>1. ASSUME NEW x, NEW y
      PROVE  Joined(g, x, y) <=> \/ x = this /\ y \in A
                                 \/ x = that /\ y \in B
                                 \/ <<x, y>> \in R \cup S
  <2>1. Joined(g, x, y) <=> Joined(Derive(d, a), x, y) \/ Joined(Derive(e, b), x, y)
    BY DEF Joined, Joins, Merge
  <2> QED  BY <2>1, JoinedInDevice
<1>3. Seconds(R) = {NextHopNode(h) : h \in Hops(a)} /\ Seconds(S) = {NextHopNode(h) : h \in Hops(b)}
  BY HopsOnward
<1>4. /\ Firsts(R) \subseteq {Scoped(d, "route", r.prefix) : r \in a.routes}
      /\ Firsts(S) \subseteq {Scoped(e, "route", r.prefix) : r \in b.routes}
  BY DEF Firsts, Onward
<1>5. R \subseteq A \X Seconds(R) /\ S \subseteq B \X Seconds(S)
  BY DEF Onward, Rays, Seconds
<1>6. this # that /\ this \notin A \cup B /\ that \notin A \cup B
  BY NodesDiffer DEF Rays
<1>7. (Seconds(R) \cup Seconds(S)) \cap (A \cup B \cup {this, that}) = {}
  BY <1>3, NodesDiffer DEF Rays
<1>8. Firsts(R) \cap B = {} /\ Firsts(S) \cap A = {}
  BY <1>4, NodesDiffer DEF Rays
<1>9. A \cap B # {} <=> Names(a.vlans) \cap Names(b.vlans) # {}
  BY NodesDiffer DEF Rays
<1>10. Seconds(R) \cap Seconds(S) # {} <=> Hops(a) \cap Hops(b) # {}
  BY <1>3, NodesDiffer
<1> HIDE DEF g, this, that, A, B, R, S
<1>11. Stars(g, this, that, A, B, R, S)
  BY <1>1, <1>5, <1>6, <1>7, <1>8 DEF Stars
<1>12. that \in BlastRadius(g, this, depth) <=>
                \/ A \cap B # {} /\ (depth = 0 \/ depth >= 2)
                \/ Seconds(R) \cap Seconds(S) # {} /\ (depth = 0 \/ depth >= 4)
  BY <1>11, TwoStars
<1> QED  BY <1>9, <1>10, <1>12 DEF g, this, that

----------------------------------------------------------------------------
\* The theorem

\* The blast radius of a change holds another device exactly when the two share
\* what may carry the change over, whatever the analyses touch: objects that
\* merely have one name never connect two devices (netgraph.Derive, Merge and
\* BlastRadius).
THEOREM BlastRadiusIsExact == Spec => []BlastRadiusIsShared
<1>1. BlastRadiusIsShared
  <2> SUFFICES ASSUME NEW depth \in 0 .. 4
               PROVE  DeviceNode("other") \in BlastRadius(Merge(Derive("this", report), Derive("other", Neighbour)),
                                                          DeviceNode("this"), depth) <=>
                        \/ Names(report.vlans) \cap Names(Neighbour.vlans) # {} /\ (depth = 0 \/ depth >= 2)
                        \/ Hops(report) \cap Hops(Neighbour) # {} /\ (depth = 0 \/ depth >= 4)
    BY DEF BlastRadiusIsShared, Names, Hops
  <2> QED  BY DevicesMeet
<1> QED  BY <1>1, PTL

----------------------------------------------------------------------------
\* Sequences and what they hold

LEMMA AppendHolds ==
    ASSUME NEW S, NEW s \in Seq(S), NEW e \in S
    PROVE  /\ Append(s, e) \in Seq(S)
           /\ \A x : x \in ToSet(Append(s, e)) <=> x \in ToSet(s) \/ x = e
<1>1. /\ Append(s, e) \in Seq(S) /\ DOMAIN Append(s, e) = 1 .. Len(s) + 1 /\ DOMAIN s = 1 .. Len(s)
      /\ Append(s, e)[Len(s) + 1] = e /\ \A i \in 1 .. Len(s) : Append(s, e)[i] = s[i]
  OBVIOUS
<1> QED  BY <1>1 DEF ToSet

LEMMA ConcatHolds ==
    ASSUME NEW S, NEW s \in Seq(S), NEW t \in Seq(S)
    PROVE  /\ s \o t \in Seq(S)
           /\ \A x : x \in ToSet(s \o t) <=> x \in ToSet(s) \/ x \in ToSet(t)
<1>1. /\ s \o t \in Seq(S) /\ DOMAIN (s \o t) = 1 .. Len(s) + Len(t)
      /\ DOMAIN s = 1 .. Len(s) /\ DOMAIN t = 1 .. Len(t)
      /\ \A i \in 1 .. Len(s) : (s \o t)[i] = s[i]
      /\ \A i \in 1 .. Len(t) : (s \o t)[Len(s) + i] = t[i]
      /\ \A i \in 1 .. Len(s) + Len(t) : i \in 1 .. Len(s) \/ i - Len(s) \in 1 .. Len(t)
  OBVIOUS
<1>2. ASSUME NEW x, x \in ToSet(s \o t)
      PROVE  x \in ToSet(s) \/ x \in ToSet(t)
  <2>1. PICK i \in 1 .. Len(s) + Len(t) : x = (s \o t)[i]
    BY <1>1, <1>2 DEF ToSet
  <2>2. CASE i \in 1 .. Len(s)
    BY <1>1, <2>1, <2>2 DEF ToSet
  <2>3. CASE i - Len(s) \in 1 .. Len(t)
    <3>1. x = t[i - Len(s)]
      BY <1>1, <2>1, <2>3
    <3> QED  BY <1>1, <2>3, <3>1 DEF ToSet
  <2> QED  BY <1>1, <2>2, <2>3
<1>3. ASSUME NEW x, x \in ToSet(s)
      PROVE  x \in ToSet(s \o t)
  <2>1. PICK i \in 1 .. Len(s) : x = s[i]
    BY <1>1, <1>3 DEF ToSet
  <2>2. i \in 1 .. Len(s) + Len(t) /\ x = (s \o t)[i]
    BY <1>1, <2>1
  <2> QED  BY <1>1, <2>2 DEF ToSet
<1>4. ASSUME NEW x, x \in ToSet(t)
      PROVE  x \in ToSet(s \o t)
  <2>1. PICK i \in 1 .. Len(t) : x = t[i]
    BY <1>1, <1>4 DEF ToSet
  <2>2. Len(s) + i \in 1 .. Len(s) + Len(t) /\ x = (s \o t)[Len(s) + i]
    BY <1>1, <2>1
  <2> QED  BY <1>1, <2>2 DEF ToSet
<1> QED  BY <1>1, <1>2, <1>3, <1>4

\* FlattenSeq is what its recursion says.
Flattens(S, ss, N, flat) ==
    /\ flat \in [0 .. N -> Seq(S)] /\ flat[0] = <<>>
    /\ \A n \in 1 .. N : flat[n] = flat[n - 1] \o ss[n]
    /\ FlattenSeq(ss) = flat[N]

LEMMA FlattenSteps ==
    ASSUME NEW S, NEW ss, NEW N \in Nat \ {0}, Len(ss) = N, \A n \in 1 .. N : ss[n] \in Seq(S)
    PROVE  \E flat : Flattens(S, ss, N, flat)
<1> DEFINE T == Seq(S)
           step == [n \in 1 .. N |-> [x \in T |-> x \o ss[n]]]
           F(w) == [i \in 1 .. N |-> IF i = 1 THEN ss[i] ELSE w[i - 1] \o ss[i]]
           end == CHOOSE w : w = F(w)
           empty == <<>>
<1>1. /\ empty \in T /\ \A n \in 1 .. N : ss[n] \in T
      /\ \A n \in 1 .. N : empty \o ss[n] = ss[n]
  OBVIOUS
<1>2. \A n \in 1 .. N : \A x \in T : step[n][x] = x \o ss[n] /\ step[n][x] \in T
  BY <1>1
<1> HIDE DEF step, T, empty
<1>3. PICK f : Run(N, T, empty, step, f)
  <2>1. Steps(N, T, empty, step)
    BY <1>1, <1>2 DEF Steps
  <2> QED  BY <2>1, Recursion
<1>4. f \in [0 .. N -> T] /\ f[0] = empty /\ \A n \in 1 .. N : f[n] = step[n][f[n - 1]]
  BY <1>3 DEF Run
<1>5. ASSUME NEW n \in 1 .. N
      PROVE  f[n] = f[n - 1] \o ss[n]
  <2>1. n - 1 \in 0 .. N
    OBVIOUS
  <2>2. f[n - 1] \in T
    BY <1>4, <2>1
  <2>3. f[n] = step[n][f[n - 1]]
    BY <1>4
  <2> QED  BY <1>2, <2>2, <2>3
<1>6. f[1] = ss[1]
  <2>1. 1 \in 1 .. N /\ 1 - 1 = 0
    OBVIOUS
  <2>2. f[1] = f[0] \o ss[1]
    BY <1>5, <2>1
  <2> QED  BY <1>1, <1>4, <2>1, <2>2
<1> DEFINE g == [n \in 1 .. N |-> f[n]]
<1>7. g = F(g)
  <2>1. ASSUME NEW n \in 1 .. N
        PROVE  f[n] = IF n = 1 THEN ss[n] ELSE g[n - 1] \o ss[n]
    <3>1. CASE n = 1
      BY <1>6, <3>1
    <3>2. CASE n # 1
      <4>1. n - 1 \in 1 .. N
        BY <3>2
      <4> QED  BY <1>5, <3>2, <4>1
    <3> QED  BY <3>1, <3>2
  <2> QED  BY <2>1
<1>8. end = F(end)
  <2> HIDE DEF F, g
  <2> QED  BY <1>7
<1>9. FlattenSeq(ss) = end[N]
  BY DEF FlattenSeq
<1> HIDE DEF end
<1>10. /\ end[1] = ss[1]
      /\ \A n \in 2 .. N : end[n] = end[n - 1] \o ss[n]
  <2>1. \A n \in 1 .. N : end[n] = IF n = 1 THEN ss[n] ELSE end[n - 1] \o ss[n]
    BY <1>8
  <2>2. 1 \in 1 .. N /\ \A n \in 2 .. N : n \in 1 .. N /\ n # 1
    OBVIOUS
  <2> HIDE DEF F
  <2> QED  BY <2>1, <2>2
<1> DEFINE Good == {n \in 0 .. N : n # 0 => end[n] = f[n]}
<1>11. \A n \in 0 .. N : n \in Good
  <2>1. 0 \in Good
    OBVIOUS
  <2>2. ASSUME NEW n \in 0 .. N - 1, n \in Good
        PROVE  n + 1 \in Good
    <3>1. CASE n = 0
      BY <1>6, <1>10, <3>1
    <3>2. CASE n # 0
      <4>1. n + 1 \in 2 .. N /\ n + 1 \in 1 .. N /\ (n + 1) - 1 = n
        BY <3>2
      <4>2. end[n] = f[n] /\ n + 1 \in 0 .. N
        BY <2>2, <3>2
      <4>3. end[n + 1] = f[n + 1]
        <5>1. end[n + 1] = end[n] \o ss[n + 1]
          BY <1>10, <4>1
        <5>2. f[n + 1] = f[n] \o ss[n + 1]
          BY <1>5, <4>1
        <5> QED  BY <4>2, <5>1, <5>2
      <4> QED  BY <4>2, <4>3
    <3> QED  BY <3>1, <3>2
  <2> HIDE DEF Good
  <2>3. Passes(N, Good)
    BY <2>1, <2>2 DEF Passes
  <2> QED  BY <2>3, UpTo
<1>12. end[N] = f[N]
  BY <1>11
<1> QED  BY <1>4, <1>5, <1>9, <1>12 DEF empty, T, Flattens

\* It holds what the sequences hold.
LEMMA FlattenHolds ==
    ASSUME NEW S, NEW ss \in Seq(Seq(S))
    PROVE  /\ FlattenSeq(ss) \in Seq(S)
           /\ \A x : x \in ToSet(FlattenSeq(ss)) <=> \E i \in DOMAIN ss : x \in ToSet(ss[i])
<1>1. CASE Len(ss) = 0
  <2>1. ss = <<>> /\ FlattenSeq(ss) = ss
    BY <1>1 DEF FlattenSeq
  <2>2. <<>> \in Seq(S) /\ DOMAIN <<>> = {}
    OBVIOUS
  <2>3. \A x : x \notin ToSet(<<>>)
    BY DEF ToSet
  <2> QED  BY <2>1, <2>2, <2>3
<1>2. CASE Len(ss) # 0
  <2>1. Len(ss) \in Nat /\ DOMAIN ss = 1 .. Len(ss) /\ \A n \in 1 .. Len(ss) : ss[n] \in Seq(S)
    OBVIOUS
  <2>2. PICK flat : Flattens(S, ss, Len(ss), flat)
    <3>1. Len(ss) \in Nat \ {0}
      BY <1>2, <2>1
    <3> QED  BY <2>1, <3>1, FlattenSteps
  <2>3. /\ flat \in [0 .. Len(ss) -> Seq(S)] /\ flat[0] = <<>>
        /\ \A n \in 1 .. Len(ss) : flat[n] = flat[n - 1] \o ss[n]
        /\ FlattenSeq(ss) = flat[Len(ss)]
    BY <2>2 DEF Flattens
  <2> DEFINE Holds(n) == \A x : x \in ToSet(flat[n]) <=> \E i \in 1 .. n : x \in ToSet(ss[i])
             Good == {n \in 0 .. Len(ss) : Holds(n)}
  <2>4. Holds(0)
    BY <2>3 DEF ToSet
  <2>5. ASSUME NEW n \in 0 .. Len(ss) - 1, Holds(n)
        PROVE  Holds(n + 1)
    <3>1. n + 1 \in 1 .. Len(ss) /\ (n + 1) - 1 = n /\ n \in 0 .. Len(ss)
      BY <2>1
    <3>2. flat[n + 1] = flat[n] \o ss[n + 1] /\ flat[n] \in Seq(S) /\ ss[n + 1] \in Seq(S)
      BY <2>1, <2>3, <3>1
    <3>3. \A x : x \in ToSet(flat[n + 1]) <=> x \in ToSet(flat[n]) \/ x \in ToSet(ss[n + 1])
      BY <3>2, ConcatHolds
    <3>4. ASSUME NEW x
          PROVE  (\E i \in 1 .. n + 1 : x \in ToSet(ss[i]))
                   <=> (\E i \in 1 .. n : x \in ToSet(ss[i])) \/ x \in ToSet(ss[n + 1])
      BY <3>1
    <3> QED  BY <2>5, <3>3, <3>4
  <2>6. Len(ss) \in Good
    <3>1. 0 \in Good /\ \A n \in 0 .. Len(ss) - 1 : n \in Good => n + 1 \in Good
      <4> HIDE DEF Holds
      <4> QED  BY <2>1, <2>4, <2>5
    <3> HIDE DEF Good
    <3>2. Passes(Len(ss), Good)
      BY <2>1, <3>1 DEF Passes
    <3> QED  BY <2>1, <3>2, UpTo
  <2> QED  BY <2>1, <2>3, <2>6
<1> QED  BY <1>1, <1>2

\* UniquePreserve is what its recursion says.
Keeps(L, lines, N, kept) ==
    /\ kept \in [0 .. N -> Seq(L)] /\ kept[0] = <<>>
    /\ \A n \in 1 .. N : kept[n] = Keep(kept[n - 1], lines[n])
    /\ UniquePreserve(lines) = kept[N]

LEMMA KeptSteps ==
    ASSUME NEW L, NEW lines, NEW N \in Nat, Len(lines) = N, \A n \in 1 .. N : lines[n] \in L
    PROVE  \E kept : Keeps(L, lines, N, kept)
<1> DEFINE T == Seq(L)
           step == [n \in 1 .. N |-> [x \in T |-> Keep(x, lines[n])]]
           F(w) == [n \in 0 .. N |-> IF n = 0 THEN <<>> ELSE Keep(w[n - 1], lines[n])]
           end == CHOOSE w : w = F(w)
           empty == <<>>
<1>1. empty \in T /\ \A n \in 1 .. N : \A x \in T : Keep(x, lines[n]) \in T
  BY DEF Keep
<1>2. \A n \in 1 .. N : \A x \in T : step[n][x] = Keep(x, lines[n]) /\ step[n][x] \in T
  BY <1>1
<1> HIDE DEF step, T, empty
<1>3. PICK f : Run(N, T, empty, step, f)
  <2>1. Steps(N, T, empty, step)
    BY <1>1, <1>2 DEF Steps
  <2> QED  BY <2>1, Recursion
<1>4. f \in [0 .. N -> T] /\ f[0] = empty /\ \A n \in 1 .. N : f[n] = step[n][f[n - 1]]
  BY <1>3 DEF Run
<1>5. ASSUME NEW n \in 1 .. N
      PROVE  f[n] = Keep(f[n - 1], lines[n])
  <2>1. n - 1 \in 0 .. N
    OBVIOUS
  <2>2. f[n - 1] \in T /\ f[n] = step[n][f[n - 1]]
    BY <1>4, <2>1
  <2> QED  BY <1>2, <2>2
<1>6. f = F(f)
  <2>1. f = [n \in 0 .. N |-> f[n]]
    BY <1>4
  <2>2. \A n \in 0 .. N : f[n] = IF n = 0 THEN <<>> ELSE Keep(f[n - 1], lines[n])
    BY <1>4, <1>5 DEF empty
  <2> QED  BY <2>1, <2>2
<1>7. end = F(end)
  <2> HIDE DEF F
  <2> QED  BY <1>6
<1>8. UniquePreserve(lines) = end[N]
  BY DEF UniquePreserve
<1> HIDE DEF end
<1>9. end = f
  <2> DEFINE Good == {n \in 0 .. N : end[n] = f[n]}
  <2>1. \A n \in 0 .. N : end[n] = IF n = 0 THEN <<>> ELSE Keep(end[n - 1], lines[n])
    BY <1>7
  <2>2. end = [n \in 0 .. N |-> end[n]]
    BY <1>7
  <2> HIDE DEF F
  <2>3. 0 \in Good
    BY <1>4, <2>1 DEF empty
  <2>4. ASSUME NEW n \in 0 .. N - 1, n \in Good
        PROVE  n + 1 \in Good
    <3>1. n + 1 \in 1 .. N /\ n + 1 \in 0 .. N /\ n + 1 # 0 /\ (n + 1) - 1 = n
      OBVIOUS
    <3>2. end[n + 1] = Keep(end[n], lines[n + 1]) /\ f[n + 1] = Keep(f[n], lines[n + 1])
      BY <1>5, <2>1, <3>1
    <3> QED  BY <2>4, <3>1, <3>2
  <2> HIDE DEF Good
  <2>5. Passes(N, Good)
    BY <2>3, <2>4 DEF Passes
  <2>6. \A n \in 0 .. N : n \in Good
    BY <2>5, UpTo
  <2>7. f = [n \in 0 .. N |-> f[n]]
    BY <1>4
  <2> QED  BY <2>2, <2>6, <2>7 DEF Good
<1> QED  BY <1>4, <1>5, <1>8, <1>9 DEF Keeps, empty, T

\* A line is kept unless it is empty or kept already.
LEMMA KeepHolds ==
    ASSUME NEW L, NEW kept \in Seq(L), NEW l \in L
    PROVE  /\ Keep(kept, l) \in Seq(L)
           /\ \A x : x \in ToSet(Keep(kept, l)) <=> x \in ToSet(kept) \/ (x = l /\ l # NoLine)
<1>1. CASE l = NoLine
  BY <1>1 DEF Keep
<1>2. CASE l # NoLine /\ Contains(kept, l)
  <2>1. l \in ToSet(kept)
    BY <1>2 DEF Contains, ToSet
  <2> QED  BY <1>2, <2>1 DEF Keep
<1>3. CASE l # NoLine /\ ~Contains(kept, l)
  <2>1. Keep(kept, l) = Append(kept, l)
    BY <1>3 DEF Keep
  <2> QED  BY <1>3, <2>1, AppendHolds
<1> QED  BY <1>1, <1>2, <1>3

\* The lines kept are the lines there are.
LEMMA UniqueLines ==
    ASSUME NEW L, NEW lines \in Seq(L)
    PROVE  /\ UniquePreserve(lines) \in Seq(L)
           /\ \A l : l \in ToSet(UniquePreserve(lines)) <=> l \in ToSet(lines) /\ l # NoLine
<1> DEFINE N == Len(lines)
<1>1. N \in Nat /\ DOMAIN lines = 1 .. N /\ \A n \in 1 .. N : lines[n] \in L
  OBVIOUS
<1> HIDE DEF N
<1>2. PICK kept : Keeps(L, lines, N, kept)
  <2>1. Len(lines) = N
    BY DEF N
  <2> QED  BY <1>1, <2>1, KeptSteps
<1>3. /\ kept \in [0 .. N -> Seq(L)] /\ kept[0] = <<>>
      /\ \A n \in 1 .. N : kept[n] = Keep(kept[n - 1], lines[n])
      /\ UniquePreserve(lines) = kept[N]
  BY <1>2 DEF Keeps
<1> DEFINE Holds(n) == \A l : l \in ToSet(kept[n]) <=> (\E i \in 1 .. n : l = lines[i]) /\ l # NoLine
           Good == {n \in 0 .. N : Holds(n)}
<1>4. Holds(0)
  BY <1>3 DEF ToSet
<1>5. ASSUME NEW n \in 0 .. N - 1, Holds(n)
      PROVE  Holds(n + 1)
  <2>1. n + 1 \in 1 .. N /\ (n + 1) - 1 = n /\ n \in 0 .. N
    BY <1>1
  <2>2. kept[n + 1] = Keep(kept[n], lines[n + 1]) /\ kept[n] \in Seq(L) /\ lines[n + 1] \in L
    BY <1>1, <1>3, <2>1
  <2>3. \A x : x \in ToSet(kept[n + 1]) <=> x \in ToSet(kept[n]) \/ (x = lines[n + 1] /\ lines[n + 1] # NoLine)
    <3> DEFINE k == kept[n]
               e == lines[n + 1]
    <3>1. k \in Seq(L) /\ e \in L
      BY <2>2
    <3> HIDE DEF k, e
    <3>2. \A x : x \in ToSet(Keep(k, e)) <=> x \in ToSet(k) \/ (x = e /\ e # NoLine)
      BY <3>1, KeepHolds
    <3> QED  BY <2>2, <3>2 DEF k, e
  <2>4. ASSUME NEW l
        PROVE  (\E i \in 1 .. n + 1 : l = lines[i]) <=> (\E i \in 1 .. n : l = lines[i]) \/ l = lines[n + 1]
    BY <2>1
  <2> QED  BY <1>5, <2>3, <2>4
<1>6. \A n \in 0 .. N : Holds(n)
  <2>1. 0 \in Good /\ \A n \in 0 .. N - 1 : n \in Good => n + 1 \in Good
    <3> HIDE DEF Holds
    <3> QED  BY <1>1, <1>4, <1>5
  <2> HIDE DEF Good
  <2>2. Passes(N, Good)
    BY <1>1, <2>1 DEF Passes
  <2>3. \A n \in 0 .. N : n \in Good
    BY <2>2, UpTo
  <2> QED  BY <2>3 DEF Good
<1>7. Holds(N) /\ kept[N] \in Seq(L)
  BY <1>1, <1>3, <1>6
<1>8. \A l : l \in ToSet(lines) <=> \E i \in 1 .. N : l = lines[i]
  BY <1>1 DEF ToSet
<1> QED  BY <1>3, <1>7, <1>8

\* The place of a block is the first one with its id.
LEMMA PlaceIsFirst ==
    ASSUME NEW B, NEW blocks \in Seq(B), NEW id
    PROVE  /\ PlaceOf(blocks, id) = 0 => \A i \in DOMAIN blocks : blocks[i].id # id
           /\ PlaceOf(blocks, id) # 0 =>
                /\ PlaceOf(blocks, id) \in DOMAIN blocks
                /\ blocks[PlaceOf(blocks, id)].id = id
<1> DEFINE I == {i \in 1 .. Len(blocks) : blocks[i].id = id}
<1>1. PlaceOf(blocks, id) = IF I # {} THEN Min(I) ELSE 0
  BY DEF PlaceOf, SelectInSeq
<1>2. DOMAIN blocks = 1 .. Len(blocks) /\ I \in SUBSET Nat /\ I \subseteq 1 .. Len(blocks) /\ 0 \notin I
  OBVIOUS
<1>3. \A i \in 1 .. Len(blocks) : i \in I <=> blocks[i].id = id
  OBVIOUS
<1> HIDE DEF I
<1>4. I # {} => Min(I) \in I
  BY <1>2, MinIsLeast
<1> QED  BY <1>1, <1>2, <1>3, <1>4

----------------------------------------------------------------------------
\* What a parser reads

\* The classes a parser may give to the lines of a text, the blocks and the
\* states of the parser over them.
Classes(parser, L) ==
    {Fallback(l) : l \in L} \cup {ClassifySetLine(parser, l) : l \in L}
        \cup {OrElse(ClassifyLine(l), SectionClass(s, l, l)) : l \in L, s \in L}
        \cup {SectionClass(s, Tail(l), s \o l) : l \in L, s \in L}
Blocks(C, L) ==
    [id : {c.id : c \in C}, kind : {c.kind : c \in C}, header : {c.header : c \in C}, lines : Seq(L)]
Readings(B, L) == [done : Seq(B), open : {<<>>} \cup {<<b>> : b \in B}, section : L]

\* Some block holds the line.
Quotes(blocks, l) == \E b \in ToSet(blocks) : l \in ToSet(b.lines)
Held(st, l) == Quotes(st.done, l) \/ Quotes(st.open, l)

\* FortiOS: a line that opens a section is only the heading of its entries, and
\* next and end close what is open.
Quotable(parser, l) ==
    l # NoLine /\ (parser = "fortinet" => ~IsSectionLine(l) /\ l \notin {<<"next">>, <<"end">>})

LEMMA BlockHasLines ==
    ASSUME NEW C, NEW L
    PROVE  /\ \A c \in C : \A ls \in Seq(L) : BlockOf(c, ls) \in Blocks(C, L) /\ BlockOf(c, ls).lines = ls
           /\ \A b \in Blocks(C, L) : \A ls \in Seq(L) :
                 WithLines(b, ls) \in Blocks(C, L) /\ WithLines(b, ls).lines = ls
                 /\ WithLines(b, ls).id = b.id
           /\ \A b \in Blocks(C, L) : b.lines \in Seq(L)
BY DEF Blocks, BlockOf, WithLines, Block

\* Closing a block drops nothing but empty and repeated lines.
LEMMA ClosedHolds ==
    ASSUME NEW C, NEW L, NEW b \in Blocks(C, L)
    PROVE  /\ Closed(b) \in Blocks(C, L) /\ Closed(b).id = b.id
           /\ \A l : l \in ToSet(Closed(b).lines) <=> l \in ToSet(b.lines) /\ l # NoLine
<1>1. b.lines \in Seq(L)
  BY BlockHasLines
<1>2. /\ UniquePreserve(b.lines) \in Seq(L)
      /\ \A l : l \in ToSet(UniquePreserve(b.lines)) <=> l \in ToSet(b.lines) /\ l # NoLine
  BY <1>1, UniqueLines
<1> QED  BY <1>2, BlockHasLines DEF Closed

\* One more block quotes what it holds.
LEMMA QuotesMore ==
    ASSUME NEW B, NEW blocks \in Seq(B), NEW b \in B
    PROVE  /\ Append(blocks, b) \in Seq(B)
           /\ \A l : Quotes(Append(blocks, b), l) <=> Quotes(blocks, l) \/ l \in ToSet(b.lines)
<1>1. Append(blocks, b) \in Seq(B) /\ \A x : x \in ToSet(Append(blocks, b)) <=> x \in ToSet(blocks) \/ x = b
  BY AppendHolds
<1> QED  BY <1>1 DEF Quotes

LEMMA QuotesOne ==
    ASSUME NEW b
    PROVE  \A l : Quotes(<<b>>, l) <=> l \in ToSet(b.lines)
BY DEF Quotes, ToSet

LEMMA QuotesNone == \A l : ~Quotes(<<>>, l)
BY DEF Quotes, ToSet

\* Closing the open block loses no line.
LEMMA FlushKeeps ==
    ASSUME NEW C, NEW L, NEW st \in Readings(Blocks(C, L), L)
    PROVE  /\ Flush(st) \in Readings(Blocks(C, L), L) /\ Flush(st).open = <<>>
           /\ \A l : l # NoLine => (Held(Flush(st), l) <=> Held(st, l))
<1> DEFINE B == Blocks(C, L)
<1>1. st.done \in Seq(B) /\ st.section \in L /\ (st.open = <<>> \/ \E b \in B : st.open = <<b>>)
  BY DEF Readings
<1>2. CASE st.open = <<>>
  BY <1>2 DEF Flush
<1>3. ASSUME NEW b \in B, st.open = <<b>>
      PROVE  /\ Flush(st) \in Readings(B, L) /\ Flush(st).open = <<>>
             /\ \A l : l # NoLine => (Held(Flush(st), l) <=> Held(st, l))
  <2> DEFINE c == Closed(b)
             done == Append(st.done, c)
  <2>1. c \in B /\ \A l : l \in ToSet(c.lines) <=> l \in ToSet(b.lines) /\ l # NoLine
    BY ClosedHolds
  <2>2. Flush(st) = Reading(done, <<>>, st.section)
    BY <1>3 DEF Flush
  <2> HIDE DEF c, B
  <2>3. done \in Seq(B) /\ \A l : Quotes(done, l) <=> Quotes(st.done, l) \/ l \in ToSet(c.lines)
    BY <1>1, <2>1, QuotesMore
  <2> HIDE DEF done
  <2>4. /\ Flush(st).done = done /\ Flush(st).open = <<>> /\ Flush(st) \in Readings(B, L)
    BY <1>1, <2>2, <2>3 DEF Reading, Readings
  <2>5. \A l : Quotes(st.open, l) <=> l \in ToSet(b.lines)
    BY <1>3, QuotesOne
  <2> QED  BY <2>1, <2>3, <2>4, <2>5, QuotesNone DEF Held
<1> QED  BY <1>1, <1>2, <1>3

\* What each move of a parser quotes afterwards.
LEMMA ContinueQuotes ==
    ASSUME NEW C, NEW L, NEW st \in Readings(Blocks(C, L), L), st.open # <<>>, NEW l \in L
    PROVE  /\ Continue(st, l) \in Readings(Blocks(C, L), L)
           /\ \A x : Held(Continue(st, l), x) <=> Held(st, x) \/ x = l
<1> DEFINE B == Blocks(C, L)
<1>1. st.done \in Seq(B) /\ st.section \in L /\ \E b \in B : st.open = <<b>>
  BY DEF Readings
<1>2. PICK b \in B : st.open = <<b>>
  BY <1>1
<1> DEFINE longer == Append(b.lines, l)
           c == WithLines(b, longer)
<1>3. b.lines \in Seq(L)
  BY BlockHasLines
<1>4. longer \in Seq(L) /\ \A x : x \in ToSet(longer) <=> x \in ToSet(b.lines) \/ x = l
  BY <1>3, AppendHolds
<1>5. Continue(st, l) = Reading(st.done, <<c>>, st.section)
  BY <1>2 DEF Continue
<1> HIDE DEF longer
<1>6. c \in B /\ c.lines = longer
  BY <1>4, BlockHasLines
<1> HIDE DEF c, B
<1>7. \A x : (Quotes(<<b>>, x) <=> x \in ToSet(b.lines)) /\ (Quotes(<<c>>, x) <=> x \in ToSet(c.lines))
  BY QuotesOne
<1>8. /\ Continue(st, l).done = st.done /\ Continue(st, l).open = <<c>>
      /\ Continue(st, l) \in Readings(B, L)
  BY <1>1, <1>5, <1>6 DEF Reading, Readings
<1> QED  BY <1>2, <1>4, <1>6, <1>7, <1>8 DEF Held, B

LEMMA AddBlockQuotes ==
    ASSUME NEW C, NEW L, NEW st \in Readings(Blocks(C, L), L), NEW b \in Blocks(C, L)
    PROVE  /\ AddBlock(st, b) \in Readings(Blocks(C, L), L)
           /\ \A x : Held(AddBlock(st, b), x) <=> Held(st, x) \/ x \in ToSet(b.lines)
<1> DEFINE B == Blocks(C, L)
<1> HIDE DEF B
<1>1. st.done \in Seq(B) /\ st.section \in L /\ st.open \in {<<>>} \cup {<<c>> : c \in B} /\ b \in B
  BY DEF Readings, B
<1> DEFINE done == Append(st.done, b)
<1>2. done \in Seq(B) /\ \A l : Quotes(done, l) <=> Quotes(st.done, l) \/ l \in ToSet(b.lines)
  BY <1>1, QuotesMore
<1>3. AddBlock(st, b) = Reading(done, st.open, st.section)
  BY DEF AddBlock
<1> HIDE DEF done
<1>4. /\ AddBlock(st, b).done = done /\ AddBlock(st, b).open = st.open
      /\ AddBlock(st, b) \in Readings(B, L)
  BY <1>1, <1>2, <1>3 DEF Reading, Readings
<1> QED  BY <1>2, <1>4 DEF Held, B

LEMMA OpenQuotes ==
    ASSUME NEW C, NEW L, NEW st \in Readings(Blocks(C, L), L), st.open = <<>>, NEW b \in Blocks(C, L)
    PROVE  /\ Open(st, b) \in Readings(Blocks(C, L), L)
           /\ \A x : Held(Open(st, b), x) <=> Held(st, x) \/ x \in ToSet(b.lines)
<1> DEFINE B == Blocks(C, L)
<1> HIDE DEF B
<1>1. st.done \in Seq(B) /\ st.section \in L /\ b \in B
  BY DEF Readings, B
<1>2. Open(st, b).done = st.done /\ Open(st, b).open = <<b>> /\ Open(st, b) \in Readings(B, L)
  BY <1>1 DEF Open, Reading, Readings
<1>3. \A x : (Quotes(<<b>>, x) <=> x \in ToSet(b.lines)) /\ ~Quotes(st.open, x)
  BY QuotesOne, QuotesNone
<1> QED  BY <1>2, <1>3 DEF Held, B

LEMMA InSectionQuotes ==
    ASSUME NEW B, NEW L, NEW st \in Readings(B, L), NEW l \in L
    PROVE  /\ InSection(st, l) \in Readings(B, L)
           /\ \A x : Held(InSection(st, l), x) <=> Held(st, x)
<1>1. st.done \in Seq(B) /\ st.open \in {<<>>} \cup {<<c>> : c \in B}
  BY DEF Readings
<1>2. /\ InSection(st, l).done = st.done /\ InSection(st, l).open = st.open
      /\ InSection(st, l) \in Readings(B, L)
  BY <1>1 DEF InSection, Reading, Readings
<1> QED  BY <1>2 DEF Held

\* One line has been read: what was quoted still is, and the line is.
Reads(C, L, quoted, st, l, next) ==
    /\ next \in Readings(Blocks(C, L), L)
    /\ \A x : x # NoLine /\ Held(st, x) => Held(next, x)
    /\ quoted /\ l # NoLine => Held(next, l)

LEMMA OneLineBlock ==
    ASSUME NEW C, NEW L, NEW c \in C, NEW l \in L
    PROVE  BlockOf(c, <<l>>) \in Blocks(C, L) /\ \A x : x \in ToSet(BlockOf(c, <<l>>).lines) <=> x = l
<1> DEFINE ls == <<l>>
<1>1. ls \in Seq(L) /\ \A x : x \in ToSet(ls) <=> x = l
  BY DEF ToSet
<1> HIDE DEF ls
<1>2. BlockOf(c, ls) \in Blocks(C, L) /\ BlockOf(c, ls).lines = ls
  BY <1>1, BlockHasLines
<1> QED  BY <1>1, <1>2 DEF ls

LEMMA GenericStepReads ==
    ASSUME NEW C, NEW L, NEW st \in Readings(Blocks(C, L), L), NEW indent, NEW l \in L, Fallback(l) \in C
    PROVE  Reads(C, L, TRUE, st, l, GenericStep(st, indent, l))
<1> DEFINE b == BlockOf(Fallback(l), <<l>>)
           f == Flush(st)
           S == Readings(Blocks(C, L), L)
<1>1. CASE indent /\ st.open # <<>>
  <2>1. GenericStep(st, indent, l) = Continue(st, l)
    BY <1>1 DEF GenericStep
  <2>2. Continue(st, l) \in S /\ \A x : Held(Continue(st, l), x) <=> Held(st, x) \/ x = l
    BY <1>1, ContinueQuotes
  <2> QED  BY <2>1, <2>2 DEF Reads
<1>2. CASE ~(indent /\ st.open # <<>>)
  <2>1. GenericStep(st, indent, l) \in {Open(f, b), AddBlock(f, b)}
    BY <1>2 DEF GenericStep, OpenOrAdd
  <2>3. b \in Blocks(C, L) /\ \A x : x \in ToSet(b.lines) <=> x = l
    BY OneLineBlock
  <2>4. f \in S /\ f.open = <<>> /\ \A x : x # NoLine => (Held(f, x) <=> Held(st, x))
    BY FlushKeeps
  <2> HIDE DEF b, f
  <2>5. \A g \in {Open(f, b), AddBlock(f, b)} : g \in S /\ \A x : Held(g, x) <=> Held(f, x) \/ x \in ToSet(b.lines)
    BY <2>3, <2>4, OpenQuotes, AddBlockQuotes
  <2> QED  BY <2>1, <2>3, <2>4, <2>5 DEF Reads
<1> QED  BY <1>1, <1>2

LEMMA SetStyleStepReads ==
    ASSUME NEW C, NEW L, NEW st \in Readings(Blocks(C, L), L), NEW parser, NEW l \in L,
           ClassifySetLine(parser, l) \in C
    PROVE  Reads(C, L, TRUE, st, l, SetStyleStep(parser, st, l))
<1> DEFINE b == BlockOf(ClassifySetLine(parser, l), <<l>>)
<1>1. b \in Blocks(C, L) /\ \A x : x \in ToSet(b.lines) <=> x = l
  BY OneLineBlock
<1>2. SetStyleStep(parser, st, l) = AddBlock(st, b)
  BY DEF SetStyleStep
<1> HIDE DEF b
<1>3. /\ AddBlock(st, b) \in Readings(Blocks(C, L), L)
      /\ \A x : Held(AddBlock(st, b), x) <=> Held(st, x) \/ x \in ToSet(b.lines)
  BY <1>1, AddBlockQuotes
<1> QED  BY <1>1, <1>2, <1>3 DEF Reads

LEMMA FortinetStepReads ==
    ASSUME NEW C, NEW L, NoLine \in L, NEW st \in Readings(Blocks(C, L), L), NEW l \in L,
           \A s \in L : OrElse(ClassifyLine(l), SectionClass(s, l, l)) \in C
                        /\ SectionClass(s, Tail(l), s \o l) \in C
    PROVE  Reads(C, L, Quotable("fortinet", l), st, l, FortinetStep(st, l))
<1> DEFINE S == Readings(Blocks(C, L), L)
           f == Flush(st)
           entry == BlockOf(SectionClass(st.section, Tail(l), st.section \o l), <<st.section, l>>)
           alone == BlockOf(OrElse(ClassifyLine(l), SectionClass(st.section, l, l)), <<l>>)
           edit == Starts(l, <<"edit">>) /\ Len(l) > 1
           Step(q, next) == Reads(C, L, q, st, l, next)
<1>1. f \in S /\ f.open = <<>> /\ \A x : x # NoLine => (Held(f, x) <=> Held(st, x))
  BY FlushKeeps
<1>2. st.section \in L
  BY DEF Readings
<1>3. alone \in Blocks(C, L) /\ \A x : x \in ToSet(alone.lines) <=> x = l
  <2> DEFINE c == OrElse(ClassifyLine(l), SectionClass(st.section, l, l))
  <2>1. c \in C
    BY <1>2
  <2> HIDE DEF c
  <2>2. BlockOf(c, <<l>>) \in Blocks(C, L) /\ \A x : x \in ToSet(BlockOf(c, <<l>>).lines) <=> x = l
    BY <2>1, OneLineBlock
  <2> QED  BY <2>2 DEF c
<1>4. entry \in Blocks(C, L) /\ l \in ToSet(entry.lines)
  <2> DEFINE c == SectionClass(st.section, Tail(l), st.section \o l)
             ls == <<st.section, l>>
  <2>1. c \in C /\ ls \in Seq(L) /\ l \in ToSet(ls)
    BY <1>2 DEF ToSet
  <2> HIDE DEF c, ls
  <2>2. BlockOf(c, ls) \in Blocks(C, L) /\ BlockOf(c, ls).lines = ls
    BY <2>1, BlockHasLines
  <2> QED  BY <2>1, <2>2 DEF c, ls
<1>5. FortinetStep(st, l) = CASE IsSectionLine(l) -> InSection(f, l)
                              [] edit -> Open(f, entry)
                              [] l = <<"next">> -> f
                              [] l = <<"end">> -> InSection(f, NoLine)
                              [] OTHER -> IF st.open # <<>> THEN Continue(st, l) ELSE AddBlock(st, alone)
  BY DEF FortinetStep
<1>6. edit => ~IsSectionLine(l) /\ l # <<"next">> /\ l # <<"end">>
  <2>1. edit => Len(l) > 1 /\ l[1] = "edit"
    BY DEF Starts, IsPrefix
  <2>2. IsSectionLine(l) => l[1] = "config"
    BY DEF IsSectionLine, Starts, IsPrefix
  <2>3. "edit" # "config" /\ <<"next">>[1] = "next" /\ <<"end">>[1] = "end" /\ "edit" # "next" /\ "edit" # "end"
    OBVIOUS
  <2> QED  BY <2>1, <2>2, <2>3
<1> HIDE DEF f, entry, alone, edit
<1>7. \A s \in L : Step(FALSE, InSection(f, s)) /\ Step(FALSE, f)
  BY <1>1, InSectionQuotes DEF Reads
<1>8. Step(TRUE, Open(f, entry))
  <2>1. Open(f, entry) \in S /\ \A x : Held(Open(f, entry), x) <=> Held(f, x) \/ x \in ToSet(entry.lines)
    BY <1>1, <1>4, OpenQuotes
  <2> QED  BY <1>1, <1>4, <2>1 DEF Reads
<1>9. st.open # <<>> => Step(TRUE, Continue(st, l))
  BY ContinueQuotes DEF Reads
<1>10. Step(TRUE, AddBlock(st, alone))
  <2>1. /\ AddBlock(st, alone) \in S
        /\ \A x : Held(AddBlock(st, alone), x) <=> Held(st, x) \/ x \in ToSet(alone.lines)
    BY <1>3, AddBlockQuotes
  <2> QED  BY <1>3, <2>1 DEF Reads
<1>11. ~IsSectionLine(l) /\ ~edit /\ l # <<"next">> /\ l # <<"end">> => Step(TRUE, FortinetStep(st, l))
  BY <1>5, <1>9, <1>10
<1>12. edit => Step(TRUE, FortinetStep(st, l))
  BY <1>5, <1>6, <1>8
<1>13. ~edit /\ (IsSectionLine(l) \/ l = <<"next">> \/ l = <<"end">>) => Step(FALSE, FortinetStep(st, l))
  <2>1. IsSectionLine(l) /\ ~edit => Step(FALSE, FortinetStep(st, l))
    BY <1>5, <1>7
  <2>2. ~IsSectionLine(<<"next">>) /\ ~IsSectionLine(<<"end">>) /\ <<"next">> # <<"end">>
    BY DEF IsSectionLine
  <2>3. l = <<"next">> /\ ~edit => Step(FALSE, FortinetStep(st, l))
    BY <1>5, <1>7, <2>2
  <2>4. l = <<"end">> /\ ~edit => Step(FALSE, FortinetStep(st, l))
    BY <1>5, <1>7, <2>2
  <2> QED  BY <2>1, <2>3, <2>4
<1> QED
  BY <1>11, <1>12, <1>13 DEF Reads, Quotable

LEMMA LineIsRead ==
    ASSUME NEW parser, NEW L, NoLine \in L, NEW st \in Readings(Blocks(Classes(parser, L), L), L),
           NEW indent, NEW l \in L
    PROVE  Reads(Classes(parser, L), L, Quotable(parser, l), st, l, ParseLine(parser, st, indent, l))
<1> DEFINE C == Classes(parser, L)
<1>1. /\ Fallback(l) \in C /\ ClassifySetLine(parser, l) \in C
      /\ \A s \in L : OrElse(ClassifyLine(l), SectionClass(s, l, l)) \in C
                      /\ SectionClass(s, Tail(l), s \o l) \in C
  BY DEF Classes
<1> HIDE DEF C
<1>2. st \in Readings(Blocks(C, L), L)
  BY DEF C
<1>3. CASE l = NoLine
  BY <1>2, <1>3 DEF Reads, ParseLine, C
<1>4. CASE l # NoLine /\ parser = "fortinet"
  BY <1>1, <1>2, <1>4, FortinetStepReads DEF ParseLine, C
<1>5. CASE l # NoLine /\ parser # "fortinet" /\ parser \in SetStyle
  <2>1. Reads(C, L, TRUE, st, l, SetStyleStep(parser, st, l))
    BY <1>1, <1>2, SetStyleStepReads
  <2> QED  BY <1>5, <2>1 DEF ParseLine, Reads, C
<1>6. CASE l # NoLine /\ parser # "fortinet" /\ parser \notin SetStyle
  <2>1. Reads(C, L, TRUE, st, l, GenericStep(st, indent, l))
    BY <1>1, <1>2, GenericStepReads
  <2> QED  BY <1>6, <2>1 DEF ParseLine, Reads, C
<1> QED  BY <1>3, <1>4, <1>5, <1>6

\* Read is what its recursion says.
ReadsOn(parser, text, N, S, st) ==
    /\ st \in [0 .. N -> S] /\ st[0] = Start
    /\ \A n \in 1 .. N : st[n] = ParseStep(parser, st[n - 1], text[n])
    /\ Read(parser, text) = st[N]

LEMMA ReadSteps ==
    ASSUME NEW parser, NEW text, NEW N \in Nat, Len(text) = N, NEW S, Start \in S,
           \A n \in 1 .. N : \A x \in S : ParseStep(parser, x, text[n]) \in S
    PROVE  \E st : ReadsOn(parser, text, N, S, st)
<1> DEFINE step == [n \in 1 .. N |-> [x \in S |-> ParseStep(parser, x, text[n])]]
           F(w) == [n \in 0 .. N |-> IF n = 0 THEN Start ELSE ParseStep(parser, w[n - 1], text[n])]
           end == CHOOSE w : w = F(w)
<1>1. \A n \in 1 .. N : \A x \in S : step[n][x] = ParseStep(parser, x, text[n]) /\ step[n][x] \in S
  OBVIOUS
<1> HIDE DEF step
<1>2. PICK f : Run(N, S, Start, step, f)
  <2>1. Steps(N, S, Start, step)
    BY <1>1 DEF Steps
  <2> QED  BY <2>1, Recursion
<1>3. f \in [0 .. N -> S] /\ f[0] = Start /\ \A n \in 1 .. N : f[n] = step[n][f[n - 1]]
  BY <1>2 DEF Run
<1>4. ASSUME NEW n \in 1 .. N
      PROVE  f[n] = ParseStep(parser, f[n - 1], text[n])
  <2>1. n - 1 \in 0 .. N
    OBVIOUS
  <2>2. f[n - 1] \in S /\ f[n] = step[n][f[n - 1]]
    BY <1>3, <2>1
  <2> QED  BY <1>1, <2>2
<1>5. f = F(f)
  <2>1. f = [n \in 0 .. N |-> f[n]]
    BY <1>3
  <2>2. \A n \in 0 .. N : f[n] = IF n = 0 THEN Start ELSE ParseStep(parser, f[n - 1], text[n])
    BY <1>3, <1>4
  <2> QED  BY <2>1, <2>2
<1>6. end = F(end)
  <2> HIDE DEF F
  <2> QED  BY <1>5
<1>7. Read(parser, text) = end[N]
  BY DEF Read
<1> HIDE DEF end
<1>8. end = f
  <2> DEFINE Good == {n \in 0 .. N : end[n] = f[n]}
  <2>1. \A n \in 0 .. N : end[n] = IF n = 0 THEN Start ELSE ParseStep(parser, end[n - 1], text[n])
    BY <1>6
  <2>2. end = [n \in 0 .. N |-> end[n]]
    BY <1>6
  <2> HIDE DEF F
  <2>3. 0 \in Good
    BY <1>3, <2>1
  <2>4. ASSUME NEW n \in 0 .. N - 1, n \in Good
        PROVE  n + 1 \in Good
    <3>1. n + 1 \in 1 .. N /\ n + 1 \in 0 .. N /\ n + 1 # 0 /\ (n + 1) - 1 = n
      OBVIOUS
    <3>2. end[n + 1] = ParseStep(parser, end[n], text[n + 1]) /\ f[n + 1] = ParseStep(parser, f[n], text[n + 1])
      BY <1>4, <2>1, <3>1
    <3> QED  BY <2>4, <3>1, <3>2
  <2> HIDE DEF Good
  <2>5. Passes(N, Good)
    BY <2>3, <2>4 DEF Passes
  <2>6. \A n \in 0 .. N : n \in Good
    BY <2>5, UpTo
  <2>7. f = [n \in 0 .. N |-> f[n]]
    BY <1>3
  <2> QED  BY <2>2, <2>6, <2>7 DEF Good
<1> QED  BY <1>3, <1>4, <1>7, <1>8 DEF ReadsOn

\* The lines of a text, as the parsers see them.
Normal(text) == {NormalizeLine(raw) : raw \in ToSet(text)} \cup {NoLine}
BlocksIn(parser, L) == Blocks(Classes(parser, L), L)

\* A line of a text is read: the state stays one over lines of the text, and
\* keeps what it quotes.
LEMMA StepReads ==
    ASSUME NEW parser, NEW R, NEW text \in Seq(R), NEW n \in DOMAIN text,
           NEW x \in Readings(BlocksIn(parser, Normal(text)), Normal(text))
    PROVE  /\ ParseStep(parser, x, text[n]) \in Readings(BlocksIn(parser, Normal(text)), Normal(text))
           /\ \A l : l # NoLine /\ Held(x, l) => Held(ParseStep(parser, x, text[n]), l)
           /\ Quotable(parser, NormalizeLine(text[n])) =>
                 Held(ParseStep(parser, x, text[n]), NormalizeLine(text[n]))
<1> DEFINE L == Normal(text)
           C == Classes(parser, L)
           line == NormalizeLine(text[n])
           next == ParseStep(parser, x, text[n])
<1>1. NoLine \in L /\ line \in L
  BY DEF Normal, ToSet
<1>2. x \in Readings(Blocks(C, L), L)
  BY DEF BlocksIn
<1>3. next = ParseLine(parser, x, text[n].indent, line)
  BY DEF ParseStep
<1> HIDE DEF L, line, next
<1>4. Reads(C, L, Quotable(parser, line), x, line, next)
  BY <1>1, <1>2, <1>3, LineIsRead
<1>5. /\ next \in Readings(Blocks(C, L), L)
      /\ \A l : l # NoLine /\ Held(x, l) => Held(next, l)
      /\ Quotable(parser, line) => Held(next, line)
  BY <1>4 DEF Reads, Quotable
<1> QED  BY <1>5 DEF BlocksIn, L, line, next

\* So the states in which a text is read can be told one from the other.
LEMMA ReadRuns ==
    ASSUME NEW parser, NEW R, NEW text \in Seq(R)
    PROVE  \E st : ReadsOn(parser, text, Len(text), Readings(BlocksIn(parser, Normal(text)), Normal(text)), st)
<1> DEFINE N == Len(text)
           S == Readings(BlocksIn(parser, Normal(text)), Normal(text))
<1>1. N \in Nat /\ DOMAIN text = 1 .. N
  OBVIOUS
<1>2. Start \in S
  BY DEF Readings, Start, Reading, Normal
<1>3. \A n \in 1 .. N : \A x \in S : ParseStep(parser, x, text[n]) \in S
  BY <1>1, StepReads
<1> HIDE DEF S
<1>4. \E st : ReadsOn(parser, text, N, S, st)
  BY <1>1, <1>2, <1>3, ReadSteps
<1> QED  BY <1>4 DEF S

\* The lines of a text are quoted once it has been read.
LEMMA ReadQuotes ==
    ASSUME NEW parser, NEW R, NEW text \in Seq(R), NEW L, L = Normal(text)
    PROVE  /\ Read(parser, text) \in Readings(BlocksIn(parser, L), L)
           /\ \A l \in L : Quotable(parser, l) => Held(Read(parser, text), l)
<1> DEFINE N == Len(text)
           S == Readings(BlocksIn(parser, L), L)
           line == [n \in 1 .. N |-> NormalizeLine(text[n])]
<1>1. N \in Nat /\ DOMAIN text = 1 .. N
  OBVIOUS
<1>2. \A l \in L : l = NoLine \/ \E n \in 1 .. N : l = line[n]
  BY <1>1 DEF Normal, ToSet
<1>3. \A n \in 1 .. N : line[n] = NormalizeLine(text[n])
  OBVIOUS
<1> HIDE DEF line
<1>4. ASSUME NEW n \in 1 .. N, NEW x \in S
      PROVE  /\ ParseStep(parser, x, text[n]) \in S
             /\ \A l : l # NoLine /\ Held(x, l) => Held(ParseStep(parser, x, text[n]), l)
             /\ Quotable(parser, line[n]) => Held(ParseStep(parser, x, text[n]), line[n])
  BY <1>1, <1>3, StepReads
<1>5. PICK st : ReadsOn(parser, text, N, S, st)
  BY ReadRuns
<1> HIDE DEF S, N
<1>6. /\ st \in [0 .. N -> S] /\ st[0] = Start
      /\ \A n \in 1 .. N : st[n] = ParseStep(parser, st[n - 1], text[n])
      /\ Read(parser, text) = st[N]
  BY <1>5 DEF ReadsOn
<1> DEFINE Holds(n) == \A m \in 1 .. n : Quotable(parser, line[m]) => Held(st[n], line[m])
           Good == {n \in 0 .. N : Holds(n)}
<1>7. ASSUME NEW n \in 0 .. N - 1, Holds(n)
      PROVE  Holds(n + 1)
  <2>1. n + 1 \in 1 .. N /\ (n + 1) - 1 = n /\ n \in 0 .. N
    BY <1>1
  <2>2. st[n] \in S /\ st[n + 1] = ParseStep(parser, st[n], text[n + 1])
    BY <1>6, <2>1
  <2>3. ASSUME NEW m \in 1 .. n + 1, Quotable(parser, line[m])
        PROVE  Held(st[n + 1], line[m])
    <3>1. CASE m = n + 1
      BY <1>4, <2>1, <2>2, <2>3, <3>1
    <3>2. CASE m # n + 1
      <4>1. m \in 1 .. n
        BY <2>1, <3>2
      <4>2. Held(st[n], line[m]) /\ line[m] # NoLine
        BY <1>7, <2>3, <4>1 DEF Quotable
      <4> QED  BY <1>4, <2>1, <2>2, <4>2
    <3> QED  BY <3>1, <3>2
  <2> QED  BY <2>3
<1>8. Holds(N)
  <2>1. 0 \in Good /\ \A n \in 0 .. N - 1 : n \in Good => n + 1 \in Good
    <3>1. Holds(0)
      OBVIOUS
    <3> HIDE DEF Holds
    <3> QED  BY <1>1, <1>7, <3>1
  <2> HIDE DEF Good
  <2>2. Passes(N, Good)
    BY <1>1, <2>1 DEF Passes
  <2>3. \A n \in 0 .. N : n \in Good
    BY <2>2, UpTo
  <2> QED  BY <1>1, <2>3 DEF Good
<1>9. st[N] \in S
  BY <1>1, <1>6
<1> QED  BY <1>2, <1>6, <1>8, <1>9 DEF S, Quotable

----------------------------------------------------------------------------
\* Blocks with one id become one

Distinct(blocks) == \A i, j \in DOMAIN blocks : blocks[i].id = blocks[j].id => i = j

\* A block joins the one with its id, which then quotes what both held.
LEMMA JoinQuotes ==
    ASSUME NEW C, NEW L, NEW blocks \in Seq(Blocks(C, L)), NEW b \in Blocks(C, L), Distinct(blocks)
    PROVE  /\ Join(blocks, b) \in Seq(Blocks(C, L)) /\ Distinct(Join(blocks, b))
           /\ \A l : Quotes(Join(blocks, b), l) <=> Quotes(blocks, l) \/ l \in ToSet(b.lines)
<1> DEFINE B == Blocks(C, L)
           i == PlaceOf(blocks, b.id)
<1>1. CASE i = 0
  <2>1. Join(blocks, b) = Append(blocks, b)
    BY <1>1 DEF Join
  <2>2. \A j \in DOMAIN blocks : blocks[j].id # b.id
    BY <1>1, PlaceIsFirst
  <2> HIDE DEF B
  <2>3. blocks \in Seq(B) /\ b \in B
    BY DEF B
  <2>4. /\ Append(blocks, b) \in Seq(B) /\ DOMAIN Append(blocks, b) = 1 .. Len(blocks) + 1
        /\ DOMAIN blocks = 1 .. Len(blocks) /\ Append(blocks, b)[Len(blocks) + 1] = b
        /\ \A j \in 1 .. Len(blocks) : Append(blocks, b)[j] = blocks[j]
        /\ \A j \in 1 .. Len(blocks) + 1 : j \in 1 .. Len(blocks) \/ j = Len(blocks) + 1
    BY <2>3
  <2>5. Distinct(Append(blocks, b))
    BY <2>2, <2>4 DEF Distinct
  <2>6. \A l : Quotes(Append(blocks, b), l) <=> Quotes(blocks, l) \/ l \in ToSet(b.lines)
    BY <2>3, QuotesMore
  <2> QED  BY <2>1, <2>4, <2>5, <2>6 DEF B
<1>2. CASE i # 0
  <2> DEFINE more == blocks[i].lines \o b.lines
             c == WithLines(blocks[i], more)
             next == [blocks EXCEPT ![i] = c]
  <2>1. Join(blocks, b) = next
    BY <1>2 DEF Join
  <2>2. i \in DOMAIN blocks /\ blocks[i].id = b.id
    BY <1>2, PlaceIsFirst
  <2>3. blocks[i] \in Blocks(C, L) /\ b.lines \in Seq(L)
    BY <2>2, BlockHasLines
  <2>4. blocks[i].lines \in Seq(L)
    BY <2>3, BlockHasLines
  <2>5. more \in Seq(L) /\ \A l : l \in ToSet(more) <=> l \in ToSet(blocks[i].lines) \/ l \in ToSet(b.lines)
    BY <2>3, <2>4, ConcatHolds
  <2> HIDE DEF more, i
  <2>6. c \in B /\ c.lines = more /\ c.id = blocks[i].id
    BY <2>3, <2>5, BlockHasLines
  <2> HIDE DEF c, B
  <2>7. blocks \in Seq(B)
    BY DEF B
  <2>8. /\ next \in Seq(B) /\ DOMAIN next = DOMAIN blocks /\ next[i] = c
        /\ \A j \in DOMAIN blocks : j # i => next[j] = blocks[j]
    BY <2>2, <2>6, <2>7
  <2> HIDE DEF next
  <2>9. Distinct(next)
    BY <2>6, <2>8 DEF Distinct
  <2>10. ASSUME NEW l
         PROVE  Quotes(next, l) <=> Quotes(blocks, l) \/ l \in ToSet(b.lines)
    <3>1. Quotes(next, l) <=> \E j \in DOMAIN blocks : l \in ToSet(next[j].lines)
      BY <2>8 DEF Quotes, ToSet
    <3>2. Quotes(blocks, l) <=> \E j \in DOMAIN blocks : l \in ToSet(blocks[j].lines)
      BY DEF Quotes, ToSet
    <3>3. l \in ToSet(next[i].lines) <=> l \in ToSet(blocks[i].lines) \/ l \in ToSet(b.lines)
      BY <2>5, <2>6, <2>8
    <3> QED  BY <2>2, <2>8, <3>1, <3>2, <3>3
  <2> QED  BY <2>1, <2>8, <2>9, <2>10 DEF B
<1> QED  BY <1>1, <1>2

\* JoinAll is what its recursion says.
JoinsOn(blocks, N, T, joined) ==
    /\ joined \in [0 .. N -> T] /\ joined[0] = <<>>
    /\ \A n \in 1 .. N : joined[n] = Join(joined[n - 1], blocks[n])
    /\ JoinAll(blocks) = joined[N]

LEMMA JoinSteps ==
    ASSUME NEW blocks, NEW N \in Nat, Len(blocks) = N, NEW T, NEW empty \in T, empty = <<>>,
           \A n \in 1 .. N : \A x \in T : Join(x, blocks[n]) \in T
    PROVE  \E joined : JoinsOn(blocks, N, T, joined)
<1> DEFINE step == [n \in 1 .. N |-> [x \in T |-> Join(x, blocks[n])]]
           F(w) == [n \in 0 .. N |-> IF n = 0 THEN <<>> ELSE Join(w[n - 1], blocks[n])]
           end == CHOOSE w : w = F(w)
<1>1. \A n \in 1 .. N : \A x \in T : step[n][x] = Join(x, blocks[n]) /\ step[n][x] \in T
  OBVIOUS
<1> HIDE DEF step
<1>2. PICK f : Run(N, T, empty, step, f)
  <2>1. Steps(N, T, empty, step)
    BY <1>1 DEF Steps
  <2> QED  BY <2>1, Recursion
<1>3. f \in [0 .. N -> T] /\ f[0] = empty /\ \A n \in 1 .. N : f[n] = step[n][f[n - 1]]
  BY <1>2 DEF Run
<1>4. ASSUME NEW n \in 1 .. N
      PROVE  f[n] = Join(f[n - 1], blocks[n])
  <2>1. n - 1 \in 0 .. N
    OBVIOUS
  <2>2. f[n - 1] \in T /\ f[n] = step[n][f[n - 1]]
    BY <1>3, <2>1
  <2> QED  BY <1>1, <2>2
<1>5. f = F(f)
  <2>1. f = [n \in 0 .. N |-> f[n]]
    BY <1>3
  <2>2. \A n \in 0 .. N : f[n] = IF n = 0 THEN <<>> ELSE Join(f[n - 1], blocks[n])
    BY <1>3, <1>4
  <2> QED  BY <2>1, <2>2
<1>6. end = F(end)
  <2> HIDE DEF F
  <2> QED  BY <1>5
<1>7. JoinAll(blocks) = end[N]
  BY DEF JoinAll
<1> HIDE DEF end
<1>8. end = f
  <2> DEFINE Good == {n \in 0 .. N : end[n] = f[n]}
  <2>1. \A n \in 0 .. N : end[n] = IF n = 0 THEN <<>> ELSE Join(end[n - 1], blocks[n])
    BY <1>6
  <2>2. end = [n \in 0 .. N |-> end[n]]
    BY <1>6
  <2> HIDE DEF F
  <2>3. 0 \in Good
    BY <1>3, <2>1
  <2>4. ASSUME NEW n \in 0 .. N - 1, n \in Good
        PROVE  n + 1 \in Good
    <3>1. n + 1 \in 1 .. N /\ n + 1 \in 0 .. N /\ n + 1 # 0 /\ (n + 1) - 1 = n
      OBVIOUS
    <3>2. end[n + 1] = Join(end[n], blocks[n + 1]) /\ f[n + 1] = Join(f[n], blocks[n + 1])
      BY <1>4, <2>1, <3>1
    <3> QED  BY <2>4, <3>1, <3>2
  <2> HIDE DEF Good
  <2>5. Passes(N, Good)
    BY <2>3, <2>4 DEF Passes
  <2>6. \A n \in 0 .. N : n \in Good
    BY <2>5, UpTo
  <2>7. f = [n \in 0 .. N |-> f[n]]
    BY <1>3
  <2> QED  BY <2>2, <2>6, <2>7 DEF Good
<1> QED  BY <1>3, <1>4, <1>7, <1>8 DEF JoinsOn

\* The blocks joined so far quote what those blocks did, under an id each.
Joining(C, L, blocks, N, joined) ==
    /\ joined \in [0 .. N -> Seq(Blocks(C, L))] /\ joined[0] = <<>>
    /\ \A n \in 1 .. N : joined[n] = Join(joined[n - 1], blocks[n])
    /\ \A n \in 0 .. N : Distinct(joined[n])
    /\ \A n \in 0 .. N : \A l : Quotes(joined[n], l) <=> \E m \in 1 .. n : l \in ToSet(blocks[m].lines)
    /\ JoinAll(blocks) = joined[N]

LEMMA JoinedSoFar ==
    ASSUME NEW C, NEW L, NEW blocks \in Seq(Blocks(C, L))
    PROVE  \E joined : Joining(C, L, blocks, Len(blocks), joined)
<1> DEFINE N == Len(blocks)
           B == Blocks(C, L)
           T == {x \in Seq(B) : Distinct(x)}
           empty == <<>>
<1>1. N \in Nat /\ DOMAIN blocks = 1 .. N /\ \A n \in 1 .. N : blocks[n] \in B
  <2> HIDE DEF B
  <2>1. blocks \in Seq(B)
    BY DEF B
  <2> QED  BY <2>1
<1>2. empty \in T
  BY DEF Distinct
<1>3. ASSUME NEW n \in 1 .. N, NEW x \in T
      PROVE  /\ Join(x, blocks[n]) \in T
             /\ \A l : Quotes(Join(x, blocks[n]), l) <=> Quotes(x, l) \/ l \in ToSet(blocks[n].lines)
  <2>1. x \in Seq(Blocks(C, L)) /\ Distinct(x) /\ blocks[n] \in Blocks(C, L)
    BY <1>1
  <2> QED  BY <2>1, JoinQuotes
<1> HIDE DEF N, B, T, empty
<1>4. PICK joined : JoinsOn(blocks, N, T, joined)
  BY <1>1, <1>2, <1>3, JoinSteps DEF N, empty
<1>5. /\ joined \in [0 .. N -> T] /\ joined[0] = <<>>
      /\ \A n \in 1 .. N : joined[n] = Join(joined[n - 1], blocks[n])
      /\ JoinAll(blocks) = joined[N]
  BY <1>4 DEF JoinsOn
<1> DEFINE Holds(n) == \A l : Quotes(joined[n], l) <=> \E m \in 1 .. n : l \in ToSet(blocks[m].lines)
           Good == {n \in 0 .. N : Holds(n)}
<1>6. ASSUME NEW n \in 0 .. N - 1, Holds(n)
      PROVE  Holds(n + 1)
  <2>1. n + 1 \in 1 .. N /\ (n + 1) - 1 = n /\ n \in 0 .. N
    BY <1>1
  <2>2. joined[n] \in T /\ joined[n + 1] = Join(joined[n], blocks[n + 1])
    BY <1>5, <2>1
  <2>3. \A l : Quotes(joined[n + 1], l) <=> Quotes(joined[n], l) \/ l \in ToSet(blocks[n + 1].lines)
    BY <1>3, <2>1, <2>2
  <2>4. ASSUME NEW l
        PROVE  (\E m \in 1 .. n + 1 : l \in ToSet(blocks[m].lines))
                 <=> (\E m \in 1 .. n : l \in ToSet(blocks[m].lines)) \/ l \in ToSet(blocks[n + 1].lines)
    BY <2>1
  <2> QED  BY <1>6, <2>3, <2>4
<1>7. \A n \in 0 .. N : Holds(n)
  <2>1. 0 \in Good /\ \A n \in 0 .. N - 1 : n \in Good => n + 1 \in Good
    <3>1. Holds(0)
      BY <1>5, QuotesNone
    <3> HIDE DEF Holds
    <3> QED  BY <1>1, <1>6, <3>1
  <2> HIDE DEF Good
  <2>2. Passes(N, Good)
    BY <1>1, <2>1 DEF Passes
  <2>3. \A n \in 0 .. N : n \in Good
    BY <2>2, UpTo
  <2> QED  BY <2>3 DEF Good
<1>8. \A n \in 0 .. N : joined[n] \in Seq(B) /\ Distinct(joined[n])
  BY <1>5 DEF T
<1>9. joined \in [0 .. N -> Seq(B)]
  BY <1>5, <1>8
<1>10. Joining(C, L, blocks, N, joined)
  BY <1>5, <1>7, <1>8, <1>9 DEF Joining, B
<1> QED  BY <1>10 DEF N

LEMMA JoinAllQuotes ==
    ASSUME NEW C, NEW L, NEW blocks \in Seq(Blocks(C, L))
    PROVE  /\ JoinAll(blocks) \in Seq(Blocks(C, L)) /\ Distinct(JoinAll(blocks))
           /\ \A l : Quotes(JoinAll(blocks), l) <=> Quotes(blocks, l)
<1> DEFINE N == Len(blocks)
           B == Blocks(C, L)
<1>1. N \in Nat /\ N \in 0 .. N /\ DOMAIN blocks = 1 .. N
  OBVIOUS
<1>2. PICK joined : Joining(C, L, blocks, N, joined)
  BY JoinedSoFar
<1> HIDE DEF N
<1>3. /\ joined[N] \in Seq(Blocks(C, L)) /\ Distinct(joined[N]) /\ JoinAll(blocks) = joined[N]
      /\ \A l : Quotes(joined[N], l) <=> \E m \in 1 .. N : l \in ToSet(blocks[m].lines)
  BY <1>1, <1>2 DEF Joining
<1>4. \A l : Quotes(blocks, l) <=> \E m \in 1 .. N : l \in ToSet(blocks[m].lines)
  BY <1>1 DEF Quotes, ToSet
<1> QED  BY <1>3, <1>4

\* So do the blocks of mergeRelatedBlocks, which drop the empty lines.
LEMMA MergedQuotes ==
    ASSUME NEW C, NEW L, NEW blocks \in Seq(Blocks(C, L))
    PROVE  /\ MergeRelatedBlocks(blocks) \in Seq(Blocks(C, L)) /\ Distinct(MergeRelatedBlocks(blocks))
           /\ \A l : Quotes(MergeRelatedBlocks(blocks), l) <=> Quotes(blocks, l) /\ l # NoLine
<1> DEFINE B == Blocks(C, L)
           joined == JoinAll(blocks)
           merged == [i \in DOMAIN joined |-> Closed(joined[i])]
<1>1. joined \in Seq(B) /\ Distinct(joined) /\ \A l : Quotes(joined, l) <=> Quotes(blocks, l)
  BY JoinAllQuotes
<1>2. MergeRelatedBlocks(blocks) = merged
  BY DEF MergeRelatedBlocks
<1> HIDE DEF joined
<1>3. ASSUME NEW i \in DOMAIN joined
      PROVE  /\ merged[i] \in B /\ merged[i].id = joined[i].id
             /\ \A l : l \in ToSet(merged[i].lines) <=> l \in ToSet(joined[i].lines) /\ l # NoLine
  <2>1. joined[i] \in Blocks(C, L)
    <3> HIDE DEF B
    <3>1. joined[i] \in B
      BY <1>1
    <3> QED  BY <3>1 DEF B
  <2>2. merged[i] = Closed(joined[i])
    OBVIOUS
  <2> QED  BY <2>1, <2>2, ClosedHolds
<1>4. DOMAIN merged = DOMAIN joined /\ DOMAIN joined = 1 .. Len(joined) /\ Len(joined) \in Nat
  <2> HIDE DEF B
  <2> QED  BY <1>1
<1>5. merged \in Seq(B)
  <2> HIDE DEF B
  <2>1. merged = [i \in 1 .. Len(joined) |-> merged[i]]
    BY <1>4
  <2> HIDE DEF merged
  <2> QED  BY <1>3, <1>4, <2>1
<1> HIDE DEF merged
<1>6. Distinct(merged)
  BY <1>1, <1>3, <1>4 DEF Distinct
<1>7. \A l : Quotes(merged, l) <=> Quotes(joined, l) /\ l # NoLine
  <2>1. \A l : /\ Quotes(merged, l) <=> \E i \in DOMAIN merged : l \in ToSet(merged[i].lines)
               /\ Quotes(joined, l) <=> \E i \in DOMAIN joined : l \in ToSet(joined[i].lines)
    BY DEF Quotes, ToSet
  <2> QED  BY <1>3, <1>4, <2>1
<1> QED  BY <1>1, <1>2, <1>5, <1>6, <1>7

\* Parse: the blocks of a text quote its lines and nothing else.
LEMMA ParseQuotes ==
    ASSUME NEW parser, NEW R, NEW text \in Seq(R), NEW L, L = Normal(text)
    PROVE  /\ Parse(parser, text) \in Seq(BlocksIn(parser, L)) /\ Distinct(Parse(parser, text))
           /\ \A l : Quotes(Parse(parser, text), l) => l \in L /\ l # NoLine
           /\ \A l \in L : Quotable(parser, l) => Quotes(Parse(parser, text), l)
<1> DEFINE C == Classes(parser, L)
           B == Blocks(C, L)
           read == Read(parser, text)
           flushed == Flush(read)
           done == flushed.done
           merged == MergeRelatedBlocks(done)
<1>1. read \in Readings(Blocks(C, L), L) /\ \A l \in L : Quotable(parser, l) => Held(read, l)
  BY ReadQuotes DEF BlocksIn
<1> HIDE DEF read, C
<1>2. /\ flushed \in Readings(Blocks(C, L), L) /\ flushed.open = <<>>
      /\ \A l : l # NoLine => (Held(flushed, l) <=> Held(read, l))
  BY <1>1, FlushKeeps
<1> HIDE DEF flushed
<1>3. done \in Seq(Blocks(C, L)) /\ \A l : Held(flushed, l) <=> Quotes(done, l)
  BY <1>2, QuotesNone DEF Readings, Held
<1> HIDE DEF done
<1>4. /\ merged \in Seq(Blocks(C, L)) /\ Distinct(merged)
      /\ \A l : Quotes(merged, l) <=> Quotes(done, l) /\ l # NoLine
  BY <1>3, MergedQuotes
<1>5. Parse(parser, text) = merged
  BY DEF Parse, merged, done, flushed, read
<1> HIDE DEF merged
<1>6. ASSUME NEW l, Quotes(merged, l)
      PROVE  l \in L /\ l # NoLine
  <2>1. PICK i \in DOMAIN merged : l \in ToSet(merged[i].lines)
    BY <1>6 DEF Quotes, ToSet
  <2>2. merged[i] \in Blocks(C, L)
    <3> HIDE DEF B
    <3>1. merged \in Seq(B)
      BY <1>4 DEF B
    <3>2. merged[i] \in B
      BY <2>1, <3>1
    <3> QED  BY <3>2 DEF B
  <2>3. merged[i].lines \in Seq(L)
    BY <2>2, BlockHasLines
  <2>4. l \in L
    BY <2>1, <2>3 DEF ToSet
  <2> QED  BY <1>4, <1>6, <2>4
<1>7. \A l \in L : Quotable(parser, l) => Quotes(merged, l)
  BY <1>1, <1>2, <1>3, <1>4 DEF Quotable
<1> QED  BY <1>4, <1>5, <1>6, <1>7 DEF BlocksIn, C

----------------------------------------------------------------------------
\* What the diff of blocks quotes

\* The changes between blocks of a set; an added one has nothing before.
ChangesOver(B) ==
    {c \in [id : {b.id : b \in B}, kind : {b.kind : b \in B}, header : {b.header : b \in B},
            type : {"added", "removed", "changed"},
            before : {b.lines : b \in B} \cup {<<>>}, after : {b.lines : b \in B} \cup {<<>>}] :
        c.type = "added" => c.before = <<>>}

\* What a block becomes quotes each line it lost, and each line its successor
\* gained.
LEMMA FateQuotes ==
    ASSUME NEW B, NEW S, S = ChangesOver(B), NEW b \in B, NEW after \in Seq(B)
    PROVE  /\ Fate(b, after) \in Seq(S)
           /\ Distinct(after) => \A l \in ToSet(b.lines) : ~Quotes(after, l) =>
                \E c \in ToSet(Fate(b, after)) : l \in ToSet(c.before)
           /\ Distinct(after) => \A l : \A a \in ToSet(after) :
                a.id = b.id /\ l \in ToSet(a.lines) /\ l \notin ToSet(b.lines) =>
                    \E c \in ToSet(Fate(b, after)) : l \in ToSet(c.after)
<1> DEFINE i == PlaceOf(after, b.id)
           a == after[i]
           gone == Change("removed", b, b.lines, <<>>)
           new == Change("changed", a, b.lines, a.lines)
<1>1. ASSUME NEW c
      PROVE  ToSet(<<c>>) = {c} /\ (c \in S => <<c>> \in Seq(S))
  BY DEF ToSet
<1>2. <<>> \in Seq(S)
  OBVIOUS
<1>3. CASE i = 0
  <2>1. Fate(b, after) = <<gone>>
    BY <1>3 DEF Fate, HasBlock
  <2>2. gone.before = b.lines /\ gone \in S
    BY DEF Change, ChangesOver
  <2>3. \A x \in ToSet(after) : x.id # b.id
    BY <1>3, PlaceIsFirst DEF ToSet
  <2> HIDE DEF gone
  <2> QED  BY <1>1, <2>1, <2>2, <2>3
<1>4. CASE i # 0
  <2>1. i \in DOMAIN after /\ a.id = b.id
    BY <1>4, PlaceIsFirst
  <2>2. a \in B /\ a \in ToSet(after)
    BY <2>1 DEF ToSet
  <2>3. Fate(b, after) = IF SameFingerprint(b, a) THEN <<>> ELSE <<new>>
    BY <1>4 DEF Fate, HasBlock, BlockWith, Changed
  <2>4. SameFingerprint(b, a) => ToSet(b.lines) = ToSet(a.lines)
    BY DEF SameFingerprint
  <2>5. new.before = b.lines /\ new.after = a.lines /\ new \in S
    BY <2>2 DEF Change, ChangesOver
  <2>6. Distinct(after) => \A x \in ToSet(after) : x.id = b.id => x = a
    BY <2>1 DEF Distinct, ToSet
  <2> HIDE DEF i, a, new
  <2>7. ASSUME NEW l \in ToSet(b.lines), ~Quotes(after, l)
        PROVE  \E c \in ToSet(Fate(b, after)) : l \in ToSet(c.before)
    <3>1. l \notin ToSet(a.lines)
      BY <2>2, <2>7 DEF Quotes
    <3>2. Fate(b, after) = <<new>>
      BY <2>3, <2>4, <3>1
    <3> QED  BY <1>1, <2>5, <3>2
  <2>8. ASSUME Distinct(after), NEW l, NEW x \in ToSet(after),
               x.id = b.id, l \in ToSet(x.lines), l \notin ToSet(b.lines)
        PROVE  \E c \in ToSet(Fate(b, after)) : l \in ToSet(c.after)
    <3>1. x = a
      BY <2>6, <2>8
    <3>2. Fate(b, after) = <<new>>
      BY <2>3, <2>4, <2>8, <3>1
    <3> QED  BY <1>1, <2>5, <2>8, <3>1, <3>2
  <2>9. Fate(b, after) \in Seq(S)
    BY <1>1, <1>2, <2>3, <2>5
  <2> QED  BY <2>7, <2>8, <2>9
<1> QED  BY <1>3, <1>4

LEMMA ArrivalQuotes ==
    ASSUME NEW B, NEW S, S = ChangesOver(B), NEW a \in B, NEW earlier \in Seq(B)
    PROVE  /\ Arrival(a, earlier) \in Seq(S)
           /\ (\E b \in ToSet(earlier) : b.id = a.id)
              \/ \A l \in ToSet(a.lines) : \E c \in ToSet(Arrival(a, earlier)) : l \in ToSet(c.after)
<1> DEFINE i == PlaceOf(earlier, a.id)
           new == Change("added", a, <<>>, a.lines)
<1>1. ASSUME NEW c
      PROVE  ToSet(<<c>>) = {c} /\ (c \in S => <<c>> \in Seq(S))
  BY DEF ToSet
<1>2. <<>> \in Seq(S)
  OBVIOUS
<1>3. CASE i = 0
  <2>1. Arrival(a, earlier) = <<new>>
    BY <1>3 DEF Arrival, HasBlock
  <2>2. new.after = a.lines /\ new \in S
    BY DEF Change, ChangesOver
  <2> HIDE DEF new
  <2> QED  BY <1>1, <2>1, <2>2
<1>4. CASE i # 0
  <2>1. Arrival(a, earlier) = <<>>
    BY <1>4 DEF Arrival, HasBlock
  <2>2. i \in DOMAIN earlier /\ earlier[i].id = a.id
    BY <1>4, PlaceIsFirst
  <2>3. earlier[i] \in ToSet(earlier)
    BY <2>2 DEF ToSet
  <2> HIDE DEF i
  <2> QED  BY <1>2, <2>1, <2>2, <2>3
<1> QED  BY <1>3, <1>4

\* What becomes of the blocks there were, and the arrival of those there are.
Fates(earlier, later) == [i \in DOMAIN earlier |-> Fate(earlier[i], later)]
Arrivals(earlier, later) == [i \in DOMAIN later |-> Arrival(later[i], earlier)]

\* A diff puts two sequences of sequences of changes together.
LEMMA DiffParts ==
    ASSUME NEW B, NEW earlier \in Seq(B), NEW later \in Seq(B)
    PROVE  /\ /\ Fates(earlier, later) \in Seq(Seq(ChangesOver(B)))
              /\ Arrivals(earlier, later) \in Seq(Seq(ChangesOver(B)))
           /\ DOMAIN Fates(earlier, later) = DOMAIN earlier /\ DOMAIN Arrivals(earlier, later) = DOMAIN later
           /\ \A i \in DOMAIN earlier : Fates(earlier, later)[i] = Fate(earlier[i], later)
           /\ \A i \in DOMAIN later : Arrivals(earlier, later)[i] = Arrival(later[i], earlier)
           /\ DiffBlocks(earlier, later) = FlattenSeq(Fates(earlier, later)) \o FlattenSeq(Arrivals(earlier, later))
<1> DEFINE S == ChangesOver(B)
           T == Seq(S)
           fates == Fates(earlier, later)
           arrivals == Arrivals(earlier, later)
<1>1. /\ DOMAIN earlier = 1 .. Len(earlier) /\ DOMAIN later = 1 .. Len(later)
      /\ Len(earlier) \in Nat /\ Len(later) \in Nat
      /\ \A i \in DOMAIN earlier : earlier[i] \in B
      /\ \A i \in DOMAIN later : later[i] \in B
  OBVIOUS
<1> HIDE DEF S
<1>2. \A b \in B : Fate(b, later) \in Seq(S) /\ Arrival(b, earlier) \in Seq(S)
  BY FateQuotes, ArrivalQuotes DEF S
<1>3. /\ \A i \in 1 .. Len(earlier) : fates[i] = Fate(earlier[i], later) /\ fates[i] \in T
      /\ \A i \in 1 .. Len(later) : arrivals[i] = Arrival(later[i], earlier) /\ arrivals[i] \in T
  BY <1>1, <1>2 DEF Fates, Arrivals
<1>4. fates = [i \in 1 .. Len(earlier) |-> fates[i]] /\ arrivals = [i \in 1 .. Len(later) |-> arrivals[i]]
  BY <1>1 DEF Fates, Arrivals
<1>5. DiffBlocks(earlier, later) = FlattenSeq(fates) \o FlattenSeq(arrivals)
  BY DEF DiffBlocks, Fates, Arrivals
<1>6. DOMAIN fates = DOMAIN earlier /\ DOMAIN arrivals = DOMAIN later
  BY DEF Fates, Arrivals
<1> HIDE DEF T, fates, arrivals
<1>7. fates \in Seq(T) /\ arrivals \in Seq(T)
  BY <1>1, <1>3, <1>4
<1> QED  BY <1>1, <1>3, <1>5, <1>6, <1>7 DEF S, T, fates, arrivals

\* The changes of a diff are what becomes of the blocks that were there and
\* the arrival of those that are.
LEMMA DiffHolds ==
    ASSUME NEW B, NEW earlier \in Seq(B), NEW later \in Seq(B)
    PROVE  /\ DiffBlocks(earlier, later) \in Seq(ChangesOver(B))
           /\ \A c : c \in ToSet(DiffBlocks(earlier, later)) <=>
                 \/ \E b \in ToSet(earlier) : c \in ToSet(Fate(b, later))
                 \/ \E a \in ToSet(later) : c \in ToSet(Arrival(a, earlier))
<1> DEFINE S == ChangesOver(B)
           fates == Fates(earlier, later)
           arrivals == Arrivals(earlier, later)
           diff == DiffBlocks(earlier, later)
<1>1. /\ fates \in Seq(Seq(S)) /\ arrivals \in Seq(Seq(S))
      /\ DOMAIN fates = DOMAIN earlier /\ DOMAIN arrivals = DOMAIN later
      /\ \A i \in DOMAIN earlier : fates[i] = Fate(earlier[i], later)
      /\ \A i \in DOMAIN later : arrivals[i] = Arrival(later[i], earlier)
      /\ diff = FlattenSeq(fates) \o FlattenSeq(arrivals)
  BY DiffParts
<1> HIDE DEF fates, arrivals, diff, S
<1>2. /\ FlattenSeq(fates) \in Seq(S) /\ FlattenSeq(arrivals) \in Seq(S)
      /\ \A x : x \in ToSet(FlattenSeq(fates)) <=> \E i \in DOMAIN earlier : x \in ToSet(fates[i])
      /\ \A x : x \in ToSet(FlattenSeq(arrivals)) <=> \E i \in DOMAIN later : x \in ToSet(arrivals[i])
  BY <1>1, FlattenHolds
<1>3. diff \in Seq(S) /\ \A x : x \in ToSet(diff) <=> \/ \E i \in DOMAIN earlier : x \in ToSet(fates[i])
                                                    \/ \E i \in DOMAIN later : x \in ToSet(arrivals[i])
  BY <1>1, <1>2, ConcatHolds
<1>4. \A x : (\E i \in DOMAIN earlier : x \in ToSet(fates[i]))
               <=> \E b \in ToSet(earlier) : x \in ToSet(Fate(b, later))
  <2>1. \A b : b \in ToSet(earlier) <=> \E i \in DOMAIN earlier : b = earlier[i]
    BY DEF ToSet
  <2>2. \A i \in DOMAIN earlier : fates[i] = Fate(earlier[i], later)
    BY <1>1
  <2> QED  BY <2>1, <2>2
<1>5. \A x : (\E i \in DOMAIN later : x \in ToSet(arrivals[i]))
               <=> \E a \in ToSet(later) : x \in ToSet(Arrival(a, earlier))
  <2>1. \A a : a \in ToSet(later) <=> \E i \in DOMAIN later : a = later[i]
    BY DEF ToSet
  <2>2. \A i \in DOMAIN later : arrivals[i] = Arrival(later[i], earlier)
    BY <1>1
  <2> QED  BY <2>1, <2>2
<1> QED  BY <1>3, <1>4, <1>5 DEF diff, S

\* The diff quotes every line that is in blocks of one side only.
LEMMA DiffQuotes ==
    ASSUME NEW B, NEW earlier \in Seq(B), NEW later \in Seq(B), Distinct(later)
    PROVE  /\ DiffBlocks(earlier, later) \in Seq(ChangesOver(B))
           /\ \A l : Quotes(earlier, l) /\ ~Quotes(later, l) =>
                 \E c \in ToSet(DiffBlocks(earlier, later)) : l \in ToSet(c.before)
           /\ \A l : Quotes(later, l) /\ ~Quotes(earlier, l) =>
                 \E c \in ToSet(DiffBlocks(earlier, later)) : l \in ToSet(c.after)
<1> DEFINE diff == DiffBlocks(earlier, later)
<1>1. /\ \A x \in ToSet(earlier) : x \in B
      /\ \A x \in ToSet(later) : x \in B
  BY DEF ToSet
<1>2. /\ diff \in Seq(ChangesOver(B))
      /\ \A c : c \in ToSet(diff) <=> \/ \E b \in ToSet(earlier) : c \in ToSet(Fate(b, later))
                                     \/ \E a \in ToSet(later) : c \in ToSet(Arrival(a, earlier))
  BY DiffHolds
<1> HIDE DEF diff
<1>3. ASSUME NEW l, Quotes(earlier, l), ~Quotes(later, l)
      PROVE  \E c \in ToSet(diff) : l \in ToSet(c.before)
  <2>1. PICK b \in ToSet(earlier) : l \in ToSet(b.lines)
    BY <1>3 DEF Quotes
  <2>2. \E c \in ToSet(Fate(b, later)) : l \in ToSet(c.before)
    BY <1>1, <1>3, <2>1, FateQuotes
  <2> QED  BY <1>2, <2>2
<1>4. ASSUME NEW l, Quotes(later, l), ~Quotes(earlier, l)
      PROVE  \E c \in ToSet(diff) : l \in ToSet(c.after)
  <2>1. PICK a \in ToSet(later) : l \in ToSet(a.lines)
    BY <1>4 DEF Quotes
  <2>2. CASE \E b \in ToSet(earlier) : b.id = a.id
    <3>1. PICK b \in ToSet(earlier) : b.id = a.id
      BY <2>2
    <3>2. b \in B /\ l \notin ToSet(b.lines)
      BY <1>1, <1>4 DEF Quotes
    <3>3. \E c \in ToSet(Fate(b, later)) : l \in ToSet(c.after)
      BY <2>1, <3>1, <3>2, FateQuotes
    <3> QED  BY <1>2, <3>3
  <2>3. CASE ~\E b \in ToSet(earlier) : b.id = a.id
    <3>1. \E c \in ToSet(Arrival(a, earlier)) : l \in ToSet(c.after)
      BY <1>1, <2>1, <2>3, ArrivalQuotes
    <3> QED  BY <1>2, <3>1
  <2> QED  BY <2>2, <2>3
<1> QED  BY <1>2, <1>3, <1>4 DEF diff

\* An analysis quotes each line that only one of its texts has, and a rollback
\* reapplies each one that only the old text has.
LEMMA AnalysisQuotes ==
    ASSUME NEW R, NEW old \in Seq(R), NEW new \in Seq(R), NEW vendor, NEW a, a = AnalyzeContent(old, new, vendor),
           NEW l, Quotable(a.parser, l)
    PROVE  /\ l \in Normal(old) /\ l \notin Normal(new) =>
                /\ \E c \in ToSet(a.changes) : l \in ToSet(c.before)
                /\ \E s \in ToSet(a.rollback.snippets) : l \in ToSet(s.exactReapply)
           /\ l \in Normal(new) /\ l \notin Normal(old) => \E c \in ToSet(a.changes) : l \in ToSet(c.after)
<1> DEFINE parser == SelectParser(vendor, old \o new)
           b == Parse(parser, old)
           n == Parse(parser, new)
           B1 == BlocksIn(parser, Normal(old))
           B2 == BlocksIn(parser, Normal(new))
           B == B1 \cup B2
           diff == DiffBlocks(b, n)
<1>1. a.parser = parser /\ a.changes = diff
  BY DEF AnalyzeContent, Analyze, AnalyzeBlocks, AnalyzeChanges, AnalyzeFindings, Analysis
<1>2. PICK high : a.rollback = Rollback(diff, high, parser)
  BY DEF AnalyzeContent, Analyze, AnalyzeBlocks, AnalyzeChanges, AnalyzeFindings, Analysis
<1> HIDE DEF parser
<1>3. /\ b \in Seq(B1) /\ n \in Seq(B2) /\ Distinct(n)
      /\ \A x : Quotes(b, x) => x \in Normal(old)
      /\ \A x : Quotes(n, x) => x \in Normal(new)
      /\ l \in Normal(old) => Quotes(b, l)
      /\ l \in Normal(new) => Quotes(n, l)
  BY <1>1, ParseQuotes
<1> HIDE DEF b, n, B1, B2
<1>4. b \in Seq(B) /\ n \in Seq(B)
  BY <1>3
<1> HIDE DEF B
<1>5. /\ diff \in Seq(ChangesOver(B))
      /\ \A x : Quotes(b, x) /\ ~Quotes(n, x) => \E c \in ToSet(diff) : x \in ToSet(c.before)
      /\ \A x : Quotes(n, x) /\ ~Quotes(b, x) => \E c \in ToSet(diff) : x \in ToSet(c.after)
  BY <1>3, <1>4, DiffQuotes
<1> HIDE DEF diff
<1>6. ASSUME NEW c \in ToSet(diff), l \in ToSet(c.before)
      PROVE  \E s \in ToSet(a.rollback.snippets) : l \in ToSet(s.exactReapply)
  <2>1. PICK i \in DOMAIN diff : c = diff[i]
    BY <1>6 DEF ToSet
  <2>2. c \in ChangesOver(B)
    <3> DEFINE K == ChangesOver(B)
    <3>1. diff \in Seq(K)
      BY <1>5
    <3> HIDE DEF K
    <3>2. c \in K
      BY <2>1, <3>1
    <3> QED  BY <3>2 DEF K
  <2>3. c.before # <<>>
    BY <1>6 DEF ToSet
  <2>4. c.type # "added"
    BY <2>2, <2>3 DEF ChangesOver
  <2>5. i \in DOMAIN a.rollback.snippets /\ a.rollback.snippets[i].exactReapply = c.before
    BY <1>2, <2>1, <2>4 DEF Rollback
  <2> QED  BY <1>6, <2>5 DEF ToSet
<1> QED  BY <1>1, <1>3, <1>5, <1>6

----------------------------------------------------------------------------
\* The configurations of a behaviour are sequences of sections

LEMMA EditedSequences ==
    ASSUME NEW S, NEW s \in Seq(S)
    PROVE  /\ \A i \in DOMAIN s : Without(s, i) \in Seq(S)
           /\ \A i \in 0 .. Len(s) : \A x \in S : Insert(s, i, x) \in Seq(S)
           /\ \A i \in 1 .. Len(s) - 1 : Swapped(s, i) \in Seq(S)
           /\ \A i \in DOMAIN s : \A x \in S : [s EXCEPT ![i] = x] \in Seq(S)
<1>1. \A i \in DOMAIN s : Without(s, i) \in Seq(S)
  BY DEF Without
<1>2. ASSUME NEW i \in 0 .. Len(s), NEW x \in S
      PROVE  Insert(s, i, x) \in Seq(S)
  <2>1. SubSeq(s, 1, i) \in Seq(S) /\ <<x>> \in Seq(S) /\ SubSeq(s, i + 1, Len(s)) \in Seq(S)
    OBVIOUS
  <2> QED  BY <2>1 DEF Insert
<1>3. \A i \in 1 .. Len(s) - 1 : Swapped(s, i) \in Seq(S)
  BY DEF Swapped
<1>4. \A i \in DOMAIN s : \A x \in S : [s EXCEPT ![i] = x] \in Seq(S)
  OBVIOUS
<1> QED  BY <1>1, <1>2, <1>3, <1>4

ConfigInv ==
    /\ family \in Families
    /\ config \in Seq(Sections) /\ seen \in Seq(Sections) /\ before \in Seq(Sections)
    /\ before # seen => report = AnalyzeContent(Text(before), Text(seen), family.vendor)

\* A section's bodies stay sequences of raw lines, whatever line is put in.
LEMMA EditedBodiesAre ==
    ASSUME family \in Families, NEW section \in Sections
    PROVE  EditedBodies(section) \subseteq Seq(RawLine)
<1> DEFINE b == section.body
<1>1. b \in Seq(RawLine)
  BY DEF Sections
<1> HIDE DEF b
<1>2. \A i \in DOMAIN b : Without(b, i) \in Seq(RawLine)
  BY <1>1, EditedSequences
<1>3. \A i \in 1 .. Len(b) - 1 : Swapped(b, i) \in Seq(RawLine)
  BY <1>1, EditedSequences
<1>4. ASSUME NEW o \in family.lines
      PROVE  Put(b, o.raw, LAMBDA raw : Starts(raw.words, o.slot)) \subseteq Seq(RawLine)
  <2> DEFINE I == {j \in 1 .. Len(b) : Starts(b[j].words, o.slot)}
             i == IF I # {} THEN Min(I) ELSE 0
  <2>1. o.raw \in RawLine
    BY FamilyAssumption
  <2>2. i # 0 => i \in DOMAIN b
    <3>1. I \in SUBSET Nat /\ I \subseteq DOMAIN b
      BY <1>1
    <3> HIDE DEF I
    <3> QED  BY <3>1, MinIsLeast
  <2>3. Put(b, o.raw, LAMBDA raw : Starts(raw.words, o.slot))
          = IF i # 0 THEN {[b EXCEPT ![i] = o.raw]} ELSE {Insert(b, j, o.raw) : j \in 0 .. Len(b)}
    BY DEF Put, SelectInSeq
  <2> HIDE DEF i
  <2>4. i # 0 => [b EXCEPT ![i] = o.raw] \in Seq(RawLine)
    BY <1>1, <2>1, <2>2, EditedSequences
  <2>5. \A j \in 0 .. Len(b) : Insert(b, j, o.raw) \in Seq(RawLine)
    BY <1>1, <2>1, EditedSequences
  <2> QED  BY <2>3, <2>4, <2>5
<1>5. EditedBodies(section)
        = {Without(b, i) : i \in DOMAIN b} \cup {Swapped(b, i) : i \in 1 .. Len(b) - 1}
            \cup UNION {Put(b, o.raw, LAMBDA raw : Starts(raw.words, o.slot)) :
                            o \in {x \in family.lines : x.top = section.top}}
  BY DEF EditedBodies, b
<1> QED  BY <1>2, <1>3, <1>4, <1>5

LEMMA ConfigInvInit == Init => ConfigInv
BY FamilyAssumption DEF Init, ConfigInv

LEMMA ConfigInvNext == ConfigInv /\ [Next]_vars => ConfigInv'
<1> SUFFICES ASSUME ConfigInv, [Next]_vars PROVE ConfigInv'
  OBVIOUS
<1> USE DEF ConfigInv
<1>1. CASE Edit
  <2>1. /\ family' = family /\ seen' = seen /\ before' = before /\ report' = report
    BY <1>1 DEF Edit
  <2> SUFFICES config' \in Seq(Sections)
    BY <2>1
  <2>2. ASSUME NEW j \in DOMAIN config, NEW b \in EditedBodies(config[j]),
               config' = [config EXCEPT ![j] = WithBody(@, b)]
        PROVE  config' \in Seq(Sections)
    <3> DEFINE S == Sections
               s == WithBody(config[j], b)
    <3>1. config[j] \in Sections
      <4> HIDE DEF S
      <4>1. config \in Seq(S)
        BY DEF S
      <4>2. config[j] \in S
        BY <4>1
      <4> QED  BY <4>2 DEF S
    <3>2. b \in Seq(RawLine)
      BY <3>1, EditedBodiesAre
    <3>3. s \in S
      BY <3>1, <3>2 DEF WithBody, Sections
    <3>4. config' = [config EXCEPT ![j] = s]
      BY <2>2
    <3> HIDE DEF S, s
    <3>5. config \in Seq(S)
      BY DEF S
    <3>6. [config EXCEPT ![j] = s] \in Seq(S)
      BY <3>3, <3>5, EditedSequences
    <3> QED  BY <3>4, <3>6 DEF S
  <2>3. ASSUME NEW j \in DOMAIN config, config' = Without(config, j)
        PROVE  config' \in Seq(Sections)
    BY <2>3, EditedSequences
  <2>4. ASSUME NEW j \in 1 .. Len(config) - 1, config' = Swapped(config, j)
        PROVE  config' \in Seq(Sections)
    BY <2>4, EditedSequences
  <2>5. ASSUME NEW o \in family.sections,
               LET i == SelectInSeq(config, LAMBDA s : Starts(s.top[1].words, o.slot))
               IN  config' = IF i # 0 THEN [config EXCEPT ![i] = o.section] ELSE Append(config, o.section)
        PROVE  config' \in Seq(Sections)
    <3> DEFINE I == {j \in 1 .. Len(config) : Starts(config[j].top[1].words, o.slot)}
               i == IF I # {} THEN Min(I) ELSE 0
               S == Sections
    <3>1. config' = IF i # 0 THEN [config EXCEPT ![i] = o.section] ELSE Append(config, o.section)
      BY <2>5 DEF SelectInSeq
    <3>2. i # 0 => i \in DOMAIN config
      <4>1. I \in SUBSET Nat /\ I \subseteq DOMAIN config
        OBVIOUS
      <4> HIDE DEF I
      <4> QED  BY <4>1, MinIsLeast
    <3>3. o.section \in S
      BY FamilyAssumption
    <3> HIDE DEF i, S
    <3>4. config \in Seq(S)
      BY DEF S
    <3>5. i # 0 => [config EXCEPT ![i] = o.section] \in Seq(S)
      BY <3>2, <3>3, <3>4, EditedSequences
    <3>6. Append(config, o.section) \in Seq(S)
      BY <3>3, <3>4
    <3> QED  BY <3>1, <3>5, <3>6 DEF S
  <2> QED  BY <1>1, <2>2, <2>3, <2>4, <2>5 DEF Edit
<1>2. CASE Review
  BY <1>2 DEF Review
<1>3. CASE UNCHANGED vars
  BY <1>3 DEF vars
<1> QED  BY <1>1, <1>2, <1>3 DEF Next

LEMMA ConfigInvariant == Spec => []ConfigInv
BY ConfigInvInit, ConfigInvNext, PTL DEF Spec

\* The text of a configuration is a sequence of raw lines.
LEMMA TextIs ==
    ASSUME NEW cfg \in Seq(Sections)
    PROVE  Text(cfg) \in Seq(RawLine)
<1> DEFINE S == Sections
           T == Seq(RawLine)
           ss == [i \in DOMAIN cfg |-> cfg[i].top \o cfg[i].body \o cfg[i].end]
<1>1. \A s \in S : s.top \o s.body \o s.end \in T
  BY DEF Sections
<1>2. DOMAIN cfg = 1 .. Len(cfg) /\ Len(cfg) \in Nat /\ \A i \in 1 .. Len(cfg) : cfg[i] \in S
  <2> HIDE DEF S
  <2>1. cfg \in Seq(S)
    BY DEF S
  <2> QED  BY <2>1
<1>3. \A i \in 1 .. Len(cfg) : ss[i] \in T
  BY <1>1, <1>2
<1>4. ss = [i \in 1 .. Len(cfg) |-> ss[i]]
  BY <1>2
<1>5. Text(cfg) = FlattenSeq(ss)
  BY DEF Text
<1> HIDE DEF ss, T
<1>6. ss \in Seq(T)
  BY <1>2, <1>3, <1>4
<1> QED  BY <1>5, <1>6, FlattenHolds DEF T

\* What a text says, told from its lines, is what the parsers see of it.
LEMMA SaidIsNormal ==
    ASSUME NEW raw, Said(raw) # NoLine
    PROVE  /\ NormalizeLine(raw) = Said(raw)
           /\ \A other : NormalizeLine(other) = Said(raw) => Said(other) = Said(raw)
<1>1. Said(raw) = raw.words /\ raw.words[1] \notin {"!", "#", "//", ";", "remark"}
  BY DEF Said
<1>2. \A w : Starts(raw.words, <<w>>) => raw.words[1] = w
  BY DEF Starts, IsPrefix
<1>3. NormalizeLine(raw) = raw.words
  BY <1>1, <1>2 DEF NormalizeLine, StartsAny
<1>4. ASSUME NEW other, NormalizeLine(other) = raw.words
      PROVE  Said(other) = raw.words
  <2>1. other.words = raw.words
    BY <1>1, <1>4 DEF NormalizeLine
  <2> QED  BY <1>1, <2>1 DEF Said
<1> QED  BY <1>1, <1>3, <1>4

LEMMA LinesOfText ==
    ASSUME NEW cfg, NEW other, NEW l \in LinesOf(cfg) \ LinesOf(other)
    PROVE  /\ l \in Normal(Text(cfg)) /\ l \notin Normal(Text(other))
           /\ l # NoLine /\ l # <<"next">> /\ l # <<"end">>
<1>1. PICK raw \in ToSet(Text(cfg)) : l = Said(raw)
  BY DEF LinesOf
<1>2. l # NoLine /\ l # <<"next">> /\ l # <<"end">>
  BY DEF LinesOf
<1>3. l \in Normal(Text(cfg))
  BY <1>1, <1>2, SaidIsNormal DEF Normal
<1>4. ASSUME NEW x \in ToSet(Text(other)), NormalizeLine(x) = l
      PROVE  FALSE
  <2>1. Said(x) = l
    BY <1>1, <1>2, <1>4, SaidIsNormal
  <2> QED  BY <1>2, <2>1 DEF LinesOf
<1> QED  BY <1>2, <1>3, <1>4 DEF Normal

\* The headings of FortiOS sections: the parser repeats them in the entries of
\* the section and nowhere else.
Headings == {l \in LinesOf(before) \cup LinesOf(seen) : report.parser = "fortinet" /\ IsSectionLine(l)}

\* Every other line a device lost or gained is quoted, and every lost one is
\* in the text that a rollback reapplies.
LinesAreReported ==
    Reviewed =>
        /\ (LinesOf(before) \ LinesOf(seen)) \ Headings \subseteq BeforeLines \cap ReappliedLines
        /\ (LinesOf(seen) \ LinesOf(before)) \ Headings \subseteq AfterLines

LEMMA ReportQuotes == ConfigInv => LinesAreReported
<1> SUFFICES ASSUME ConfigInv, Reviewed
             PROVE  /\ \A l \in (LinesOf(before) \ LinesOf(seen)) \ Headings :
                          l \in BeforeLines /\ l \in ReappliedLines
                    /\ \A l \in (LinesOf(seen) \ LinesOf(before)) \ Headings : l \in AfterLines
  BY DEF LinesAreReported
<1> DEFINE old == Text(before)
           new == Text(seen)
<1>1. old \in Seq(RawLine) /\ new \in Seq(RawLine)
  BY TextIs DEF ConfigInv
<1>2. report = AnalyzeContent(old, new, family.vendor)
  BY DEF ConfigInv, Reviewed
<1>3. ASSUME NEW l \in (LinesOf(before) \ LinesOf(seen)) \ Headings
      PROVE  l \in BeforeLines /\ l \in ReappliedLines
  <2>1. /\ l \in Normal(old) /\ l \notin Normal(new) /\ l # NoLine /\ l # <<"next">> /\ l # <<"end">>
    BY LinesOfText
  <2>2. Quotable(report.parser, l)
    BY <2>1 DEF Quotable, Headings
  <2>3. /\ \E c \in ToSet(report.changes) : l \in ToSet(c.before)
        /\ \E s \in ToSet(report.rollback.snippets) : l \in ToSet(s.exactReapply)
    <3> HIDE DEF old, new
    <3> QED  BY <1>1, <1>2, <2>1, <2>2, AnalysisQuotes
  <2> QED  BY <2>3 DEF BeforeLines, ReappliedLines
<1>4. ASSUME NEW l \in (LinesOf(seen) \ LinesOf(before)) \ Headings
      PROVE  l \in AfterLines
  <2>1. /\ l \in Normal(new) /\ l \notin Normal(old) /\ l # NoLine /\ l # <<"next">> /\ l # <<"end">>
    BY LinesOfText
  <2>2. Quotable(report.parser, l)
    BY <2>1 DEF Quotable, Headings
  <2>3. \E c \in ToSet(report.changes) : l \in ToSet(c.after)
    <3> HIDE DEF old, new
    <3> QED  BY <1>1, <1>2, <2>1, <2>2, AnalysisQuotes
  <2> QED  BY <2>3 DEF AfterLines
<1> QED  BY <1>3, <1>4

\* No edit of whatever device with whatever configuration is lost between its
\* text and the report: headings aside, the diff quotes each line that is in
\* one of the two texts only, and the rollback text has each that was lost.
THEOREM LinesReported == Spec => []LinesAreReported
BY ConfigInvariant, ReportQuotes, PTL

\* For every dialect but FortiOS there are no headings to leave aside: the
\* property holds as it stands.
THEOREM EveryLineIsReported == Spec => [](report.parser # "fortinet" => EveryLineReported)
<1>1. LinesAreReported => (report.parser # "fortinet" => EveryLineReported)
  BY DEF LinesAreReported, EveryLineReported, Headings
<1> QED  BY <1>1, LinesReported, PTL

----------------------------------------------------------------------------
\* The order of lines

\* A line stands in a sequence, and the other not in front of it.
Ahead(lines, a, b) == \E i \in DOMAIN lines : lines[i] = a /\ \A j \in 1 .. i : lines[j] # b

LEMMA AheadAlone ==
    ASSUME NEW L, NEW lines \in Seq(L), NEW a \in ToSet(lines), NEW b, b \notin ToSet(lines)
    PROVE  Ahead(lines, a, b)
<1>1. PICK i \in DOMAIN lines : lines[i] = a
  BY DEF ToSet
<1>2. DOMAIN lines = 1 .. Len(lines) /\ Len(lines) \in Nat
  OBVIOUS
<1>3. \A j \in 1 .. i : lines[j] # b
  BY <1>1, <1>2 DEF ToSet
<1> QED  BY <1>1, <1>3 DEF Ahead

LEMMA AheadLonger ==
    ASSUME NEW L, NEW s \in Seq(L), NEW t \in Seq(L), NEW a, NEW b
    PROVE  /\ Ahead(s, a, b) => Ahead(s \o t, a, b)
           /\ b \notin ToSet(s) /\ Ahead(t, a, b) => Ahead(s \o t, a, b)
<1>1. /\ DOMAIN s = 1 .. Len(s) /\ DOMAIN t = 1 .. Len(t) /\ Len(s) \in Nat /\ Len(t) \in Nat
      /\ DOMAIN (s \o t) = 1 .. Len(s) + Len(t)
      /\ \A i \in 1 .. Len(s) : (s \o t)[i] = s[i]
      /\ \A i \in 1 .. Len(t) : (s \o t)[Len(s) + i] = t[i]
  OBVIOUS
<1>2. ASSUME Ahead(s, a, b)
      PROVE  Ahead(s \o t, a, b)
  <2>1. PICK i \in 1 .. Len(s) : s[i] = a /\ \A j \in 1 .. i : s[j] # b
    BY <1>1, <1>2 DEF Ahead
  <2>2. i \in DOMAIN (s \o t) /\ (s \o t)[i] = a
    BY <1>1, <2>1
  <2>3. \A j \in 1 .. i : (s \o t)[j] # b
    BY <1>1, <2>1
  <2> QED  BY <2>2, <2>3 DEF Ahead
<1>3. ASSUME b \notin ToSet(s), Ahead(t, a, b)
      PROVE  Ahead(s \o t, a, b)
  <2>1. PICK i \in 1 .. Len(t) : t[i] = a /\ \A j \in 1 .. i : t[j] # b
    BY <1>1, <1>3 DEF Ahead
  <2>2. Len(s) + i \in DOMAIN (s \o t) /\ (s \o t)[Len(s) + i] = a
    BY <1>1, <2>1
  <2>3. ASSUME NEW j \in 1 .. Len(s) + i
        PROVE  (s \o t)[j] # b
    <3>1. CASE j \in 1 .. Len(s)
      BY <1>1, <1>3, <3>1 DEF ToSet
    <3>2. CASE j \notin 1 .. Len(s)
      <4>1. j - Len(s) \in 1 .. i /\ j - Len(s) \in 1 .. Len(t) /\ Len(s) + (j - Len(s)) = j
        BY <1>1, <3>2
      <4>2. (s \o t)[j] = t[j - Len(s)]
        BY <1>1, <4>1
      <4> QED  BY <2>1, <4>1, <4>2
    <3> QED  BY <3>1, <3>2
  <2> QED  BY <2>2, <2>3 DEF Ahead
<1> QED  BY <1>2, <1>3

LEMMA AheadAppended ==
    ASSUME NEW L, NEW s \in Seq(L), NEW l \in L, NEW a, NEW b
    PROVE  Ahead(s, a, b) => Ahead(Append(s, l), a, b)
<1>1. Append(s, l) = s \o <<l>> /\ <<l>> \in Seq(L)
  OBVIOUS
<1> DEFINE one == <<l>>
<1> HIDE DEF one
<1>2. one \in Seq(L) /\ Append(s, l) = s \o one
  BY <1>1 DEF one
<1> QED  BY <1>2, AheadLonger

\* Two lines cannot stand in front of each other.
LEMMA AheadOneWay ==
    ASSUME NEW L, NEW lines \in Seq(L), NEW a, NEW b, Ahead(lines, a, b)
    PROVE  ~Ahead(lines, b, a)
<1>1. DOMAIN lines = 1 .. Len(lines) /\ Len(lines) \in Nat
  OBVIOUS
<1>2. PICK i \in 1 .. Len(lines) : lines[i] = a /\ \A j \in 1 .. i : lines[j] # b
  BY <1>1 DEF Ahead
<1> SUFFICES ASSUME NEW k \in 1 .. Len(lines), lines[k] = b, \A j \in 1 .. k : lines[j] # a
             PROVE  FALSE
  BY <1>1 DEF Ahead
<1>3. i <= k \/ k <= i
  BY <1>1
<1> QED  BY <1>2, <1>3

\* Dropping repeated lines keeps the order.
LEMMA UniqueOrder ==
    ASSUME NEW L, NEW lines \in Seq(L), NEW a, a # NoLine, NEW b, Ahead(lines, a, b)
    PROVE  Ahead(UniquePreserve(lines), a, b)
<1> DEFINE N == Len(lines)
<1>1. N \in Nat /\ DOMAIN lines = 1 .. N /\ \A n \in 1 .. N : lines[n] \in L
  OBVIOUS
<1>2. PICK i \in 1 .. N : lines[i] = a /\ \A j \in 1 .. i : lines[j] # b
  BY <1>1 DEF Ahead
<1> HIDE DEF N
<1>3. PICK kept : Keeps(L, lines, N, kept)
  <2>1. Len(lines) = N
    BY DEF N
  <2> QED  BY <1>1, <2>1, KeptSteps
<1>4. /\ kept \in [0 .. N -> Seq(L)] /\ kept[0] = <<>>
      /\ \A n \in 1 .. N : kept[n] = Keep(kept[n - 1], lines[n])
      /\ UniquePreserve(lines) = kept[N]
  BY <1>3 DEF Keeps
<1>5. \A n \in 1 .. N : n - 1 \in 0 .. N /\ kept[n - 1] \in Seq(L) /\ kept[n] \in Seq(L)
  <2>1. \A n \in 1 .. N : n - 1 \in 0 .. N /\ n \in 0 .. N
    BY <1>1
  <2> QED  BY <1>4, <2>1
<1>6. ASSUME NEW n \in 1 .. N
      PROVE  /\ \A x : x \in ToSet(kept[n]) <=> x \in ToSet(kept[n - 1]) \/ (x = lines[n] /\ lines[n] # NoLine)
             /\ Ahead(kept[n - 1], a, b) => Ahead(kept[n], a, b)
  <2> DEFINE k == kept[n - 1]
             l == lines[n]
  <2>1. k \in Seq(L) /\ l \in L /\ kept[n] = Keep(k, l)
    BY <1>1, <1>4, <1>5
  <2> HIDE DEF k, l
  <2>2. Keep(k, l) = k \/ Keep(k, l) = Append(k, l)
    BY DEF Keep
  <2>3. Ahead(k, a, b) => Ahead(Keep(k, l), a, b)
    BY <2>1, <2>2, AheadAppended
  <2>4. \A x : x \in ToSet(Keep(k, l)) <=> x \in ToSet(k) \/ (x = l /\ l # NoLine)
    BY <2>1, KeepHolds
  <2> QED  BY <2>1, <2>3, <2>4 DEF k, l
<1> DEFINE Good == {n \in 0 .. N : (n < i => b \notin ToSet(kept[n])) /\ (i <= n => Ahead(kept[n], a, b))}
<1>7. 0 \in Good
  BY <1>1, <1>4 DEF ToSet
<1>8. ASSUME NEW n \in 0 .. N - 1, n \in Good
      PROVE  n + 1 \in Good
  <2>1. n + 1 \in 1 .. N /\ (n + 1) - 1 = n /\ n + 1 \in 0 .. N
    BY <1>1
  <2>2. CASE n + 1 < i
    <3>1. b \notin ToSet(kept[n]) /\ lines[n + 1] # b
      BY <1>1, <1>2, <1>8, <2>1, <2>2
    <3>2. b \notin ToSet(kept[n + 1])
      BY <1>6, <2>1, <3>1
    <3> QED  BY <2>1, <2>2, <3>2
  <2>3. CASE n + 1 = i
    <3>1. b \notin ToSet(kept[n]) /\ lines[n + 1] = a /\ a # b
      BY <1>1, <1>2, <1>8, <2>1, <2>3
    <3>2. a \in ToSet(kept[n + 1]) /\ b \notin ToSet(kept[n + 1]) /\ kept[n + 1] \in Seq(L)
      BY <1>5, <1>6, <2>1, <3>1
    <3>3. Ahead(kept[n + 1], a, b)
      BY <3>2, AheadAlone
    <3> QED  BY <2>1, <2>3, <3>3
  <2>4. CASE n + 1 > i
    <3>1. Ahead(kept[n], a, b)
      BY <1>1, <1>8, <2>1, <2>4
    <3>2. Ahead(kept[n + 1], a, b)
      BY <1>6, <2>1, <3>1
    <3> QED  BY <1>1, <2>1, <2>4, <3>2
  <2> QED  BY <1>1, <2>1, <2>2, <2>3, <2>4
<1>9. N \in Good
  <2> HIDE DEF Good
  <2>1. Passes(N, Good)
    BY <1>1, <1>7, <1>8 DEF Passes
  <2> QED  BY <1>1, <2>1, UpTo
<1> QED  BY <1>1, <1>4, <1>9

LEMMA ClosedOrder ==
    ASSUME NEW C, NEW L, NEW block \in Blocks(C, L), NEW a, a # NoLine, NEW b, Ahead(block.lines, a, b)
    PROVE  Ahead(Closed(block).lines, a, b)
<1>1. block.lines \in Seq(L)
  BY BlockHasLines
<1>2. Ahead(UniquePreserve(block.lines), a, b)
  BY <1>1, UniqueOrder
<1> QED  BY <1>2 DEF Closed, WithLines, Block

\* The same for blocks: some block has the line, ahead of the other, which no
\* block in front of it has.
AheadIn(blocks, a, b) ==
    \E k \in DOMAIN blocks : /\ Ahead(blocks[k].lines, a, b)
                             /\ \A j \in 1 .. k - 1 : b \notin ToSet(blocks[j].lines)

\* Blocks to which another is added.
LEMMA AheadMore ==
    ASSUME NEW C, NEW L, NEW blocks \in Seq(Blocks(C, L)), NEW block \in Blocks(C, L), NEW a, NEW b
    PROVE  /\ AheadIn(blocks, a, b) => AheadIn(Append(blocks, block), a, b)
           /\ ~Quotes(blocks, b) /\ Ahead(block.lines, a, b) => AheadIn(Append(blocks, block), a, b)
<1> DEFINE B == Blocks(C, L)
           more == Append(blocks, block)
           N == Len(blocks)
<1> HIDE DEF B
<1>1. blocks \in Seq(B) /\ block \in B
  BY DEF B
<1>2. /\ N \in Nat /\ DOMAIN blocks = 1 .. N /\ DOMAIN more = 1 .. N + 1
      /\ \A i \in 1 .. N : more[i] = blocks[i]
      /\ more[N + 1] = block
  BY <1>1
<1> HIDE DEF more, N
<1>3. ASSUME AheadIn(blocks, a, b)
      PROVE  AheadIn(more, a, b)
  <2>1. PICK k \in 1 .. N : Ahead(blocks[k].lines, a, b) /\ \A j \in 1 .. k - 1 : b \notin ToSet(blocks[j].lines)
    BY <1>2, <1>3 DEF AheadIn
  <2>2. k \in DOMAIN more /\ more[k] = blocks[k] /\ \A j \in 1 .. k - 1 : more[j] = blocks[j]
    BY <1>2, <2>1
  <2> QED  BY <2>1, <2>2 DEF AheadIn
<1>4. ASSUME ~Quotes(blocks, b), Ahead(block.lines, a, b)
      PROVE  AheadIn(more, a, b)
  <2>1. \A j \in 1 .. N : b \notin ToSet(blocks[j].lines)
    BY <1>2, <1>4 DEF Quotes, ToSet
  <2>2. /\ N + 1 \in DOMAIN more /\ more[N + 1] = block
        /\ \A j \in 1 .. (N + 1) - 1 : j \in 1 .. N /\ more[j] = blocks[j]
    BY <1>2
  <2> QED  BY <1>4, <2>1, <2>2 DEF AheadIn
<1> QED  BY <1>3, <1>4 DEF more

\* Blocks that quote the one line and not the other.
LEMMA AheadFirst ==
    ASSUME NEW C, NEW L, NEW blocks \in Seq(Blocks(C, L)), NEW a, Quotes(blocks, a), NEW b, ~Quotes(blocks, b)
    PROVE  AheadIn(blocks, a, b)
<1> DEFINE B == Blocks(C, L)
<1>1. \A i \in DOMAIN blocks : blocks[i] \in Blocks(C, L)
  <2> HIDE DEF B
  <2>1. blocks \in Seq(B)
    BY DEF B
  <2>2. \A i \in DOMAIN blocks : blocks[i] \in B
    BY <2>1
  <2> QED  BY <2>2 DEF B
<1>2. PICK k \in DOMAIN blocks : a \in ToSet(blocks[k].lines)
  BY DEF Quotes, ToSet
<1>3. \A j \in DOMAIN blocks : b \notin ToSet(blocks[j].lines)
  BY DEF Quotes, ToSet
<1>4. blocks[k].lines \in Seq(L)
  BY <1>1, BlockHasLines
<1>5. Ahead(blocks[k].lines, a, b)
  BY <1>2, <1>3, <1>4, AheadAlone
<1>6. \A j \in 1 .. k - 1 : j \in DOMAIN blocks
  <2> HIDE DEF B
  <2>1. blocks \in Seq(B)
    BY DEF B
  <2> QED  BY <2>1
<1> QED  BY <1>3, <1>5, <1>6 DEF AheadIn

\* A block that joins the others.
LEMMA AheadJoined ==
    ASSUME NEW C, NEW L, NEW blocks \in Seq(Blocks(C, L)), NEW block \in Blocks(C, L), NEW a, NEW b,
           (\E m \in ToSet(blocks) : Ahead(m.lines, a, b)) \/ (~Quotes(blocks, b) /\ Ahead(block.lines, a, b))
    PROVE  \E m \in ToSet(Join(blocks, block)) : Ahead(m.lines, a, b)
<1> DEFINE B == Blocks(C, L)
           i == PlaceOf(blocks, block.id)
           N == Len(blocks)
<1>1. /\ N \in Nat /\ DOMAIN blocks = 1 .. N /\ \A k \in 1 .. N : blocks[k] \in Blocks(C, L)
      /\ Append(blocks, block) \in Seq(B) /\ DOMAIN Append(blocks, block) = 1 .. N + 1
      /\ Append(blocks, block)[N + 1] = block /\ \A k \in 1 .. N : Append(blocks, block)[k] = blocks[k]
  <2> HIDE DEF B
  <2>1. blocks \in Seq(B) /\ block \in B
    BY DEF B
  <2> QED  BY <2>1 DEF B
<1>2. CASE i = 0
  <2>1. Join(blocks, block) = Append(blocks, block)
    BY <1>2 DEF Join
  <2> DEFINE more == Append(blocks, block)
  <2>2. DOMAIN more = 1 .. N + 1 /\ more[N + 1] = block /\ \A k \in 1 .. N : more[k] = blocks[k]
    BY <1>1
  <2> HIDE DEF more
  <2>3. block \in ToSet(more) /\ \A m \in ToSet(blocks) : m \in ToSet(more)
    BY <1>1, <2>2 DEF ToSet
  <2> QED  BY <2>1, <2>3 DEF more
<1>3. CASE i # 0
  <2> DEFINE lines == blocks[i].lines \o block.lines
             c == WithLines(blocks[i], lines)
             next == [blocks EXCEPT ![i] = c]
  <2>1. Join(blocks, block) = next
    BY <1>3 DEF Join
  <2>2. i \in DOMAIN blocks
    BY <1>3, PlaceIsFirst
  <2>3. blocks[i].lines \in Seq(L) /\ block.lines \in Seq(L)
    BY <1>1, <2>2, BlockHasLines
  <2>4. /\ Ahead(blocks[i].lines, a, b) => Ahead(lines, a, b)
        /\ b \notin ToSet(blocks[i].lines) /\ Ahead(block.lines, a, b) => Ahead(lines, a, b)
    BY <2>3, AheadLonger
  <2>5. c.lines = lines
    BY DEF WithLines, Block
  <2> HIDE DEF lines, c, i
  <2>6. /\ DOMAIN next = DOMAIN blocks /\ next[i] = c
        /\ \A k \in DOMAIN blocks : k # i => next[k] = blocks[k]
    BY <2>2
  <2> HIDE DEF next
  <2>7. CASE \E m \in ToSet(blocks) : Ahead(m.lines, a, b)
    <3>1. PICK k \in DOMAIN blocks : Ahead(blocks[k].lines, a, b)
      BY <2>7 DEF ToSet
    <3>2. Ahead(next[k].lines, a, b)
      BY <2>4, <2>5, <2>6, <3>1
    <3> QED  BY <2>1, <2>6, <3>1, <3>2 DEF ToSet
  <2>8. CASE ~Quotes(blocks, b) /\ Ahead(block.lines, a, b)
    <3>1. b \notin ToSet(blocks[i].lines)
      BY <2>2, <2>8 DEF Quotes, ToSet
    <3>2. Ahead(next[i].lines, a, b)
      BY <2>4, <2>5, <2>6, <2>8, <3>1
    <3> QED  BY <2>1, <2>2, <2>6, <3>2 DEF ToSet
  <2> QED  BY <2>7, <2>8
<1> QED  BY <1>2, <1>3

\* Merging keeps the order: the block that a joins has it ahead of b.
LEMMA MergedOrder ==
    ASSUME NEW C, NEW L, NEW blocks \in Seq(Blocks(C, L)), NEW a, a # NoLine, NEW b, AheadIn(blocks, a, b)
    PROVE  \E m \in ToSet(MergeRelatedBlocks(blocks)) : Ahead(m.lines, a, b)
<1> DEFINE N == Len(blocks)
           B == Blocks(C, L)
           all == JoinAll(blocks)
<1>1. N \in Nat /\ DOMAIN blocks = 1 .. N /\ \A n \in 1 .. N : blocks[n] \in Blocks(C, L)
  <2> HIDE DEF B
  <2>1. blocks \in Seq(B)
    BY DEF B
  <2>2. \A n \in 1 .. N : blocks[n] \in B
    BY <2>1
  <2> QED  BY <2>1, <2>2 DEF B
<1>2. PICK joined : Joining(C, L, blocks, N, joined)
  BY JoinedSoFar
<1>3. PICK k \in 1 .. N : Ahead(blocks[k].lines, a, b) /\ \A j \in 1 .. k - 1 : b \notin ToSet(blocks[j].lines)
  BY <1>1 DEF AheadIn
<1> HIDE DEF N
<1> DEFINE Stands(n) == \E m \in ToSet(joined[n]) : Ahead(m.lines, a, b)
           Good == {n \in 0 .. N : k <= n => Stands(n)}
<1>4. 0 \in Good
  BY <1>1
<1>5. ASSUME NEW n \in 0 .. N - 1, n \in Good
      PROVE  n + 1 \in Good
  <2>1. n + 1 \in 1 .. N /\ (n + 1) - 1 = n /\ n \in 0 .. N /\ n + 1 \in 0 .. N
    BY <1>1
  <2>2. /\ joined[n] \in Seq(Blocks(C, L)) /\ joined[n + 1] = Join(joined[n], blocks[n + 1])
        /\ \A l : Quotes(joined[n], l) <=> \E m \in 1 .. n : l \in ToSet(blocks[m].lines)
    BY <1>2, <2>1 DEF Joining
  <2>3. blocks[n + 1] \in Blocks(C, L)
    BY <1>1, <2>1
  <2>4. CASE k = n + 1
    <3>1. ~Quotes(joined[n], b) /\ Ahead(blocks[n + 1].lines, a, b)
      BY <1>3, <2>1, <2>2, <2>4
    <3>2. Stands(n + 1)
      BY <2>2, <2>3, <3>1, AheadJoined
    <3> QED  BY <2>1, <3>2
  <2>5. CASE k <= n
    <3>1. Stands(n)
      BY <1>5, <2>5
    <3>2. Stands(n + 1)
      BY <2>2, <2>3, <3>1, AheadJoined
    <3> QED  BY <2>1, <3>2
  <2>6. CASE k > n + 1
    <3> HIDE DEF Stands
    <3> QED  BY <1>1, <2>1, <2>6
  <2> QED  BY <1>1, <2>1, <2>4, <2>5, <2>6
<1>6. Stands(N)
  <2> HIDE DEF Good
  <2>1. Passes(N, Good)
    BY <1>1, <1>4, <1>5 DEF Passes
  <2>2. N \in Good
    BY <1>1, <2>1, UpTo
  <2> QED  BY <1>1, <2>2 DEF Good
<1>7. joined[N] \in Seq(Blocks(C, L)) /\ all = joined[N]
  BY <1>1, <1>2 DEF Joining
<1> HIDE DEF all
<1>8. PICK i \in DOMAIN all : Ahead(all[i].lines, a, b)
  BY <1>6, <1>7 DEF ToSet
<1>9. all[i] \in Blocks(C, L)
  <2> HIDE DEF B
  <2>1. all \in Seq(B)
    BY <1>7 DEF B
  <2>2. all[i] \in B
    BY <1>8, <2>1
  <2> QED  BY <2>2 DEF B
<1>10. Ahead(Closed(all[i]).lines, a, b)
  BY <1>8, <1>9, ClosedOrder
<1>11. MergeRelatedBlocks(blocks) = [j \in DOMAIN all |-> Closed(all[j])]
  BY DEF MergeRelatedBlocks, all
<1> QED  BY <1>8, <1>10, <1>11 DEF ToSet

----------------------------------------------------------------------------
\* The moves of a parser keep the order

\* All blocks a parser has, and the order of the lines in them.
Ordering(st, a, b) == AheadIn(st.done \o st.open, a, b)

\* The blocks of a state, for either form of what is open.
LEMMA AllBlocks ==
    ASSUME NEW B, NEW done \in Seq(B), NEW block \in B
    PROVE  done \o <<>> = done /\ done \o <<block>> = Append(done, block)
OBVIOUS

\* A block that grew at its end where it was the last.
LEMMA AheadGrown ==
    ASSUME NEW C, NEW L, NEW done \in Seq(Blocks(C, L)), NEW block \in Blocks(C, L), NEW longer \in Blocks(C, L),
           NEW a, NEW b, Ahead(block.lines, a, b) => Ahead(longer.lines, a, b),
           AheadIn(Append(done, block), a, b)
    PROVE  AheadIn(Append(done, longer), a, b)
<1> DEFINE B == Blocks(C, L)
           old == Append(done, block)
           new == Append(done, longer)
           N == Len(done)
<1> HIDE DEF B
<1>1. done \in Seq(B) /\ block \in B /\ longer \in B
  BY DEF B
<1>2. /\ N \in Nat /\ DOMAIN old = 1 .. N + 1 /\ DOMAIN new = 1 .. N + 1
      /\ \A i \in 1 .. N : old[i] = done[i] /\ new[i] = done[i]
      /\ old[N + 1] = block /\ new[N + 1] = longer
  BY <1>1
<1> HIDE DEF old, new, N
<1>3. PICK k \in 1 .. N + 1 : Ahead(old[k].lines, a, b) /\ \A j \in 1 .. k - 1 : b \notin ToSet(old[j].lines)
  BY <1>2 DEF AheadIn, old
<1>4. Ahead(new[k].lines, a, b)
  <2>1. CASE k \in 1 .. N
    BY <1>2, <1>3, <2>1
  <2>2. CASE k = N + 1
    BY <1>2, <1>3, <2>2
  <2> QED  BY <1>2, <2>1, <2>2
<1>5. \A j \in 1 .. k - 1 : new[j] = old[j]
  BY <1>2
<1>6. k \in DOMAIN new
  BY <1>2
<1>7. AheadIn(new, a, b)
  BY <1>3, <1>4, <1>5, <1>6 DEF AheadIn
<1> QED  BY <1>7 DEF new

\* A move that keeps the order of any two lines, the first not empty.
KeepsOrder(st, next) == \A a, b : a # NoLine /\ Ordering(st, a, b) => Ordering(next, a, b)

LEMMA FlushOrder ==
    ASSUME NEW C, NEW L, NEW st \in Readings(Blocks(C, L), L)
    PROVE  KeepsOrder(st, Flush(st))
<1>1. st.done \in Seq(Blocks(C, L)) /\ (st.open = <<>> \/ \E block \in Blocks(C, L) : st.open = <<block>>)
  BY DEF Readings
<1>2. CASE st.open = <<>>
  BY <1>2 DEF Flush, KeepsOrder
<1>3. ASSUME NEW block \in Blocks(C, L), st.open = <<block>>
      PROVE  KeepsOrder(st, Flush(st))
  <2> DEFINE B == Blocks(C, L)
             c == Closed(block)
  <2>1. c \in B
    BY ClosedHolds
  <2>2. Flush(st) = Reading(Append(st.done, c), <<>>, st.section)
    BY <1>3 DEF Flush
  <2> HIDE DEF c, B
  <2>3. st.done \in Seq(B) /\ block \in B
    BY <1>1 DEF B
  <2>4. st.done \o st.open = Append(st.done, block)
    BY <1>3, <2>3, AllBlocks
  <2>5. Flush(st).done \o Flush(st).open = Append(st.done, c)
    <3>1. Append(st.done, c) \in Seq(B)
      BY <2>1, <2>3
    <3>2. Flush(st).done = Append(st.done, c) /\ Flush(st).open = <<>>
      BY <2>2 DEF Reading
    <3> QED  BY <2>1, <3>1, <3>2, AllBlocks
  <2> SUFFICES ASSUME NEW a, NEW b, a # NoLine, AheadIn(Append(st.done, block), a, b)
               PROVE  AheadIn(Append(st.done, c), a, b)
    BY <2>4, <2>5 DEF KeepsOrder, Ordering
  <2>6. Ahead(block.lines, a, b) => Ahead(c.lines, a, b)
    BY ClosedOrder DEF c
  <2> QED  BY <2>1, <2>3, <2>6, AheadGrown DEF B
<1> QED  BY <1>1, <1>2, <1>3

LEMMA ContinueOrder ==
    ASSUME NEW C, NEW L, NEW st \in Readings(Blocks(C, L), L), st.open # <<>>, NEW l \in L
    PROVE  KeepsOrder(st, Continue(st, l))
<1>1. st.done \in Seq(Blocks(C, L)) /\ \E block \in Blocks(C, L) : st.open = <<block>>
  BY DEF Readings
<1>2. PICK block \in Blocks(C, L) : st.open = <<block>>
  BY <1>1
<1> DEFINE B == Blocks(C, L)
           longer == Append(block.lines, l)
           c == WithLines(block, longer)
<1>3. block.lines \in Seq(L)
  BY BlockHasLines
<1>4. longer \in Seq(L) /\ \A a, b : Ahead(block.lines, a, b) => Ahead(longer, a, b)
  BY <1>3, AheadAppended
<1>5. Continue(st, l) = Reading(st.done, <<c>>, st.section)
  BY <1>2 DEF Continue
<1> HIDE DEF longer
<1>6. c \in B /\ c.lines = longer
  BY <1>4, BlockHasLines
<1> HIDE DEF c, B
<1>7. st.done \in Seq(B) /\ block \in B
  BY <1>1 DEF B
<1>8. st.done \o st.open = Append(st.done, block)
  BY <1>2, <1>7, AllBlocks
<1>9. Continue(st, l).done \o Continue(st, l).open = Append(st.done, c)
  <2>1. Continue(st, l).done = st.done /\ Continue(st, l).open = <<c>>
    BY <1>5 DEF Reading
  <2> QED  BY <1>6, <1>7, <2>1, AllBlocks
<1> SUFFICES ASSUME NEW a, NEW b, a # NoLine, AheadIn(Append(st.done, block), a, b)
             PROVE  AheadIn(Append(st.done, c), a, b)
  BY <1>8, <1>9 DEF KeepsOrder, Ordering
<1>10. Ahead(block.lines, a, b) => Ahead(c.lines, a, b)
  BY <1>4, <1>6
<1> QED  BY <1>6, <1>7, <1>10, AheadGrown DEF B

LEMMA NextBlockOrder ==
    ASSUME NEW C, NEW L, NEW st \in Readings(Blocks(C, L), L), st.open = <<>>, NEW block \in Blocks(C, L)
    PROVE  KeepsOrder(st, Open(st, block)) /\ KeepsOrder(st, AddBlock(st, block))
<1> DEFINE B == Blocks(C, L)
           more == Append(st.done, block)
<1>1. \A a, b : AheadIn(st.done, a, b) => AheadIn(more, a, b)
  <2>1. st.done \in Seq(Blocks(C, L))
    BY DEF Readings
  <2> QED  BY <2>1, AheadMore
<1> HIDE DEF B
<1>2. st.done \in Seq(B) /\ block \in B
  BY DEF Readings, B
<1>3. more \in Seq(B)
  BY <1>2
<1>4. st.done \o st.open = st.done
  BY <1>2, AllBlocks
<1>5. Open(st, block).done \o Open(st, block).open = more
  <2>1. Open(st, block).done = st.done /\ Open(st, block).open = <<block>>
    BY DEF Open, Reading
  <2> QED  BY <1>2, <2>1, AllBlocks
<1>6. AddBlock(st, block).done \o AddBlock(st, block).open = more
  <2>1. AddBlock(st, block).done = more /\ AddBlock(st, block).open = <<>>
    BY DEF AddBlock, Reading
  <2> QED  BY <1>2, <1>3, <2>1, AllBlocks
<1> HIDE DEF more
<1> QED  BY <1>1, <1>4, <1>5, <1>6 DEF KeepsOrder, Ordering

LEMMA InSectionOrder ==
    ASSUME NEW st, NEW l
    PROVE  KeepsOrder(st, InSection(st, l))
BY DEF InSection, Reading, KeepsOrder, Ordering

LEMMA KeepsOrderTwice ==
    ASSUME NEW x, NEW y, NEW z, KeepsOrder(x, y), KeepsOrder(y, z)
    PROVE  KeepsOrder(x, z)
BY DEF KeepsOrder

LEMMA GenericStepOrder ==
    ASSUME NEW C, NEW L, NEW st \in Readings(Blocks(C, L), L), NEW indent, NEW l \in L, Fallback(l) \in C
    PROVE  KeepsOrder(st, GenericStep(st, indent, l))
<1> DEFINE b == BlockOf(Fallback(l), <<l>>)
           f == Flush(st)
<1>1. CASE indent /\ st.open # <<>>
  <2>1. GenericStep(st, indent, l) = Continue(st, l)
    BY <1>1 DEF GenericStep
  <2> QED  BY <1>1, <2>1, ContinueOrder
<1>2. CASE ~(indent /\ st.open # <<>>)
  <2>1. GenericStep(st, indent, l) \in {Open(f, b), AddBlock(f, b)}
    BY <1>2 DEF GenericStep, OpenOrAdd
  <2>2. b \in Blocks(C, L)
    BY OneLineBlock
  <2>3. f \in Readings(Blocks(C, L), L) /\ f.open = <<>> /\ KeepsOrder(st, f)
    BY FlushKeeps, FlushOrder
  <2> HIDE DEF b, f
  <2>4. KeepsOrder(f, Open(f, b)) /\ KeepsOrder(f, AddBlock(f, b))
    BY <2>2, <2>3, NextBlockOrder
  <2> QED  BY <2>1, <2>3, <2>4, KeepsOrderTwice
<1> QED  BY <1>1, <1>2

LEMMA SetStyleStepOrder ==
    ASSUME NEW C, NEW L, NEW st \in Readings(Blocks(C, L), L), st.open = <<>>, NEW parser, NEW l \in L,
           ClassifySetLine(parser, l) \in C
    PROVE  KeepsOrder(st, SetStyleStep(parser, st, l)) /\ SetStyleStep(parser, st, l).open = <<>>
<1> DEFINE b == BlockOf(ClassifySetLine(parser, l), <<l>>)
<1>1. b \in Blocks(C, L)
  BY OneLineBlock
<1>2. SetStyleStep(parser, st, l) = AddBlock(st, b)
  BY DEF SetStyleStep
<1> HIDE DEF b
<1>3. KeepsOrder(st, AddBlock(st, b)) /\ AddBlock(st, b).open = <<>>
  BY <1>1, NextBlockOrder DEF AddBlock, Reading
<1> QED  BY <1>2, <1>3

LEMMA FortinetStepOrder ==
    ASSUME NEW C, NEW L, NoLine \in L, NEW st \in Readings(Blocks(C, L), L), NEW l \in L,
           \A s \in L : OrElse(ClassifyLine(l), SectionClass(s, l, l)) \in C
                        /\ SectionClass(s, Tail(l), s \o l) \in C
    PROVE  KeepsOrder(st, FortinetStep(st, l))
<1> DEFINE f == Flush(st)
           entry == BlockOf(SectionClass(st.section, Tail(l), st.section \o l), <<st.section, l>>)
           alone == BlockOf(OrElse(ClassifyLine(l), SectionClass(st.section, l, l)), <<l>>)
           edit == Starts(l, <<"edit">>) /\ Len(l) > 1
<1>1. f \in Readings(Blocks(C, L), L) /\ f.open = <<>> /\ KeepsOrder(st, f)
  BY FlushKeeps, FlushOrder
<1>2. st.section \in L
  BY DEF Readings
<1>3. alone \in Blocks(C, L)
  <2> DEFINE c == OrElse(ClassifyLine(l), SectionClass(st.section, l, l))
  <2>1. c \in C
    BY <1>2
  <2> HIDE DEF c
  <2>2. BlockOf(c, <<l>>) \in Blocks(C, L)
    BY <2>1, OneLineBlock
  <2> QED  BY <2>2 DEF c
<1>4. entry \in Blocks(C, L)
  <2> DEFINE c == SectionClass(st.section, Tail(l), st.section \o l)
             ls == <<st.section, l>>
  <2>1. c \in C /\ ls \in Seq(L)
    BY <1>2
  <2> HIDE DEF c, ls
  <2>2. BlockOf(c, ls) \in Blocks(C, L)
    BY <2>1, BlockHasLines
  <2> QED  BY <2>2 DEF c, ls
<1>5. FortinetStep(st, l) = CASE IsSectionLine(l) -> InSection(f, l)
                              [] edit -> Open(f, entry)
                              [] l = <<"next">> -> f
                              [] l = <<"end">> -> InSection(f, NoLine)
                              [] OTHER -> IF st.open # <<>> THEN Continue(st, l) ELSE AddBlock(st, alone)
  BY DEF FortinetStep
<1> DEFINE moves == {InSection(f, l), Open(f, entry), f, InSection(f, NoLine)}
                      \cup {IF st.open # <<>> THEN Continue(st, l) ELSE AddBlock(st, alone)}
<1>6. FortinetStep(st, l) \in moves
  <2> HIDE DEF f, entry, alone
  <2>1. CASE IsSectionLine(l) \/ edit \/ l = <<"next">> \/ l = <<"end">>
    BY <1>5, <2>1
  <2>2. CASE ~(IsSectionLine(l) \/ edit \/ l = <<"next">> \/ l = <<"end">>)
    <3> HIDE DEF edit
    <3> QED  BY <1>5, <2>2
  <2> QED  BY <2>1, <2>2
<1> HIDE DEF f, entry, alone
<1>7. KeepsOrder(st, InSection(f, l)) /\ KeepsOrder(st, InSection(f, NoLine))
  BY <1>1, InSectionOrder, KeepsOrderTwice
<1>8. KeepsOrder(st, Open(f, entry))
  <2>1. KeepsOrder(f, Open(f, entry))
    BY <1>1, <1>4, NextBlockOrder
  <2> QED  BY <1>1, <2>1, KeepsOrderTwice
<1>9. KeepsOrder(st, IF st.open # <<>> THEN Continue(st, l) ELSE AddBlock(st, alone))
  BY <1>3, ContinueOrder, NextBlockOrder
<1> QED  BY <1>1, <1>6, <1>7, <1>8, <1>9

LEMMA LineOrder ==
    ASSUME NEW parser, NEW L, NoLine \in L, NEW st \in Readings(Blocks(Classes(parser, L), L), L),
           parser \in SetStyle => st.open = <<>>, NEW indent, NEW l \in L
    PROVE  /\ KeepsOrder(st, ParseLine(parser, st, indent, l))
           /\ parser \in SetStyle => ParseLine(parser, st, indent, l).open = <<>>
<1> DEFINE C == Classes(parser, L)
<1>1. /\ Fallback(l) \in C /\ ClassifySetLine(parser, l) \in C
      /\ \A s \in L : OrElse(ClassifyLine(l), SectionClass(s, l, l)) \in C
                      /\ SectionClass(s, Tail(l), s \o l) \in C
  BY DEF Classes
<1> HIDE DEF C
<1>2. st \in Readings(Blocks(C, L), L)
  BY DEF C
<1>3. CASE l = NoLine
  BY <1>3 DEF ParseLine, KeepsOrder
<1>4. CASE l # NoLine /\ parser = "fortinet"
  <2>1. parser \notin SetStyle
    BY <1>4 DEF SetStyle
  <2>2. KeepsOrder(st, FortinetStep(st, l))
    BY <1>1, <1>2, FortinetStepOrder
  <2> QED  BY <1>4, <2>1, <2>2 DEF ParseLine
<1>5. CASE l # NoLine /\ parser # "fortinet" /\ parser \in SetStyle
  <2>1. KeepsOrder(st, SetStyleStep(parser, st, l)) /\ SetStyleStep(parser, st, l).open = <<>>
    BY <1>1, <1>2, <1>5, SetStyleStepOrder
  <2> QED  BY <1>5, <2>1 DEF ParseLine
<1>6. CASE l # NoLine /\ parser # "fortinet" /\ parser \notin SetStyle
  <2>1. KeepsOrder(st, GenericStep(st, indent, l))
    BY <1>1, <1>2, GenericStepOrder
  <2> QED  BY <1>6, <2>1 DEF ParseLine
<1> QED  BY <1>3, <1>4, <1>5, <1>6

LEMMA ReadingsGrow ==
    ASSUME NEW parser, NEW L, NEW M, L \subseteq M
    PROVE  Readings(BlocksIn(parser, L), L) \subseteq Readings(BlocksIn(parser, M), M)
<1>1. Classes(parser, L) \subseteq Classes(parser, M)
  BY DEF Classes
<1>2. \A C, D : C \subseteq D => Blocks(C, L) \subseteq Blocks(D, M)
  <2> SUFFICES ASSUME NEW C, NEW D, C \subseteq D PROVE Blocks(C, L) \subseteq Blocks(D, M)
    OBVIOUS
  <2>1. Seq(L) \subseteq Seq(M)
    OBVIOUS
  <2> QED  BY <2>1 DEF Blocks
<1>3. BlocksIn(parser, L) \subseteq BlocksIn(parser, M)
  BY <1>1, <1>2 DEF BlocksIn
<1> DEFINE B == BlocksIn(parser, L)
           D == BlocksIn(parser, M)
<1> HIDE DEF B, D
<1>4. Seq(B) \subseteq Seq(D)
  BY <1>3 DEF B, D
<1> QED  BY <1>3, <1>4 DEF Readings, B, D

\* The line a is read, and no line b before it.
ReadAhead(text, a, b) ==
    \E i \in DOMAIN text : NormalizeLine(text[i]) = a /\ \A j \in 1 .. i : NormalizeLine(text[j]) # b

\* A state over lines that quotes a and has no b among them.
LEMMA OrderingFirst ==
    ASSUME NEW C, NEW L, NEW st \in Readings(Blocks(C, L), L), NEW a, Held(st, a), NEW b, b \notin L
    PROVE  Ordering(st, a, b)
<1> DEFINE B == Blocks(C, L)
           all == st.done \o st.open
<1> HIDE DEF B
<1>1. st.done \in Seq(B) /\ st.open \in Seq(B)
  <2>1. st.done \in Seq(B) /\ st.open \in {<<>>} \cup {<<c>> : c \in B}
    BY DEF Readings, B
  <2>2. \A c \in B : <<c>> \in Seq(B)
    OBVIOUS
  <2>3. CASE st.open = <<>>
    BY <2>1, <2>3
  <2>4. CASE st.open # <<>>
    <3>1. PICK c \in B : st.open = <<c>>
      BY <2>1, <2>4
    <3> QED  BY <2>1, <2>2, <3>1
  <2> QED  BY <2>3, <2>4
<1>2. all \in Seq(B) /\ \A x : x \in ToSet(all) <=> x \in ToSet(st.done) \/ x \in ToSet(st.open)
  BY <1>1, ConcatHolds
<1> HIDE DEF all
<1>3. Quotes(all, a)
  BY <1>2 DEF Held, Quotes
<1>4. ~Quotes(all, b)
  <2>1. \A x \in B : b \notin ToSet(x.lines)
    <3>1. \A x \in Blocks(C, L) : x.lines \in Seq(L)
      BY BlockHasLines
    <3>2. ASSUME NEW ls \in Seq(L)
          PROVE  b \notin ToSet(ls)
      BY DEF ToSet
    <3> QED  BY <3>1, <3>2 DEF B
  <2>2. \A x \in ToSet(all) : x \in B
    BY <1>2 DEF ToSet
  <2> QED  BY <2>1, <2>2 DEF Quotes
<1>5. AheadIn(all, a, b)
  BY <1>2, <1>3, <1>4, AheadFirst DEF B
<1> QED  BY <1>5 DEF Ordering, all

\* Reading a text keeps the order of its lines.
LEMMA ReadOrder ==
    ASSUME NEW parser, NEW R, NEW text \in Seq(R), NEW a, Quotable(parser, a), NEW b, b # NoLine,
           ReadAhead(text, a, b)
    PROVE  Ordering(Read(parser, text), a, b)
<1> DEFINE N == Len(text)
           line == [n \in 1 .. N |-> NormalizeLine(text[n])]
           L(n) == {NoLine} \cup {line[m] : m \in 1 .. n}
           S(n) == Readings(BlocksIn(parser, L(n)), L(n))
<1>1. N \in Nat /\ DOMAIN text = 1 .. N /\ a # NoLine
  BY DEF Quotable
<1>2. PICK i \in 1 .. N : line[i] = a /\ \A j \in 1 .. i : line[j] # b
  <2>1. PICK i \in 1 .. N : NormalizeLine(text[i]) = a /\ \A j \in 1 .. i : NormalizeLine(text[j]) # b
    BY <1>1 DEF ReadAhead
  <2>2. \A j \in 1 .. i : j \in 1 .. N
    BY <1>1
  <2> QED  BY <2>1, <2>2
<1>3. \A n \in 1 .. N : \A x : ParseStep(parser, x, text[n]) = ParseLine(parser, x, text[n].indent, line[n])
  BY DEF ParseStep
<1> HIDE DEF line
<1>4. ASSUME NEW n \in 0 .. N, NEW m \in 1 .. N, m <= n, NEW x \in S(n)
      PROVE  /\ ParseStep(parser, x, text[m]) \in S(n)
             /\ Quotable(parser, line[m]) => Held(ParseStep(parser, x, text[m]), line[m])
             /\ (parser \in SetStyle => x.open = <<>>) =>
                   /\ KeepsOrder(x, ParseStep(parser, x, text[m]))
                   /\ parser \in SetStyle => ParseStep(parser, x, text[m]).open = <<>>
  <2> DEFINE M == L(n)
             next == ParseLine(parser, x, text[m].indent, line[m])
  <2>1. NoLine \in M /\ line[m] \in M
    BY <1>4
  <2>2. x \in Readings(Blocks(Classes(parser, M), M), M)
    BY DEF BlocksIn
  <2>3. ParseStep(parser, x, text[m]) = next
    BY <1>3
  <2> HIDE DEF M
  <2>4. Reads(Classes(parser, M), M, Quotable(parser, line[m]), x, line[m], next)
    BY <2>1, <2>2, LineIsRead
  <2>5. (parser \in SetStyle => x.open = <<>>) =>
            KeepsOrder(x, next) /\ (parser \in SetStyle => next.open = <<>>)
    BY <2>1, <2>2, LineOrder
  <2>6. /\ next \in Readings(Blocks(Classes(parser, M), M), M)
        /\ Quotable(parser, line[m]) => Held(next, line[m])
    BY <2>4 DEF Reads, Quotable
  <2>7. next \in S(n)
    BY <2>6 DEF M, BlocksIn
  <2> HIDE DEF next, S
  <2> QED  BY <2>3, <2>5, <2>6, <2>7
<1>5. \A m, n \in 0 .. N : m <= n => S(m) \subseteq S(n)
  <2> SUFFICES ASSUME NEW m \in 0 .. N, NEW n \in 0 .. N, m <= n PROVE S(m) \subseteq S(n)
    OBVIOUS
  <2>1. L(m) \subseteq L(n)
    OBVIOUS
  <2> HIDE DEF L
  <2> QED  BY <2>1, ReadingsGrow
<1>6. Start \in S(0)
  BY DEF Readings, Start, Reading
<1>7. PICK st : ReadsOn(parser, text, N, Readings(BlocksIn(parser, Normal(text)), Normal(text)), st)
  BY ReadRuns
<1>8. /\ st[0] = Start /\ \A n \in 1 .. N : st[n] = ParseStep(parser, st[n - 1], text[n])
      /\ Read(parser, text) = st[N]
  BY <1>7 DEF ReadsOn
<1> HIDE DEF N, S
<1> DEFINE Good == {n \in 0 .. N : /\ st[n] \in S(n) /\ (parser \in SetStyle => st[n].open = <<>>)
                                   /\ i <= n => Ordering(st[n], a, b)}
<1>9. 0 \in Good
  BY <1>1, <1>6, <1>8 DEF Start, Reading
<1>10. ASSUME NEW n \in 0 .. N - 1, n \in Good
       PROVE  n + 1 \in Good
  <2>1. n + 1 \in 1 .. N /\ (n + 1) - 1 = n /\ n \in 0 .. N /\ n + 1 \in 0 .. N /\ n <= n + 1
    BY <1>1
  <2>2. st[n] \in S(n + 1)
    BY <1>5, <1>10, <2>1
  <2>3. st[n + 1] = ParseStep(parser, st[n], text[n + 1])
    BY <1>8, <2>1
  <2>4. /\ st[n + 1] \in S(n + 1)
        /\ Quotable(parser, line[n + 1]) => Held(st[n + 1], line[n + 1])
        /\ KeepsOrder(st[n], st[n + 1]) /\ (parser \in SetStyle => st[n + 1].open = <<>>)
    BY <1>4, <1>10, <2>1, <2>2, <2>3
  <2>5. ASSUME i <= n
        PROVE  Ordering(st[n + 1], a, b)
    BY <1>1, <1>10, <2>4, <2>5 DEF KeepsOrder
  <2>6. ASSUME i = n + 1
        PROVE  Ordering(st[n + 1], a, b)
    <3>1. Held(st[n + 1], a)
      BY <1>2, <2>4, <2>6
    <3>2. b \notin L(n + 1)
      BY <1>2, <2>6
    <3> DEFINE M == L(n + 1)
    <3>3. st[n + 1] \in Readings(Blocks(Classes(parser, M), M), M)
      BY <2>4 DEF S, BlocksIn
    <3> HIDE DEF M, L
    <3>4. b \notin M
      BY <3>2 DEF M
    <3> QED  BY <3>1, <3>3, <3>4, OrderingFirst
  <2>7. i <= n + 1 => i <= n \/ i = n + 1
    BY <1>1, <2>1
  <2> HIDE DEF L
  <2> QED  BY <2>1, <2>4, <2>5, <2>6, <2>7
<1>11. N \in Good
  <2> HIDE DEF Good
  <2>1. Passes(N, Good)
    BY <1>1, <1>9, <1>10 DEF Passes
  <2> QED  BY <1>1, <2>1, UpTo
<1> QED  BY <1>1, <1>8, <1>11

----------------------------------------------------------------------------
\* Two lines of one block that changed places

\* Parsing a text keeps the order of its lines: the block that the first of
\* them joins has it ahead of the other.
LEMMA ParseOrder ==
    ASSUME NEW parser, NEW R, NEW text \in Seq(R), NEW a, Quotable(parser, a), NEW b, b # NoLine,
           ReadAhead(text, a, b)
    PROVE  \E m \in ToSet(Parse(parser, text)) : Ahead(m.lines, a, b)
<1> DEFINE L == Normal(text)
           C == Classes(parser, L)
           read == Read(parser, text)
           flushed == Flush(read)
           done == flushed.done
<1>1. Ordering(read, a, b) /\ a # NoLine
  BY ReadOrder DEF Quotable
<1>2. read \in Readings(Blocks(C, L), L)
  BY ReadQuotes DEF BlocksIn
<1> HIDE DEF read, C
<1>3. /\ flushed \in Readings(Blocks(C, L), L) /\ flushed.open = <<>> /\ KeepsOrder(read, flushed)
  BY <1>2, FlushKeeps, FlushOrder
<1>4. Parse(parser, text) = MergeRelatedBlocks(done)
  BY DEF Parse, read
<1> HIDE DEF flushed
<1>5. done \in Seq(Blocks(C, L)) /\ AheadIn(done, a, b)
  <2>1. done \in Seq(Blocks(C, L)) /\ done \o flushed.open = done
    BY <1>3 DEF Readings
  <2> QED  BY <1>1, <1>3, <2>1 DEF KeepsOrder, Ordering
<1> HIDE DEF done
<1>6. \E m \in ToSet(MergeRelatedBlocks(done)) : Ahead(m.lines, a, b)
  BY <1>1, <1>5, MergedOrder
<1> QED  BY <1>4, <1>6

\* No other block has the line.
OnlyIn(blocks, x, l) == \A m \in ToSet(blocks) : l \in ToSet(m.lines) => m = x

LEMMA AheadInBlock ==
    ASSUME NEW parser, NEW R, NEW text \in Seq(R), NEW a, Quotable(parser, a), NEW b, b # NoLine,
           ReadAhead(text, a, b), NEW x, OnlyIn(Parse(parser, text), x, a)
    PROVE  Ahead(x.lines, a, b)
<1>1. PICK m \in ToSet(Parse(parser, text)) : Ahead(m.lines, a, b)
  BY ParseOrder
<1>2. a \in ToSet(m.lines)
  BY <1>1 DEF Ahead, ToSet
<1> QED  BY <1>1, <1>2 DEF OnlyIn

\* A block whose lines changed, be it in their order, is a change.
LEMMA OrderedChange ==
    ASSUME NEW B, NEW earlier \in Seq(B), NEW later \in Seq(B), Distinct(later),
           NEW x \in ToSet(earlier), NEW y \in ToSet(later), x.id = y.id,
           Ordered(x) \/ Ordered(y), x.lines # y.lines
    PROVE  \E c \in ToSet(DiffBlocks(earlier, later)) :
               c.type = "changed" /\ c.before = x.lines /\ c.after = y.lines
<1> DEFINE i == PlaceOf(later, x.id)
           new == Change("changed", y, x.lines, y.lines)
<1>1. PICK j \in DOMAIN later : y = later[j]
  BY DEF ToSet
<1>2. i # 0
  BY <1>1, PlaceIsFirst
<1>3. i \in DOMAIN later /\ later[i].id = x.id
  BY <1>2, PlaceIsFirst
<1>4. later[i] = y
  BY <1>1, <1>3 DEF Distinct
<1>5. ~SameFingerprint(x, y)
  BY DEF SameFingerprint
<1>6. Fate(x, later) = <<new>>
  BY <1>2, <1>4, <1>5 DEF Fate, HasBlock, BlockWith, Changed
<1>7. new.type = "changed" /\ new.before = x.lines /\ new.after = y.lines
  BY DEF Change
<1> HIDE DEF new
<1>8. new \in ToSet(<<new>>)
  BY DEF ToSet
<1>9. new \in ToSet(DiffBlocks(earlier, later))
  BY <1>6, <1>8, DiffHolds
<1> QED  BY <1>7, <1>9

\* Two lines of a rule list that stand in the old text in one order and in the
\* new one in the other, both quoted by that list alone.
Swap(parser, old, new, a, b) ==
    \E x \in ToSet(Parse(parser, old)), y \in ToSet(Parse(parser, new)) :
        /\ x.id = y.id /\ (Ordered(x) \/ Ordered(y))
        /\ {a, b} \subseteq ToSet(x.lines) \cap ToSet(y.lines)
        /\ OnlyIn(Parse(parser, old), x, a) /\ OnlyIn(Parse(parser, new), y, b)
        /\ ReadAhead(old, a, b) /\ ReadAhead(new, b, a)

\* A change has both lines before and after.
IsChange(r, a, b) ==
    \E c \in ToSet(r.changes) : c.type = "changed" /\ {a, b} \subseteq ToSet(c.before) \cap ToSet(c.after)

LEMMA AnalysisOrder ==
    ASSUME NEW R, NEW old \in Seq(R), NEW new \in Seq(R), NEW vendor, NEW r, r = AnalyzeContent(old, new, vendor),
           NEW a, Quotable(r.parser, a), NEW b, Quotable(r.parser, b), Swap(r.parser, old, new, a, b)
    PROVE  IsChange(r, a, b)
<1> DEFINE parser == SelectParser(vendor, old \o new)
           earlier == Parse(parser, old)
           later == Parse(parser, new)
           B1 == BlocksIn(parser, Normal(old))
           B2 == BlocksIn(parser, Normal(new))
           B == B1 \cup B2
<1>1. r.parser = parser /\ r.changes = DiffBlocks(earlier, later)
  BY DEF AnalyzeContent, Analyze, AnalyzeBlocks, AnalyzeChanges, AnalyzeFindings, Analysis
<1> HIDE DEF parser
<1>2. PICK x \in ToSet(earlier), y \in ToSet(later) :
        /\ x.id = y.id /\ (Ordered(x) \/ Ordered(y))
        /\ {a, b} \subseteq ToSet(x.lines) \cap ToSet(y.lines)
        /\ OnlyIn(earlier, x, a) /\ OnlyIn(later, y, b)
        /\ ReadAhead(old, a, b) /\ ReadAhead(new, b, a)
  BY <1>1 DEF Swap
<1>3. earlier \in Seq(B1) /\ later \in Seq(B2) /\ Distinct(later)
  BY ParseQuotes
<1>4. Ahead(x.lines, a, b) /\ Ahead(y.lines, b, a)
  <2>1. Quotable(parser, a) /\ Quotable(parser, b) /\ a # NoLine /\ b # NoLine
    BY <1>1 DEF Quotable
  <2> QED  BY <1>2, <2>1, AheadInBlock
<1>5. x.lines \in Seq(Normal(old))
  <2> DEFINE L == Normal(old)
             C == Classes(parser, L)
  <2>1. x \in Blocks(C, L)
    <3> HIDE DEF earlier, B1
    <3>1. x \in B1
      BY <1>3 DEF ToSet
    <3> QED  BY <3>1 DEF B1, BlocksIn
  <2> HIDE DEF C, L
  <2>2. x.lines \in Seq(L)
    BY <2>1, BlockHasLines
  <2> QED  BY <2>2 DEF L
<1>6. x.lines # y.lines
  BY <1>4, <1>5, AheadOneWay
<1> HIDE DEF earlier, later, B1, B2
<1>7. earlier \in Seq(B) /\ later \in Seq(B)
  BY <1>3
<1> HIDE DEF B
<1>8. PICK c \in ToSet(DiffBlocks(earlier, later)) :
        c.type = "changed" /\ c.before = x.lines /\ c.after = y.lines
  BY <1>2, <1>3, <1>6, <1>7, OrderedChange
<1> QED  BY <1>1, <1>2, <1>8 DEF IsChange

\* Two rules of one list that changed places are a change of that list.
SwapsAreReported ==
    Reviewed =>
        \A a, b : /\ Quotable(report.parser, a) /\ Quotable(report.parser, b)
                  /\ Swap(report.parser, Text(before), Text(seen), a, b)
                  => IsChange(report, a, b)

LEMMA ReportOrder == ConfigInv => SwapsAreReported
<1> SUFFICES ASSUME ConfigInv, Reviewed, NEW a, NEW b,
                    Quotable(report.parser, a), Quotable(report.parser, b),
                    Swap(report.parser, Text(before), Text(seen), a, b)
             PROVE  IsChange(report, a, b)
  BY DEF SwapsAreReported
<1> DEFINE old == Text(before)
           new == Text(seen)
           v == family.vendor
           r == report
           RR == RawLine
<1>1. old \in Seq(RR) /\ new \in Seq(RR)
  BY TextIs DEF ConfigInv
<1>2. /\ r = AnalyzeContent(old, new, v) /\ Quotable(r.parser, a) /\ Quotable(r.parser, b)
      /\ Swap(r.parser, old, new, a, b)
  BY DEF ConfigInv, Reviewed
<1> HIDE DEF old, new, v, r, RR
<1>3. IsChange(r, a, b)
  BY <1>1, <1>2, AnalysisOrder
<1> QED  BY <1>3 DEF r

\* A review never misses that two rules of an access list or a firewall policy
\* changed places, whatever the device, its texts and its edits.
THEOREM SwapsReported == Spec => []SwapsAreReported
BY ConfigInvariant, ReportOrder, PTL

\* The two lists of every two rules that changed places are blocks of the texts
\* the rules stand in alone, read in the order the sections have them in.
ListsAreBlocks ==
    \A pair \in SwappedRules(Rules(before), Rules(seen)) :
        \E a, b : /\ pair = {a, b} /\ Quotable(report.parser, a) /\ Quotable(report.parser, b)
                  /\ Swap(report.parser, Text(before), Text(seen), a, b)

\* Told from the sections of a configuration instead of its blocks: where the
\* rules of a list make up one block, no change of their order is lost.
THEOREM RuleOrderIsReported == Spec => [](ListsAreBlocks => RuleOrderReported)
<1>1. SwapsAreReported => (ListsAreBlocks => RuleOrderReported)
  BY DEF SwapsAreReported, ListsAreBlocks, RuleOrderReported, IsChange, Changes
<1> QED  BY <1>1, SwapsReported, PTL

----------------------------------------------------------------------------
\* A report quotes what there is

\* What becomes of a block and the arrival of one quote nothing else.
LEMMA FateIsReal ==
    ASSUME NEW B, NEW b \in B, NEW after \in Seq(B), NEW c \in ToSet(Fate(b, after))
    PROVE  /\ \A l \in ToSet(c.before) : l \in ToSet(b.lines)
           /\ \A l \in ToSet(c.after) : Quotes(after, l)
<1> DEFINE i == PlaceOf(after, b.id)
           a == after[i]
           gone == Change("removed", b, b.lines, <<>>)
           new == Change("changed", a, b.lines, a.lines)
<1>1. \A x : ToSet(<<x>>) = {x} /\ x \notin ToSet(<<>>)
  BY DEF ToSet
<1>2. CASE i = 0
  <2>1. Fate(b, after) = <<gone>>
    BY <1>2 DEF Fate, HasBlock
  <2>2. c = gone
    BY <1>1, <2>1
  <2>3. c.before = b.lines /\ c.after = <<>>
    BY <2>2 DEF Change
  <2> QED  BY <1>1, <2>3
<1>3. CASE i # 0
  <2>1. i \in DOMAIN after
    BY <1>3, PlaceIsFirst
  <2>2. a \in ToSet(after)
    BY <2>1 DEF ToSet
  <2>3. Fate(b, after) \in {<<>>, <<new>>}
    BY <1>3 DEF Fate, HasBlock, BlockWith, Changed
  <2>4. c = new
    BY <1>1, <2>3
  <2>5. c.before = b.lines /\ c.after = a.lines
    BY <2>4 DEF Change
  <2> HIDE DEF a
  <2> QED  BY <2>2, <2>5 DEF Quotes
<1> QED  BY <1>2, <1>3

LEMMA ArrivalIsReal ==
    ASSUME NEW a, NEW earlier, NEW c \in ToSet(Arrival(a, earlier))
    PROVE  c.type = "added" /\ c.before = <<>> /\ c.after = a.lines
<1> DEFINE new == Change("added", a, <<>>, a.lines)
<1>1. \A x : ToSet(<<x>>) = {x} /\ x \notin ToSet(<<>>)
  BY DEF ToSet
<1>2. Arrival(a, earlier) \in {<<>>, <<new>>}
  BY DEF Arrival
<1>3. c = new
  BY <1>1, <1>2
<1> QED  BY <1>3 DEF Change

LEMMA DiffIsReal ==
    ASSUME NEW B, NEW earlier \in Seq(B), NEW later \in Seq(B), NEW c \in ToSet(DiffBlocks(earlier, later))
    PROVE  /\ \A l \in ToSet(c.before) : Quotes(earlier, l)
           /\ \A l \in ToSet(c.after) : Quotes(later, l)
<1>1. /\ \A x \in ToSet(earlier) : x \in B
      /\ \A x \in ToSet(later) : x \in B
  BY DEF ToSet
<1>2. CASE \E b \in ToSet(earlier) : c \in ToSet(Fate(b, later))
  <2>1. PICK b \in ToSet(earlier) : c \in ToSet(Fate(b, later))
    BY <1>2
  <2>2. /\ \A l \in ToSet(c.before) : l \in ToSet(b.lines)
        /\ \A l \in ToSet(c.after) : Quotes(later, l)
    BY <1>1, <2>1, FateIsReal
  <2> QED  BY <2>2 DEF Quotes
<1>3. CASE \E a \in ToSet(later) : c \in ToSet(Arrival(a, earlier))
  <2>1. PICK a \in ToSet(later) : c \in ToSet(Arrival(a, earlier))
    BY <1>3
  <2>2. c.before = <<>> /\ c.after = a.lines
    BY <2>1, ArrivalIsReal
  <2>3. \A l : l \notin ToSet(<<>>)
    BY DEF ToSet
  <2> QED  BY <2>2, <2>3 DEF Quotes
<1> QED  BY <1>2, <1>3, DiffHolds

LEMMA AnalysisIsReal ==
    ASSUME NEW R, NEW old \in Seq(R), NEW new \in Seq(R), NEW vendor, NEW a, a = AnalyzeContent(old, new, vendor)
    PROVE  /\ \A c \in ToSet(a.changes) : /\ \A l \in ToSet(c.before) : l \in Normal(old) /\ l # NoLine
                                          /\ \A l \in ToSet(c.after) : l \in Normal(new) /\ l # NoLine
           /\ \A s \in ToSet(a.rollback.snippets) : \A l \in ToSet(s.exactReapply) :
                 l \in Normal(old) /\ l # NoLine
<1> DEFINE parser == SelectParser(vendor, old \o new)
           b == Parse(parser, old)
           n == Parse(parser, new)
           B1 == BlocksIn(parser, Normal(old))
           B2 == BlocksIn(parser, Normal(new))
           B == B1 \cup B2
           diff == DiffBlocks(b, n)
<1>1. a.changes = diff
  BY DEF AnalyzeContent, Analyze, AnalyzeBlocks, AnalyzeChanges, AnalyzeFindings, Analysis
<1>2. PICK high : a.rollback = Rollback(diff, high, parser)
  BY DEF AnalyzeContent, Analyze, AnalyzeBlocks, AnalyzeChanges, AnalyzeFindings, Analysis
<1> HIDE DEF parser
<1>3. /\ b \in Seq(B1) /\ n \in Seq(B2)
      /\ \A x : Quotes(b, x) => x \in Normal(old) /\ x # NoLine
      /\ \A x : Quotes(n, x) => x \in Normal(new) /\ x # NoLine
  BY ParseQuotes
<1> HIDE DEF b, n, B1, B2
<1>4. b \in Seq(B) /\ n \in Seq(B)
  BY <1>3
<1> HIDE DEF B
<1>5. \A c \in ToSet(diff) : /\ \A l \in ToSet(c.before) : Quotes(b, l)
                             /\ \A l \in ToSet(c.after) : Quotes(n, l)
  BY <1>4, DiffIsReal
<1> HIDE DEF diff
<1>6. ASSUME NEW s \in ToSet(a.rollback.snippets), NEW l \in ToSet(s.exactReapply)
      PROVE  l \in Normal(old) /\ l # NoLine
  <2>1. PICK i \in DOMAIN diff : s.exactReapply = IF diff[i].type = "added" THEN <<>> ELSE diff[i].before
    BY <1>2, <1>6 DEF Rollback, ToSet
  <2>2. l \in ToSet(diff[i].before)
    BY <1>6, <2>1 DEF ToSet
  <2>3. diff[i] \in ToSet(diff)
    BY <2>1 DEF ToSet
  <2> QED  BY <1>3, <1>5, <2>2, <2>3
<1> QED  BY <1>1, <1>3, <1>5, <1>6

\* What a report quotes as gone, and what its rollback text puts back, was in
\* the old text, and what it quotes as new is in the new one.
QuotesAreReal ==
    Reviewed => /\ BeforeLines \cup ReappliedLines \subseteq Normal(Text(before)) \ {NoLine}
                /\ AfterLines \subseteq Normal(Text(seen)) \ {NoLine}

LEMMA ReportIsReal == ConfigInv => QuotesAreReal
<1> SUFFICES ASSUME ConfigInv, Reviewed
             PROVE  /\ BeforeLines \cup ReappliedLines \subseteq Normal(Text(before)) \ {NoLine}
                    /\ AfterLines \subseteq Normal(Text(seen)) \ {NoLine}
  BY DEF QuotesAreReal
<1> DEFINE old == Text(before)
           new == Text(seen)
           R == RawLine
           r == report
           v == family.vendor
<1>1. old \in Seq(R) /\ new \in Seq(R)
  BY TextIs DEF ConfigInv
<1>2. r = AnalyzeContent(old, new, v)
  BY DEF ConfigInv, Reviewed
<1> HIDE DEF old, new, R, r, v
<1>3. /\ \A c \in ToSet(r.changes) : /\ \A l \in ToSet(c.before) : l \in Normal(old) /\ l # NoLine
                                     /\ \A l \in ToSet(c.after) : l \in Normal(new) /\ l # NoLine
      /\ \A s \in ToSet(r.rollback.snippets) : \A l \in ToSet(s.exactReapply) : l \in Normal(old) /\ l # NoLine
  BY <1>1, <1>2, AnalysisIsReal
<1> QED  BY <1>3 DEF BeforeLines, AfterLines, ReappliedLines, old, new, r

\* A report makes nothing up, whatever the device, its texts and its edits.
THEOREM ReportsAreReal == Spec => []QuotesAreReal
BY ConfigInvariant, ReportIsReal, PTL

----------------------------------------------------------------------------
\* What says nothing changes nothing

\* The lines of a text that say something, with their indentation.
Saying(raw) == [indent |-> raw.indent, line |-> NormalizeLine(raw)]
Tell(said, raw) == IF NormalizeLine(raw) = NoLine THEN said ELSE Append(said, Saying(raw))
Sayings(text) ==
    LET said[n \in 0 .. Len(text)] == IF n = 0 THEN <<>> ELSE Tell(said[n - 1], text[n])
    IN  said[Len(text)]

\* Sayings is what its recursion says.
Told(Z, text, N, said) ==
    /\ said \in [0 .. N -> Seq(Z)] /\ said[0] = <<>>
    /\ \A n \in 1 .. N : said[n] = Tell(said[n - 1], text[n])
    /\ Sayings(text) = said[N]

LEMMA ToldSteps ==
    ASSUME NEW Z, NEW text, NEW N \in Nat, Len(text) = N, \A n \in 1 .. N : Saying(text[n]) \in Z
    PROVE  \E said : Told(Z, text, N, said)
<1> DEFINE T == Seq(Z)
           step == [n \in 1 .. N |-> [x \in T |-> Tell(x, text[n])]]
           F(w) == [n \in 0 .. N |-> IF n = 0 THEN <<>> ELSE Tell(w[n - 1], text[n])]
           end == CHOOSE w : w = F(w)
           empty == <<>>
<1>1. empty \in T /\ \A n \in 1 .. N : \A x \in T : Tell(x, text[n]) \in T
  BY DEF Tell
<1>2. \A n \in 1 .. N : \A x \in T : step[n][x] = Tell(x, text[n]) /\ step[n][x] \in T
  BY <1>1
<1> HIDE DEF step, T, empty
<1>3. PICK f : Run(N, T, empty, step, f)
  <2>1. Steps(N, T, empty, step)
    BY <1>1, <1>2 DEF Steps
  <2> QED  BY <2>1, Recursion
<1>4. f \in [0 .. N -> T] /\ f[0] = empty /\ \A n \in 1 .. N : f[n] = step[n][f[n - 1]]
  BY <1>3 DEF Run
<1>5. ASSUME NEW n \in 1 .. N
      PROVE  f[n] = Tell(f[n - 1], text[n])
  <2>1. n - 1 \in 0 .. N
    OBVIOUS
  <2>2. f[n - 1] \in T /\ f[n] = step[n][f[n - 1]]
    BY <1>4, <2>1
  <2> QED  BY <1>2, <2>2
<1>6. f = F(f)
  <2>1. f = [n \in 0 .. N |-> f[n]]
    BY <1>4
  <2>2. \A n \in 0 .. N : f[n] = IF n = 0 THEN <<>> ELSE Tell(f[n - 1], text[n])
    BY <1>4, <1>5 DEF empty
  <2> QED  BY <2>1, <2>2
<1>7. end = F(end)
  <2> HIDE DEF F
  <2> QED  BY <1>6
<1>8. Sayings(text) = end[N]
  BY DEF Sayings
<1> HIDE DEF end
<1>9. end = f
  <2> DEFINE Good == {n \in 0 .. N : end[n] = f[n]}
  <2>1. \A n \in 0 .. N : end[n] = IF n = 0 THEN <<>> ELSE Tell(end[n - 1], text[n])
    BY <1>7
  <2>2. end = [n \in 0 .. N |-> end[n]]
    BY <1>7
  <2> HIDE DEF F
  <2>3. 0 \in Good
    BY <1>4, <2>1 DEF empty
  <2>4. ASSUME NEW n \in 0 .. N - 1, n \in Good
        PROVE  n + 1 \in Good
    <3>1. n + 1 \in 1 .. N /\ n + 1 \in 0 .. N /\ n + 1 # 0 /\ (n + 1) - 1 = n
      OBVIOUS
    <3>2. end[n + 1] = Tell(end[n], text[n + 1]) /\ f[n + 1] = Tell(f[n], text[n + 1])
      BY <1>5, <2>1, <3>1
    <3> QED  BY <2>4, <3>1, <3>2
  <2> HIDE DEF Good
  <2>5. Passes(N, Good)
    BY <2>3, <2>4 DEF Passes
  <2>6. \A n \in 0 .. N : n \in Good
    BY <2>5, UpTo
  <2>7. f = [n \in 0 .. N |-> f[n]]
    BY <1>4
  <2> QED  BY <2>2, <2>6, <2>7 DEF Good
<1> QED  BY <1>4, <1>5, <1>8, <1>9 DEF Told, empty, T

\* The state a parser is in after sayings, told without a text.
Retells(parser, said, states) ==
    /\ states[0] = Start
    /\ \A n \in 1 .. Len(said) : states[n] = ParseLine(parser, states[n - 1], said[n].indent, said[n].line)
Leads(parser, said, state) == \E states : Retells(parser, said, states) /\ state = states[Len(said)]

\* There is only one.
LEMMA LeadsToOne ==
    ASSUME NEW parser, NEW Z, NEW said \in Seq(Z), NEW x, Leads(parser, said, x), NEW y, Leads(parser, said, y)
    PROVE  x = y
<1> DEFINE N == Len(said)
           Next1(q, n) == ParseLine(parser, q, said[n].indent, said[n].line)
<1>1. N \in Nat
  OBVIOUS
<1>2. PICK f : Retells(parser, said, f) /\ x = f[N]
  BY DEF Leads
<1>3. PICK g : Retells(parser, said, g) /\ y = g[N]
  BY DEF Leads
<1>4. /\ f[0] = g[0]
      /\ \A n \in 1 .. N : f[n] = Next1(f[n - 1], n) /\ g[n] = Next1(g[n - 1], n)
  BY <1>2, <1>3 DEF Retells
<1> HIDE DEF Next1, N
<1> DEFINE Good == {n \in 0 .. N : f[n] = g[n]}
<1>5. 0 \in Good
  BY <1>1, <1>4
<1>6. ASSUME NEW n \in 0 .. N - 1, n \in Good
      PROVE  n + 1 \in Good
  <2>1. n + 1 \in 1 .. N /\ (n + 1) - 1 = n /\ n + 1 \in 0 .. N
    BY <1>1
  <2>2. f[n + 1] = Next1(f[n], n + 1) /\ g[n + 1] = Next1(g[n], n + 1)
    BY <1>4, <2>1
  <2> QED  BY <1>6, <2>1, <2>2
<1>7. N \in Good
  <2> HIDE DEF Good
  <2>1. Passes(N, Good)
    BY <1>1, <1>5, <1>6 DEF Passes
  <2> QED  BY <1>1, <2>1, UpTo
<1> QED  BY <1>2, <1>3, <1>7

\* One saying more is one line read.
LEMMA LeadsOn ==
    ASSUME NEW parser, NEW Z, NEW said \in Seq(Z), NEW e \in Z, NEW x, Leads(parser, said, x)
    PROVE  Leads(parser, Append(said, e), ParseLine(parser, x, e.indent, e.line))
<1> DEFINE N == Len(said)
           y == ParseLine(parser, x, e.indent, e.line)
           more == Append(said, e)
<1>1. N \in Nat /\ Len(more) = N + 1 /\ more[N + 1] = e /\ \A n \in 1 .. N : more[n] = said[n]
  OBVIOUS
<1>2. PICK f : Retells(parser, said, f) /\ x = f[N]
  BY DEF Leads
<1>3. f[0] = Start /\ \A n \in 1 .. N : f[n] = ParseLine(parser, f[n - 1], said[n].indent, said[n].line)
  BY <1>2 DEF Retells
<1> HIDE DEF N, more
<1> DEFINE g == [n \in 0 .. N + 1 |-> IF n = N + 1 THEN y ELSE f[n]]
<1>4. g[N + 1] = y /\ \A n \in 0 .. N : g[n] = f[n]
  BY <1>1
<1> HIDE DEF g, y
<1>5. g[0] = Start
  BY <1>1, <1>3, <1>4
<1>6. ASSUME NEW n \in 1 .. N + 1
      PROVE  g[n] = ParseLine(parser, g[n - 1], more[n].indent, more[n].line)
  <2>1. CASE n = N + 1
    <3>1. n - 1 = N /\ N \in 0 .. N
      BY <1>1, <2>1
    <3>2. g[n - 1] = x /\ more[n] = e
      BY <1>1, <1>2, <1>4, <2>1, <3>1
    <3> QED  BY <1>4, <2>1, <3>2 DEF y
  <2>2. CASE n # N + 1
    <3>1. n \in 1 .. N /\ n \in 0 .. N /\ n - 1 \in 0 .. N
      BY <1>1, <2>2
    <3> QED  BY <1>1, <1>3, <1>4, <3>1
  <2> QED  BY <2>1, <2>2
<1>7. Retells(parser, more, g)
  BY <1>1, <1>5, <1>6 DEF Retells
<1>8. Leads(parser, more, y)
  BY <1>1, <1>4, <1>7 DEF Leads
<1> QED  BY <1>8 DEF more, y

\* A text is read as far as it says something.
LEMMA ReadSayings ==
    ASSUME NEW parser, NEW R, NEW text \in Seq(R)
    PROVE  /\ \E Z : Sayings(text) \in Seq(Z)
           /\ Leads(parser, Sayings(text), Read(parser, text))
<1> DEFINE N == Len(text)
           Z == {Saying(text[n]) : n \in 1 .. N}
<1>1. N \in Nat
  OBVIOUS
<1>2. PICK st : /\ st[0] = Start /\ \A n \in 1 .. N : st[n] = ParseStep(parser, st[n - 1], text[n])
                /\ Read(parser, text) = st[N]
  BY ReadRuns DEF ReadsOn
<1>3. PICK said : Told(Z, text, N, said)
  <2>1. \A n \in 1 .. N : Saying(text[n]) \in Z
    OBVIOUS
  <2> HIDE DEF Z
  <2>2. Len(text) = N
    OBVIOUS
  <2> HIDE DEF N
  <2> QED  BY <1>1, <2>1, <2>2, ToldSteps
<1>4. \A n \in 1 .. N : Saying(text[n]) \in Z
  OBVIOUS
<1> HIDE DEF N, Z
<1>5. /\ said \in [0 .. N -> Seq(Z)] /\ said[0] = <<>>
      /\ \A n \in 1 .. N : said[n] = Tell(said[n - 1], text[n])
      /\ Sayings(text) = said[N]
  BY <1>3 DEF Told
<1> DEFINE Good == {n \in 0 .. N : Leads(parser, said[n], st[n])}
<1>6. 0 \in Good
  <2> DEFINE f == [n \in {0} |-> Start]
  <2>1. f[0] = Start /\ Len(<<>>) = 0
    OBVIOUS
  <2> HIDE DEF f
  <2>2. Retells(parser, <<>>, f)
    BY <2>1 DEF Retells
  <2>3. Leads(parser, <<>>, Start)
    BY <2>1, <2>2 DEF Leads
  <2> QED  BY <1>1, <1>2, <1>5, <2>3
<1>7. ASSUME NEW n \in 0 .. N - 1, n \in Good
      PROVE  n + 1 \in Good
  <2>1. n + 1 \in 1 .. N /\ (n + 1) - 1 = n /\ n \in 0 .. N /\ n + 1 \in 0 .. N
    BY <1>1
  <2> DEFINE raw == text[n + 1]
             s == said[n]
             e == Saying(raw)
             x == st[n]
  <2>2. s \in Seq(Z) /\ e \in Z /\ Leads(parser, s, x)
    BY <1>4, <1>5, <1>7, <2>1
  <2>3. said[n + 1] = Tell(s, raw) /\ st[n + 1] = ParseStep(parser, x, raw)
    BY <1>2, <1>5, <2>1
  <2> HIDE DEF raw, s, x
  <2>4. ParseStep(parser, x, raw) = ParseLine(parser, x, e.indent, e.line)
    BY DEF ParseStep, Saying
  <2>5. CASE NormalizeLine(raw) = NoLine
    <3>1. ParseStep(parser, x, raw) = x /\ Tell(s, raw) = s
      BY <2>5 DEF ParseStep, ParseLine, Tell
    <3> QED  BY <2>1, <2>2, <2>3, <3>1
  <2>6. CASE NormalizeLine(raw) # NoLine
    <3>1. Tell(s, raw) = Append(s, e)
      BY <2>6 DEF Tell
    <3> HIDE DEF e
    <3>2. Leads(parser, Append(s, e), ParseLine(parser, x, e.indent, e.line))
      BY <2>2, LeadsOn
    <3> QED  BY <2>1, <2>3, <2>4, <3>1, <3>2
  <2> QED  BY <2>5, <2>6
<1>8. N \in Good
  <2> HIDE DEF Good
  <2>1. Passes(N, Good)
    BY <1>1, <1>6, <1>7 DEF Passes
  <2> QED  BY <1>1, <2>1, UpTo
<1>9. said[N] \in Seq(Z)
  BY <1>1, <1>5
<1> QED  BY <1>2, <1>5, <1>8, <1>9

LEMMA SameSayings ==
    ASSUME NEW parser, NEW R, NEW old \in Seq(R), NEW new \in Seq(R), Sayings(old) = Sayings(new)
    PROVE  Parse(parser, old) = Parse(parser, new)
<1>1. PICK Z : Sayings(old) \in Seq(Z)
  BY ReadSayings
<1> DEFINE said == Sayings(old)
           x == Read(parser, old)
           y == Read(parser, new)
<1>2. said \in Seq(Z) /\ Leads(parser, said, x) /\ Leads(parser, said, y)
  BY <1>1, ReadSayings
<1> HIDE DEF said, x, y
<1>3. x = y
  BY <1>2, LeadsToOne
<1> QED  BY <1>3 DEF Parse, x, y

\* Blocks that stayed as they were are no change.
LEMMA SilentDiff ==
    ASSUME NEW B, NEW blocks \in Seq(B), Distinct(blocks)
    PROVE  DiffBlocks(blocks, blocks) = <<>>
<1> DEFINE diff == DiffBlocks(blocks, blocks)
<1>1. ASSUME NEW b \in ToSet(blocks)
      PROVE  Fate(b, blocks) = <<>> /\ Arrival(b, blocks) = <<>>
  <2> DEFINE i == PlaceOf(blocks, b.id)
  <2>1. PICK j \in DOMAIN blocks : b = blocks[j]
    BY DEF ToSet
  <2>2. i # 0
    BY <2>1, PlaceIsFirst
  <2>3. i \in DOMAIN blocks /\ blocks[i].id = b.id
    BY <2>2, PlaceIsFirst
  <2>4. blocks[i] = b
    BY <2>1, <2>3 DEF Distinct
  <2> QED  BY <2>2, <2>4 DEF Fate, Arrival, HasBlock, BlockWith, Changed, SameFingerprint
<1>2. /\ diff \in Seq(ChangesOver(B))
      /\ \A c : c \in ToSet(diff) <=> \/ \E b \in ToSet(blocks) : c \in ToSet(Fate(b, blocks))
                                     \/ \E a \in ToSet(blocks) : c \in ToSet(Arrival(a, blocks))
  BY DiffHolds
<1> DEFINE K == ChangesOver(B)
<1> HIDE DEF diff, K
<1>3. \A c : c \notin ToSet(<<>>)
  BY DEF ToSet
<1>4. \A c : c \notin ToSet(diff)
  BY <1>1, <1>2, <1>3
<1>5. diff \in Seq(K)
  BY <1>2 DEF K
<1>6. Len(diff) = 0
  <2>1. Len(diff) \in Nat /\ DOMAIN diff = 1 .. Len(diff)
    BY <1>5
  <2>2. Len(diff) # 0 => diff[1] \in ToSet(diff)
    BY <2>1 DEF ToSet
  <2> QED  BY <1>4, <2>2
<1>7. diff = <<>>
  BY <1>5, <1>6
<1> QED  BY <1>7 DEF diff

\* Two texts that differ only in comments, remarks and empty lines, wherever
\* they stand, give no change, no dangling reference and nothing to roll back.
CommentsAreSilent ==
    Reviewed /\ Sayings(Text(before)) = Sayings(Text(seen)) =>
        /\ report.changes = <<>> /\ report.dangling = {} /\ report.rollback.snippets = <<>>
        /\ report.interfaces = {} /\ report.vlans = {} /\ report.routes = {} /\ report.rules = {}

LEMMA SilentAnalysis ==
    ASSUME NEW R, NEW old \in Seq(R), NEW new \in Seq(R), Sayings(old) = Sayings(new),
           NEW vendor, NEW a, a = AnalyzeContent(old, new, vendor)
    PROVE  /\ a.changes = <<>> /\ a.dangling = {} /\ a.rollback.snippets = <<>>
           /\ a.interfaces = {} /\ a.vlans = {} /\ a.routes = {} /\ a.rules = {}
<1> DEFINE parser == SelectParser(vendor, old \o new)
           b == Parse(parser, old)
           n == Parse(parser, new)
           none == <<>>
<1>1. PICK peers, dangling, findings :
        dangling = NewlyDangling(b, n) /\ a = Analysis(parser, DiffBlocks(b, n), peers, dangling, findings)
  BY DEF AnalyzeContent, Analyze, AnalyzeBlocks, AnalyzeChanges, AnalyzeFindings
<1> HIDE DEF parser
<1>2. n = b
  BY SameSayings
<1>3. DiffBlocks(b, b) = none
  BY ParseQuotes, SilentDiff
<1> HIDE DEF b, n
<1>4. dangling = {} /\ a = Analysis(parser, none, peers, {}, findings)
  BY <1>1, <1>2, <1>3 DEF NewlyDangling
<1>5. DOMAIN none = {} /\ none = <<>>
  OBVIOUS
<1>6. /\ TouchedInterfaces(none) = {} /\ TouchedVlans(none) = {}
      /\ TouchedRoutes(none) = {} /\ TouchedRules(none) = {}
  BY <1>5 DEF TouchedInterfaces, TouchedVlans, TouchedRoutes, TouchedRules
<1>7. \A high : Rollback(none, high, parser).snippets = <<>>
  BY DEF Rollback
<1> QED  BY <1>4, <1>5, <1>6, <1>7 DEF Analysis

LEMMA SilentReport == ConfigInv => CommentsAreSilent
<1> SUFFICES ASSUME ConfigInv, Reviewed, Sayings(Text(before)) = Sayings(Text(seen))
             PROVE  /\ report.changes = <<>> /\ report.dangling = {} /\ report.rollback.snippets = <<>>
                    /\ report.interfaces = {} /\ report.vlans = {} /\ report.routes = {} /\ report.rules = {}
  BY DEF CommentsAreSilent
<1> DEFINE old == Text(before)
           new == Text(seen)
           R == RawLine
           r == report
           v == family.vendor
<1>1. old \in Seq(R) /\ new \in Seq(R)
  BY TextIs DEF ConfigInv
<1>2. r = AnalyzeContent(old, new, v) /\ Sayings(old) = Sayings(new)
  BY DEF ConfigInv, Reviewed
<1> HIDE DEF old, new, R, r, v
<1>3. /\ r.changes = <<>> /\ r.dangling = {} /\ r.rollback.snippets = <<>>
      /\ r.interfaces = {} /\ r.vlans = {} /\ r.routes = {} /\ r.rules = {}
  BY <1>1, <1>2, SilentAnalysis
<1> QED  BY <1>3 DEF r

\* Comments never make a report, whatever the device, its texts and its edits.
THEOREM CommentsMakeNoReport == Spec => []CommentsAreSilent
BY ConfigInvariant, SilentReport, PTL

----------------------------------------------------------------------------
\* One change for each block that moved, and none for others

LEMMA DistinctJoined ==
    ASSUME NEW S, NEW s \in Seq(S), NEW t \in Seq(S), Distinct(s), Distinct(t),
           \A x \in ToSet(s), y \in ToSet(t) : x.id # y.id
    PROVE  Distinct(s \o t)
<1> DEFINE all == s \o t
<1>1. /\ Len(s) \in Nat /\ Len(t) \in Nat /\ DOMAIN s = 1 .. Len(s) /\ DOMAIN t = 1 .. Len(t)
      /\ DOMAIN all = 1 .. Len(s) + Len(t)
      /\ \A i \in 1 .. Len(s) + Len(t) : all[i] = IF i <= Len(s) THEN s[i] ELSE t[i - Len(s)]
  OBVIOUS
<1>2. \A i \in 1 .. Len(s), j \in 1 .. Len(t) : s[i].id # t[j].id
  BY <1>1 DEF ToSet
<1> HIDE DEF all
<1>3. ASSUME NEW i \in DOMAIN all, NEW j \in DOMAIN all, all[i].id = all[j].id
      PROVE  i = j
  <2>1. CASE i <= Len(s) /\ j <= Len(s)
    <3>1. i \in DOMAIN s /\ j \in DOMAIN s /\ s[i].id = s[j].id
      BY <1>1, <1>3, <2>1
    <3> QED  BY <3>1 DEF Distinct
  <2>2. CASE ~(i <= Len(s)) /\ ~(j <= Len(s))
    <3>1. /\ i - Len(s) \in DOMAIN t /\ j - Len(s) \in DOMAIN t
          /\ t[i - Len(s)].id = t[j - Len(s)].id
      BY <1>1, <1>3, <2>2
    <3>2. i - Len(s) = j - Len(s)
      BY <3>1 DEF Distinct
    <3> QED  BY <1>1, <3>2
  <2>3. CASE i <= Len(s) /\ ~(j <= Len(s))
    <3>1. i \in 1 .. Len(s) /\ j - Len(s) \in 1 .. Len(t) /\ s[i].id = t[j - Len(s)].id
      BY <1>1, <1>3, <2>3
    <3> QED  BY <1>2, <3>1
  <2>4. CASE ~(i <= Len(s)) /\ j <= Len(s)
    <3>1. j \in 1 .. Len(s) /\ i - Len(s) \in 1 .. Len(t) /\ s[j].id = t[i - Len(s)].id
      BY <1>1, <1>3, <2>4
    <3> QED  BY <1>2, <3>1
  <2> QED  BY <2>1, <2>2, <2>3, <2>4
<1> QED  BY <1>3 DEF Distinct, all

LEMMA DistinctFlat ==
    ASSUME NEW S, NEW ss \in Seq(Seq(S)), \A n \in DOMAIN ss : Distinct(ss[n]),
           \A m, n \in DOMAIN ss : m # n => \A x \in ToSet(ss[m]), y \in ToSet(ss[n]) : x.id # y.id
    PROVE  Distinct(FlattenSeq(ss))
<1> DEFINE N == Len(ss)
<1>1. N \in Nat /\ DOMAIN ss = 1 .. N /\ \A n \in 1 .. N : ss[n] \in Seq(S)
  OBVIOUS
<1>2. CASE N = 0
  <2>1. ss = <<>> /\ FlattenSeq(ss) = ss
    BY <1>2 DEF FlattenSeq
  <2> QED  BY <2>1 DEF Distinct
<1>3. CASE N # 0
  <2>1. PICK flat : Flattens(S, ss, N, flat)
    <3>1. N \in Nat \ {0} /\ Len(ss) = N
      BY <1>1, <1>3
    <3> HIDE DEF N
    <3> QED  BY <1>1, <3>1, FlattenSteps
  <2> HIDE DEF N
  <2>2. /\ flat \in [0 .. N -> Seq(S)] /\ flat[0] = <<>>
        /\ \A n \in 1 .. N : flat[n] = flat[n - 1] \o ss[n]
        /\ FlattenSeq(ss) = flat[N]
    BY <2>1 DEF Flattens
  <2> DEFINE From1(n) == \A x \in ToSet(flat[n]) : \E m \in 1 .. n : x \in ToSet(ss[m])
             Good == {n \in 0 .. N : Distinct(flat[n]) /\ From1(n)}
  <2>3. 0 \in Good
    BY <1>1, <2>2 DEF Distinct, ToSet
  <2>4. ASSUME NEW n \in 0 .. N - 1, n \in Good
        PROVE  n + 1 \in Good
    <3>1. n + 1 \in 1 .. N /\ (n + 1) - 1 = n /\ n \in 0 .. N /\ n + 1 \in 0 .. N
      BY <1>1
    <3> DEFINE s == flat[n]
               t == ss[n + 1]
    <3>2. s \in Seq(S) /\ t \in Seq(S) /\ flat[n + 1] = s \o t
      BY <1>1, <2>2, <3>1
    <3>3. \A x \in ToSet(s) : \E m \in 1 .. n : x \in ToSet(ss[m])
      BY <2>4
    <3>4. \A x \in ToSet(s), y \in ToSet(t) : x.id # y.id
      <4>1. \A m \in 1 .. n : m \in DOMAIN ss /\ n + 1 \in DOMAIN ss /\ m # n + 1
        BY <1>1, <3>1
      <4> QED  BY <3>3, <4>1
    <3>5. Distinct(s) /\ Distinct(t)
      BY <1>1, <2>4, <3>1
    <3> HIDE DEF s, t
    <3>6. Distinct(s \o t)
      BY <3>2, <3>4, <3>5, DistinctJoined
    <3>7. \A x \in ToSet(s \o t) : x \in ToSet(s) \/ x \in ToSet(t)
      BY <3>2, ConcatHolds
    <3>8. \A m \in 1 .. n : m \in 1 .. n + 1
      BY <3>1
    <3>9. n + 1 \in 1 .. n + 1
      BY <3>1
    <3>10. From1(n + 1)
      BY <3>2, <3>3, <3>7, <3>8, <3>9 DEF t
    <3> QED  BY <3>1, <3>2, <3>6, <3>10
  <2>5. N \in Good
    <3> HIDE DEF Good
    <3>1. Passes(N, Good)
      BY <1>1, <2>3, <2>4 DEF Passes
    <3> QED  BY <1>1, <3>1, UpTo
  <2> QED  BY <2>2, <2>5
<1> QED  BY <1>2, <1>3

\* What becomes of a block has its id, and it is no change exactly when the
\* block is there with the same fingerprint.
LEMMA FateOf ==
    ASSUME NEW B, NEW b \in B, NEW after \in Seq(B), Distinct(after)
    PROVE  /\ Distinct(Fate(b, after)) /\ \A c \in ToSet(Fate(b, after)) : c.id = b.id
           /\ (\E c : c \in ToSet(Fate(b, after)))
                <=> ~\E a \in ToSet(after) : a.id = b.id /\ SameFingerprint(b, a)
<1> DEFINE i == PlaceOf(after, b.id)
           a == after[i]
           gone == Change("removed", b, b.lines, <<>>)
           new == Change("changed", a, b.lines, a.lines)
<1>1. ASSUME NEW c
      PROVE  ToSet(<<c>>) = {c} /\ Distinct(<<c>>)
  BY DEF ToSet, Distinct
<1>2. ToSet(<<>>) = {} /\ Distinct(<<>>)
  BY DEF ToSet, Distinct
<1>3. CASE i = 0
  <2>1. Fate(b, after) = <<gone>>
    BY <1>3 DEF Fate, HasBlock
  <2>2. gone.id = b.id
    BY DEF Change
  <2>3. \A x \in ToSet(after) : x.id # b.id
    BY <1>3, PlaceIsFirst DEF ToSet
  <2> HIDE DEF gone
  <2> QED  BY <1>1, <2>1, <2>2, <2>3
<1>4. CASE i # 0
  <2>1. i \in DOMAIN after /\ a.id = b.id
    BY <1>4, PlaceIsFirst
  <2>2. a \in ToSet(after)
    BY <2>1 DEF ToSet
  <2>3. Fate(b, after) = IF SameFingerprint(b, a) THEN <<>> ELSE <<new>>
    BY <1>4 DEF Fate, HasBlock, BlockWith, Changed
  <2>4. new.id = b.id
    BY <2>1 DEF Change
  <2>5. \A x \in ToSet(after) : x.id = b.id => x = a
    BY <2>1 DEF Distinct, ToSet
  <2> HIDE DEF a, new
  <2>6. CASE SameFingerprint(b, a)
    <3>1. Fate(b, after) = <<>>
      BY <2>3, <2>6
    <3>2. \A c : c \notin ToSet(Fate(b, after))
      BY <1>2, <3>1
    <3> QED  BY <1>2, <2>1, <2>2, <2>6, <3>1, <3>2 DEF a
  <2>7. CASE ~SameFingerprint(b, a)
    <3>1. Fate(b, after) = <<new>>
      BY <2>3, <2>7
    <3>2. ToSet(Fate(b, after)) = {new} /\ Distinct(Fate(b, after))
      BY <1>1, <3>1
    <3> QED  BY <2>4, <2>5, <2>7, <3>2
  <2> QED  BY <2>6, <2>7
<1> QED  BY <1>3, <1>4

LEMMA ArrivalOf ==
    ASSUME NEW B, NEW a \in B, NEW earlier \in Seq(B)
    PROVE  /\ Distinct(Arrival(a, earlier)) /\ \A c \in ToSet(Arrival(a, earlier)) : c.id = a.id
           /\ (\E c : c \in ToSet(Arrival(a, earlier))) <=> ~\E b \in ToSet(earlier) : b.id = a.id
<1> DEFINE i == PlaceOf(earlier, a.id)
           new == Change("added", a, <<>>, a.lines)
<1>1. ASSUME NEW c
      PROVE  ToSet(<<c>>) = {c} /\ Distinct(<<c>>)
  BY DEF ToSet, Distinct
<1>2. ToSet(<<>>) = {} /\ Distinct(<<>>)
  BY DEF ToSet, Distinct
<1>3. CASE i = 0
  <2>1. Arrival(a, earlier) = <<new>>
    BY <1>3 DEF Arrival, HasBlock
  <2>2. new.id = a.id
    BY DEF Change
  <2>3. \A x \in ToSet(earlier) : x.id # a.id
    BY <1>3, PlaceIsFirst DEF ToSet
  <2> HIDE DEF new
  <2> QED  BY <1>1, <2>1, <2>2, <2>3
<1>4. CASE i # 0
  <2>1. Arrival(a, earlier) = <<>>
    BY <1>4 DEF Arrival, HasBlock
  <2>2. i \in DOMAIN earlier /\ earlier[i].id = a.id
    BY <1>4, PlaceIsFirst
  <2>3. earlier[i] \in ToSet(earlier)
    BY <2>2 DEF ToSet
  <2>4. \A c : c \notin ToSet(Arrival(a, earlier))
    BY <1>2, <2>1
  <2> HIDE DEF i
  <2> QED  BY <1>2, <2>1, <2>2, <2>3, <2>4
<1> QED  BY <1>3, <1>4

\* No block has the id, or one on each side with the same fingerprint.
Unmoved(old, new, id) ==
    \/ \A x \in ToSet(old) \cup ToSet(new) : x.id # id
    \/ \E b \in ToSet(old), a \in ToSet(new) : b.id = id /\ a.id = id /\ SameFingerprint(b, a)

LEMMA DiffIsExact ==
    ASSUME NEW B, NEW earlier \in Seq(B), NEW later \in Seq(B), Distinct(earlier), Distinct(later)
    PROVE  /\ Distinct(DiffBlocks(earlier, later))
           /\ \A id : (\E c \in ToSet(DiffBlocks(earlier, later)) : c.id = id) <=> ~Unmoved(earlier, later, id)
<1> DEFINE S == ChangesOver(B)
           fates == Fates(earlier, later)
           arrivals == Arrivals(earlier, later)
<1>1. /\ DOMAIN earlier = 1 .. Len(earlier) /\ DOMAIN later = 1 .. Len(later)
      /\ Len(earlier) \in Nat /\ Len(later) \in Nat
      /\ \A i \in DOMAIN earlier : earlier[i] \in B
      /\ \A i \in DOMAIN later : later[i] \in B
  OBVIOUS
<1>2. /\ \A x \in ToSet(earlier) : x \in B
      /\ \A x \in ToSet(later) : x \in B
  BY DEF ToSet
<1>3. /\ fates \in Seq(Seq(S)) /\ arrivals \in Seq(Seq(S))
      /\ DOMAIN fates = DOMAIN earlier /\ DOMAIN arrivals = DOMAIN later
      /\ \A i \in DOMAIN earlier : fates[i] = Fate(earlier[i], later)
      /\ \A i \in DOMAIN later : arrivals[i] = Arrival(later[i], earlier)
      /\ DiffBlocks(earlier, later) = FlattenSeq(fates) \o FlattenSeq(arrivals)
  BY DiffParts
<1> HIDE DEF fates, arrivals, S
<1>4. /\ \A i \in DOMAIN fates : Distinct(fates[i]) /\ \A c \in ToSet(fates[i]) : c.id = earlier[i].id
      /\ \A i \in DOMAIN arrivals : Distinct(arrivals[i]) /\ \A c \in ToSet(arrivals[i]) : c.id = later[i].id
  BY <1>1, <1>3, FateOf, ArrivalOf
<1>5. Distinct(FlattenSeq(fates)) /\ Distinct(FlattenSeq(arrivals))
  <2>1. \A m, n \in DOMAIN fates : m # n => \A x \in ToSet(fates[m]), y \in ToSet(fates[n]) : x.id # y.id
    BY <1>3, <1>4 DEF Distinct
  <2>2. \A m, n \in DOMAIN arrivals : m # n => \A x \in ToSet(arrivals[m]), y \in ToSet(arrivals[n]) : x.id # y.id
    BY <1>3, <1>4 DEF Distinct
  <2> QED  BY <1>3, <1>4, <2>1, <2>2, DistinctFlat
<1>6. /\ FlattenSeq(fates) \in Seq(S) /\ FlattenSeq(arrivals) \in Seq(S)
      /\ \A x : x \in ToSet(FlattenSeq(fates)) <=> \E i \in DOMAIN fates : x \in ToSet(fates[i])
      /\ \A x : x \in ToSet(FlattenSeq(arrivals)) <=> \E i \in DOMAIN arrivals : x \in ToSet(arrivals[i])
  BY <1>3, FlattenHolds
<1>7. \A x \in ToSet(FlattenSeq(fates)), y \in ToSet(FlattenSeq(arrivals)) : x.id # y.id
  <2> SUFFICES ASSUME NEW i \in DOMAIN fates, NEW j \in DOMAIN arrivals,
                      NEW x \in ToSet(fates[i]), NEW y \in ToSet(arrivals[j])
               PROVE  x.id # y.id
    BY <1>6
  <2>1. x.id = earlier[i].id /\ y.id = later[j].id
    BY <1>4
  <2>2. ~\E b \in ToSet(earlier) : b.id = later[j].id
    BY <1>1, <1>3, ArrivalOf
  <2>3. earlier[i] \in ToSet(earlier)
    BY <1>3 DEF ToSet
  <2> QED  BY <2>1, <2>2, <2>3
<1>8. Distinct(DiffBlocks(earlier, later))
  BY <1>3, <1>5, <1>6, <1>7, DistinctJoined
<1> DEFINE diff == DiffBlocks(earlier, later)
<1>9. \A c : c \in ToSet(diff) <=> \/ \E b \in ToSet(earlier) : c \in ToSet(Fate(b, later))
                                   \/ \E a \in ToSet(later) : c \in ToSet(Arrival(a, earlier))
  BY DiffHolds
<1> HIDE DEF diff
<1>10. \A x, y \in ToSet(earlier) : x.id = y.id => x = y
  BY DEF Distinct, ToSet
<1>11. ASSUME NEW c \in ToSet(diff)
       PROVE  ~Unmoved(earlier, later, c.id)
  <2>1. CASE \E b \in ToSet(earlier) : c \in ToSet(Fate(b, later))
    <3>1. PICK b \in ToSet(earlier) : c \in ToSet(Fate(b, later))
      BY <2>1
    <3>2. c.id = b.id /\ ~\E a \in ToSet(later) : a.id = b.id /\ SameFingerprint(b, a)
      BY <1>2, <3>1, FateOf
    <3> QED  BY <1>10, <3>2 DEF Unmoved
  <2>2. CASE \E a \in ToSet(later) : c \in ToSet(Arrival(a, earlier))
    <3>1. PICK a \in ToSet(later) : c \in ToSet(Arrival(a, earlier))
      BY <2>2
    <3>2. c.id = a.id /\ ~\E b \in ToSet(earlier) : b.id = a.id
      BY <1>2, <3>1, ArrivalOf
    <3> QED  BY <3>2 DEF Unmoved
  <2> QED  BY <1>9, <2>1, <2>2
<1>12. ASSUME NEW id, ~Unmoved(earlier, later, id)
       PROVE  \E c \in ToSet(diff) : c.id = id
  <2>1. CASE \E b \in ToSet(earlier) : b.id = id
    <3>1. PICK b \in ToSet(earlier) : b.id = id
      BY <2>1
    <3>2. ~\E a \in ToSet(later) : a.id = b.id /\ SameFingerprint(b, a)
      BY <1>12, <3>1 DEF Unmoved
    <3>3. \E c : c \in ToSet(Fate(b, later)) /\ c.id = b.id
      BY <1>2, <3>2, FateOf
    <3> QED  BY <1>9, <3>1, <3>3
  <2>2. CASE ~\E b \in ToSet(earlier) : b.id = id
    <3>1. PICK a \in ToSet(later) : a.id = id
      BY <1>12, <2>2 DEF Unmoved
    <3>2. \E c : c \in ToSet(Arrival(a, earlier)) /\ c.id = a.id
      BY <1>2, <2>2, <3>1, ArrivalOf
    <3> QED  BY <1>9, <3>1, <3>2
  <2> QED  BY <2>1, <2>2
<1> QED  BY <1>8, <1>11, <1>12 DEF diff

\* A report has one change for each block that is not the same on both sides,
\* and none for any other; so has its rollback one snippet.
IsExact(r, old, new) ==
    /\ Distinct(r.changes) /\ Distinct(r.rollback.snippets)
    /\ \A id : (\E c \in ToSet(r.changes) : c.id = id) <=> ~Unmoved(Parse(r.parser, old), Parse(r.parser, new), id)
ChangesAreExact == Reviewed => IsExact(report, Text(before), Text(seen))

LEMMA AnalysisIsExact ==
    ASSUME NEW R, NEW old \in Seq(R), NEW new \in Seq(R), NEW vendor, NEW a, a = AnalyzeContent(old, new, vendor)
    PROVE  IsExact(a, old, new)
<1> DEFINE parser == SelectParser(vendor, old \o new)
           b == Parse(parser, old)
           n == Parse(parser, new)
           B1 == BlocksIn(parser, Normal(old))
           B2 == BlocksIn(parser, Normal(new))
           B == B1 \cup B2
           diff == DiffBlocks(b, n)
<1>1. a.parser = parser /\ a.changes = diff
  BY DEF AnalyzeContent, Analyze, AnalyzeBlocks, AnalyzeChanges, AnalyzeFindings, Analysis
<1>2. PICK high : a.rollback = Rollback(diff, high, parser)
  BY DEF AnalyzeContent, Analyze, AnalyzeBlocks, AnalyzeChanges, AnalyzeFindings, Analysis
<1> HIDE DEF parser
<1>3. b \in Seq(B1) /\ n \in Seq(B2) /\ Distinct(b) /\ Distinct(n)
  BY ParseQuotes
<1> HIDE DEF b, n, B1, B2
<1>4. b \in Seq(B) /\ n \in Seq(B)
  BY <1>3
<1> HIDE DEF B
<1>5. /\ Distinct(diff)
      /\ \A id : (\E c \in ToSet(diff) : c.id = id) <=> ~Unmoved(b, n, id)
  BY <1>3, <1>4, DiffIsExact
<1> HIDE DEF diff
<1>6. /\ DOMAIN a.rollback.snippets = DOMAIN diff
      /\ \A i \in DOMAIN diff : a.rollback.snippets[i].id = diff[i].id
  BY <1>2 DEF Rollback
<1>7. Distinct(a.rollback.snippets)
  BY <1>5, <1>6 DEF Distinct
<1> QED  BY <1>1, <1>5, <1>7 DEF IsExact, b, n

LEMMA ReportIsExact == ConfigInv => ChangesAreExact
<1> SUFFICES ASSUME ConfigInv, Reviewed PROVE IsExact(report, Text(before), Text(seen))
  BY DEF ChangesAreExact
<1> DEFINE old == Text(before)
           new == Text(seen)
           R == RawLine
           r == report
           v == family.vendor
<1>1. old \in Seq(R) /\ new \in Seq(R)
  BY TextIs DEF ConfigInv
<1>2. r = AnalyzeContent(old, new, v)
  BY DEF ConfigInv, Reviewed
<1> HIDE DEF old, new, R, r, v
<1>3. IsExact(r, old, new)
  BY <1>1, <1>2, AnalysisIsExact
<1> QED  BY <1>3 DEF r, old, new

\* The changes of a report are exact, whatever the device, its texts and edits.
THEOREM ReportsAreExact == Spec => []ChangesAreExact
BY ConfigInvariant, ReportIsExact, PTL

----------------------------------------------------------------------------
\* No risk is lost, and none is made up

SameRisk(f, g) == f.severity = g.severity /\ f.category = g.category /\ f.title = g.title

\* Merging keeps what was raised, with its evidence, and adds nothing.
LEMMA MergeHolds ==
    ASSUME NEW raised
    PROVE  /\ \A f \in raised : \E g \in MergeFindings(raised) : SameRisk(f, g) /\ f.evidence \subseteq g.evidence
           /\ \A g \in MergeFindings(raised) :
                 /\ \E f \in raised : SameRisk(f, g)
                 /\ \A x \in g.evidence : \E f \in raised : SameRisk(f, g) /\ x \in f.evidence
<1> DEFINE key(f) == <<f.severity, f.category, f.title>>
           all(k) == UNION {f.evidence : f \in {g \in raised : key(g) = k}}
           one(k) == Finding(k, all(k))
<1>1. MergeFindings(raised) = {one(k) : k \in {key(f) : f \in raised}}
  BY DEF MergeFindings
<1>2. \A f : LET g == one(key(f))
             IN  SameRisk(f, g) /\ g.evidence = all(key(f))
  BY DEF Finding, SameRisk
<1>3. \A f, g : key(f) = key(g) <=> SameRisk(f, g)
  BY DEF SameRisk
<1>4. ASSUME NEW f \in raised
      PROVE  \E g \in MergeFindings(raised) : SameRisk(f, g) /\ f.evidence \subseteq g.evidence
  <2>1. f.evidence \subseteq all(key(f))
    OBVIOUS
  <2>2. SameRisk(f, one(key(f))) /\ f.evidence \subseteq one(key(f)).evidence
    BY <1>2, <2>1
  <2> HIDE DEF one
  <2>3. one(key(f)) \in MergeFindings(raised)
    BY <1>1
  <2> QED  BY <2>2, <2>3
<1>5. ASSUME NEW g \in MergeFindings(raised)
      PROVE  /\ \E f \in raised : SameRisk(f, g)
             /\ \A x \in g.evidence : \E f \in raised : SameRisk(f, g) /\ x \in f.evidence
  <2>1. PICK h \in raised : g = one(key(h))
    BY <1>1
  <2>2. SameRisk(h, g) /\ g.evidence = all(key(h))
    BY <1>2, <2>1
  <2>3. ASSUME NEW x \in all(key(h))
        PROVE  \E f \in raised : SameRisk(f, g) /\ x \in f.evidence
    <3>1. PICK f \in raised : key(f) = key(h) /\ x \in f.evidence
      OBVIOUS
    <3>2. SameRisk(f, h)
      BY <1>3, <3>1
    <3> QED  BY <2>2, <3>1, <3>2 DEF SameRisk
  <2> QED  BY <2>2, <2>3
<1> QED  BY <1>4, <1>5

\* The severities a finding may have, and the highest of some.
Grades == {"none", "info", "low", "medium", "high"}

LEMMA RankIs ==
    /\ \A s \in Grades : SeverityRank(s) \in 1 .. 5 /\ Severities[SeverityRank(s)] = s
    /\ \A s \in Grades : s # "high" => SeverityRank(s) # 5
    /\ SeverityRank("high") = 5 /\ Severities[5] = "high"
    /\ \A r \in 1 .. 4 : Severities[r] # "high"
<1>1. /\ DOMAIN Severities = 1 .. 5 /\ Severities[1] = "none" /\ Severities[2] = "info"
      /\ Severities[3] = "low" /\ Severities[4] = "medium" /\ Severities[5] = "high"
  BY DEF Severities
<1>2. ASSUME NEW s \in Grades
      PROVE  SeverityRank(s) \in 1 .. 5 /\ Severities[SeverityRank(s)] = s
  <2>1. \E i \in 1 .. 5 : Severities[i] = s
    BY <1>1 DEF Grades
  <2> QED  BY <1>1, <2>1 DEF SeverityRank
<1>3. "high" \in Grades
  BY DEF Grades
<1>4. \A r \in 1 .. 4 : Severities[r] # "high"
  BY <1>1
<1>5. SeverityRank("high") = 5
  <2>1. SeverityRank("high") \in 1 .. 5 /\ Severities[SeverityRank("high")] = "high"
    BY <1>2, <1>3
  <2> QED  BY <1>4, <2>1
<1> QED  BY <1>1, <1>2, <1>4, <1>5

LEMMA HighestIs ==
    ASSUME NEW findings, \A f \in findings : f.severity \in Grades
    PROVE  HighestSeverity(findings) = "high" <=> HasHigh(findings)
<1> DEFINE ranks == {SeverityRank(f.severity) : f \in findings}
           top == CHOOSE r \in ranks : \A q \in ranks : q <= r
<1>1. ranks \subseteq 1 .. 5
  BY RankIs
<1>2. HighestSeverity(findings) = IF ranks = {} THEN "none" ELSE Severities[top]
  BY DEF HighestSeverity
<1>3. 5 \in ranks <=> HasHigh(findings)
  BY RankIs DEF HasHigh
<1> HIDE DEF ranks
<1>4. CASE ranks = {}
  BY <1>2, <1>3, <1>4
<1>5. CASE ranks # {}
  <2> DEFINE below == {5 - r : r \in ranks}
  <2>1. \E r \in ranks : \A q \in ranks : q <= r
    <3>1. below \in SUBSET Nat /\ below # {}
      <4>1. \A r \in ranks : 5 - r \in Nat
        <5>1. \A r \in 1 .. 5 : 5 - r \in Nat
          OBVIOUS
        <5> QED  BY <1>1, <5>1
      <4> QED  BY <1>5, <4>1
    <3>2. \A q \in ranks : 5 - q \in below
      OBVIOUS
    <3>3. \A n \in below : \E r \in ranks : n = 5 - r
      OBVIOUS
    <3> HIDE DEF below
    <3>4. PICK n \in below : \A m \in below : n <= m
      BY <3>1, LeastElement
    <3>5. PICK r \in ranks : n = 5 - r
      BY <3>3
    <3>6. \A q \in ranks : q <= r
      <4> SUFFICES ASSUME NEW q \in ranks PROVE q <= r
        OBVIOUS
      <4>1. 5 - r <= 5 - q /\ r \in 1 .. 5 /\ q \in 1 .. 5
        BY <1>1, <3>2, <3>4, <3>5
      <4> QED  BY <4>1
    <3> QED  BY <3>6
  <2>2. top \in ranks /\ \A q \in ranks : q <= top
    BY <2>1
  <2> HIDE DEF top
  <2>3. 5 \in ranks <=> top = 5
    BY <1>1, <2>2
  <2>4. Severities[top] = "high" <=> top = 5
    BY <1>1, <2>2, RankIs
  <2> QED  BY <1>2, <1>3, <1>5, <2>3, <2>4
<1> QED  BY <1>4, <1>5

\* What the changes of two texts, their peers and references raise.
PeerNote(p) == Finding(PeerFinding(p), {<<"neighbor", p.peer>>})
RefNote(r) == Finding(RefFinding(r.kind), {<<r.kind, r.name>> \o r.iface})
Raises(changes, peers, dangling, f) ==
    \/ \E c \in ToSet(changes) : f \in BlockFindings(c)
    \/ \E p \in peers : f = PeerNote(p)
    \/ \E r \in dangling : f = RefNote(r)

LEMMA RiskFindingsHold ==
    ASSUME NEW changes, NEW peers, NEW dangling, NEW found, found = RiskFindings(changes, peers, dangling)
    PROVE  /\ \A f : Raises(changes, peers, dangling, f) =>
                 \E g \in found : SameRisk(f, g) /\ f.evidence \subseteq g.evidence
           /\ \A g \in found :
                 /\ \E f : Raises(changes, peers, dangling, f) /\ SameRisk(f, g)
                 /\ \A x \in g.evidence :
                       \E f : Raises(changes, peers, dangling, f) /\ SameRisk(f, g) /\ x \in f.evidence
<1> DEFINE ofBlocks == UNION {BlockFindings(changes[i]) : i \in DOMAIN changes}
           ofPeers == {Finding(PeerFinding(p), {<<"neighbor", p.peer>>}) : p \in peers}
           ofRefs == {Finding(RefFinding(r.kind), {<<r.kind, r.name>> \o r.iface}) : r \in dangling}
           raised == ofBlocks \cup ofPeers \cup ofRefs
<1>1. found = MergeFindings(raised)
  BY DEF RiskFindings
<1>2. \A f : f \in raised <=> Raises(changes, peers, dangling, f)
  <2>1. \A f : f \in ofBlocks <=> \E c \in ToSet(changes) : f \in BlockFindings(c)
    <3>1. \A f : f \in ofBlocks <=> \E i \in DOMAIN changes : f \in BlockFindings(changes[i])
      OBVIOUS
    <3> HIDE DEF ofBlocks
    <3> QED  BY <3>1 DEF ToSet
  <2>2. \A f : f \in ofPeers <=> \E p \in peers : f = PeerNote(p)
    BY DEF PeerNote
  <2>3. \A f : f \in ofRefs <=> \E r \in dangling : f = RefNote(r)
    BY DEF RefNote
  <2>4. \A f : f \in raised <=> f \in ofBlocks \/ f \in ofPeers \/ f \in ofRefs
    OBVIOUS
  <2> HIDE DEF ofBlocks, ofPeers, ofRefs, raised
  <2> QED  BY <2>1, <2>2, <2>3, <2>4 DEF Raises
<1> HIDE DEF raised
<1> QED  BY <1>1, <1>2, MergeHolds


\* What an analysis holds besides its changes is worked out of them.
LEMMA AnalysisHolds ==
    ASSUME NEW old, NEW new, NEW vendor, NEW a, a = AnalyzeContent(old, new, vendor)
    PROVE  /\ a.changes = DiffBlocks(Parse(a.parser, old), Parse(a.parser, new))
           /\ a.findings = RiskFindings(a.changes, a.peers, a.dangling)
           /\ a.rollback = Rollback(a.changes, HasHigh(a.findings), a.parser)
           /\ a.dangling = NewlyDangling(Parse(a.parser, old), Parse(a.parser, new))
           /\ a.peers = RoutingPeerChanges(a.changes)
<1> DEFINE parser == SelectParser(vendor, old \o new)
           b == Parse(parser, old)
           n == Parse(parser, new)
           changes == DiffBlocks(b, n)
           dangling == NewlyDangling(b, n)
           peers == RoutingPeerChanges(changes)
<1>1. a = Analysis(parser, changes, peers, dangling, RiskFindings(changes, peers, dangling))
  BY DEF AnalyzeContent, Analyze, AnalyzeBlocks, AnalyzeChanges, AnalyzeFindings
<1> HIDE DEF parser, changes, peers, dangling
<1>2. a.parser = parser /\ a.changes = changes /\ a.peers = peers /\ a.dangling = dangling
  BY <1>1 DEF Analysis
<1>3. a.findings = RiskFindings(changes, peers, dangling)
  BY <1>1 DEF Analysis
<1>4. a.rollback = Rollback(changes, HasHigh(a.findings), parser)
  BY <1>1 DEF Analysis
<1> QED  BY <1>2, <1>3, <1>4 DEF changes, dangling, peers, b, n

\* A finding about a block quotes lines of the change.
LEMMA SwitchingGrades ==
    ASSUME NEW c, NEW t \in SwitchingFindings(c)
    PROVE  t[1] \in Grades
<1>1. \E severity \in Grades : \E category, title : t = <<severity, category, title>>
  BY DEF SwitchingFindings, Grades
<1> QED  BY <1>1

LEMMA BlockFindingIs ==
    ASSUME NEW L, NEW c, c.before \in Seq(L), c.after \in Seq(L), NEW f \in BlockFindings(c)
    PROVE  /\ f.severity \in Grades
           /\ \A x \in f.evidence : x \in ToSet(c.before) \/ x \in ToSet(c.after)
<1> DEFINE old == ToSet(c.before)
           new == ToSet(c.after)
           whole == CombinedEvidence(c)
<1>1. \A x : x \in whole <=> x \in old \/ x \in new
  BY ConcatHolds DEF CombinedEvidence, AllLines
<1>2. \E t, e : f = Finding(t, e) /\ t[1] \in Grades /\ e \in {old, new, whole}
  <2>1. CASE f \in {Finding(t, whole) : t \in SwitchingFindings(c)}
    BY <2>1, SwitchingGrades
  <2>2. CASE f \notin {Finding(t, whole) : t \in SwitchingFindings(c)}
    BY <2>2 DEF BlockFindings, Grades
  <2> QED  BY <2>1, <2>2
<1> HIDE DEF old, new, whole
<1>3. f.severity \in Grades /\ f.evidence \in {old, new, whole}
  BY <1>2 DEF Finding
<1> QED  BY <1>1, <1>3 DEF old, new


\* The blocks of two texts and the changes between them, with their types.
LEMMA AnalysisTypes ==
    ASSUME NEW R, NEW old \in Seq(R), NEW new \in Seq(R), NEW vendor, NEW a, a = AnalyzeContent(old, new, vendor)
    PROVE  \E B : /\ Parse(a.parser, old) \in Seq(B) /\ Distinct(Parse(a.parser, old))
                  /\ Parse(a.parser, new) \in Seq(B) /\ Distinct(Parse(a.parser, new))
                  /\ \A b \in B : b.lines \in Seq(Normal(old) \cup Normal(new))
<1> DEFINE p == a.parser
           B1 == BlocksIn(p, Normal(old))
           B2 == BlocksIn(p, Normal(new))
           L == Normal(old) \cup Normal(new)
<1>1. /\ Parse(p, old) \in Seq(B1) /\ Distinct(Parse(p, old))
      /\ Parse(p, new) \in Seq(B2) /\ Distinct(Parse(p, new))
  BY ParseQuotes
<1>2. \A b \in B1 \cup B2 : b.lines \in Seq(L)
  <2>1. \A M : \A b \in BlocksIn(p, M) : b.lines \in Seq(M)
    BY BlockHasLines DEF BlocksIn
  <2>2. \A b \in B1 : b.lines \in Seq(Normal(old))
    BY <2>1
  <2>3. \A b \in B2 : b.lines \in Seq(Normal(new))
    BY <2>1
  <2> HIDE DEF B1, B2
  <2> QED  BY <2>2, <2>3
<1> HIDE DEF B1, B2
<1>3. Parse(p, old) \in Seq(B1 \cup B2) /\ Parse(p, new) \in Seq(B1 \cup B2)
  BY <1>1
<1> QED  BY <1>1, <1>2, <1>3

LEMMA ChangesAreTyped ==
    ASSUME NEW R, NEW old \in Seq(R), NEW new \in Seq(R), NEW vendor, NEW a, a = AnalyzeContent(old, new, vendor)
    PROVE  \A c \in ToSet(a.changes) : /\ c.before \in Seq(Normal(old) \cup Normal(new))
                                       /\ c.after \in Seq(Normal(old) \cup Normal(new))
                                       /\ c.type = "added" => c.before = <<>>
<1> DEFINE L == Normal(old) \cup Normal(new)
           earlier == Parse(a.parser, old)
           later == Parse(a.parser, new)
<1>1. PICK B : /\ earlier \in Seq(B) /\ later \in Seq(B)
               /\ \A b \in B : b.lines \in Seq(L)
  BY AnalysisTypes
<1>2. a.changes = DiffBlocks(earlier, later)
  BY AnalysisHolds
<1> HIDE DEF L, earlier, later
<1> DEFINE K == ChangesOver(B)
<1>3. a.changes \in Seq(K)
  BY <1>1, <1>2, DiffHolds
<1>4. \A c \in K : c.before \in Seq(L) /\ c.after \in Seq(L) /\ (c.type = "added" => c.before = <<>>)
  <2> DEFINE M == {b.lines : b \in B} \cup {<<>>}
  <2>1. \A c \in K : c.before \in M /\ c.after \in M /\ (c.type = "added" => c.before = <<>>)
    BY DEF ChangesOver
  <2>2. \A x \in M : x \in Seq(L)
    <3>1. <<>> \in Seq(L)
      OBVIOUS
    <3>2. \A b \in B : b.lines \in Seq(L)
      BY <1>1
    <3> DEFINE Q == Seq(L)
    <3> HIDE DEF Q
    <3>3. <<>> \in Q /\ \A b \in B : b.lines \in Q
      BY <3>1, <3>2 DEF Q
    <3>4. \A x \in M : x \in Q
      BY <3>3
    <3> QED  BY <3>4 DEF Q
  <2> HIDE DEF K, M
  <2> QED  BY <2>1, <2>2
<1> HIDE DEF K
<1>5. \A c \in ToSet(a.changes) : c \in K
  BY <1>3 DEF ToSet
<1> QED  BY <1>4, <1>5 DEF L

\* Every finding of an analysis has a grade and quotes the changes, the peers
\* and the references it is about.
IsEvidence(a, x) ==
    \/ \E c \in ToSet(a.changes) : x \in ToSet(c.before) \/ x \in ToSet(c.after)
    \/ \E p \in a.peers : x = <<"neighbor", p.peer>>
    \/ \E r \in a.dangling : x = <<r.kind, r.name>> \o r.iface

LEMMA RaisedIs ==
    ASSUME NEW R, NEW old \in Seq(R), NEW new \in Seq(R), NEW vendor, NEW a, a = AnalyzeContent(old, new, vendor),
           NEW f, Raises(a.changes, a.peers, a.dangling, f)
    PROVE  f.severity \in Grades /\ \A x \in f.evidence : IsEvidence(a, x)
<1>1. CASE \E c \in ToSet(a.changes) : f \in BlockFindings(c)
  <2> DEFINE L == Normal(old) \cup Normal(new)
  <2>1. PICK c \in ToSet(a.changes) : f \in BlockFindings(c)
    BY <1>1
  <2>2. c.before \in Seq(L) /\ c.after \in Seq(L)
    BY ChangesAreTyped
  <2> HIDE DEF L
  <2>3. f.severity \in Grades /\ \A x \in f.evidence : x \in ToSet(c.before) \/ x \in ToSet(c.after)
    BY <2>1, <2>2, BlockFindingIs
  <2> QED  BY <2>3 DEF IsEvidence
<1>2. CASE \E p \in a.peers : f = PeerNote(p)
  <2>1. PICK p \in a.peers : f = PeerNote(p)
    BY <1>2
  <2>2. \E s \in Grades : \E category, title : PeerFinding(p) = <<s, category, title>>
    BY DEF PeerFinding, Grades
  <2>3. PeerFinding(p)[1] \in Grades
    BY <2>2
  <2>4. f.severity = PeerFinding(p)[1] /\ f.evidence = {<<"neighbor", p.peer>>}
    BY <2>1 DEF PeerNote, Finding
  <2> QED  BY <2>3, <2>4 DEF IsEvidence
<1>3. CASE \E r \in a.dangling : f = RefNote(r)
  <2>1. PICK r \in a.dangling : f = RefNote(r)
    BY <1>3
  <2>2. RefFinding(r.kind)[1] = "high"
    BY DEF RefFinding
  <2>3. f.severity = RefFinding(r.kind)[1] /\ f.evidence = {<<r.kind, r.name>> \o r.iface}
    BY <2>1 DEF RefNote, Finding
  <2> QED  BY <2>2, <2>3 DEF IsEvidence, Grades
<1> QED  BY <1>1, <1>2, <1>3 DEF Raises

\* What an assessment promises: nothing that a change, a peer or a reference
\* raises is lost when findings are merged, nothing else is found, and the one
\* word a notification says is "high" exactly when some finding is.
IsAssessed(a) ==
    /\ \A f : Raises(a.changes, a.peers, a.dangling, f) =>
          \E g \in a.findings : SameRisk(f, g) /\ f.evidence \subseteq g.evidence
    /\ \A g \in a.findings :
          /\ \E f : Raises(a.changes, a.peers, a.dangling, f) /\ SameRisk(f, g)
          /\ \A x \in g.evidence : IsEvidence(a, x)
    /\ HighestSeverity(a.findings) = "high" <=> HasHigh(a.findings)
    /\ a.rollback.confidence = "risky" <=> HasHigh(a.findings) /\ a.changes # <<>>

LEMMA AnalysisIsAssessed ==
    ASSUME NEW R, NEW old \in Seq(R), NEW new \in Seq(R), NEW vendor, NEW a, a = AnalyzeContent(old, new, vendor)
    PROVE  IsAssessed(a)
<1>1. a.findings = RiskFindings(a.changes, a.peers, a.dangling)
  BY AnalysisHolds
<1>2. /\ \A f : Raises(a.changes, a.peers, a.dangling, f) =>
            \E g \in a.findings : SameRisk(f, g) /\ f.evidence \subseteq g.evidence
      /\ \A g \in a.findings :
            /\ \E f : Raises(a.changes, a.peers, a.dangling, f) /\ SameRisk(f, g)
            /\ \A x \in g.evidence :
                  \E f : Raises(a.changes, a.peers, a.dangling, f) /\ SameRisk(f, g) /\ x \in f.evidence
  BY <1>1, RiskFindingsHold
<1>3. \A f : Raises(a.changes, a.peers, a.dangling, f) =>
         f.severity \in Grades /\ \A x \in f.evidence : IsEvidence(a, x)
  BY RaisedIs
<1>4. \A g \in a.findings : g.severity \in Grades /\ \A x \in g.evidence : IsEvidence(a, x)
  BY <1>2, <1>3 DEF SameRisk
<1>5. HighestSeverity(a.findings) = "high" <=> HasHigh(a.findings)
  BY <1>4, HighestIs
<1>6. a.rollback.confidence = "risky" <=> HasHigh(a.findings) /\ a.changes # <<>>
  <2>1. a.rollback = Rollback(a.changes, HasHigh(a.findings), a.parser)
    BY AnalysisHolds
  <2> QED  BY <2>1 DEF Rollback
<1> QED  BY <1>2, <1>4, <1>5, <1>6 DEF IsAssessed


\* Merged findings are the risks of the changes, the severity a notification
\* carries is that of the worst, and a rollback is risky when one is high.
ReportIsAssessed == Reviewed => IsAssessed(report)

LEMMA ReportRisks == ConfigInv => ReportIsAssessed
<1> SUFFICES ASSUME ConfigInv, Reviewed PROVE IsAssessed(report)
  BY DEF ReportIsAssessed
<1> DEFINE old == Text(before)
           new == Text(seen)
           R == RawLine
           r == report
           v == family.vendor
<1>1. old \in Seq(R) /\ new \in Seq(R)
  BY TextIs DEF ConfigInv
<1>2. r = AnalyzeContent(old, new, v)
  BY DEF ConfigInv, Reviewed
<1> HIDE DEF old, new, R, r, v
<1>3. IsAssessed(r)
  BY <1>1, <1>2, AnalysisIsAssessed
<1> QED  BY <1>3 DEF r

\* No risk of a change is lost on the way to the report, and none is made up,
\* whatever the device, its texts and its edits.
THEOREM RisksAreFound == Spec => []ReportIsAssessed
BY ConfigInvariant, ReportRisks, PTL

----------------------------------------------------------------------------
\* A rule that lets everything through is found

\* The block stood in the other text as it is.
Stood(blocks, y) == \E x \in ToSet(blocks) : x.id = y.id /\ x.lines = y.lines

\* A new or changed access list or firewall rule is a change of its kind.
LEMMA RuleIsChange ==
    ASSUME NEW B, NEW earlier \in Seq(B), NEW later \in Seq(B), Distinct(later),
           NEW y \in ToSet(later), Ordered(y), ~Stood(earlier, y)
    PROVE  \E c \in ToSet(DiffBlocks(earlier, later)) : Ordered(c) /\ c.after = y.lines
<1> DEFINE i == PlaceOf(earlier, y.id)
           one(type, x) == Change(type, y, x, y.lines)
<1>1. \A type, x : Ordered(one(type, x)) /\ one(type, x).after = y.lines
  BY DEF Change, Ordered
<1>2. \A x : x \in ToSet(<<x>>)
  BY DEF ToSet
<1>3. CASE i = 0
  <2>1. Arrival(y, earlier) = <<one("added", <<>>)>>
    BY <1>3 DEF Arrival, HasBlock
  <2> HIDE DEF one, i
  <2>2. one("added", <<>>) \in ToSet(DiffBlocks(earlier, later))
    BY <1>2, <2>1, DiffHolds
  <2> QED  BY <1>1, <2>2
<1>4. CASE i # 0
  <2> DEFINE x == earlier[i]
             j == PlaceOf(later, x.id)
  <2>1. x \in ToSet(earlier) /\ x.id = y.id
    BY <1>4, PlaceIsFirst DEF ToSet
  <2> HIDE DEF x
  <2>2. x.lines # y.lines
    BY <2>1 DEF Stood
  <2>3. PICK k \in DOMAIN later : y = later[k]
    BY DEF ToSet
  <2>4. j # 0
    BY <2>1, <2>3, PlaceIsFirst
  <2>5. later[j] = y
    <3>1. j \in DOMAIN later /\ later[j].id = x.id
      BY <2>4, PlaceIsFirst
    <3> QED  BY <2>1, <2>3, <3>1 DEF Distinct
  <2>6. Fate(x, later) = <<one("changed", x.lines)>>
    <3>1. ~SameFingerprint(x, y)
      BY <2>2 DEF SameFingerprint
    <3> QED  BY <2>4, <2>5, <3>1 DEF Fate, HasBlock, BlockWith, Changed
  <2> HIDE DEF one, j
  <2>7. one("changed", x.lines) \in ToSet(DiffBlocks(earlier, later))
    BY <1>2, <2>1, <2>6, DiffHolds
  <2> QED  BY <1>1, <2>7
<1> QED  BY <1>3, <1>4

BroadRisk(lines) ==
    Finding(<<"high", "acl_firewall", "ACL or firewall rule appears broadened">>, ToSet(lines))

LEMMA BroadIsRaised ==
    ASSUME NEW c, Ordered(c), Broadens(c.after)
    PROVE  BroadRisk(c.after) \in BlockFindings(c)
BY DEF BlockFindings, BroadRisk

\* A high finding of the analysis quotes all the lines.
FoundBroad(a, lines) ==
    \E f \in a.findings : f.severity = "high" /\ f.category = "acl_firewall" /\ ToSet(lines) \subseteq f.evidence

LEMMA AnalysisFindsBroad ==
    ASSUME NEW R, NEW old \in Seq(R), NEW new \in Seq(R), NEW vendor, NEW a, a = AnalyzeContent(old, new, vendor),
           NEW y \in ToSet(Parse(a.parser, new)), Ordered(y), Broadens(y.lines), ~Stood(Parse(a.parser, old), y)
    PROVE  FoundBroad(a, y.lines)
<1> DEFINE earlier == Parse(a.parser, old)
           later == Parse(a.parser, new)
<1>1. PICK B : earlier \in Seq(B) /\ later \in Seq(B) /\ Distinct(later)
  BY AnalysisTypes
<1>2. a.changes = DiffBlocks(earlier, later)
  BY AnalysisHolds
<1> HIDE DEF earlier, later
<1>3. PICK c \in ToSet(a.changes) : Ordered(c) /\ c.after = y.lines
  BY <1>1, <1>2, RuleIsChange DEF earlier, later
<1> DEFINE risk == BroadRisk(y.lines)
<1>4. risk \in BlockFindings(c)
  BY <1>3, BroadIsRaised
<1>5. risk.severity = "high" /\ risk.category = "acl_firewall" /\ risk.evidence = ToSet(y.lines)
  BY DEF BroadRisk, Finding
<1> HIDE DEF risk
<1>6. Raises(a.changes, a.peers, a.dangling, risk)
  BY <1>3, <1>4 DEF Raises
<1>7. PICK g \in a.findings : SameRisk(risk, g) /\ risk.evidence \subseteq g.evidence
  BY <1>6, AnalysisIsAssessed DEF IsAssessed
<1> QED  BY <1>5, <1>7 DEF SameRisk, FoundBroad

\* An access list or a firewall rule that lets everything through is a high
\* finding that quotes it whole, unless it stood in the old text word for word.
BroadBlocksAreHigh ==
    Reviewed =>
        \A y \in ToSet(Parse(report.parser, Text(seen))) :
            Ordered(y) /\ Broadens(y.lines) /\ ~Stood(Parse(report.parser, Text(before)), y) =>
                FoundBroad(report, y.lines) /\ HighestSeverity(report.findings) = "high"

LEMMA ReportFindsBroad == ConfigInv => BroadBlocksAreHigh
<1> SUFFICES ASSUME ConfigInv, Reviewed, NEW y \in ToSet(Parse(report.parser, Text(seen))),
                    Ordered(y), Broadens(y.lines), ~Stood(Parse(report.parser, Text(before)), y)
             PROVE  FoundBroad(report, y.lines) /\ HighestSeverity(report.findings) = "high"
  BY DEF BroadBlocksAreHigh
<1> DEFINE old == Text(before)
           new == Text(seen)
           R == RawLine
           r == report
           v == family.vendor
<1>1. old \in Seq(R) /\ new \in Seq(R)
  BY TextIs DEF ConfigInv
<1>2. /\ r = AnalyzeContent(old, new, v)
      /\ y \in ToSet(Parse(r.parser, new)) /\ ~Stood(Parse(r.parser, old), y)
  BY DEF ConfigInv, Reviewed
<1> HIDE DEF old, new, R, r, v
<1>3. FoundBroad(r, y.lines)
  BY <1>1, <1>2, AnalysisFindsBroad
<1>4. HighestSeverity(r.findings) = "high"
  <2>1. HighestSeverity(r.findings) = "high" <=> HasHigh(r.findings)
    BY <1>1, <1>2, AnalysisIsAssessed DEF IsAssessed
  <2> QED  BY <1>3, <2>1 DEF FoundBroad, HasHigh
<1> QED  BY <1>3, <1>4 DEF r

\* No broadened rule goes unmentioned, whatever the device, its texts and its
\* edits.
THEOREM BroadBlocksAreFound == Spec => []BroadBlocksAreHigh
BY ConfigInvariant, ReportFindsBroad, PTL

\* The lines that together let everything through stand in one access list or
\* firewall rule, where they do.
BroadInBlocks ==
    \A lines \in family.broad : lines \subseteq LinesOf(seen) =>
        \E y \in ToSet(Parse(report.parser, Text(seen))) :
            Ordered(y) /\ Broadens(y.lines) /\ lines \subseteq ToSet(y.lines)

LEMMA BroadLines == ConfigInv /\ BroadBlocksAreHigh => (BroadInBlocks => BroadRuleIsHigh)
<1> SUFFICES ASSUME ConfigInv, BroadBlocksAreHigh, BroadInBlocks, Reviewed, NEW lines \in family.broad,
                    lines \subseteq LinesOf(seen), ~(lines \subseteq LinesOf(before))
             PROVE  /\ \E f \in report.findings : f.category = "acl_firewall" /\ lines \subseteq f.evidence
                    /\ HighestSeverity(report.findings) = "high"
  BY DEF BroadRuleIsHigh
<1>1. PICK y \in ToSet(Parse(report.parser, Text(seen))) :
        Ordered(y) /\ Broadens(y.lines) /\ lines \subseteq ToSet(y.lines)
  BY DEF BroadInBlocks
<1>2. PICK l \in lines : l \in LinesOf(seen) \ LinesOf(before)
  OBVIOUS
<1>3. l \notin Normal(Text(before))
  BY <1>2, LinesOfText
<1>4. ~Stood(Parse(report.parser, Text(before)), y)
  <2> DEFINE old == Text(before)
             R == RawLine
             p == report.parser
  <2>1. old \in Seq(R)
    BY TextIs DEF ConfigInv
  <2> HIDE DEF old, R, p
  <2>2. ~Quotes(Parse(p, old), l)
    BY <1>3, <2>1, ParseQuotes DEF old
  <2>3. l \in ToSet(y.lines)
    BY <1>1
  <2>4. ~Stood(Parse(p, old), y)
    BY <2>2, <2>3 DEF Stood, Quotes
  <2> QED  BY <2>4 DEF p, old
<1>5. FoundBroad(report, y.lines) /\ HighestSeverity(report.findings) = "high"
  BY <1>1, <1>4 DEF BroadBlocksAreHigh
<1> QED  BY <1>1, <1>5 DEF FoundBroad

\* Told from the lines of the text instead of its blocks: where the lines of a
\* broad rule meet in one block, they are a high finding that quotes them all.
THEOREM BroadRulesAreHigh == Spec => [](BroadInBlocks => BroadRuleIsHigh)
BY ConfigInvariant, BroadBlocksAreFound, BroadLines, PTL

----------------------------------------------------------------------------
\* What holds of every block

\* Blocks that stay among their like when they are closed and when two of one
\* id are joined.
Stable(C, L, P) ==
    /\ P \subseteq Blocks(C, L)
    /\ \A b \in P : Closed(b) \in P
    /\ \A b, c \in P : b.id = c.id => WithLines(b, b.lines \o c.lines) \in P

LEMMA JoinStays ==
    ASSUME NEW P, \A b, c \in P : b.id = c.id => WithLines(b, b.lines \o c.lines) \in P,
           NEW blocks \in Seq(P), NEW c \in P
    PROVE  Join(blocks, c) \in Seq(P)
<1> DEFINE i == PlaceOf(blocks, c.id)
           both == WithLines(blocks[i], blocks[i].lines \o c.lines)
<1>1. CASE i = 0
  BY <1>1 DEF Join
<1>2. CASE i # 0
  <2>1. i \in DOMAIN blocks /\ blocks[i].id = c.id
    BY <1>2, PlaceIsFirst
  <2>2. both \in P
    BY <2>1
  <2>3. Join(blocks, c) = [blocks EXCEPT ![i] = both]
    BY <1>2 DEF Join
  <2> HIDE DEF both, i
  <2> QED  BY <2>1, <2>2, <2>3
<1> QED  BY <1>1, <1>2

LEMMA MergedStays ==
    ASSUME NEW P, \A b \in P : Closed(b) \in P,
           \A b, c \in P : b.id = c.id => WithLines(b, b.lines \o c.lines) \in P, NEW blocks \in Seq(P)
    PROVE  MergeRelatedBlocks(blocks) \in Seq(P)
<1> DEFINE N == Len(blocks)
           T == Seq(P)
           empty == <<>>
<1>1. N \in Nat /\ N \in 0 .. N /\ \A n \in 1 .. N : blocks[n] \in P
  OBVIOUS
<1>2. empty \in T
  OBVIOUS
<1>3. \A n \in 1 .. N : \A x \in T : Join(x, blocks[n]) \in T
  BY <1>1, JoinStays
<1> HIDE DEF N, T, empty
<1>4. PICK joined : JoinsOn(blocks, N, T, joined)
  BY <1>1, <1>2, <1>3, JoinSteps DEF N, empty
<1> DEFINE all == JoinAll(blocks)
           merged == [i \in DOMAIN all |-> Closed(all[i])]
<1>5. all \in Seq(P)
  BY <1>1, <1>4 DEF JoinsOn, T
<1>6. MergeRelatedBlocks(blocks) = merged
  BY DEF MergeRelatedBlocks
<1> HIDE DEF all
<1>7. DOMAIN all = 1 .. Len(all) /\ Len(all) \in Nat /\ \A i \in DOMAIN all : all[i] \in P
  BY <1>5
<1>8. \A i \in DOMAIN all : merged[i] \in P
  BY <1>7
<1>9. merged = [i \in 1 .. Len(all) |-> merged[i]]
  BY <1>7
<1> HIDE DEF merged
<1> QED  BY <1>6, <1>7, <1>8, <1>9

LEMMA FlushStays ==
    ASSUME NEW P, \A b \in P : Closed(b) \in P, NEW L, NEW st \in Readings(P, L)
    PROVE  Flush(st) \in Readings(P, L)
<1>1. st.done \in Seq(P) /\ st.section \in L /\ (st.open = <<>> \/ \E b \in P : st.open = <<b>>)
  BY DEF Readings
<1>2. CASE st.open = <<>>
  BY <1>2 DEF Flush
<1>3. ASSUME NEW b \in P, st.open = <<b>>
      PROVE  Flush(st) \in Readings(P, L)
  <2> DEFINE c == Closed(b)
  <2>1. Flush(st) = Reading(Append(st.done, c), <<>>, st.section) /\ c \in P
    BY <1>3 DEF Flush
  <2> HIDE DEF c
  <2> QED  BY <1>1, <2>1 DEF Reading, Readings
<1> QED  BY <1>1, <1>2, <1>3

LEMMA AddStays ==
    ASSUME NEW P, NEW L, NEW st \in Readings(P, L), NEW b \in P
    PROVE  AddBlock(st, b) \in Readings(P, L) /\ Open(st, b) \in Readings(P, L)
BY DEF Readings, AddBlock, Open, Reading

\* If each step of a reading leaves such blocks, the text has no other.
LEMMA ParseStays ==
    ASSUME NEW parser, NEW R, NEW text \in Seq(R), NEW P,
           Stable(Classes(parser, Normal(text)), Normal(text), P),
           \A n \in DOMAIN text : \A x \in Readings(P, Normal(text)) :
              ParseStep(parser, x, text[n]) \in Readings(P, Normal(text))
    PROVE  Parse(parser, text) \in Seq(P)
<1> DEFINE L == Normal(text)
           N == Len(text)
           S == Readings(P, L)
           read == Read(parser, text)
<1>1. N \in Nat /\ N \in 0 .. N /\ DOMAIN text = 1 .. N
  OBVIOUS
<1>2. Start \in S
  BY DEF Readings, Start, Reading, Normal
<1>3. \A n \in 1 .. N : \A x \in S : ParseStep(parser, x, text[n]) \in S
  BY <1>1
<1> HIDE DEF S
<1>4. PICK st : ReadsOn(parser, text, N, S, st)
  BY <1>1, <1>2, <1>3, ReadSteps
<1> HIDE DEF N
<1>5. read \in S
  BY <1>1, <1>4 DEF ReadsOn
<1>6. /\ \A b \in P : Closed(b) \in P
      /\ \A b, c \in P : b.id = c.id => WithLines(b, b.lines \o c.lines) \in P
  BY DEF Stable
<1> HIDE DEF L, read
<1>7. Flush(read) \in S
  BY <1>5, <1>6, FlushStays DEF S
<1> DEFINE done == Flush(read).done
<1>8. done \in Seq(P)
  BY <1>7 DEF S, Readings
<1>9. Parse(parser, text) = MergeRelatedBlocks(done)
  BY DEF Parse, read
<1> HIDE DEF done
<1> QED  BY <1>6, <1>8, <1>9, MergedStays

----------------------------------------------------------------------------
\* Which lines are in which block

\* In a set-style dialect each line of a text becomes a block of its own: every
\* block holds lines of its id only, and got its kind from one of them.
IsOfItsId(parser, b) == \A l \in ToSet(b.lines) : ClassifySetLine(parser, l).id = b.id
HasItsKind(parser, b) == \E l \in ToSet(b.lines) : l # NoLine /\ ClassifySetLine(parser, l).kind = b.kind
StatementBlocks(parser, L) == {b \in BlocksIn(parser, L) : IsOfItsId(parser, b) /\ HasItsKind(parser, b)}

LEMMA StatementsStay ==
    ASSUME NEW parser, NEW L
    PROVE  Stable(Classes(parser, L), L, StatementBlocks(parser, L))
<1> DEFINE C == Classes(parser, L)
           P == StatementBlocks(parser, L)
<1>1. \A b \in P : b \in Blocks(C, L) /\ IsOfItsId(parser, b) /\ HasItsKind(parser, b)
  BY DEF StatementBlocks, BlocksIn
<1>2. \A b \in Blocks(C, L) : IsOfItsId(parser, b) /\ HasItsKind(parser, b) => b \in P
  BY DEF StatementBlocks, BlocksIn
<1> HIDE DEF P, C
<1>3. ASSUME NEW b \in P
      PROVE  Closed(b) \in P
  <2>1. /\ Closed(b) \in Blocks(C, L) /\ Closed(b).id = b.id
        /\ \A l : l \in ToSet(Closed(b).lines) <=> l \in ToSet(b.lines) /\ l # NoLine
    BY <1>1, ClosedHolds
  <2>2. Closed(b).kind = b.kind
    BY DEF Closed, WithLines, Block
  <2>3. IsOfItsId(parser, Closed(b)) /\ HasItsKind(parser, Closed(b))
    BY <1>1, <2>1, <2>2 DEF IsOfItsId, HasItsKind
  <2> QED  BY <1>2, <2>1, <2>3
<1>4. ASSUME NEW b \in P, NEW c \in P, b.id = c.id
      PROVE  WithLines(b, b.lines \o c.lines) \in P
  <2> DEFINE both == b.lines \o c.lines
             joined == WithLines(b, both)
  <2>1. b.lines \in Seq(L) /\ c.lines \in Seq(L)
    BY <1>1, BlockHasLines
  <2>2. both \in Seq(L) /\ \A l : l \in ToSet(both) <=> l \in ToSet(b.lines) \/ l \in ToSet(c.lines)
    BY <2>1, ConcatHolds
  <2> HIDE DEF both
  <2>3. joined \in Blocks(C, L) /\ joined.lines = both /\ joined.id = b.id
    BY <1>1, <2>2, BlockHasLines
  <2>4. joined.kind = b.kind
    BY DEF WithLines, Block
  <2>5. IsOfItsId(parser, joined) /\ HasItsKind(parser, joined)
    BY <1>1, <1>4, <2>2, <2>3, <2>4 DEF IsOfItsId, HasItsKind
  <2> QED  BY <1>2, <2>3, <2>5 DEF both
<1> QED  BY <1>1, <1>3, <1>4 DEF Stable, P, C

LEMMA StatementsParse ==
    ASSUME NEW parser \in SetStyle, NEW R, NEW text \in Seq(R)
    PROVE  \A b \in ToSet(Parse(parser, text)) : IsOfItsId(parser, b) /\ HasItsKind(parser, b)
<1> DEFINE L == Normal(text)
           C == Classes(parser, L)
           P == StatementBlocks(parser, L)
           S == Readings(P, L)
<1>1. ASSUME NEW n \in DOMAIN text, NEW x \in S
      PROVE  ParseStep(parser, x, text[n]) \in S
  <2> DEFINE l == NormalizeLine(text[n])
             c == ClassifySetLine(parser, l)
             b == BlockOf(c, <<l>>)
  <2>1. ParseStep(parser, x, text[n]) = ParseLine(parser, x, text[n].indent, l)
    BY DEF ParseStep
  <2>2. l \in L /\ c \in C
    BY DEF Normal, ToSet, Classes
  <2>3. parser # "fortinet"
    BY DEF SetStyle
  <2>4. ParseStep(parser, x, text[n]) = IF l = NoLine THEN x ELSE AddBlock(x, b)
    BY <2>1, <2>3 DEF ParseLine, SetStyleStep
  <2>5. b \in Blocks(C, L) /\ \A y : y \in ToSet(b.lines) <=> y = l
    <3> HIDE DEF l, c, C, L
    <3> QED  BY <2>2, OneLineBlock
  <2>6. b.id = c.id /\ b.kind = c.kind
    BY DEF BlockOf, Block
  <2>7. CASE l = NoLine
    BY <2>4, <2>7
  <2>8. CASE l # NoLine
    <3> HIDE DEF b, l, L, C
    <3>1. IsOfItsId(parser, b) /\ HasItsKind(parser, b)
      BY <2>5, <2>6, <2>8 DEF IsOfItsId, HasItsKind
    <3>2. b \in P
      BY <2>5, <3>1 DEF StatementBlocks, BlocksIn, C
    <3> HIDE DEF P
    <3> QED  BY <2>4, <2>8, <3>2, AddStays
  <2> QED  BY <2>7, <2>8
<1>2. Stable(C, L, P)
  BY StatementsStay
<1> HIDE DEF P
<1>3. Parse(parser, text) \in Seq(P)
  BY <1>1, <1>2, ParseStays
<1>4. \A b \in ToSet(Parse(parser, text)) : b \in P
  BY <1>3 DEF ToSet
<1> QED  BY <1>4 DEF P, StatementBlocks

\* In the dialects read by indentation a block holds lines of its id, and
\* indented ones.
Nested(text) == {NormalizeLine(raw) : raw \in {r \in ToSet(text) : r.indent}}
IsFilled(text, b) == \A l \in ToSet(b.lines) : Fallback(l).id = b.id \/ l \in Nested(text)
FilledBlocks(parser, text) == {b \in BlocksIn(parser, Normal(text)) : IsFilled(text, b)}

LEMMA FilledStay ==
    ASSUME NEW parser, NEW R, NEW text \in Seq(R)
    PROVE  Stable(Classes(parser, Normal(text)), Normal(text), FilledBlocks(parser, text))
<1> DEFINE L == Normal(text)
           C == Classes(parser, L)
           P == FilledBlocks(parser, text)
<1>1. \A b : b \in P <=> b \in Blocks(C, L) /\ IsFilled(text, b)
  BY DEF FilledBlocks, BlocksIn
<1> HIDE DEF P, C, L
<1>2. ASSUME NEW b \in P
      PROVE  Closed(b) \in P
  <2>1. /\ Closed(b) \in Blocks(C, L) /\ Closed(b).id = b.id
        /\ \A l : l \in ToSet(Closed(b).lines) <=> l \in ToSet(b.lines) /\ l # NoLine
    BY <1>1, ClosedHolds
  <2>2. IsFilled(text, Closed(b))
    BY <1>1, <2>1 DEF IsFilled
  <2> QED  BY <1>1, <2>1, <2>2
<1>3. ASSUME NEW b \in P, NEW c \in P, b.id = c.id
      PROVE  WithLines(b, b.lines \o c.lines) \in P
  <2> DEFINE both == b.lines \o c.lines
             joined == WithLines(b, both)
  <2>1. b.lines \in Seq(L) /\ c.lines \in Seq(L)
    BY <1>1, BlockHasLines
  <2>2. both \in Seq(L) /\ \A l : l \in ToSet(both) <=> l \in ToSet(b.lines) \/ l \in ToSet(c.lines)
    BY <2>1, ConcatHolds
  <2> HIDE DEF both
  <2>3. joined \in Blocks(C, L) /\ joined.lines = both /\ joined.id = b.id
    BY <1>1, <2>2, BlockHasLines
  <2>4. IsFilled(text, joined)
    BY <1>1, <1>3, <2>2, <2>3 DEF IsFilled
  <2> QED  BY <1>1, <2>3, <2>4 DEF both
<1> QED  BY <1>1, <1>2, <1>3 DEF Stable, P, C, L

LEMMA FilledParse ==
    ASSUME NEW parser, parser # "fortinet", parser \notin SetStyle, NEW R, NEW text \in Seq(R)
    PROVE  \A b \in ToSet(Parse(parser, text)) : IsFilled(text, b)
<1> DEFINE L == Normal(text)
           C == Classes(parser, L)
           P == FilledBlocks(parser, text)
           S == Readings(P, L)
<1>1. \A b : b \in P <=> b \in Blocks(C, L) /\ IsFilled(text, b)
  BY DEF FilledBlocks, BlocksIn
<1>2. Stable(C, L, P)
  BY FilledStay
<1> HIDE DEF P
<1>3. ASSUME NEW n \in DOMAIN text, NEW x \in S
      PROVE  ParseStep(parser, x, text[n]) \in S
  <2> DEFINE l == NormalizeLine(text[n])
             c == Fallback(l)
             b == BlockOf(c, <<l>>)
             f == Flush(x)
             next == ParseStep(parser, x, text[n])
             goesOn == text[n].indent /\ x.open # <<>>
  <2>1. next = IF l = NoLine THEN x ELSE GenericStep(x, text[n].indent, l)
    BY <1>3 DEF ParseStep, ParseLine
  <2>2. l \in L /\ c \in C
    BY DEF Normal, ToSet, Classes
  <2>3. b \in P
    <3>1. b \in Blocks(C, L) /\ \A y : y \in ToSet(b.lines) <=> y = l
      <4> HIDE DEF l, c, C, L
      <4> QED  BY <2>2, OneLineBlock
    <3>2. b.id = c.id
      BY DEF BlockOf, Block
    <3> HIDE DEF b, l, L, C
    <3>3. IsFilled(text, b)
      BY <3>1, <3>2 DEF IsFilled
    <3> QED  BY <1>1, <3>1, <3>3
  <2>4. CASE l = NoLine
    BY <2>1, <2>4
  <2>5. CASE l # NoLine /\ goesOn
    <3>1. next = Continue(x, l)
      BY <2>1, <2>5 DEF GenericStep
    <3>2. PICK o \in P : x.open = <<o>> /\ x.done \in Seq(P) /\ x.section \in L
      BY <2>5 DEF Readings
    <3>3. o \in Blocks(C, L) /\ IsFilled(text, o) /\ o.lines \in Seq(L)
      BY <1>1, BlockHasLines
    <3>4. l \in Nested(text)
      BY <2>5 DEF Nested, ToSet
    <3> DEFINE longer == Append(o.lines, l)
               o2 == WithLines(o, longer)
    <3> HIDE DEF l, L, C
    <3>5. longer \in Seq(L) /\ \A y : y \in ToSet(longer) <=> y \in ToSet(o.lines) \/ y = l
      BY <2>2, <3>3, AppendHolds
    <3> HIDE DEF longer
    <3>6. o2 \in Blocks(C, L) /\ o2.lines = longer /\ o2.id = o.id
      BY <3>3, <3>5, BlockHasLines
    <3> HIDE DEF o2
    <3>7. IsFilled(text, o2)
      BY <3>3, <3>4, <3>5, <3>6 DEF IsFilled
    <3>8. o2 \in P
      BY <1>1, <3>6, <3>7
    <3>9. next = Reading(x.done, <<o2>>, x.section)
      BY <3>1, <3>2 DEF Continue, o2, longer
    <3> QED  BY <3>2, <3>8, <3>9 DEF Reading, Readings
  <2>6. CASE l # NoLine /\ ~goesOn
    <3>1. next \in {Open(f, b), AddBlock(f, b)}
      BY <2>1, <2>6 DEF GenericStep, OpenOrAdd
    <3> HIDE DEF b, next, L, C
    <3>2. f \in Readings(P, L)
      BY <1>2, FlushStays DEF Stable
    <3> HIDE DEF f
    <3>3. AddBlock(f, b) \in Readings(P, L) /\ Open(f, b) \in Readings(P, L)
      BY <2>3, <3>2, AddStays
    <3>4. next \in S
      BY <3>1, <3>3
    <3> QED  BY <3>4 DEF next
  <2> QED  BY <2>4, <2>5, <2>6
<1>4. Parse(parser, text) \in Seq(P)
  BY <1>2, <1>3, ParseStays
<1>5. \A b \in ToSet(Parse(parser, text)) : b \in P
  BY <1>4 DEF ToSet
<1> QED  BY <1>1, <1>5

----------------------------------------------------------------------------
\* What a rollback commands

\* The commands of a report are those of its changes.
Commands(a) == UNION {ToSet(s.commands) : s \in ToSet(a.rollback.snippets)}

LEMMA CommandsAre ==
    ASSUME NEW old, NEW new, NEW vendor, NEW a, a = AnalyzeContent(old, new, vendor)
    PROVE  /\ DOMAIN a.rollback.snippets = DOMAIN a.changes
           /\ \A i \in DOMAIN a.changes : a.rollback.snippets[i].commands =
                    RollbackCommands(a.changes[i], a.parser)
           /\ \A l : l \in Commands(a) <=>
                        \E c \in ToSet(a.changes) : l \in ToSet(RollbackCommands(c, a.parser))
<1>1. a.rollback = Rollback(a.changes, HasHigh(a.findings), a.parser)
  BY AnalysisHolds
<1>2. /\ DOMAIN a.rollback.snippets = DOMAIN a.changes
      /\ \A i \in DOMAIN a.changes : a.rollback.snippets[i].commands = RollbackCommands(a.changes[i], a.parser)
  BY <1>1 DEF Rollback
<1>3. \A l : l \in Commands(a) <=> \E i \in DOMAIN a.changes : l \in ToSet(a.rollback.snippets[i].commands)
  BY <1>2 DEF Commands, ToSet
<1>4. \A l : (\E i \in DOMAIN a.changes : l \in ToSet(RollbackCommands(a.changes[i], a.parser)))
               <=> \E c \in ToSet(a.changes) : l \in ToSet(RollbackCommands(c, a.parser))
  BY DEF ToSet
<1> QED  BY <1>2, <1>3, <1>4

LEMMA SetStatementsHold ==
    ASSUME NEW L, NEW lines \in Seq(L)
    PROVE  \A x : x \in ToSet(SetStatements(lines)) <=> x \in ToSet(lines) /\ IsSetStatement(x)
<1> DEFINE T == Seq(L)
           ss == [i \in DOMAIN lines |-> IF IsSetStatement(lines[i]) THEN <<lines[i]>> ELSE <<>>]
<1>1. DOMAIN lines = 1 .. Len(lines) /\ Len(lines) \in Nat /\ \A i \in DOMAIN lines : lines[i] \in L
  OBVIOUS
<1>2. \A i \in DOMAIN lines : <<lines[i]>> \in T /\ <<>> \in T
  BY <1>1
<1>3. \A i \in DOMAIN lines : ss[i] \in T
  BY <1>2
<1>4. \A x : ToSet(<<x>>) = {x} /\ x \notin ToSet(<<>>)
  BY DEF ToSet
<1>5. \A i \in DOMAIN lines : \A x : x \in ToSet(ss[i]) <=> x = lines[i] /\ IsSetStatement(x)
  BY <1>4
<1>6. ss = [i \in 1 .. Len(lines) |-> ss[i]] /\ DOMAIN ss = DOMAIN lines
  BY <1>1
<1>7. SetStatements(lines) = FlattenSeq(ss)
  BY DEF SetStatements
<1> HIDE DEF ss, T
<1>8. ss \in Seq(T)
  BY <1>1, <1>3, <1>6
<1>9. \A x : x \in ToSet(FlattenSeq(ss)) <=> \E i \in DOMAIN ss : x \in ToSet(ss[i])
  BY <1>8, FlattenHolds DEF T
<1>10. \A x : x \in ToSet(lines) <=> \E i \in DOMAIN lines : x = lines[i]
  BY DEF ToSet
<1> QED  BY <1>5, <1>6, <1>7, <1>9, <1>10

LEMMA SetCommands ==
    ASSUME NEW L, NEW c, c.before \in Seq(L), c.after \in Seq(L), NEW parser \in SetStyle, NEW l
    PROVE  l \in ToSet(RollbackCommands(c, parser)) <=>
             IF c.type # "added" THEN l \in ToSet(c.before) /\ IsSetStatement(l)
             ELSE \E x \in ToSet(c.after) : IsSetStatement(x) /\ l = <<"delete">> \o Tail(x)
<1>1. RollbackCommands(c, parser) = SetStyleRollback(c)
  BY DEF RollbackCommands, SetStyle
<1>2. CASE c.type # "added"
  BY <1>1, <1>2, SetStatementsHold DEF SetStyleRollback
<1>3. CASE c.type = "added"
  <2> DEFINE s == SetStatements(c.after)
  <2>1. RollbackCommands(c, parser) = Deleted(s)
    BY <1>1, <1>3 DEF SetStyleRollback
  <2>2. \A x : x \in ToSet(s) <=> x \in ToSet(c.after) /\ IsSetStatement(x)
    BY SetStatementsHold
  <2> HIDE DEF s
  <2>3. l \in ToSet(Deleted(s)) <=> \E x \in ToSet(s) : l = <<"delete">> \o Tail(x)
    BY DEF Deleted, ToSet
  <2> QED  BY <1>3, <2>1, <2>2, <2>3
<1> QED  BY <1>2, <1>3

----------------------------------------------------------------------------
\* What the changes of a report are

LEMMA FateTypes ==
    ASSUME NEW b, NEW after, NEW c \in ToSet(Fate(b, after))
    PROVE  c.type # "added" /\ (c.type = "removed" => c.after = <<>>)
<1> DEFINE a == after[PlaceOf(after, b.id)]
           gone == Change("removed", b, b.lines, <<>>)
           new == Change("changed", a, b.lines, a.lines)
<1>1. \A x : ToSet(<<x>>) = {x} /\ x \notin ToSet(<<>>)
  BY DEF ToSet
<1>2. Fate(b, after) \in {<<>>, <<new>>, <<gone>>}
  BY DEF Fate, BlockWith, Changed
<1>3. gone.type = "removed" /\ gone.after = <<>> /\ new.type = "changed"
  BY DEF Change
<1> HIDE DEF gone, new
<1> QED  BY <1>1, <1>2, <1>3

\* Each change is what a block of the old text became, or a block that no
\* block of the old text has the id of.
LEMMA ChangeCame ==
    ASSUME NEW R, NEW old \in Seq(R), NEW new \in Seq(R), NEW vendor,
            NEW a, a = AnalyzeContent(old, new, vendor),
           NEW c \in ToSet(a.changes)
    PROVE  /\ c.type = "removed" => c.after = <<>>
           /\ c.type # "changed" /\ c.type # "removed" => c.type = "added"
           /\ c.type = "added" => \E y \in ToSet(Parse(a.parser, new)) :
                /\ c.after = y.lines
                /\ \A b \in ToSet(Parse(a.parser, old)) : b.id # y.id
<1> DEFINE earlier == Parse(a.parser, old)
           later == Parse(a.parser, new)
<1>1. a.changes = DiffBlocks(earlier, later)
  BY AnalysisHolds
<1>2. PICK B : earlier \in Seq(B) /\ later \in Seq(B)
  BY AnalysisTypes
<1> HIDE DEF earlier, later
<1>3. /\ DiffBlocks(earlier, later) \in Seq(ChangesOver(B))
      /\ \A x : x \in ToSet(DiffBlocks(earlier, later)) <=>
                 \/ \E b \in ToSet(earlier) : x \in ToSet(Fate(b, later))
                 \/ \E y \in ToSet(later) : x \in ToSet(Arrival(y, earlier))
  BY <1>2, DiffHolds
<1>4. c.type \in {"added", "removed", "changed"}
  <2> DEFINE K == ChangesOver(B)
  <2>1. DiffBlocks(earlier, later) \in Seq(K)
    BY <1>3
  <2> HIDE DEF K
  <2>2. c \in K
    BY <1>1, <2>1 DEF ToSet
  <2> QED  BY <2>2 DEF K, ChangesOver
<1>5. CASE \E b \in ToSet(earlier) : c \in ToSet(Fate(b, later))
  BY <1>4, <1>5, FateTypes
<1>6. CASE \E y \in ToSet(later) : c \in ToSet(Arrival(y, earlier))
  <2>1. PICK y \in ToSet(later) : c \in ToSet(Arrival(y, earlier))
    BY <1>6
  <2>2. c.type = "added" /\ c.after = y.lines
    BY <2>1, ArrivalIsReal
  <2>3. y \in B
    BY <1>2 DEF ToSet
  <2>4. ~\E b \in ToSet(earlier) : b.id = y.id
    BY <1>2, <2>1, <2>3, ArrivalOf
  <2> QED  BY <2>2, <2>4 DEF earlier, later
<1> QED  BY <1>1, <1>3, <1>5, <1>6

\* In the set-style dialects no line of the old text is of an added block.
LEMMA AddedIsNew ==
    ASSUME NEW R, NEW old \in Seq(R), NEW new \in Seq(R), NEW vendor,
            NEW a, a = AnalyzeContent(old, new, vendor),
           a.parser \in SetStyle, NEW c \in ToSet(a.changes), c.type = "added", NEW x \in ToSet(c.after),
           NEW l \in Normal(old), l # NoLine
    PROVE  ClassifySetLine(a.parser, x).id # ClassifySetLine(a.parser, l).id
<1> DEFINE p == a.parser
<1>1. PICK y \in ToSet(Parse(p, new)) : c.after = y.lines /\ \A b \in ToSet(Parse(p, old)) : b.id # y.id
  BY ChangeCame
<1> HIDE DEF p
<1>2. p \in SetStyle /\ p # "fortinet"
  BY DEF p, SetStyle
<1>3. \A b \in ToSet(Parse(p, old)) \cup ToSet(Parse(p, new)) : \A k \in ToSet(b.lines) :
         ClassifySetLine(p, k).id = b.id
  BY <1>2, StatementsParse DEF IsOfItsId
<1>4. Quotes(Parse(p, old), l)
  <2>1. Quotable(p, l)
    BY <1>2 DEF Quotable
  <2> QED  BY <2>1, ParseQuotes
<1>5. PICK b \in ToSet(Parse(p, old)) : l \in ToSet(b.lines)
  BY <1>4 DEF Quotes
<1>6. ClassifySetLine(p, x).id = y.id /\ ClassifySetLine(p, l).id = b.id
  BY <1>1, <1>3, <1>5
<1> QED  BY <1>1, <1>6 DEF p

\* The lines of a text that are no comment and close nothing are told of it.
LEMMA LinesAreSaid ==
    ASSUME NEW cfg \in Seq(Sections)
    PROVE  /\ LinesOf(cfg) \subseteq Seq(STRING) /\ LinesOf(cfg) \subseteq Normal(Text(cfg)) \ {NoLine}
           /\ \A l \in Normal(Text(cfg)) :
                l # NoLine /\ l[1] \notin {"!", "#", "//", ";", "remark", "next", "end"} => l \in LinesOf(cfg)
<1> DEFINE text == Text(cfg)
<1>1. text \in Seq(RawLine)
  BY TextIs
<1>2. \A raw \in ToSet(text) : raw.words \in Seq(STRING)
  <2> DEFINE R == RawLine
  <2>1. \A raw \in R : raw.words \in Seq(STRING)
    BY DEF RawLine
  <2> HIDE DEF R
  <2>2. text \in Seq(R)
    BY <1>1 DEF R
  <2> QED  BY <2>1, <2>2 DEF ToSet
<1>3. LinesOf(cfg) = {Said(raw) : raw \in ToSet(text)} \ {NoLine, <<"next">>, <<"end">>}
  BY DEF LinesOf
<1> HIDE DEF text
<1>4. \A raw \in ToSet(text) : Said(raw) # NoLine => Said(raw) = raw.words /\ NormalizeLine(raw) = Said(raw)
  BY SaidIsNormal DEF Said
<1>5. LinesOf(cfg) \subseteq Seq(STRING)
  BY <1>2, <1>3, <1>4
<1>6. LinesOf(cfg) \subseteq Normal(text) \ {NoLine}
  BY <1>3, <1>4 DEF Normal
<1>7. ASSUME NEW l \in Normal(text), l # NoLine, l[1] \notin {"!", "#", "//", ";", "remark", "next", "end"}
      PROVE  l \in LinesOf(cfg)
  <2>1. PICK raw \in ToSet(text) : l = NormalizeLine(raw)
    BY <1>7 DEF Normal
  <2>2. l = raw.words
    BY <1>7, <2>1 DEF NormalizeLine
  <2>3. l = Said(raw)
    BY <1>7, <2>2 DEF Said
  <2>4. <<"next">>[1] = "next" /\ <<"end">>[1] = "end"
    OBVIOUS
  <2> QED  BY <1>3, <1>7, <2>3, <2>4
<1> QED  BY <1>5, <1>6, <1>7 DEF text

\* Texts of set statements, where no new statement is the start of an old one
\* of another block.
SetTexts ==
    /\ report.parser \in SetStyle
    /\ \A l \in LinesOf(before) \cup LinesOf(seen) : IsSetStatement(l) /\ l[2] # "set"
    /\ \A x \in LinesOf(seen), l \in LinesOf(before) :
          IsPrefix(Tail(x), Tail(l)) =>
              ClassifySetLine(report.parser, x).id = ClassifySetLine(report.parser, l).id

\* What is commanded, in terms of the lines the texts are told by.
CommandsOf(C, O, S, new, commands) ==
    /\ \A l \in O \ S : l \in commands
    /\ \A l \in commands : l \in O \/ \E x \in new : l = <<"delete">> \o Tail(x)
    /\ \A x \in new : x \in S /\ <<"delete">> \o Tail(x) \in commands
    /\ \A x \in S \ O : x \in new \/ x \in UNION {ToSet(c.after) : c \in C}
    /\ \A x \in new : \A l \in O : ~IsPrefix(Tail(x), Tail(l))

\* The statements of the added blocks.
NewStatements == {x \in UNION {ToSet(c.after) : c \in Changes({"added"})} : IsSetStatement(x)}

LEMMA ReportCommands ==
    ConfigInv /\ Reviewed /\ SetTexts =>
        CommandsOf(Changes({"changed"}), LinesOf(before), LinesOf(seen), NewStatements, Commands(report))
<1> SUFFICES ASSUME ConfigInv, Reviewed, SetTexts
             PROVE  CommandsOf(Changes({"changed"}), LinesOf(before), LinesOf(seen),
                                 NewStatements, Commands(report))
  OBVIOUS
<1> DEFINE old == Text(before)
           new == Text(seen)
           R == RawLine
           r == report
           v == family.vendor
           O == LinesOf(before)
           S == LinesOf(seen)
           L == Normal(old) \cup Normal(new)
           added == NewStatements
           p == r.parser
<1>1. old \in Seq(R) /\ new \in Seq(R)
  BY TextIs DEF ConfigInv
<1>2. r = AnalyzeContent(old, new, v) /\ p \in SetStyle /\ p # "fortinet"
  BY DEF ConfigInv, Reviewed, SetTexts, SetStyle
<1>3. /\ O \subseteq Seq(STRING) /\ S \subseteq Seq(STRING)
      /\ O \subseteq Normal(old) \ {NoLine} /\ S \subseteq Normal(new) \ {NoLine}
      /\ \A l \in Normal(old) : IsSetStatement(l) => l \in O
      /\ \A l \in Normal(new) : IsSetStatement(l) => l \in S
  <2>1. before \in Seq(Sections) /\ seen \in Seq(Sections)
    BY DEF ConfigInv
  <2>2. \A l : IsSetStatement(l) => l # NoLine /\ l[1] \notin {"!", "#", "//", ";", "remark", "next", "end"}
    BY DEF IsSetStatement, NoLine
  <2>3. /\ O \subseteq Seq(STRING) /\ O \subseteq Normal(old) \ {NoLine}
        /\ \A l \in Normal(old) : IsSetStatement(l) => l \in O
    BY <2>1, <2>2, LinesAreSaid
  <2>4. /\ S \subseteq Seq(STRING) /\ S \subseteq Normal(new) \ {NoLine}
        /\ \A l \in Normal(new) : IsSetStatement(l) => l \in S
    BY <2>1, <2>2, LinesAreSaid
  <2> QED  BY <2>3, <2>4
<1>4. /\ \A l \in O \cup S : IsSetStatement(l)
      /\ \A x \in S, l \in O : IsPrefix(Tail(x), Tail(l)) => ClassifySetLine(p, x).id = ClassifySetLine(p, l).id
  BY DEF SetTexts
<1>5. /\ \A l \in O \ S : \E c \in ToSet(r.changes) : l \in ToSet(c.before)
      /\ \A l \in S \ O : \E c \in ToSet(r.changes) : l \in ToSet(c.after)
  BY <1>2, ReportQuotes DEF LinesAreReported, Reviewed, Headings, BeforeLines, AfterLines
<1>6. \A x : x \in added <=>
                  IsSetStatement(x) /\ \E c \in ToSet(r.changes) : c.type = "added" /\ x \in ToSet(c.after)
  BY DEF NewStatements, Changes
<1>7. \A x : (\E c \in ToSet(r.changes) : c.type = "changed" /\ x \in ToSet(c.after))
               => x \in UNION {ToSet(c.after) : c \in Changes({"changed"})}
  BY DEF Changes
<1> HIDE DEF old, new, R, r, v, O, S, L, added, p
<1>8. \A c \in ToSet(r.changes) : /\ c.before \in Seq(L) /\ c.after \in Seq(L)
                                  /\ c.type = "added" => c.before = <<>>
  BY <1>1, <1>2, ChangesAreTyped DEF L
<1>9. \A c \in ToSet(r.changes) : \A l : l \in ToSet(RollbackCommands(c, p)) <=>
             IF c.type # "added" THEN l \in ToSet(c.before) /\ IsSetStatement(l)
             ELSE \E x \in ToSet(c.after) : IsSetStatement(x) /\ l = <<"delete">> \o Tail(x)
  BY <1>2, <1>8, SetCommands
<1>10. \A l : l \in Commands(r) <=> \E c \in ToSet(r.changes) : l \in ToSet(RollbackCommands(c, p))
  BY <1>2, CommandsAre DEF p
<1>11. \A c \in ToSet(r.changes) : /\ \A l \in ToSet(c.before) : l \in Normal(old)
                                   /\ \A l \in ToSet(c.after) : l \in Normal(new)
  BY <1>1, <1>2, AnalysisIsReal
<1>12. \A c \in ToSet(r.changes) : /\ c.type = "removed" => c.after = <<>>
                                   /\ c.type # "changed" /\ c.type # "removed" => c.type = "added"
  BY <1>1, <1>2, ChangeCame
<1>13. \A x : x \notin ToSet(<<>>)
  BY DEF ToSet
<1>14. ASSUME NEW l \in O \ S
       PROVE  l \in Commands(r)
  BY <1>4, <1>5, <1>8, <1>9, <1>10, <1>13
<1>15. ASSUME NEW l \in Commands(r)
       PROVE  l \in O \/ \E x \in added : l = <<"delete">> \o Tail(x)
  BY <1>3, <1>6, <1>9, <1>10, <1>11, <1>15
<1>16. ASSUME NEW x \in added
       PROVE  x \in S /\ <<"delete">> \o Tail(x) \in Commands(r)
  BY <1>3, <1>6, <1>9, <1>10, <1>11
<1>17. ASSUME NEW x \in S \ O
       PROVE  x \in added \/ x \in UNION {ToSet(c.after) : c \in Changes({"changed"})}
  BY <1>4, <1>5, <1>6, <1>7, <1>12, <1>13
<1>18. ASSUME NEW x \in added, NEW l \in O, IsPrefix(Tail(x), Tail(l))
       PROVE  FALSE
  <2>1. PICK c \in ToSet(r.changes) : c.type = "added" /\ x \in ToSet(c.after)
    BY <1>6
  <2>2. l \in Normal(old) /\ l # NoLine /\ x \in S
    BY <1>3, <1>16
  <2>3. r = AnalyzeContent(old, new, v) /\ r.parser \in SetStyle
    BY <1>2 DEF p
  <2>4. ClassifySetLine(r.parser, x).id # ClassifySetLine(r.parser, l).id
    BY <1>1, <2>1, <2>2, <2>3, AddedIsNew
  <2>5. ClassifySetLine(p, x).id # ClassifySetLine(p, l).id
    BY <2>4 DEF p
  <2> QED  BY <1>4, <1>18, <2>2, <2>5
<1> QED  BY <1>14, <1>15, <1>16, <1>17, <1>18 DEF CommandsOf, O, S, added, r

\* A delete of a statement names it without its verb.
LEMMA DeleteNames ==
    ASSUME NEW x \in Seq(STRING), IsSetStatement(x)
    PROVE  /\ (<<"delete">> \o Tail(x))[1] = "delete"
           /\ Tail(<<"delete">> \o Tail(x)) = Tail(x)
           /\ IsPrefix(Tail(x), Tail(x))
<1> DEFINE t == Tail(x)
<1>1. t \in Seq(STRING)
  BY DEF IsSetStatement
<1> HIDE DEF t
<1>2. (<<"delete">> \o t)[1] = "delete" /\ Tail(<<"delete">> \o t) = t
  BY <1>1
<1>3. IsPrefix(t, t)
  BY <1>1 DEF IsPrefix
<1> QED  BY <1>2, <1>3 DEF t

\* The commands undo the change.
LEMMA CommandsUndo ==
    ASSUME NEW C, NEW O \in SUBSET Seq(STRING), NEW S \in SUBSET Seq(STRING), NEW new, NEW commands,
           CommandsOf(C, O, S, new, commands), \A l \in O \cup S : IsSetStatement(l),
           NEW deletes, deletes = {l \in commands : l[1] = "delete"},
           NEW left, left = {l \in S : \A d \in deletes : ~IsPrefix(Tail(d), Tail(l))}
    PROVE  /\ O \subseteq left \cup (commands \ deletes)
           /\ (left \cup (commands \ deletes)) \ O \subseteq UNION {ToSet(c.after) : c \in C}
<1>1. /\ \A l \in O \ S : l \in commands
      /\ \A l \in commands : l \in O \/ \E x \in new : l = <<"delete">> \o Tail(x)
      /\ \A x \in new : x \in S /\ <<"delete">> \o Tail(x) \in commands
      /\ \A x \in S \ O : x \in new \/ x \in UNION {ToSet(c.after) : c \in C}
      /\ \A x \in new : \A l \in O : ~IsPrefix(Tail(x), Tail(l))
  BY DEF CommandsOf
<1>2. \A l \in O \cup S : l[1] # "delete"
  BY DEF IsSetStatement
<1>3. \A x \in new : /\ (<<"delete">> \o Tail(x))[1] = "delete"
                     /\ Tail(<<"delete">> \o Tail(x)) = Tail(x)
                     /\ IsPrefix(Tail(x), Tail(x))
  BY <1>1, DeleteNames
<1>4. \A d \in deletes : \E x \in new : Tail(d) = Tail(x)
  BY <1>1, <1>2, <1>3
<1>5. ASSUME NEW l \in O
      PROVE  l \in left \cup (commands \ deletes)
  <2>1. CASE l \notin S
    BY <1>1, <1>2, <2>1
  <2>2. CASE l \in S
    BY <1>1, <1>4, <2>2
  <2> QED  BY <2>1, <2>2
<1>6. ASSUME NEW l \in left \cup (commands \ deletes), l \notin O
      PROVE  l \in UNION {ToSet(c.after) : c \in C}
  <2>1. l \notin commands \ deletes
    BY <1>1, <1>3, <1>6
  <2>2. l \in S
    BY <1>6, <2>1
  <2>3. l \notin new
    <3>1. SUFFICES ASSUME l \in new PROVE FALSE
      OBVIOUS
    <3>2. <<"delete">> \o Tail(l) \in deletes
      BY <1>1, <1>3, <3>1
    <3>3. ~IsPrefix(Tail(<<"delete">> \o Tail(l)), Tail(l))
      BY <1>6, <2>1, <3>2
    <3> QED  BY <1>3, <3>1, <3>3
  <2> QED  BY <1>1, <1>6, <2>2, <2>3
<1> QED  BY <1>5, <1>6

LEMMA SetRollback == ConfigInv /\ Reviewed /\ SetTexts => RollbackIsSound
<1> SUFFICES ASSUME ConfigInv, Reviewed, SetTexts
             PROVE  RestoresOld /\ KeepsOld
  BY DEF RollbackIsSound
<1> DEFINE O == LinesOf(before)
           S == LinesOf(seen)
           C == Changes({"changed"})
           new == NewStatements
           commands == Commands(report)
<1>1. CommandsOf(C, O, S, new, commands)
  BY ReportCommands
<1>2. O \in SUBSET Seq(STRING) /\ S \in SUBSET Seq(STRING)
  BY LinesAreSaid DEF ConfigInv
<1>3. (\A l \in O \cup S : IsSetStatement(l) /\ l[2] # "set") /\ report.parser # "fortinet"
  BY DEF SetTexts, SetStyle
<1>4. O \ S \subseteq ReappliedLines
  BY <1>3, ReportQuotes DEF LinesAreReported, Headings
<1>5. \A s \in ToSet(report.rollback.snippets) : \A i \in DOMAIN s.commands : s.commands[i] \in commands
  BY DEF Commands, ToSet
<1>6. commands = UNION {ToSet(s.commands) : s \in ToSet(report.rollback.snippets)}
  BY DEF Commands
<1>7. \A x : x \in UNION {ToSet(c.after) : c \in C} => x \in UNION {ToSet(c.after) : c \in Changes({"changed"})}
  OBVIOUS
<1> HIDE DEF O, S, C, new, commands
<1>8. RestoresOld
  <2> DEFINE deletes == {l \in commands : l[1] = "delete"}
             left == {l \in S : \A d \in deletes : ~IsPrefix(Tail(d), Tail(l))}
  <2>1. /\ O \subseteq left \cup (commands \ deletes)
        /\ (left \cup (commands \ deletes)) \ O \subseteq UNION {ToSet(c.after) : c \in C}
    <3> HIDE DEF left, deletes
    <3>1. deletes = {l \in commands : l[1] = "delete"} /\
          left = {l \in S : \A d \in deletes : ~IsPrefix(Tail(d), Tail(l))}
      BY DEF left, deletes
    <3>2. \A l \in O \cup S : IsSetStatement(l)
      BY <1>3
    <3>3. O \in SUBSET Seq(STRING) /\ S \in SUBSET Seq(STRING)
      BY <1>2
    <3> QED  BY <1>1, <3>1, <3>2, <3>3, CommandsUndo
  <2> QED  BY <1>6, <2>1 DEF RestoresOld, O, S, C
<1>9. ASSUME NEW l \in commands, IsNegatedCommand(l), NEW x \in O
      PROVE  Tail(l) # x /\ Tail(l) # Tail(x)
  <2>1. l \notin O
    BY <1>3, <1>9 DEF IsNegatedCommand, IsSetStatement
  <2>2. PICK y \in new : l = <<"delete">> \o Tail(y)
    BY <1>1, <2>1 DEF CommandsOf
  <2>3. y \in S /\ ~IsPrefix(Tail(y), Tail(x))
    BY <1>1 DEF CommandsOf
  <2>4. Tail(l) = Tail(y) /\ IsPrefix(Tail(y), Tail(y))
    BY <1>2, <1>3, <2>2, <2>3, DeleteNames
  <2>5. Tail(y)[1] # "set" /\ x[1] = "set"
    <3>1. y \in Seq(STRING) /\ Len(y) > 1 /\ y[2] # "set" /\ x[1] = "set"
      BY <1>2, <1>3, <2>3 DEF IsSetStatement
    <3>2. Tail(y)[1] = y[2]
      BY <3>1
    <3> QED  BY <3>1, <3>2
  <2> QED  BY <2>3, <2>4, <2>5
<1>10. KeepsOld
  <2>1. ASSUME NEW s \in ToSet(report.rollback.snippets), NEW i \in DOMAIN s.commands,
               IsNegatedCommand(s.commands[i])
        PROVE  \A x \in O : Tail(s.commands[i]) # x /\ Tail(s.commands[i]) # Tail(x)
    BY <1>5, <1>9, <2>1
  <2> QED  BY <1>3, <1>4, <2>1 DEF KeepsOld, O, S
<1> QED  BY <1>8, <1>10

----------------------------------------------------------------------------
\* The rollback of the IOS-like dialects
CiscoLike == {"cisco-ios", "edgeswitch"}

LEMMA NegationsHold ==
    ASSUME NEW L, NEW lines \in Seq(L)
    PROVE  \A x : x \in ToSet(Negations(lines)) <=>
                    \E y \in ToSet(lines) : CanSafelyNegateCiscoLine(y) /\ x = <<"no">> \o y
<1> DEFINE no(l) == <<"no">> \o l
           M == {no(l) : l \in L}
           T == Seq(M)
           ss == [i \in DOMAIN lines |-> IF CanSafelyNegateCiscoLine(lines[i]) THEN <<no(lines[i])>> ELSE <<>>]
<1>1. DOMAIN lines = 1 .. Len(lines) /\ Len(lines) \in Nat /\ \A i \in DOMAIN lines : lines[i] \in L
  OBVIOUS
<1>2. \A m \in M : <<m>> \in T /\ <<>> \in T
  OBVIOUS
<1>3. \A i \in DOMAIN lines : no(lines[i]) \in M
  BY <1>1
<1>4. \A x : ToSet(<<x>>) = {x} /\ x \notin ToSet(<<>>)
  BY DEF ToSet
<1> HIDE DEF no, M, T
<1>5. \A i \in DOMAIN lines : ss[i] \in T
  BY <1>2, <1>3
<1>6. \A i \in DOMAIN lines : \A x : x \in ToSet(ss[i]) <=>
                  x = no(lines[i]) /\ CanSafelyNegateCiscoLine(lines[i])
  BY <1>4
<1>7. ss = [i \in 1 .. Len(lines) |-> ss[i]] /\ DOMAIN ss = DOMAIN lines
  BY <1>1
<1>8. Negations(lines) = FlattenSeq(ss)
  BY DEF Negations, no
<1> HIDE DEF ss
<1>9. ss \in Seq(T)
  BY <1>1, <1>5, <1>7
<1>10. \A x : x \in ToSet(FlattenSeq(ss)) <=> \E i \in DOMAIN ss : x \in ToSet(ss[i])
  BY <1>9, FlattenHolds DEF T
<1>11. \A x : x \in ToSet(lines) <=> \E i \in DOMAIN lines : x = lines[i]
  BY DEF ToSet
<1>12. \A x : x \in ToSet(Negations(lines)) <=> \E y \in ToSet(lines) : CanSafelyNegateCiscoLine(y) /\ x = no(y)
  <2>1. \A x : x \in ToSet(Negations(lines)) <=>
                 \E i \in DOMAIN lines : x = no(lines[i]) /\ CanSafelyNegateCiscoLine(lines[i])
    BY <1>6, <1>7, <1>8, <1>10
  <2>2. \A x : (\E i \in DOMAIN lines : x = no(lines[i]) /\ CanSafelyNegateCiscoLine(lines[i]))
                  <=> \E y \in ToSet(lines) : CanSafelyNegateCiscoLine(y) /\ x = no(y)
    BY <1>11, Zenon
  <2> QED  BY <2>1, <2>2
<1> QED  BY <1>12 DEF no

LEMMA CiscoCommands ==
    ASSUME NEW L, NEW c, c.before \in Seq(L), c.after \in Seq(L), NEW parser \in CiscoLike, NEW l
    PROVE  l \in ToSet(RollbackCommands(c, parser)) <=>
             IF c.type # "added" THEN l \in ToSet(c.before)
             ELSE \E x \in ToSet(c.after) : CanSafelyNegateCiscoLine(x) /\ l = <<"no">> \o x
<1>1. RollbackCommands(c, parser) = CiscoRollback(c)
  BY DEF RollbackCommands, CiscoLike
<1>2. CASE c.type # "added"
  BY <1>1, <1>2 DEF CiscoRollback
<1>3. CASE c.type = "added"
  <2>1. RollbackCommands(c, parser) = Negations(c.after)
    BY <1>1, <1>3 DEF CiscoRollback
  <2> QED  BY <1>3, <2>1, NegationsHold
<1> QED  BY <1>2, <1>3

\* A line of an added block that is indented in neither text is not in the old
\* one: the block it would be in there has the id the added block has.
LEMMA AddedIsNewLine ==
    ASSUME NEW R, NEW old \in Seq(R), NEW new \in Seq(R), NEW vendor,
            NEW a, a = AnalyzeContent(old, new, vendor),
           a.parser \in CiscoLike, NEW c \in ToSet(a.changes), c.type = "added", NEW x \in ToSet(c.after),
           x \notin Nested(old), x \notin Nested(new), x # NoLine
    PROVE  x \notin Normal(old)
<1> DEFINE p == a.parser
<1>1. PICK y \in ToSet(Parse(p, new)) : c.after = y.lines /\ \A b \in ToSet(Parse(p, old)) : b.id # y.id
  BY ChangeCame
<1>2. p # "fortinet" /\ p \notin SetStyle
  BY DEF CiscoLike, SetStyle
<1> HIDE DEF p
<1>3. /\ \A b \in ToSet(Parse(p, old)) : \A l \in ToSet(b.lines) : Fallback(l).id = b.id \/ l \in Nested(old)
      /\ \A b \in ToSet(Parse(p, new)) : \A l \in ToSet(b.lines) : Fallback(l).id = b.id \/ l \in Nested(new)
  BY <1>2, FilledParse DEF IsFilled
<1>4. ASSUME x \in Normal(old)
      PROVE  FALSE
  <2>1. Quotable(p, x)
    BY <1>2 DEF Quotable
  <2>2. Quotes(Parse(p, old), x)
    BY <1>4, <2>1, ParseQuotes
  <2>3. PICK b \in ToSet(Parse(p, old)) : x \in ToSet(b.lines)
    BY <2>2 DEF Quotes
  <2> QED  BY <1>1, <1>3, <2>3
<1> QED  BY <1>4

\* Texts whose statements the rollback can negate stand on their own, and are
\* the rest of no old line but their own negation.
NegatableTexts ==
    /\ report.parser \in CiscoLike
    /\ \A l \in Nested(Text(before)) \cup Nested(Text(seen)) : ~CanSafelyNegateCiscoLine(l)
    /\ \A x \in LinesOf(seen), l \in LinesOf(before) :
          CanSafelyNegateCiscoLine(x) /\ Tail(l) = x => l = <<"no">> \o x

LEMMA LinesAreWords ==
    ASSUME NEW text \in Seq(RawLine)
    PROVE  Normal(text) \subseteq Seq(STRING)
<1> DEFINE R == RawLine
           T == Seq(STRING)
<1>1. \A raw \in R : raw.words \in T
  BY DEF RawLine
<1>2. NoLine \in T
  BY DEF NoLine
<1> HIDE DEF R, T
<1>3. \A raw \in R : NormalizeLine(raw) \in T
  BY <1>1, <1>2 DEF NormalizeLine
<1>4. text \in Seq(R)
  BY DEF R
<1>5. \A raw \in ToSet(text) : raw \in R
  BY <1>4 DEF ToSet
<1>6. Normal(text) \subseteq T
  <2>1. ASSUME NEW l \in Normal(text)
        PROVE  l \in T
    <3>1. l = NoLine \/ \E raw \in ToSet(text) : l = NormalizeLine(raw)
      BY DEF Normal
    <3> QED  BY <1>2, <1>3, <1>5, <3>1
  <2> QED  BY <2>1
<1> QED  BY <1>6 DEF T

\* No such statement and no negation is a comment.
LEMMA NegatedIsSaid ==
    ASSUME NEW l, IsNegatedCommand(l)
    PROVE  l # NoLine /\ l[1] \notin {"!", "#", "//", ";", "remark", "next", "end"}
<1>1. Len(l) > 1 /\ l[1] \in {"no", "delete"}
  BY DEF IsNegatedCommand
<1>2. l # NoLine
  BY <1>1 DEF NoLine
<1> QED  BY <1>1, <1>2

LEMMA NegatableIsSaid ==
    ASSUME NEW l \in Seq(STRING), CanSafelyNegateCiscoLine(l)
    PROVE  l # NoLine /\ l[1] \notin {"!", "#", "//", ";", "remark", "next", "end"}
<1>1. Len(l) > 1
  BY DEF CanSafelyNegateCiscoLine
<1>2. l # NoLine
  BY <1>1 DEF NoLine
<1>3. l[1] \in {"access-list", "logging", "snmp-server", "ntp", "ip", "ipv6"}
  <2>1. ASSUME NEW run, Len(run) = 2, Starts(l, run)
        PROVE  l[1] = run[1]
    <3>1. SubSeq(l, 1, 2) = SubSeq(run, 1, 2)
      BY <2>1 DEF Starts, IsPrefix
    <3>2. SubSeq(l, 1, 2)[1] = l[1] /\ SubSeq(run, 1, 2)[1] = run[1]
      OBVIOUS
    <3> QED  BY <3>1, <3>2
  <2>2. CASE StartsAny(l, {<<"ip", "route">>, <<"ipv6", "route">>, <<"ip", "http">>, <<"ip", "name-server">>})
    <3>1. \A run \in {<<"ip", "route">>, <<"ipv6", "route">>, <<"ip", "http">>, <<"ip", "name-server">>} :
             Len(run) = 2 /\ run[1] \in {"ip", "ipv6"}
      OBVIOUS
    <3>2. \E run : Len(run) = 2 /\ run[1] \in {"ip", "ipv6"} /\ Starts(l, run)
      BY <2>2, <3>1 DEF StartsAny
    <3> QED  BY <2>1, <3>2
  <2> QED  BY <2>2 DEF CanSafelyNegateCiscoLine
<1> QED  BY <1>2, <1>3

LEMMA CiscoRollbacks == ConfigInv /\ Reviewed /\ NegatableTexts => RollbackIsSound
<1> SUFFICES ASSUME ConfigInv, Reviewed, NegatableTexts
             PROVE  RestoresOld /\ KeepsOld
  BY DEF RollbackIsSound
<1> DEFINE old == Text(before)
           new == Text(seen)
           R == RawLine
           r == report
           v == family.vendor
           O == LinesOf(before)
           S == LinesOf(seen)
           L == Normal(old) \cup Normal(new)
           p == r.parser
           N == Nested(old) \cup Nested(new)
<1>1. old \in Seq(R) /\ new \in Seq(R)
  BY TextIs DEF ConfigInv
<1>2. r = AnalyzeContent(old, new, v) /\ p \in CiscoLike /\
          p \notin {"junos", "edgeos", "panos"} /\ p # "fortinet"
  BY DEF ConfigInv, Reviewed, NegatableTexts, CiscoLike
<1>3. RestoresOld
  BY <1>2 DEF RestoresOld
<1>4. /\ \A l \in Normal(old) : IsNegatedCommand(l) => l \in O
      /\ O \subseteq Normal(old) \ {NoLine}
      /\ \A l \in Normal(new) : CanSafelyNegateCiscoLine(l) => l \in S
  <2>1. before \in Seq(Sections) /\ seen \in Seq(Sections)
    BY DEF ConfigInv
  <2>2. \A l : IsNegatedCommand(l) => l # NoLine /\ l[1] \notin {"!", "#", "//", ";", "remark", "next", "end"}
    BY NegatedIsSaid
  <2>3. \A l \in Normal(new) : CanSafelyNegateCiscoLine(l) =>
                   l # NoLine /\ l[1] \notin {"!", "#", "//", ";", "remark", "next", "end"}
    <3>1. Normal(new) \subseteq Seq(STRING)
      BY <1>1, LinesAreWords DEF R
    <3> QED  BY <3>1, NegatableIsSaid
  <2> QED  BY <2>1, <2>2, <2>3, LinesAreSaid
<1>5. /\ \A l \in N : ~CanSafelyNegateCiscoLine(l)
      /\ \A x \in S, l \in O : CanSafelyNegateCiscoLine(x) /\ Tail(l) = x => l = <<"no">> \o x
  BY DEF NegatableTexts
<1>6. O \ S \subseteq ReappliedLines
  BY <1>2, ReportQuotes DEF LinesAreReported, Headings
<1>7. \A s \in ToSet(r.rollback.snippets) : \A i \in DOMAIN s.commands : s.commands[i] \in Commands(r)
  BY DEF Commands, ToSet
<1>8. \A x \in Nested(old) : x \in N
  OBVIOUS
<1>9. \A x \in Nested(new) : x \in N
  OBVIOUS
<1> HIDE DEF old, new, R, r, v, O, S, L, p, N
<1>10. \A c \in ToSet(r.changes) : /\ c.before \in Seq(L) /\ c.after \in Seq(L)
  BY <1>1, <1>2, ChangesAreTyped DEF L
<1>11. \A c \in ToSet(r.changes) : \A l : l \in ToSet(RollbackCommands(c, p)) <=>
             IF c.type # "added" THEN l \in ToSet(c.before)
             ELSE \E x \in ToSet(c.after) : CanSafelyNegateCiscoLine(x) /\ l = <<"no">> \o x
  BY <1>2, <1>10, CiscoCommands
<1>12. \A l : l \in Commands(r) <=> \E c \in ToSet(r.changes) : l \in ToSet(RollbackCommands(c, p))
  BY <1>2, CommandsAre DEF p
<1>13. \A c \in ToSet(r.changes) : /\ \A l \in ToSet(c.before) : l \in Normal(old)
                                   /\ \A l \in ToSet(c.after) : l \in Normal(new) /\ l # NoLine
  BY <1>1, <1>2, AnalysisIsReal
<1>14. ASSUME NEW l \in Commands(r), IsNegatedCommand(l), l \notin O, NEW x \in O
       PROVE  Tail(l) # x /\ Tail(l) # Tail(x)
  <2>1. PICK c \in ToSet(r.changes) : l \in ToSet(RollbackCommands(c, p))
    BY <1>12
  <2>2. c.type = "added"
    BY <1>4, <1>11, <1>13, <1>14, <2>1
  <2>3. PICK y \in ToSet(c.after) : CanSafelyNegateCiscoLine(y) /\ l = <<"no">> \o y
    BY <1>11, <2>1, <2>2
  <2>4. y \in Normal(new) /\ y # NoLine /\ y \in S /\ y \notin Nested(old) /\ y \notin Nested(new)
    BY <1>4, <1>5, <1>8, <1>9, <1>13, <2>3
  <2>5. y \notin Normal(old)
    BY <1>1, <1>2, <2>2, <2>4, AddedIsNewLine DEF p
  <2>6. y \in Seq(STRING)
    <3>1. seen \in Seq(Sections)
      BY DEF ConfigInv
    <3> QED  BY <2>4, <3>1, LinesAreSaid DEF S
  <2>7. Tail(l) = y
    BY <2>3, <2>6
  <2>8. y # x
    BY <1>4, <2>5
  <2>9. Tail(x) # y
    BY <1>5, <1>14, <2>3, <2>4
  <2> QED  BY <2>7, <2>8, <2>9
<1>15. KeepsOld
  <2>1. ASSUME NEW s \in ToSet(r.rollback.snippets), NEW i \in DOMAIN s.commands,
               IsNegatedCommand(s.commands[i]), s.commands[i] \notin O
        PROVE  \A x \in O : Tail(s.commands[i]) # x /\ Tail(s.commands[i]) # Tail(x)
    BY <1>7, <1>14, <2>1
  <2> QED  BY <1>2, <1>6, <2>1 DEF KeepsOld, O, S, r, p
<1> QED  BY <1>3, <1>15

\* The other dialects get no command.
LEMMA NoCommandRollback ==
    ConfigInv /\ Reviewed /\ report.parser \notin SetStyle \cup CiscoLike \cup {"fortinet"} => RollbackIsSound
<1> SUFFICES ASSUME ConfigInv, Reviewed, report.parser \notin SetStyle \cup CiscoLike \cup {"fortinet"}
             PROVE  RestoresOld /\ KeepsOld
  BY DEF RollbackIsSound
<1> DEFINE old == Text(before)
           new == Text(seen)
           r == report
           v == family.vendor
           p == r.parser
<1>1. r = AnalyzeContent(old, new, v) /\ p \notin {"junos", "edgeos", "panos"} /\ p # "fortinet"
  BY DEF ConfigInv, Reviewed, SetStyle
<1>2. \A c : RollbackCommands(c, p) = <<>>
  BY DEF RollbackCommands, SetStyle, CiscoLike
<1>3. RestoresOld
  BY <1>1 DEF RestoresOld
<1>4. LinesOf(before) \ LinesOf(seen) \subseteq ReappliedLines
  BY <1>1, ReportQuotes DEF LinesAreReported, Headings
<1> HIDE DEF old, new, r, v
<1>5. /\ DOMAIN r.rollback.snippets = DOMAIN r.changes
      /\ \A i \in DOMAIN r.changes : r.rollback.snippets[i].commands = RollbackCommands(r.changes[i], r.parser)
  BY <1>1, CommandsAre
<1>6. \A s \in ToSet(r.rollback.snippets) : DOMAIN s.commands = {}
  BY <1>2, <1>5 DEF ToSet
<1>7. KeepsOld
  BY <1>4, <1>6 DEF KeepsOld, r
<1> QED  BY <1>3, <1>7

\* Texts whose changes commands can undo, or that get no commands.
Revertible == SetTexts \/ NegatableTexts \/ report.parser \notin SetStyle \cup CiscoLike \cup {"fortinet"}

\* Where the changes can be undone, the commands undo them, every lost line is in
\* the text to reapply, and no new command negates a line that was there before.
THEOREM RollbacksAreSound == Spec => [](Revertible => RollbackIsSound)
<1>1. ConfigInv /\ Revertible => RollbackIsSound
  <2>1. ConfigInv /\ ~Reviewed => RollbackIsSound
    BY DEF RollbackIsSound, RestoresOld, KeepsOld
  <2> QED  BY <2>1, SetRollback, CiscoRollbacks, NoCommandRollback DEF Revertible
<1> QED  BY <1>1, ConfigInvariant, PTL

----------------------------------------------------------------------------
\* Statements in another order

\* No line twice.
Single(lines) == \A i, j \in DOMAIN lines : lines[i] = lines[j] => i = j

LEMMA SingleMore ==
    ASSUME NEW L, NEW lines \in Seq(L), NEW l \in L, Single(lines)
    PROVE  Single(Keep(lines, l))
<1>1. CASE Keep(lines, l) = lines
  BY <1>1
<1>2. CASE Keep(lines, l) # lines
  <2>1. Keep(lines, l) = Append(lines, l) /\ \A i \in 1 .. Len(lines) : lines[i] # l
    BY <1>2 DEF Keep, Contains
  <2>2. /\ DOMAIN lines = 1 .. Len(lines) /\ Len(lines) \in Nat
        /\ DOMAIN Append(lines, l) = 1 .. Len(lines) + 1
        /\ \A i \in 1 .. Len(lines) : Append(lines, l)[i] = lines[i]
        /\ Append(lines, l)[Len(lines) + 1] = l
    OBVIOUS
  <2> QED  BY <2>1, <2>2 DEF Single
<1> QED  BY <1>1, <1>2

\* UniquePreserve keeps each line once.
LEMMA UniqueSingle ==
    ASSUME NEW L, NEW lines \in Seq(L)
    PROVE  Single(UniquePreserve(lines))
<1> DEFINE N == Len(lines)
<1>1. N \in Nat /\ N \in 0 .. N /\ \A n \in 1 .. N : lines[n] \in L
  OBVIOUS
<1>2. PICK kept : Keeps(L, lines, N, kept)
  BY <1>1, KeptSteps
<1> HIDE DEF N
<1>3. /\ kept \in [0 .. N -> Seq(L)] /\ kept[0] = <<>>
      /\ \A n \in 1 .. N : kept[n] = Keep(kept[n - 1], lines[n])
      /\ UniquePreserve(lines) = kept[N]
  BY <1>2 DEF Keeps
<1> DEFINE Good == {n \in 0 .. N : Single(kept[n])}
<1>4. 0 \in Good
  BY <1>1, <1>3 DEF Single
<1>5. ASSUME NEW n \in 0 .. N - 1, n \in Good
      PROVE  n + 1 \in Good
  <2>1. n + 1 \in 1 .. N /\ (n + 1) - 1 = n /\ n \in 0 .. N /\ n + 1 \in 0 .. N
    BY <1>1
  <2>2. kept[n] \in Seq(L) /\ kept[n + 1] = Keep(kept[n], lines[n + 1]) /\ lines[n + 1] \in L
    BY <1>1, <1>3, <2>1
  <2>3. Single(kept[n])
    BY <1>5
  <2>4. Single(Keep(kept[n], lines[n + 1]))
    BY <2>2, <2>3, SingleMore
  <2> QED  BY <2>1, <2>2, <2>4
<1>6. N \in Good
  <2> HIDE DEF Good
  <2>1. Passes(N, Good)
    BY <1>1, <1>4, <1>5 DEF Passes
  <2> QED  BY <1>1, <2>1, UpTo
<1> QED  BY <1>3, <1>6

\* So does each block of a text.
LEMMA ParsedSingle ==
    ASSUME NEW parser, NEW R, NEW text \in Seq(R)
    PROVE  \A b \in ToSet(Parse(parser, text)) : Single(b.lines)
<1> DEFINE L == Normal(text)
           C == Classes(parser, L)
           B == Blocks(C, L)
           read == Read(parser, text)
           done == Flush(read).done
           all == JoinAll(done)
<1>1. read \in Readings(Blocks(C, L), L)
  BY ReadQuotes DEF BlocksIn
<1> HIDE DEF read, C, L
<1>2. Flush(read) \in Readings(Blocks(C, L), L)
  BY <1>1, FlushKeeps
<1>3. done \in Seq(Blocks(C, L))
  BY <1>2 DEF Readings
<1>4. Parse(parser, text) = MergeRelatedBlocks(done)
  BY DEF Parse, read
<1> HIDE DEF done
<1>5. all \in Seq(B)
  BY <1>3, JoinAllQuotes
<1>6. MergeRelatedBlocks(done) = [i \in DOMAIN all |-> Closed(all[i])]
  BY DEF MergeRelatedBlocks
<1> HIDE DEF all
<1>7. ASSUME NEW i \in DOMAIN all
      PROVE  Single(Closed(all[i]).lines)
  <2>1. all[i] \in B
    <3> HIDE DEF B
    <3> QED  BY <1>5
  <2>2. all[i].lines \in Seq(L)
    BY <2>1, BlockHasLines
  <2>3. Closed(all[i]).lines = UniquePreserve(all[i].lines)
    BY DEF Closed, WithLines, Block
  <2> QED  BY <2>2, <2>3, UniqueSingle
<1> QED  BY <1>4, <1>6, <1>7 DEF ToSet

LEMMA AheadBySight ==
    ASSUME NEW L, NEW lines \in Seq(L), Single(lines), NEW i \in DOMAIN lines, NEW j \in DOMAIN lines, i < j
    PROVE  Ahead(lines, lines[i], lines[j])
<1>1. DOMAIN lines = 1 .. Len(lines) /\ Len(lines) \in Nat
  OBVIOUS
<1>2. \A k \in 1 .. i : lines[k] # lines[j]
  BY <1>1 DEF Single
<1> QED  BY <1>2 DEF Ahead

\* Two sequences that hold the same lines, each once, in the same order, are
\* one.  First, they agree as long as the first goes on.
LEMMA Agreeing ==
    ASSUME NEW L, NEW s \in Seq(L), NEW t \in Seq(L), Single(s), Single(t), ToSet(s) = ToSet(t),
           \A a, b \in ToSet(s) : Ahead(s, a, b) => Ahead(t, a, b)
    PROVE  Len(s) <= Len(t) /\ \A k \in 1 .. Len(s) : s[k] = t[k]
<1> DEFINE N == Len(s)
           M == Len(t)
<1>1. N \in Nat /\ M \in Nat /\ N \in 0 .. N /\ DOMAIN s = 1 .. N /\ DOMAIN t = 1 .. M
  OBVIOUS
<1>2. /\ \A i \in 1 .. N : s[i] \in ToSet(s) /\ \E m \in 1 .. M : t[m] = s[i]
      /\ \A i \in 1 .. M : t[i] \in ToSet(s) /\ \E m \in 1 .. N : s[m] = t[i]
  BY <1>1 DEF ToSet
<1>3. \A i, j \in 1 .. N : i < j => Ahead(s, s[i], s[j])
  BY <1>1, AheadBySight
<1>4. \A i, j \in 1 .. M : i < j => Ahead(t, t[i], t[j])
  BY <1>1, AheadBySight
<1>5. /\ \A i, j \in 1 .. N : s[i] = s[j] => i = j
      /\ \A i, j \in 1 .. M : t[i] = t[j] => i = j
  BY <1>1 DEF Single
<1>6. \A a, b : Ahead(t, a, b) => ~Ahead(t, b, a)
  BY AheadOneWay
<1> HIDE DEF N, M
<1> DEFINE Good == {n \in 0 .. N : n <= M /\ \A k \in 1 .. n : s[k] = t[k]}
<1>7. 0 \in Good
  BY <1>1
<1>8. ASSUME NEW n \in 0 .. N - 1, n \in Good
      PROVE  n + 1 \in Good
  <2>1. n + 1 \in 1 .. N /\ n + 1 \in 0 .. N /\ n <= M /\ n \in Nat /\ \A k \in 1 .. n : s[k] = t[k]
    BY <1>1, <1>8
  <2>2. PICK m \in 1 .. M : t[m] = s[n + 1]
    BY <1>2, <2>1
  <2>3. m > n
    <3>1. SUFFICES ASSUME m \in 1 .. n PROVE FALSE
      BY <1>1, <2>1
    <3>2. s[m] = s[n + 1] /\ m \in 1 .. N
      BY <1>1, <2>1, <2>2, <3>1
    <3> QED  BY <1>5, <2>1, <3>1, <3>2
  <2>4. m = n + 1
    <3>1. SUFFICES ASSUME m > n + 1 PROVE FALSE
      BY <2>1, <2>3
    <3>2. n + 1 \in 1 .. M
      BY <1>1, <2>1, <3>1
    <3>3. PICK j \in 1 .. N : s[j] = t[n + 1]
      BY <1>2, <3>2
    <3>4. j > n
      <4>1. SUFFICES ASSUME j \in 1 .. n PROVE FALSE
        BY <1>1, <2>1
      <4>2. t[j] = t[n + 1] /\ j \in 1 .. M
        BY <1>1, <2>1, <3>3, <4>1
      <4> QED  BY <1>5, <2>1, <3>2, <4>1, <4>2
    <3>5. j # n + 1
      <4>1. SUFFICES ASSUME j = n + 1 PROVE FALSE
        OBVIOUS
      <4>2. t[n + 1] = t[m]
        BY <2>2, <3>3, <4>1
      <4> QED  BY <1>5, <3>1, <3>2, <4>2
    <3>6. Ahead(s, s[n + 1], s[j])
      BY <1>1, <1>3, <2>1, <3>4, <3>5
    <3>7. Ahead(t, s[n + 1], s[j])
      BY <1>2, <2>1, <3>6
    <3>8. Ahead(t, t[n + 1], t[m])
      BY <1>1, <1>4, <2>1, <3>1, <3>2
    <3> QED  BY <1>6, <2>2, <3>3, <3>7, <3>8
  <2>5. \A k \in 1 .. n + 1 : k \in 1 .. n \/ k = n + 1
    BY <2>1
  <2> QED  BY <1>1, <2>1, <2>2, <2>4, <2>5
<1>9. N \in Good
  <2> HIDE DEF Good
  <2>1. Passes(N, Good)
    BY <1>1, <1>7, <1>8 DEF Passes
  <2> QED  BY <1>1, <2>1, UpTo
<1> QED  BY <1>9 DEF N, M

LEMMA SameSequence ==
    ASSUME NEW L, NEW s \in Seq(L), NEW t \in Seq(L), Single(s), Single(t), ToSet(s) = ToSet(t),
           \A a, b \in ToSet(s) : Ahead(s, a, b) => Ahead(t, a, b)
    PROVE  s = t
<1>1. Len(s) <= Len(t) /\ \A k \in 1 .. Len(s) : s[k] = t[k]
  BY Agreeing
<1>2. /\ Len(s) \in Nat /\ Len(t) \in Nat /\ DOMAIN s = 1 .. Len(s) /\ DOMAIN t = 1 .. Len(t)
  OBVIOUS
<1>3. Len(t) = Len(s)
  <2>1. SUFFICES ASSUME Len(s) + 1 \in 1 .. Len(t) PROVE FALSE
    <3>1. Len(s) <= Len(t) /\ Len(s) \in Nat /\ Len(t) \in Nat
      BY <1>1
    <3> QED  BY <3>1
  <2>2. PICK j \in 1 .. Len(s) : s[j] = t[Len(s) + 1]
    <3>1. t[Len(s) + 1] \in ToSet(s)
      BY <1>2, <2>1 DEF ToSet
    <3> QED  BY <1>2, <3>1 DEF ToSet
  <2>3. t[j] = t[Len(s) + 1] /\ j \in 1 .. Len(t)
    BY <1>1, <1>2, <2>2
  <2>4. j = Len(s) + 1
    BY <1>2, <2>1, <2>3 DEF Single
  <2> QED  BY <1>2, <2>2, <2>4
<1> QED  BY <1>1, <1>2, <1>3

\* Of two lines of a text one is read ahead of the other.
LEMMA ReadAheadEither ==
    ASSUME NEW R, NEW text \in Seq(R), NEW a \in Normal(text), a # NoLine, NEW b, a # b
    PROVE  ReadAhead(text, a, b) \/ ReadAhead(text, b, a)
<1> DEFINE N == Len(text)
           line(i) == NormalizeLine(text[i])
           I == {i \in 1 .. N : line(i) \in {a, b}}
<1>1. N \in Nat /\ DOMAIN text = 1 .. N
  OBVIOUS
<1>2. \E i \in 1 .. N : line(i) = a
  BY <1>1 DEF Normal, ToSet
<1>3. I \in SUBSET Nat /\ I # {}
  BY <1>1, <1>2
<1> DEFINE first == Min(I)
<1>4. first \in I /\ \A m \in I : first <= m
  BY <1>3, MinIsLeast
<1> HIDE DEF first
<1>5. first \in 1 .. N /\ line(first) \in {a, b} /\ \A j \in 1 .. N : line(j) \in {a, b} => first <= j
  BY <1>4
<1> HIDE DEF I, N
<1>6. \A j \in 1 .. first : j \in 1 .. N /\ (line(j) \in {a, b} => j = first)
  BY <1>1, <1>5
<1>7. CASE line(first) = a
  <2>1. \A j \in 1 .. first : line(j) # b
    BY <1>6, <1>7
  <2> QED  BY <1>1, <1>5, <1>7, <2>1 DEF ReadAhead
<1>8. CASE line(first) = b
  <2>1. \A j \in 1 .. first : line(j) # a
    BY <1>6, <1>8
  <2> QED  BY <1>1, <1>5, <1>8, <2>1 DEF ReadAhead
<1> QED  BY <1>5, <1>7, <1>8

\* What the blocks of a text in a set-style dialect are.
IdOf(parser, l) == ClassifySetLine(parser, l).id
Statements(text) == Normal(text) \ {NoLine}
AreGroups(parser, text, blocks) ==
    /\ \A l \in Statements(text) : \E b \in ToSet(blocks) : b.id = IdOf(parser, l)
    /\ \A b \in ToSet(blocks) :
          /\ b.lines \in Seq(Normal(text)) /\ Single(b.lines)
          /\ \A l : l \in ToSet(b.lines) <=> l \in Statements(text) /\ IdOf(parser, l) = b.id
          /\ \E l \in ToSet(b.lines) : ClassifySetLine(parser, l).kind = b.kind
          /\ \A l, m \in ToSet(b.lines) : ReadAhead(text, l, m) => Ahead(b.lines, l, m)

LEMMA TextIsGrouped ==
    ASSUME NEW parser \in SetStyle, NEW R, NEW text \in Seq(R)
    PROVE  AreGroups(parser, text, Parse(parser, text))
<1> DEFINE blocks == Parse(parser, text)
           L == Normal(text)
           C == Classes(parser, L)
           B == Blocks(C, L)
<1>1. parser # "fortinet"
  BY DEF SetStyle
<1>2. \A l \in Statements(text) : Quotable(parser, l) /\ l \in L /\ l # NoLine
  BY <1>1 DEF Quotable, Statements
<1>3. /\ blocks \in Seq(B) /\ Distinct(blocks)
      /\ \A l : Quotes(blocks, l) => l \in L /\ l # NoLine
      /\ \A l \in L : Quotable(parser, l) => Quotes(blocks, l)
  BY ParseQuotes DEF BlocksIn
<1>4. \A b \in ToSet(blocks) : IsOfItsId(parser, b) /\ HasItsKind(parser, b) /\ Single(b.lines)
  BY StatementsParse, ParsedSingle
<1>5. ASSUME NEW b \in ToSet(blocks), NEW c \in ToSet(blocks), b.id = c.id
      PROVE  b = c
  BY <1>3, <1>5 DEF Distinct, ToSet
<1>6. ASSUME NEW a, Quotable(parser, a), NEW b, b # NoLine, ReadAhead(text, a, b), NEW x, OnlyIn(blocks, x, a)
      PROVE  Ahead(x.lines, a, b)
  BY <1>6, AheadInBlock
<1>7. ASSUME NEW b \in ToSet(blocks)
      PROVE  b.lines \in Seq(L)
  <2>1. b \in B
    <3> HIDE DEF B, blocks
    <3> QED  BY <1>3 DEF ToSet
  <2> HIDE DEF L, C
  <2> QED  BY <2>1, BlockHasLines
<1> HIDE DEF blocks, C, B
<1>8. \A l \in Statements(text) : \E b \in ToSet(blocks) : l \in ToSet(b.lines) /\ b.id = IdOf(parser, l)
  BY <1>2, <1>3, <1>4 DEF Quotes, IsOfItsId, IdOf
<1>9. ASSUME NEW b \in ToSet(blocks), NEW l
      PROVE  l \in ToSet(b.lines) <=> l \in Statements(text) /\ IdOf(parser, l) = b.id
  <2>1. l \in ToSet(b.lines) => l \in L /\ l # NoLine /\ IdOf(parser, l) = b.id
    BY <1>3, <1>4 DEF Quotes, IsOfItsId, IdOf
  <2>2. ASSUME l \in Statements(text), IdOf(parser, l) = b.id
        PROVE  l \in ToSet(b.lines)
    BY <1>5, <1>8, <2>2
  <2> QED  BY <2>1, <2>2 DEF Statements
<1>10. ASSUME NEW b \in ToSet(blocks), NEW l \in ToSet(b.lines), NEW m \in ToSet(b.lines), ReadAhead(text, l, m)
       PROVE  Ahead(b.lines, l, m)
  <2>1. l \in Statements(text) /\ m # NoLine /\ Quotable(parser, l)
    BY <1>2, <1>9 DEF Statements
  <2>2. OnlyIn(blocks, b, l)
    <3>1. ASSUME NEW x \in ToSet(blocks), l \in ToSet(x.lines)
          PROVE  x = b
      <4>1. IdOf(parser, l) = x.id /\ IdOf(parser, l) = b.id
        BY <1>9, <3>1
      <4> QED  BY <1>5, <4>1
    <3> QED  BY <3>1 DEF OnlyIn
  <2> QED  BY <1>6, <1>10, <2>1, <2>2
<1>11. \A b \in ToSet(blocks) : \E l \in ToSet(b.lines) : ClassifySetLine(parser, l).kind = b.kind
  BY <1>4 DEF HasItsKind
<1>12. AreGroups(parser, text, blocks)
  BY <1>4, <1>7, <1>8, <1>9, <1>10, <1>11 DEF AreGroups
<1> QED  BY <1>12 DEF blocks

\* The second text has the statements of the first, those of one access list or
\* firewall object in the same order.
Regrouped(parser, old, new) ==
    /\ Statements(old) = Statements(new)
    /\ \A a, b, m \in Statements(old) :
          /\ IdOf(parser, a) = IdOf(parser, m) /\ IdOf(parser, b) = IdOf(parser, m)
          /\ ClassifySetLine(parser, m).kind \in {"acl", "firewall"}
          /\ ReadAhead(old, a, b)
          => ReadAhead(new, a, b)

\* Blocks of one id have the same fingerprint then.
LEMMA SameGroup ==
    ASSUME NEW parser, NEW R, NEW old \in Seq(R), NEW new \in Seq(R), Regrouped(parser, old, new),
           NEW earlier, AreGroups(parser, old, earlier), NEW later, AreGroups(parser, new, later),
           NEW b \in ToSet(earlier), NEW y \in ToSet(later), b.id = y.id
    PROVE  SameFingerprint(b, y)
<1> DEFINE L == Normal(old) \cup {NoLine}
<1>0. Normal(new) = L
  BY DEF Regrouped, Statements, Normal
<1>1. /\ b.lines \in Seq(L) /\ y.lines \in Seq(L) /\ Single(b.lines) /\ Single(y.lines)
      /\ Statements(new) = Statements(old)
      /\ \A l : l \in ToSet(b.lines) <=> l \in Statements(old) /\ IdOf(parser, l) = b.id
      /\ \A l : l \in ToSet(y.lines) <=> l \in Statements(new) /\ IdOf(parser, l) = y.id
      /\ \E l \in ToSet(b.lines) : ClassifySetLine(parser, l).kind = b.kind
      /\ \E l \in ToSet(y.lines) : ClassifySetLine(parser, l).kind = y.kind
      /\ \A l, m \in ToSet(b.lines) : ReadAhead(old, l, m) => Ahead(b.lines, l, m)
      /\ \A l, m \in ToSet(y.lines) : ReadAhead(new, l, m) => Ahead(y.lines, l, m)
  BY <1>0 DEF AreGroups, Regrouped, Statements
<1>2. ToSet(b.lines) = ToSet(y.lines)
  BY <1>1
<1>3. CASE ~Ordered(b) /\ ~Ordered(y)
  BY <1>2, <1>3 DEF SameFingerprint
<1>4. CASE Ordered(b) \/ Ordered(y)
  <2>1. PICK m \in ToSet(b.lines) : ClassifySetLine(parser, m).kind \in {"acl", "firewall"}
    BY <1>1, <1>2, <1>4 DEF Ordered
  <2>2. ASSUME NEW l \in ToSet(b.lines), NEW k \in ToSet(b.lines), Ahead(b.lines, l, k)
        PROVE  Ahead(y.lines, l, k)
    <3>1. ~Ahead(b.lines, k, l)
      BY <1>1, <2>2, AheadOneWay
    <3>2. l # k
      BY <2>2, <3>1
    <3>3. /\ l \in Statements(old) /\ k \in Statements(old) /\ m \in Statements(old)
          /\ IdOf(parser, l) = IdOf(parser, m) /\ IdOf(parser, k) = IdOf(parser, m)
      BY <1>1, <2>1
    <3>4. ReadAhead(old, l, k) \/ ReadAhead(old, k, l)
      BY <3>2, <3>3, ReadAheadEither DEF Statements
    <3>5. ReadAhead(old, l, k)
      BY <1>1, <3>1, <3>4
    <3>6. ReadAhead(new, l, k)
      BY <2>1, <3>3, <3>5 DEF Regrouped
    <3> QED  BY <1>1, <1>2, <3>6
  <2> HIDE DEF L
  <2>3. b.lines = y.lines
    BY <1>1, <1>2, <2>2, SameSequence
  <2> QED  BY <1>4, <2>3 DEF SameFingerprint
<1> QED  BY <1>3, <1>4

LEMMA NothingIn ==
    ASSUME NEW K, NEW s \in Seq(K), \A x : x \notin ToSet(s)
    PROVE  s = <<>>
<1>1. Len(s) \in Nat /\ DOMAIN s = 1 .. Len(s)
  OBVIOUS
<1>2. Len(s) # 0 => s[1] \in ToSet(s)
  BY <1>1 DEF ToSet
<1> QED  BY <1>1, <1>2

LEMMA SilentOrder ==
    ASSUME NEW R, NEW old \in Seq(R), NEW new \in Seq(R), NEW vendor,
           NEW a, a = AnalyzeContent(old, new, vendor),
           a.parser \in SetStyle, Regrouped(a.parser, old, new)
    PROVE  a.changes = <<>>
<1> DEFINE p == a.parser
           earlier == Parse(p, old)
           later == Parse(p, new)
<1>1. AreGroups(p, old, earlier) /\ AreGroups(p, new, later)
  BY TextIsGrouped
<1>2. \A id : (\E c \in ToSet(a.changes) : c.id = id) <=> ~Unmoved(earlier, later, id)
  <2>1. IsExact(a, old, new)
    BY AnalysisIsExact
  <2> QED  BY <2>1 DEF IsExact
<1>3. PICK B : earlier \in Seq(B) /\ later \in Seq(B)
  BY AnalysisTypes
<1>4. a.changes = DiffBlocks(earlier, later)
  BY AnalysisHolds
<1> HIDE DEF earlier, later
<1>5. Statements(new) = Statements(old)
  BY DEF Regrouped, Statements
<1>6. ASSUME NEW b \in ToSet(earlier)
      PROVE  \E y \in ToSet(later) : y.id = b.id
  <2>1. PICK l : l \in Statements(old) /\ IdOf(p, l) = b.id
    BY <1>1 DEF AreGroups
  <2> QED  BY <1>1, <1>5, <2>1 DEF AreGroups
<1>7. ASSUME NEW y \in ToSet(later)
      PROVE  \E b \in ToSet(earlier) : b.id = y.id
  <2>1. PICK l : l \in Statements(new) /\ IdOf(p, l) = y.id
    BY <1>1 DEF AreGroups
  <2> QED  BY <1>1, <1>5, <2>1 DEF AreGroups
<1>8. ASSUME NEW b \in ToSet(earlier), NEW y \in ToSet(later), b.id = y.id
      PROVE  SameFingerprint(b, y)
  BY <1>1, <1>8, SameGroup
<1>9. \A id : Unmoved(earlier, later, id)
  BY <1>6, <1>7, <1>8 DEF Unmoved
<1>10. \A c : c \notin ToSet(a.changes)
  BY <1>2, <1>9
<1> DEFINE K == ChangesOver(B)
<1>11. a.changes \in Seq(K)
  BY <1>3, <1>4, DiffHolds
<1> HIDE DEF K
<1> QED  BY <1>10, <1>11, NothingIn

\* Whatever order its statements are in, a set-style text that says the same is
\* no change, as long as rules stay in their order.
OrderIsSilent ==
    Reviewed /\ report.parser \in SetStyle /\ Regrouped(report.parser, Text(before), Text(seen)) =>
        report.changes = <<>>

LEMMA ReportsNoOrder == ConfigInv => OrderIsSilent
<1> SUFFICES ASSUME ConfigInv, Reviewed, report.parser \in SetStyle,
                    Regrouped(report.parser, Text(before), Text(seen))
             PROVE  report.changes = <<>>
  BY DEF OrderIsSilent
<1> DEFINE old == Text(before)
           new == Text(seen)
           R == RawLine
           r == report
           v == family.vendor
<1>1. old \in Seq(R) /\ new \in Seq(R)
  BY TextIs DEF ConfigInv
<1>2. r = AnalyzeContent(old, new, v) /\ r.parser \in SetStyle /\ Regrouped(r.parser, old, new)
  BY DEF ConfigInv, Reviewed
<1> HIDE DEF old, new, R, r, v
<1>3. r.changes = <<>>
  BY <1>1, <1>2, SilentOrder
<1> QED  BY <1>3 DEF r

\* Putting statements in another order never makes a report in a set-style
\* dialect, whatever the device, its texts and its edits.
THEOREM OrderMakesNoReport == Spec => []OrderIsSilent
BY ConfigInvariant, ReportsNoOrder, PTL

----------------------------------------------------------------------------
\* Configurations that say the same

LEMMA ConcatIs ==
    ASSUME NEW S, NEW s \in Seq(S), NEW t \in Seq(S)
    PROVE  /\ Len(s \o t) = Len(s) + Len(t)
           /\ \A i \in 1 .. Len(s) : (s \o t)[i] = s[i]
           /\ \A i \in 1 .. Len(t) : (s \o t)[Len(s) + i] = t[i]
OBVIOUS

IsOne(t) == Len(t) = 1
LEMMA ConcatOne ==
    ASSUME NEW S, NEW s \in Seq(S), NEW t \in Seq(S), IsOne(t)
    PROVE  /\ Len(s \o t) = Len(s) + 1 /\ (s \o t)[Len(s) + 1] = t[1]
           /\ \A m \in 1 .. Len(s) : (s \o t)[m] = s[m]
<1> DEFINE n == Len(s)
           u == s \o t
<1>1. /\ Len(u) = n + Len(t)
      /\ \A i \in 1 .. n : u[i] = s[i]
      /\ \A i \in 1 .. Len(t) : u[n + i] = t[i]
  BY ConcatIs
<1> HIDE DEF n, u
<1>2. 1 \in 1 .. 1
  OBVIOUS
<1>3. u[n + 1] = t[1]
  BY <1>1, <1>2 DEF IsOne
<1>4. Len(u) = n + 1
  BY <1>1 DEF IsOne
<1> QED  BY <1>1, <1>3, <1>4 DEF n, u

\* Sequences of one element each, put together.
LEMMA FlatSingles ==
    ASSUME NEW S, NEW ss \in Seq(Seq(S)), \A n \in DOMAIN ss : Len(ss[n]) = 1
    PROVE  /\ Len(FlattenSeq(ss)) = Len(ss)
           /\ \A n \in 1 .. Len(ss) : FlattenSeq(ss)[n] = ss[n][1]
<1> DEFINE N == Len(ss)
<1>1. N \in Nat /\ DOMAIN ss = 1 .. N /\ \A n \in 1 .. N : ss[n] \in Seq(S) /\ Len(ss[n]) = 1
  OBVIOUS
<1>2. CASE N = 0
  <2>1. ss = <<>> /\ FlattenSeq(ss) = ss
    BY <1>2 DEF FlattenSeq
  <2> QED  BY <2>1
<1>3. CASE N # 0
  <2>1. PICK flat : Flattens(S, ss, N, flat)
    <3>1. N \in Nat \ {0} /\ Len(ss) = N
      BY <1>1, <1>3
    <3> HIDE DEF N
    <3> QED  BY <1>1, <3>1, FlattenSteps
  <2> HIDE DEF N
  <2>2. /\ flat \in [0 .. N -> Seq(S)] /\ flat[0] = <<>>
        /\ \A n \in 1 .. N : flat[n] = flat[n - 1] \o ss[n]
        /\ FlattenSeq(ss) = flat[N]
    BY <2>1 DEF Flattens
  <2> DEFINE Good == {n \in 0 .. N : Len(flat[n]) = n /\ \A m \in 1 .. n : flat[n][m] = ss[m][1]}
  <2>3. 0 \in Good
    BY <1>1, <2>2
  <2>4. ASSUME NEW n \in 0 .. N - 1, n \in Good
        PROVE  n + 1 \in Good
    <3>1. n + 1 \in 1 .. N /\ (n + 1) - 1 = n /\ n \in 0 .. N /\ n + 1 \in 0 .. N /\ n \in Nat
      BY <1>1
    <3> DEFINE s == flat[n]
               t == ss[n + 1]
    <3>2. s \in Seq(S) /\ t \in Seq(S) /\ Len(t) = 1 /\ flat[n + 1] = s \o t
      BY <1>1, <2>2, <3>1
    <3>3. Len(s) = n /\ \A m \in 1 .. n : s[m] = ss[m][1]
      BY <2>4
    <3>4. Len(s \o t) = n + 1 /\ (s \o t)[n + 1] = t[1] /\ \A m \in 1 .. n : (s \o t)[m] = s[m]
      <4>1. Len(s) = n
        BY <3>3
      <4> HIDE DEF s, t
      <4>2. Len(s) \in Nat /\ s \in Seq(S) /\ t \in Seq(S) /\ Len(t) = 1
        BY <3>2
      <4>3. /\ Len(s \o t) = Len(s) + 1 /\ (s \o t)[Len(s) + 1] = t[1]
            /\ \A m \in 1 .. Len(s) : (s \o t)[m] = s[m]
        BY <4>2, ConcatOne DEF IsOne
      <4> QED  BY <4>1, <4>3
    <3>5. \A m \in 1 .. n + 1 : m \in 1 .. n \/ m = n + 1
      BY <3>1
    <3> QED  BY <3>1, <3>2, <3>3, <3>4, <3>5
  <2>5. N \in Good
    <3> HIDE DEF Good
    <3>1. Passes(N, Good)
      BY <1>1, <2>3, <2>4 DEF Passes
    <3> QED  BY <1>1, <3>1, UpTo
  <2> QED  BY <2>2, <2>5 DEF N
<1> QED  BY <1>2, <1>3

\* What stands ahead in one of the sequences, none before it holding the other
\* element, stands ahead when they are put together.
LEMMA FlatAhead ==
    ASSUME NEW S, NEW ss \in Seq(Seq(S)), NEW a, NEW b, NEW k \in DOMAIN ss, Ahead(ss[k], a, b),
           \A j \in 1 .. k - 1 : b \notin ToSet(ss[j])
    PROVE  Ahead(FlattenSeq(ss), a, b)
<1> DEFINE N == Len(ss)
<1>1. N \in Nat /\ DOMAIN ss = 1 .. N /\ k \in 1 .. N /\ \A n \in 1 .. N : ss[n] \in Seq(S)
  OBVIOUS
<1>2. PICK flat : Flattens(S, ss, N, flat)
  <2>1. N \in Nat \ {0} /\ Len(ss) = N
    BY <1>1
  <2> HIDE DEF N
  <2> QED  BY <1>1, <2>1, FlattenSteps
<1> HIDE DEF N
<1>3. /\ flat \in [0 .. N -> Seq(S)] /\ flat[0] = <<>>
      /\ \A n \in 1 .. N : flat[n] = flat[n - 1] \o ss[n]
      /\ FlattenSeq(ss) = flat[N]
  BY <1>2 DEF Flattens
<1> DEFINE Fine(n) == IF n < k THEN b \notin ToSet(flat[n]) ELSE Ahead(flat[n], a, b)
           Good == {n \in 0 .. N : Fine(n)}
<1>4. 0 \in Good
  <2>1. b \notin ToSet(<<>>)
    BY DEF ToSet
  <2>2. 0 < k /\ 0 \in 0 .. N
    BY <1>1
  <2> QED  BY <1>3, <2>1, <2>2
<1>5. ASSUME NEW n \in 0 .. N - 1, n \in Good
      PROVE  n + 1 \in Good
  <2>1. n + 1 \in 1 .. N /\ (n + 1) - 1 = n /\ n \in 0 .. N /\ n + 1 \in 0 .. N /\ n \in Nat
    BY <1>1
  <2> DEFINE s == flat[n]
             t == ss[n + 1]
  <2>2. s \in Seq(S) /\ t \in Seq(S) /\ flat[n + 1] = s \o t
    BY <1>1, <1>3, <2>1
  <2>3. IF n < k THEN b \notin ToSet(s) ELSE Ahead(s, a, b)
    BY <1>5
  <2>4. n + 1 = k => Ahead(t, a, b)
    OBVIOUS
  <2>5. n + 1 < k => b \notin ToSet(t)
    <3>1. n + 1 < k => n + 1 \in 1 .. k - 1
      BY <1>1, <2>1
    <3> QED  BY <3>1
  <2> HIDE DEF s, t
  <2>6. CASE n + 1 < k
    <3>1. n < k /\ b \notin ToSet(s) /\ b \notin ToSet(t)
      BY <1>1, <2>1, <2>3, <2>5, <2>6
    <3>2. b \notin ToSet(s \o t)
      BY <2>2, <3>1, ConcatHolds
    <3> QED  BY <2>1, <2>2, <2>6, <3>2
  <2>7. CASE n + 1 = k
    <3>1. n < k /\ ~(n + 1 < k)
      BY <1>1, <2>1, <2>7
    <3>2. b \notin ToSet(s) /\ Ahead(t, a, b)
      BY <2>3, <2>4, <2>7, <3>1
    <3>3. Ahead(s \o t, a, b)
      BY <2>2, <3>2, AheadLonger
    <3> QED  BY <2>1, <2>2, <3>1, <3>3
  <2>8. CASE n + 1 > k
    <3>1. ~(n < k) /\ ~(n + 1 < k)
      BY <1>1, <2>1, <2>8
    <3>2. Ahead(s, a, b)
      BY <2>3, <3>1
    <3>3. Ahead(s \o t, a, b)
      BY <2>2, <3>2, AheadLonger
    <3> QED  BY <2>1, <2>2, <3>1, <3>3
  <2> HIDE DEF Good
  <2>9. n + 1 < k \/ n + 1 = k \/ n + 1 > k
    BY <1>1, <2>1
  <2> QED  BY <2>6, <2>7, <2>8, <2>9
<1>6. N \in Good
  <2> HIDE DEF Good
  <2>1. Passes(N, Good)
    BY <1>1, <1>4, <1>5 DEF Passes
  <2> QED  BY <1>1, <2>1, UpTo
<1>7. ~(N < k)
  BY <1>1
<1> QED  BY <1>3, <1>6, <1>7

\* A configuration of single statements: a section is one line, and no line is
\* the word "remark" alone.
IsPlain(cfg) ==
    \A i \in DOMAIN cfg : /\ Len(cfg[i].top) = 1 /\ cfg[i].body = <<>> /\ cfg[i].end = <<>>
                          /\ cfg[i].top[1].words # <<"remark">>

LEMMA StartsWithWord ==
    ASSUME NEW l \in Seq(STRING), NEW w
    PROVE  Starts(l, <<w>>) <=> Len(l) # 0 /\ l[1] = w
<1>1. Len(l) \in Nat /\ DOMAIN l = 1 .. Len(l)
  OBVIOUS
<1> QED  BY <1>1 DEF Starts, IsPrefix

\* Its text has its lines, one for each section.
LEMMA PlainText ==
    ASSUME NEW cfg \in Seq(Sections), IsPlain(cfg)
    PROVE  /\ Text(cfg) \in Seq(RawLine) /\ DOMAIN Text(cfg) = DOMAIN cfg
           /\ \A i \in DOMAIN cfg : NormalizeLine(Text(cfg)[i]) = TopLine(cfg[i])
<1> DEFINE S == Sections
           R == RawLine
           T == Seq(R)
           ss == [i \in DOMAIN cfg |-> cfg[i].top \o cfg[i].body \o cfg[i].end]
<1>1. DOMAIN cfg = 1 .. Len(cfg) /\ Len(cfg) \in Nat /\ \A i \in 1 .. Len(cfg) : cfg[i] \in S
  <2> HIDE DEF S
  <2>1. cfg \in Seq(S)
    BY DEF S
  <2> QED  BY <2>1
<1>2. \A s \in S : s.top \in T
  BY DEF Sections
<1> HIDE DEF S, R
<1>3. ASSUME NEW i \in 1 .. Len(cfg)
      PROVE  ss[i] = cfg[i].top /\ ss[i] \in T /\ Len(ss[i]) = 1
  <2>1. cfg[i].top \in T /\ Len(cfg[i].top) = 1 /\ cfg[i].body = <<>> /\ cfg[i].end = <<>>
    BY <1>1, <1>2 DEF IsPlain
  <2>2. cfg[i].top \o <<>> \o <<>> = cfg[i].top
    BY <2>1
  <2> QED  BY <1>1, <2>1, <2>2
<1>4. ss = [i \in 1 .. Len(cfg) |-> ss[i]] /\ DOMAIN ss = 1 .. Len(cfg)
  BY <1>1
<1>5. Text(cfg) = FlattenSeq(ss)
  BY DEF Text
<1> HIDE DEF ss
<1>6. ss \in Seq(T)
  BY <1>1, <1>3, <1>4
<1>10. Len(ss) = Len(cfg) /\ \A n \in DOMAIN ss : Len(ss[n]) = 1
  BY <1>1, <1>3, <1>4, <1>6
<1>7. /\ Text(cfg) \in Seq(R) /\ Len(Text(cfg)) = Len(cfg)
      /\ \A i \in 1 .. Len(cfg) : Text(cfg)[i] = ss[i][1]
  BY <1>5, <1>6, <1>10, FlattenHolds, FlatSingles DEF T
<1>8. ASSUME NEW i \in 1 .. Len(cfg)
      PROVE  NormalizeLine(Text(cfg)[i]) = TopLine(cfg[i])
  <2> DEFINE raw == cfg[i].top[1]
             w == raw.words
  <2>1. Text(cfg)[i] = raw
    BY <1>3, <1>7
  <2>2. TopLine(cfg[i]) = Said(raw) /\ w # <<"remark">>
    BY <1>1 DEF IsPlain, TopLine
  <2>3. w \in Seq(STRING)
    <3>1. raw \in R
      BY <1>3
    <3> QED  BY <3>1 DEF R, RawLine
  <2>4. NormalizeLine(raw) = IF StartsAny(w, {<<"!">>, <<"#">>, <<"//">>, <<";">>})
                                  \/ (Starts(w, <<"remark">>) /\ Len(w) > 1) THEN NoLine ELSE w
    BY DEF NormalizeLine
  <2>5. Said(raw) = IF w[1] \in {"!", "#", "//", ";", "remark"} THEN NoLine ELSE w
    BY DEF Said
  <2> HIDE DEF w, raw
  <2>6. Len(w) \in Nat /\ (Len(w) = 0 => w = <<>>) /\ (Len(w) = 1 => w = <<w[1]>>)
    BY <2>3
  <2>7. CASE Len(w) = 0
    BY <2>1, <2>2, <2>4, <2>5, <2>6, <2>7 DEF NoLine
  <2>8. CASE Len(w) # 0
    <3>1. \A x : Starts(w, <<x>>) <=> w[1] = x
      BY <2>3, <2>8, StartsWithWord
    <3>2. StartsAny(w, {<<"!">>, <<"#">>, <<"//">>, <<";">>}) <=> w[1] \in {"!", "#", "//", ";"}
      BY <3>1 DEF StartsAny
    <3>3. w[1] = "remark" => Len(w) > 1
      <4>1. Len(w) = 1 => w = <<w[1]>>
        BY <2>6
      <4>2. Len(w) = 1 => w[1] # "remark"
        BY <2>2, <4>1
      <4>3. Len(w) \in Nat /\ Len(w) # 0
        BY <2>6, <2>8
      <4>5. \A n \in Nat : n # 0 => n = 1 \/ n > 1
        OBVIOUS
      <4>4. Len(w) = 1 \/ Len(w) > 1
        BY <4>3, <4>5, Zenon
      <4> QED  BY <4>2, <4>4, Zenon
    <3> QED  BY <2>1, <2>2, <2>4, <2>5, <3>1, <3>2, <3>3
  <2> QED  BY <2>7, <2>8
<1>9. DOMAIN Text(cfg) = DOMAIN cfg
  BY <1>1, <1>7
<1> QED  BY <1>1, <1>7, <1>8, <1>9 DEF R

\* The list a section's rules belong to, as the reference Rules tells it.
ListOf(s) ==
    LET top == TopLine(s)
    IN  IF Starts(top, <<"ip", "access-list">>) \/ s.top[1].words = <<"config", "firewall", "policy">>
        THEN top ELSE FilterOf(top)
RulesOf(s) ==
    LET lines == IF s.body = <<>> THEN <<TopLine(s)>> ELSE Lines(s)
        list == ListOf(s)
    IN  IF list = <<>> THEN <<>> ELSE [i \in DOMAIN lines |-> <<list, lines[i]>>]

LEMMA RulesAre ==
    ASSUME NEW cfg
    PROVE  Rules(cfg) = FlattenSeq([i \in DOMAIN cfg |-> RulesOf(cfg[i])])
BY DEF Rules, RulesOf, ListOf

\* A line that is a rule of a list by its own words is a set or access-list line.
LEMMA FilterStarts ==
    ASSUME NEW l, FilterOf(l) # <<>>
    PROVE  l[1] \in {"access-list", "set"}
<1>1. \A w : Starts(l, <<w>>) => l[1] = w
  BY DEF Starts, IsPrefix
<1>2. \A w, x, y : Starts(l, <<w, x, y>>) => l[1] = w
  BY DEF Starts, IsPrefix
<1>3. \A w, x, y, z : Starts(l, <<w, x, y, z>>) => l[1] = w
  BY DEF Starts, IsPrefix
<1> QED  BY <1>1, <1>2, <1>3 DEF FilterOf

LEMMA ListIs ==
    ASSUME NEW s, FilterOf(TopLine(s)) # <<>>, Len(s.top) = 1
    PROVE  ListOf(s) = FilterOf(TopLine(s))
<1> DEFINE l == TopLine(s)
<1>1. l[1] \in {"access-list", "set"}
  BY FilterStarts
<1>2. \A w, x : Starts(l, <<w, x>>) => l[1] = w
  BY DEF Starts, IsPrefix
<1>3. ~Starts(l, <<"ip", "access-list">>)
  BY <1>1, <1>2
<1>4. s.top[1].words # <<"config", "firewall", "policy">>
  <2>1. SUFFICES ASSUME s.top[1].words = <<"config", "firewall", "policy">> PROVE FALSE
    OBVIOUS
  <2>2. l = Said(s.top[1])
    BY DEF TopLine
  <2>3. Said(s.top[1]) = <<"config", "firewall", "policy">>
    BY <2>1 DEF Said
  <2> QED  BY <1>1, <2>2, <2>3
<1> QED  BY <1>3, <1>4 DEF ListOf

\* Of two statements of one list, the one that is read ahead is the rule ahead.
LEMMA PlainRules ==
    ASSUME NEW cfg \in Seq(Sections), IsPlain(cfg), NEW a, NEW b, ReadAhead(Text(cfg), a, b),
           FilterOf(a) # <<>>
    PROVE  /\ Ahead(Rules(cfg), <<FilterOf(a), a>>, <<FilterOf(a), b>>)
           /\ \E S : Rules(cfg) \in Seq(S)
<1> DEFINE N == Len(cfg)
           top(i) == TopLine(cfg[i])
           rule(i) == <<ListOf(cfg[i]), top(i)>>
           S == {rule(i) : i \in 1 .. N}
           T == Seq(S)
           ss == [i \in DOMAIN cfg |-> RulesOf(cfg[i])]
           f == FilterOf(a)
<1>1. DOMAIN cfg = 1 .. N /\ N \in Nat
  OBVIOUS
<1>2. /\ DOMAIN Text(cfg) = DOMAIN cfg
      /\ \A i \in DOMAIN cfg : NormalizeLine(Text(cfg)[i]) = top(i)
  BY PlainText
<1>3. PICK k \in 1 .. N : top(k) = a /\ \A j \in 1 .. k : top(j) # b
  <2>1. PICK k \in DOMAIN cfg : /\ NormalizeLine(Text(cfg)[k]) = a
                                /\ \A j \in 1 .. k : NormalizeLine(Text(cfg)[j]) # b
    BY <1>2 DEF ReadAhead
  <2>2. \A j \in 1 .. k : j \in DOMAIN cfg
    BY <1>1
  <2> QED  BY <1>1, <1>2, <2>1, <2>2
<1>4. \A i \in 1 .. N : Len(cfg[i].top) = 1 /\ cfg[i].body = <<>>
  BY <1>1 DEF IsPlain
<1>5. ASSUME NEW i \in 1 .. N
      PROVE  ss[i] = IF ListOf(cfg[i]) = <<>> THEN <<>> ELSE <<rule(i)>>
  <2> DEFINE lines == <<top(i)>>
             list == ListOf(cfg[i])
  <2>1. ss[i] = IF list = <<>> THEN <<>> ELSE [j \in DOMAIN lines |-> <<list, lines[j]>>]
    BY <1>1, <1>4 DEF RulesOf
  <2>2. [j \in DOMAIN lines |-> <<list, lines[j]>>] = <<rule(i)>>
    <3> HIDE DEF list, top
    <3>1. [j \in DOMAIN lines |-> <<list, lines[j]>>] = <<<<list, top(i)>>>>
      OBVIOUS
    <3> QED  BY <3>1 DEF list
  <2> QED  BY <2>1, <2>2
<1>6. ss = [i \in 1 .. N |-> ss[i]] /\ DOMAIN ss = 1 .. N
  BY <1>1
<1>7. Rules(cfg) = FlattenSeq(ss)
  BY RulesAre
<1>8. \A i \in 1 .. N : rule(i) \in S
  OBVIOUS
<1>9. /\ \A x \in S : <<x>> \in T
      /\ <<>> \in T
  OBVIOUS
<1>10. \A x : ToSet(<<x>>) = {x} /\ x \notin ToSet(<<>>)
  BY DEF ToSet
<1>11. ListOf(cfg[k]) = f
  BY <1>3, <1>4, ListIs
<1> HIDE DEF ss, S, rule
<1>12. \A i \in 1 .. N : ss[i] \in T
  BY <1>5, <1>8, <1>9
<1>13. ss \in Seq(T)
  BY <1>1, <1>6, <1>12
<1>14. rule(k) = <<f, a>> /\ \A j \in 1 .. k : rule(j) # <<f, b>>
  BY <1>3, <1>11 DEF rule
<1> HIDE DEF f, top
<1>15. ASSUME NEW j \in 1 .. k
      PROVE  <<f, b>> \notin ToSet(ss[j])
  <2>1. j \in 1 .. N
    BY <1>1
  <2>2. ss[j] = <<>> \/ ss[j] = <<rule(j)>>
    BY <1>5, <2>1
  <2>3. rule(j) # <<f, b>>
    BY <1>14
  <2>4. ToSet(<<rule(j)>>) = {rule(j)} /\ <<f, b>> \notin ToSet(<<>>)
    BY <1>10
  <2> QED  BY <2>2, <2>3, <2>4
<1>16. ss[k] = <<rule(k)>>
  BY <1>5, <1>11 DEF f
<1>17. ss[k] \in T /\ <<f, a>> \in ToSet(ss[k]) /\ <<f, b>> \notin ToSet(ss[k])
  <2>1. k \in 1 .. k
    BY <1>1
  <2> QED  BY <1>10, <1>12, <1>14, <1>15, <1>16, <2>1
<1>18. Ahead(ss[k], <<f, a>>, <<f, b>>)
  BY <1>17, AheadAlone
<1>19. Ahead(FlattenSeq(ss), <<f, a>>, <<f, b>>)
  <2>1. \A j \in 1 .. k - 1 : <<f, b>> \notin ToSet(ss[j])
    <3>1. \A j \in 1 .. k - 1 : j \in 1 .. k
      BY <1>1
    <3> QED  BY <1>15, <3>1
  <2>2. k \in DOMAIN ss
    BY <1>6
  <2> DEFINE x == <<f, a>>
             y == <<f, b>>
  <2> HIDE DEF x, y
  <2>3. Ahead(ss[k], x, y) /\ \A j \in 1 .. k - 1 : y \notin ToSet(ss[j])
    BY <1>18, <2>1 DEF x, y
  <2>4. Ahead(FlattenSeq(ss), x, y)
    BY <1>13, <2>2, <2>3, FlatAhead DEF T
  <2> QED  BY <2>4 DEF x, y
<1>20. Rules(cfg) \in Seq(S)
  BY <1>7, <1>13, FlattenHolds DEF T
<1> QED  BY <1>7, <1>19, <1>20 DEF f

\* The statements of one access list or firewall object are rules of one list.
AreListed(parser, text) ==
    \A a, b, m \in Statements(text) :
        /\ a # b /\ IdOf(parser, a) = IdOf(parser, m) /\ IdOf(parser, b) = IdOf(parser, m)
        /\ ClassifySetLine(parser, m).kind \in {"acl", "firewall"}
        => FilterOf(a) # <<>> /\ FilterOf(a) = FilterOf(b)

LEMMA PlainStatements ==
    ASSUME NEW cfg \in Seq(Sections), IsPlain(cfg), NEW l
    PROVE  l \in Statements(Text(cfg)) <=> l # NoLine /\ \E i \in DOMAIN cfg : TopLine(cfg[i]) = l
<1> DEFINE text == Text(cfg)
<1>1. /\ DOMAIN text = DOMAIN cfg
      /\ \A i \in DOMAIN cfg : NormalizeLine(text[i]) = TopLine(cfg[i])
  BY PlainText
<1> HIDE DEF text
<1>2. l \in Statements(text) <=> l # NoLine /\ \E i \in DOMAIN text : NormalizeLine(text[i]) = l
  BY DEF Statements, Normal, ToSet
<1>3. l \in Statements(text) <=> l # NoLine /\ \E i \in DOMAIN cfg : TopLine(cfg[i]) = l
  BY <1>1, <1>2
<1> QED  BY <1>3 DEF text

\* What is meant tells the statements and the rules.
LEMMA MeaningTells ==
    ASSUME NEW old, NEW new, Meaning(old) = Meaning(new)
    PROVE  /\ \A i \in DOMAIN old :
                 TopLine(old[i]) # NoLine => \E j \in DOMAIN new : TopLine(new[j]) = TopLine(old[i])
           /\ Rules(old) = Rules(new)
<1> DEFINE says(s) == IF TopLine(s) = NoLine THEN {} ELSE {<<TopLine(s), ToSet(Lines(s))>>}
           M(cfg) == UNION {says(cfg[i]) : i \in DOMAIN cfg}
<1>1. \A cfg : Meaning(cfg) = <<M(cfg), Rules(cfg)>>
  BY DEF Meaning, InSections
<1> HIDE DEF M
<1>2. M(old) = M(new) /\ Rules(old) = Rules(new)
  BY <1>1
<1>3. ASSUME NEW i \in DOMAIN old, TopLine(old[i]) # NoLine
      PROVE  \E j \in DOMAIN new : TopLine(new[j]) = TopLine(old[i])
  <2> DEFINE x == <<TopLine(old[i]), ToSet(Lines(old[i]))>>
  <2>1. x \in says(old[i])
    BY <1>3
  <2>2. x \in M(new)
    BY <1>2, <2>1 DEF M
  <2>3. PICK j \in DOMAIN new : x \in says(new[j])
    BY <2>2 DEF M
  <2>4. x = <<TopLine(new[j]), ToSet(Lines(new[j]))>>
    BY <2>3
  <2> QED  BY <2>4
<1> QED  BY <1>2, <1>3

LEMMA SameMeaning ==
    ASSUME NEW parser, NEW old \in Seq(Sections), NEW new \in Seq(Sections), IsPlain(old), IsPlain(new),
           Meaning(old) = Meaning(new), AreListed(parser, Text(old))
    PROVE  Regrouped(parser, Text(old), Text(new))
<1> DEFINE was == Text(old)
           now == Text(new)
<1>1. \A l : l \in Statements(was) <=> l # NoLine /\ \E i \in DOMAIN old : TopLine(old[i]) = l
  BY PlainStatements
<1>2. \A l : l \in Statements(now) <=> l # NoLine /\ \E i \in DOMAIN new : TopLine(new[i]) = l
  BY PlainStatements
<1>3. /\ \A i \in DOMAIN old :
            TopLine(old[i]) # NoLine => \E j \in DOMAIN new : TopLine(new[j]) = TopLine(old[i])
      /\ Rules(old) = Rules(new)
  BY MeaningTells
<1>4. \A i \in DOMAIN new :
         TopLine(new[i]) # NoLine => \E j \in DOMAIN old : TopLine(old[j]) = TopLine(new[i])
  BY MeaningTells
<1>5. now \in Seq(RawLine)
  BY TextIs
<1> HIDE DEF was, now
<1>6. Statements(was) = Statements(now)
  <2>1. \A l : l \in Statements(was) => l \in Statements(now)
    BY <1>1, <1>2, <1>3
  <2>2. \A l : l \in Statements(now) => l \in Statements(was)
    BY <1>1, <1>2, <1>4
  <2> QED  BY <2>1, <2>2
<1>7. ASSUME NEW a \in Statements(was), NEW b \in Statements(was), NEW m \in Statements(was),
             IdOf(parser, a) = IdOf(parser, m), IdOf(parser, b) = IdOf(parser, m),
             ClassifySetLine(parser, m).kind \in {"acl", "firewall"}, ReadAhead(was, a, b)
      PROVE  ReadAhead(now, a, b)
  <2>1. a # b
    <3>1. PICK i \in DOMAIN was : NormalizeLine(was[i]) = a /\ \A j \in 1 .. i : NormalizeLine(was[j]) # b
      BY <1>7 DEF ReadAhead
    <3>2. was \in Seq(RawLine)
      BY TextIs DEF was
    <3>3. i \in 1 .. i
      BY <3>2
    <3> QED  BY <3>1, <3>3
  <2>2. FilterOf(a) # <<>> /\ FilterOf(a) = FilterOf(b)
    BY <1>7, <2>1 DEF AreListed, was
  <2> DEFINE x == <<FilterOf(a), a>>
             y == <<FilterOf(a), b>>
  <2>3. Ahead(Rules(old), x, y)
    BY <1>7, <2>2, PlainRules DEF was
  <2>4. ASSUME ReadAhead(now, b, a)
        PROVE  FALSE
    <3>1. /\ Ahead(Rules(new), <<FilterOf(b), b>>, <<FilterOf(b), a>>)
          /\ \E S : Rules(new) \in Seq(S)
      BY <2>2, <2>4, PlainRules DEF now
    <3>2. Ahead(Rules(new), y, x)
      BY <2>2, <3>1
    <3>3. PICK S : Rules(new) \in Seq(S)
      BY <3>1
    <3>4. Ahead(Rules(new), x, y)
      BY <1>3, <2>3
    <3> HIDE DEF x, y
    <3> QED  BY <3>2, <3>3, <3>4, AheadOneWay
  <2>5. a \in Normal(now) /\ a # NoLine
    BY <1>6, <1>7 DEF Statements
  <2> QED  BY <1>5, <2>1, <2>4, <2>5, ReadAheadEither
<1>8. Regrouped(parser, was, now)
  BY <1>6, <1>7 DEF Regrouped
<1> QED  BY <1>8 DEF was, now

\* Both configurations of a report are single statements of a set-style
\* dialect, those of one access list or firewall object the rules of one list.
StatementsAlone ==
    /\ report.parser \in SetStyle
    /\ IsPlain(before) /\ IsPlain(seen)
    /\ AreListed(report.parser, Text(before))

LEMMA StatementsNoise == ConfigInv /\ OrderIsSilent => (StatementsAlone => NoiseIsSilent)
<1> SUFFICES ASSUME ConfigInv, OrderIsSilent, StatementsAlone, Reviewed, Meaning(before) = Meaning(seen)
             PROVE  report.changes = <<>>
  BY DEF NoiseIsSilent
<1> DEFINE p == report.parser
<1>1. before \in Seq(Sections) /\ seen \in Seq(Sections)
  BY DEF ConfigInv
<1>2. IsPlain(before) /\ IsPlain(seen) /\ AreListed(p, Text(before))
  BY DEF StatementsAlone
<1>3. Regrouped(p, Text(before), Text(seen))
  <2> HIDE DEF p
  <2> QED  BY <1>1, <1>2, SameMeaning
<1> QED  BY <1>3 DEF OrderIsSilent, StatementsAlone

\* Where every line is a statement of its own, comments and the order of the
\* statements never make a report.
THEOREM NoiseMakesNoReport == Spec => [](StatementsAlone => NoiseIsSilent)
BY ConfigInvariant, OrderMakesNoReport, StatementsNoise, PTL

----------------------------------------------------------------------------
\* What a policy evaluation goes by

\* A line of a block of this kind states what a requirement asks for.
Tells(kind, l, r) ==
    \E f \in LineFacts(kind, l) :
        f[1] = r[1] /\ (IF r[1] = "firewall_property" THEN HasRun(f[2], r[3]) ELSE f[2] = r[3])
Met(parser, text, r) ==
    \E b \in ToSet(Parse(parser, text)) : \E l \in ToSet(b.lines) : Tells(b.kind, l, r)
Fails(parser, text, r) == (r[2] = "required") = ~Met(parser, text, r)
Named(r) == Append(r, IF r[2] = "required" THEN "missing" ELSE "present")
AreTriples(policy) == \A r \in policy : r = <<r[1], r[2], r[3]>>

LEMMA FrontIs ==
    ASSUME NEW S, NEW s \in Seq(S), NEW d \in S
    PROVE  SubSeq(Append(s, d), 1, Len(s)) = s
OBVIOUS

LEMMA NamedIs ==
    ASSUME NEW policy, AreTriples(policy), NEW r \in policy
    PROVE  SubSeq(Named(r), 1, 3) = r
<1> DEFINE d == IF r[2] = "required" THEN "missing" ELSE "present"
           S == {r[1], r[2], r[3], d}
           t == <<r[1], r[2], r[3]>>
<1>1. r = t
  BY DEF AreTriples
<1>2. d \in S /\ r[1] \in S /\ r[2] \in S /\ r[3] \in S
  OBVIOUS
<1>3. Named(r) = Append(t, d)
  BY <1>1 DEF Named
<1> HIDE DEF S, d
<1>4. t \in Seq(S) /\ Len(t) = 3
  BY <1>2
<1> HIDE DEF t
<1>5. SubSeq(Append(t, d), 1, Len(t)) = t
  BY <1>2, <1>4, FrontIs
<1> QED  BY <1>1, <1>3, <1>4, <1>5

LEMMA InventoryTells ==
    ASSUME NEW blocks, NEW r
    PROVE  Evidence(Inventory(blocks), r[1], r[3]) = {}
             <=> ~\E b \in ToSet(blocks) : \E l \in ToSet(b.lines) : Tells(b.kind, l, r)
<1> DEFINE facts == Inventory(blocks)
           fits(f) == f[1] = r[1] /\ (IF r[1] = "firewall_property" THEN HasRun(f[2], r[3]) ELSE f[2] = r[3])
<1>1. \A f : f \in facts <=> \E i \in DOMAIN blocks : \E l \in ToSet(blocks[i].lines) :
                                f \in LineFacts(blocks[i].kind, l)
  BY DEF Inventory
<1>2. Evidence(facts, r[1], r[3]) = {f[3] : f \in {g \in facts : fits(g)}}
  BY DEF Evidence
<1>3. \A kind, l : Tells(kind, l, r) <=> \E f \in LineFacts(kind, l) : fits(f)
  BY DEF Tells
<1>4. \A b : b \in ToSet(blocks) <=> \E i \in DOMAIN blocks : b = blocks[i]
  BY DEF ToSet
<1> HIDE DEF facts, fits
<1>5. Evidence(facts, r[1], r[3]) = {} <=> ~\E f \in facts : fits(f)
  BY <1>2
<1>6. (\E f \in facts : fits(f)) <=> \E b \in ToSet(blocks) : \E l \in ToSet(b.lines) : Tells(b.kind, l, r)
  <2>1. ASSUME NEW f \in facts, fits(f)
        PROVE  \E b \in ToSet(blocks) : \E l \in ToSet(b.lines) : Tells(b.kind, l, r)
    <3>1. PICK i \in DOMAIN blocks : \E l \in ToSet(blocks[i].lines) : f \in LineFacts(blocks[i].kind, l)
      BY <1>1
    <3>2. blocks[i] \in ToSet(blocks)
      BY <1>4
    <3> QED  BY <1>3, <2>1, <3>1, <3>2
  <2>2. ASSUME NEW b \in ToSet(blocks), NEW l \in ToSet(b.lines), Tells(b.kind, l, r)
        PROVE  \E f \in facts : fits(f)
    <3>1. PICK i \in DOMAIN blocks : b = blocks[i]
      BY <1>4
    <3>2. PICK f \in LineFacts(b.kind, l) : fits(f)
      BY <1>3, <2>2
    <3> QED  BY <1>1, <3>1, <3>2
  <2> QED  BY <2>1, <2>2
<1> QED  BY <1>5, <1>6 DEF facts

\* The findings of a text are those of the requirements it fails.
LEMMA SnapshotNames ==
    ASSUME NEW policy, NEW parser, NEW text, NEW x
    PROVE  x \in Identities(EvaluateSnapshot(policy, parser, text))
             <=> \E r \in policy : Fails(parser, text, r) /\ x = Named(r)
<1> DEFINE facts == Inventory(Parse(parser, text))
           evidence(r) == Evidence(facts, r[1], r[3])
           broken(r) == (r[2] = "required") = (evidence(r) = {})
           finding(r) == [identity |-> Named(r), evidence |-> evidence(r)]
<1>1. \A r : broken(r) <=> Fails(parser, text, r)
  <2>1. \A r : (evidence(r) = {}) <=> ~Met(parser, text, r)
    BY InventoryTells DEF Met
  <2> HIDE DEF evidence
  <2> QED  BY <2>1 DEF Fails
<1>2. EvaluateSnapshot(policy, parser, text) = {finding(r) : r \in {q \in policy : broken(q)}}
  BY DEF EvaluateSnapshot, EvaluateFacts, Named
<1> HIDE DEF broken, evidence
<1>3. \A r : finding(r).identity = Named(r)
  OBVIOUS
<1> HIDE DEF finding
<1> QED  BY <1>1, <1>2, <1>3 DEF Identities

\* What one evaluation has and another has not, told by its requirements.
LEMMA FindingsDiffer ==
    ASSUME NEW policy, AreTriples(policy), NEW parser, NEW text, NEW other, NEW r
    PROVE  r \in Verdicts({f \in EvaluateSnapshot(policy, parser, text) :
                             f.identity \notin Identities(EvaluateSnapshot(policy, parser, other))})
             <=> r \in policy /\ Fails(parser, text, r) /\ ~Fails(parser, other, r)
<1> DEFINE now == EvaluateSnapshot(policy, parser, text)
           then == EvaluateSnapshot(policy, parser, other)
<1>1. \A x : x \in Identities(now) <=> \E q \in policy : Fails(parser, text, q) /\ x = Named(q)
  BY SnapshotNames
<1>2. \A x : x \in Identities(then) <=> \E q \in policy : Fails(parser, other, q) /\ x = Named(q)
  BY SnapshotNames
<1>3. \A q \in policy : SubSeq(Named(q), 1, 3) = q
  BY NamedIs
<1> HIDE DEF now, then
<1>4. r \in Verdicts({f \in now : f.identity \notin Identities(then)})
        <=> \E x \in Identities(now) : x \notin Identities(then) /\ r = SubSeq(x, 1, 3)
  BY DEF Verdicts, Identities
<1>5. ASSUME NEW x \in Identities(now), x \notin Identities(then), r = SubSeq(x, 1, 3)
      PROVE  r \in policy /\ Fails(parser, text, r) /\ ~Fails(parser, other, r)
  <2>1. PICK q \in policy : Fails(parser, text, q) /\ x = Named(q)
    BY <1>1
  <2>2. r = q
    BY <1>3, <1>5, <2>1
  <2> QED  BY <1>2, <1>5, <2>1, <2>2
<1>6. ASSUME r \in policy, Fails(parser, text, r), ~Fails(parser, other, r)
      PROVE  \E x \in Identities(now) : x \notin Identities(then) /\ r = SubSeq(x, 1, 3)
  <2>1. Named(r) \in Identities(now) /\ r = SubSeq(Named(r), 1, 3)
    BY <1>1, <1>3, <1>6
  <2>2. Named(r) \notin Identities(then)
    <3>1. ASSUME NEW q \in policy, Named(r) = Named(q)
          PROVE  r = q
      BY <1>3, <1>6, <3>1
    <3> QED  BY <1>2, <1>6, <3>1
  <2> QED  BY <2>1, <2>2
<1> QED  BY <1>4, <1>5, <1>6 DEF now, then

\* The three comparisons of an evaluation.
TellsApart(policy, parser, current, predecessor, baseline, v) ==
    LET apart(findings, text, other) ==
            \A r : r \in Verdicts(findings)
                     <=> r \in policy /\ Fails(parser, text, r) /\ ~Fails(parser, other, r)
    IN  /\ apart(v.fromPredecessor.introduced, current, predecessor)
        /\ apart(v.fromPredecessor.resolved, predecessor, current)
        /\ apart(v.fromBaseline.introduced, current, baseline)

LEMMA VerdictTells ==
    ASSUME NEW policy, AreTriples(policy), NEW vendor, NEW current, NEW predecessor, NEW baseline
    PROVE  TellsApart(policy, SelectParser(vendor, current \o predecessor \o baseline),
                      current, predecessor, baseline,
                      EvaluatePolicy(policy, current, predecessor, baseline, vendor))
<1> DEFINE p == SelectParser(vendor, current \o predecessor \o baseline)
           now == EvaluateSnapshot(policy, p, current)
           then == EvaluateSnapshot(policy, p, predecessor)
           first == EvaluateSnapshot(policy, p, baseline)
           v == EvaluatePolicy(policy, current, predecessor, baseline, vendor)
<1>1. v = Evaluation(now, then, first)
  BY DEF EvaluatePolicy, EvaluateTexts
<1> HIDE DEF p, v
<1>2. \A r : r \in Verdicts({f \in now : f.identity \notin Identities(then)})
               <=> r \in policy /\ Fails(p, current, r) /\ ~Fails(p, predecessor, r)
  BY FindingsDiffer
<1>3. \A r : r \in Verdicts({f \in then : f.identity \notin Identities(now)})
               <=> r \in policy /\ Fails(p, predecessor, r) /\ ~Fails(p, current, r)
  BY FindingsDiffer
<1>4. \A r : r \in Verdicts({f \in now : f.identity \notin Identities(first)})
               <=> r \in policy /\ Fails(p, current, r) /\ ~Fails(p, baseline, r)
  BY FindingsDiffer
<1> HIDE DEF now, then, first
<1>5. /\ v.fromPredecessor.introduced = {f \in now : f.identity \notin Identities(then)}
      /\ v.fromPredecessor.resolved = {f \in then : f.identity \notin Identities(now)}
      /\ v.fromBaseline.introduced = {f \in now : f.identity \notin Identities(first)}
  BY <1>1 DEF Evaluation, ComparePolicy
<1>6. TellsApart(policy, p, current, predecessor, baseline, v)
  BY <1>2, <1>3, <1>4, <1>5 DEF TellsApart
<1> QED  BY <1>6 DEF p, v

\* Only firewall properties depend on the kind of the block a line is in.
LEMMA KindIsNoMatter ==
    ASSUME NEW kind, NEW other, NEW l, NEW r, r[1] # "firewall_property", Tells(kind, l, r)
    PROVE  Tells(other, l, r)
<1> DEFINE rest ==
               Facts("vlan", VlanIDs(l) \cup
                            (IF Starts(l, <<"vlan">>) /\ Len(l) > 1 THEN {VlanWord(l[2])} ELSE {}), l)
               \cup Facts("route", IF IsRouteLine(l) THEN {RoutePrefix(l)} ELSE {}, l)
               \cup Facts("management_service", ManagementServices(l), l)
               \cup Facts("aaa", IF IsAAAAuthLine(l) THEN {l} ELSE {}, l)
           rules(k) == IF k \in {"acl", "firewall"} /\ ~(Starts(l, <<"ip", "access-list">>) /\ Len(l) > 2)
                       THEN {l} ELSE {}
           fits(f) == f[1] = r[1] /\ (IF r[1] = "firewall_property" THEN HasRun(f[2], r[3]) ELSE f[2] = r[3])
<1>1. \A k : LineFacts(k, l) = IF IsNegatedCommand(l) THEN {} ELSE
                                      rest \cup Facts("firewall_property", rules(k), l)
  BY DEF LineFacts
<1>2. \A f, S : f \in Facts("firewall_property", S, l) => f[1] = "firewall_property"
  BY DEF Facts
<1>3. \A k : Tells(k, l, r) <=> \E f \in LineFacts(k, l) : fits(f)
  BY DEF Tells
<1>4. \A f : fits(f) => f[1] = r[1]
  OBVIOUS
<1> HIDE DEF rest, rules, fits
<1>5. PICK f \in LineFacts(kind, l) : fits(f)
  BY <1>3
<1>6. ~IsNegatedCommand(l) /\ f \in rest
  BY <1>1, <1>2, <1>4, <1>5
<1> QED  BY <1>1, <1>3, <1>5, <1>6

\* A text says what a requirement asks for, and breaks the requirement.
Says(text, r) == \E l \in Statements(text) : Tells("", l, r)
Breaks(text, r) == (r[2] = "required") = ~Says(text, r)

LEMMA LinesTell ==
    ASSUME NEW parser, parser # "fortinet", NEW R, NEW text \in Seq(R), NEW r, r[1] # "firewall_property"
    PROVE  Fails(parser, text, r) <=> Breaks(text, r)
<1> DEFINE blocks == Parse(parser, text)
           L == Normal(text)
<1>1. /\ \A l : Quotes(blocks, l) => l \in L /\ l # NoLine
      /\ \A l \in L : Quotable(parser, l) => Quotes(blocks, l)
  BY ParseQuotes
<1>2. \A l \in L : l # NoLine => Quotable(parser, l)
  BY DEF Quotable
<1> HIDE DEF blocks, L
<1>3. Met(parser, text, r) <=> \E b \in ToSet(blocks) : \E l \in ToSet(b.lines) : Tells(b.kind, l, r)
  BY DEF Met, blocks
<1>4. Says(text, r) <=> \E l \in L : l # NoLine /\ Tells("", l, r)
  BY DEF Says, Statements, L
<1>5. Met(parser, text, r) => Says(text, r)
  <2>1. ASSUME NEW b \in ToSet(blocks), NEW l \in ToSet(b.lines), Tells(b.kind, l, r)
        PROVE  Says(text, r)
    <3>1. Quotes(blocks, l)
      BY DEF Quotes
    <3>2. Tells("", l, r)
      BY <2>1, KindIsNoMatter
    <3> QED  BY <1>1, <1>4, <3>1, <3>2
  <2> QED  BY <1>3, <2>1
<1>6. Says(text, r) => Met(parser, text, r)
  <2>1. ASSUME NEW l \in L, l # NoLine, Tells("", l, r)
        PROVE  Met(parser, text, r)
    <3>1. PICK b \in ToSet(blocks) : l \in ToSet(b.lines)
      BY <1>1, <1>2, <2>1 DEF Quotes
    <3>2. Tells(b.kind, l, r)
      BY <2>1, KindIsNoMatter
    <3> QED  BY <1>3, <3>1, <3>2
  <2> QED  BY <1>4, <2>1
<1>7. Met(parser, text, r) <=> Says(text, r)
  BY <1>5, <1>6
<1> QED  BY <1>7 DEF Fails, Breaks

VerdictInv ==
    /\ ConfigInv
    /\ before # seen =>
          verdict = EvaluatePolicy(family.policy, Text(seen), Text(before), Text(family.base), family.vendor)

LEMMA VerdictInvariant == Spec => []VerdictInv
<1>1. Init => VerdictInv
  BY ConfigInvInit DEF Init, VerdictInv
<1>2. VerdictInv /\ [Next]_vars => VerdictInv'
  <2> SUFFICES ASSUME VerdictInv, [Next]_vars PROVE VerdictInv'
    OBVIOUS
  <2>1. ConfigInv'
    BY ConfigInvNext DEF VerdictInv
  <2>2. CASE Edit
    BY <2>1, <2>2 DEF Edit, VerdictInv
  <2>3. CASE Review
    BY <2>1, <2>3 DEF Review, VerdictInv
  <2>4. CASE UNCHANGED vars
    BY <2>1, <2>4 DEF vars, VerdictInv
  <2> QED  BY <2>2, <2>3, <2>4 DEF Next
<1> QED  BY <1>1, <1>2, PTL DEF Spec

\* The parser that reads all three texts of an evaluation.
VerdictParser == SelectParser(family.vendor, Text(seen) \o Text(before) \o Text(family.base))

LEMMA VerdictApart == VerdictInv =>
    (Reviewed => TellsApart(family.policy, VerdictParser, Text(seen), Text(before), Text(family.base), verdict))
<1> SUFFICES ASSUME VerdictInv, Reviewed
             PROVE  TellsApart(family.policy, VerdictParser, Text(seen), Text(before),
                                Text(family.base), verdict)
  OBVIOUS
<1> DEFINE policy == family.policy
           now == Text(seen)
           then == Text(before)
           first == Text(family.base)
           vendor == family.vendor
<1>1. verdict = EvaluatePolicy(policy, now, then, first, vendor)
  BY DEF VerdictInv, Reviewed
<1>2. AreTriples(policy)
  BY FamilyAssumption DEF VerdictInv, ConfigInv, AreTriples
<1>3. VerdictParser = SelectParser(vendor, now \o then \o first)
  BY DEF VerdictParser
<1> HIDE DEF policy, now, then, first, vendor
<1>4. TellsApart(policy, VerdictParser, now, then, first, verdict)
  BY <1>1, <1>2, <1>3, VerdictTells
<1> QED  BY <1>4 DEF policy, now, then, first

LEMMA VerdictTexts == VerdictInv =>
    Text(seen) \in Seq(RawLine) /\ Text(before) \in Seq(RawLine) /\ Text(family.base) \in Seq(RawLine)
BY TextIs, FamilyAssumption DEF VerdictInv, ConfigInv

\* A requirement is introduced when the lines of the new text break it and those
\* of the reference do not, and resolved the other way round, in whatever blocks
\* the lines are.
VerdictIsOfLines ==
    Reviewed /\ VerdictParser # "fortinet" =>
        \A r \in {q \in family.policy : q[1] # "firewall_property"} :
            /\ r \in Verdicts(verdict.fromPredecessor.introduced)
                 <=> Breaks(Text(seen), r) /\ ~Breaks(Text(before), r)
            /\ r \in Verdicts(verdict.fromPredecessor.resolved)
                 <=> Breaks(Text(before), r) /\ ~Breaks(Text(seen), r)
            /\ r \in Verdicts(verdict.fromBaseline.introduced)
                 <=> Breaks(Text(seen), r) /\ ~Breaks(Text(family.base), r)

LEMMA VerdictLines == VerdictInv => VerdictIsOfLines
<1> SUFFICES ASSUME VerdictInv, Reviewed, VerdictParser # "fortinet",
                    NEW r \in family.policy, r[1] # "firewall_property"
             PROVE  /\ r \in Verdicts(verdict.fromPredecessor.introduced)
                         <=> Breaks(Text(seen), r) /\ ~Breaks(Text(before), r)
                    /\ r \in Verdicts(verdict.fromPredecessor.resolved)
                         <=> Breaks(Text(before), r) /\ ~Breaks(Text(seen), r)
                    /\ r \in Verdicts(verdict.fromBaseline.introduced)
                         <=> Breaks(Text(seen), r) /\ ~Breaks(Text(family.base), r)
  BY DEF VerdictIsOfLines
<1> DEFINE p == VerdictParser
           R == RawLine
           now == Text(seen)
           then == Text(before)
           first == Text(family.base)
<1>1. TellsApart(family.policy, p, now, then, first, verdict)
  BY VerdictApart
<1>2. now \in Seq(R) /\ then \in Seq(R) /\ first \in Seq(R)
  BY VerdictTexts
<1>3. p # "fortinet"
  OBVIOUS
<1> HIDE DEF p, R, now, then, first
<1>4. Fails(p, now, r) <=> Breaks(now, r)
  BY <1>2, <1>3, LinesTell
<1>5. Fails(p, then, r) <=> Breaks(then, r)
  BY <1>2, <1>3, LinesTell
<1>6. Fails(p, first, r) <=> Breaks(first, r)
  BY <1>2, <1>3, LinesTell
<1>7. /\ r \in Verdicts(verdict.fromPredecessor.introduced) <=> Fails(p, now, r) /\ ~Fails(p, then, r)
      /\ r \in Verdicts(verdict.fromPredecessor.resolved) <=> Fails(p, then, r) /\ ~Fails(p, now, r)
      /\ r \in Verdicts(verdict.fromBaseline.introduced) <=> Fails(p, now, r) /\ ~Fails(p, first, r)
  BY <1>1 DEF TellsApart
<1> QED  BY <1>4, <1>5, <1>6, <1>7 DEF now, then, first

\* What a policy evaluation finds new or gone is decided by the lines of the
\* texts alone, whatever the policy, the device and its edits.
THEOREM VerdictsAreOfLines == Spec => []VerdictIsOfLines
BY VerdictInvariant, VerdictLines, PTL

\* The reference of VerdictMatchesTexts, one line at a time: the line states
\* what the requirement asks for.
States(l, r, rules) ==
    LET allows(v) == \E i \in 2 .. Len(l) : /\ l[i - 1] = "vlan" /\ l[i] \in DOMAIN VlanParts
                                            /\ \E p \in VlanParts[l[i]] :
                                                 /\ p[1] <= v[1] /\ v[1] <= p[2]
                                                 /\ p[2] - p[1] <= MaxVlanRange
    IN  CASE r[1] = "vlan" -> allows(r[3])
          [] r[1] = "route" -> \E i \in 2 .. Len(l) : l[i - 1] = "route" /\ Starts(From(l, i), r[3])
          [] r[1] = "management_service" -> r[3] \in {"ssh", "telnet"} /\ HasWord(l, {r[3]})
          [] r[1] = "aaa" -> l = r[3]
          [] OTHER -> HasRun(l, r[3]) /\ l \in rules
StandingLines(cfg) == {l \in LinesOf(cfg) : ~IsNegatedCommand(l)}
RuleLines(cfg) == {rule[2] : rule \in ToSet(Rules(cfg))}

LEMMA BrokenIs ==
    ASSUME NEW cfg, NEW r
    PROVE  r \in Broken(cfg) <=>
             /\ r \in family.policy
             /\ (r[2] = "required") = ~\E l \in StandingLines(cfg) : States(l, r, RuleLines(cfg))
<1> DEFINE lines == StandingLines(cfg)
           rules == RuleLines(cfg)
<1>1. Broken(cfg) = BrokenBy(lines, rules)
  BY DEF Broken, StandingLines, RuleLines
<1> HIDE DEF lines, rules
<1>2. r \in BrokenBy(lines, rules) <=>
        r \in family.policy /\ ((r[2] = "required") = ~\E l \in lines : States(l, r, rules))
  BY DEF BrokenBy, States
<1> QED  BY <1>1, <1>2 DEF lines, rules

\* The blocks of a configuration read its lines as they are written: a line of
\* a block tells a requirement when it states it, and one that states it is
\* quotable.
ReadAsWritten(parser, cfg) ==
    \A r \in family.policy :
        /\ \A l \in StandingLines(cfg) : States(l, r, RuleLines(cfg)) => Quotable(parser, l)
        /\ \A b \in ToSet(Parse(parser, Text(cfg))) : \A l \in ToSet(b.lines) :
              Tells(b.kind, l, r) <=> l \in StandingLines(cfg) /\ States(l, r, RuleLines(cfg))

LEMMA FailsIsBroken ==
    ASSUME NEW parser, NEW cfg, Text(cfg) \in Seq(RawLine), ReadAsWritten(parser, cfg), NEW r
    PROVE  r \in Broken(cfg) <=> r \in family.policy /\ Fails(parser, Text(cfg), r)
<1> DEFINE text == Text(cfg)
           blocks == Parse(parser, text)
           L == Normal(text)
           lines == StandingLines(cfg)
           rules == RuleLines(cfg)
<1>1. text \in Seq(RawLine)
  OBVIOUS
<1>2. \A l \in L : Quotable(parser, l) => Quotes(blocks, l)
  <2> HIDE DEF text
  <2> QED  BY <1>1, ParseQuotes
<1>3. ASSUME NEW l \in lines
      PROVE  l \in L
  <2>1. PICK raw \in ToSet(text) : l = Said(raw)
    BY <1>3 DEF StandingLines, LinesOf
  <2>2. l # NoLine
    BY <1>3 DEF StandingLines, LinesOf
  <2> QED  BY <2>1, <2>2, SaidIsNormal DEF Normal
<1>4. r \in Broken(cfg) <=>
        r \in family.policy /\ ((r[2] = "required") = ~\E l \in lines : States(l, r, rules))
  BY BrokenIs
<1>5. r \in family.policy =>
        /\ \A l \in lines : States(l, r, rules) => Quotable(parser, l)
        /\ \A b \in ToSet(blocks) : \A l \in ToSet(b.lines) :
              Tells(b.kind, l, r) <=> l \in lines /\ States(l, r, rules)
  BY DEF ReadAsWritten
<1>6. Met(parser, text, r) <=> \E b \in ToSet(blocks) : \E l \in ToSet(b.lines) : Tells(b.kind, l, r)
  BY DEF Met
<1> HIDE DEF text, blocks, L, lines, rules
<1>7. ASSUME r \in family.policy
      PROVE  Met(parser, text, r) <=> \E l \in lines : States(l, r, rules)
  <2>1. Met(parser, text, r) => \E l \in lines : States(l, r, rules)
    BY <1>5, <1>6, <1>7
  <2>2. ASSUME NEW l \in lines, States(l, r, rules)
        PROVE  Met(parser, text, r)
    <3>1. PICK b \in ToSet(blocks) : l \in ToSet(b.lines)
      BY <1>2, <1>3, <1>5, <1>7, <2>2 DEF Quotes
    <3>2. Tells(b.kind, l, r)
      BY <1>5, <1>7, <2>2, <3>1
    <3> QED  BY <1>6, <3>1, <3>2
  <2> QED  BY <2>1, <2>2
<1>8. r \in Broken(cfg) <=> r \in family.policy /\ Fails(parser, text, r)
  BY <1>4, <1>7 DEF Fails
<1> QED  BY <1>8 DEF text

\* All three texts of an evaluation are read as they are written.
TextsAreRead ==
    /\ ReadAsWritten(VerdictParser, seen)
    /\ ReadAsWritten(VerdictParser, before)
    /\ ReadAsWritten(VerdictParser, family.base)

LEMMA VerdictMatches == VerdictInv => (TextsAreRead => VerdictMatchesTexts)
<1> SUFFICES ASSUME VerdictInv, TextsAreRead, Reviewed
             PROVE  VerdictIs(Broken(seen), Broken(before), Broken(family.base))
  BY DEF VerdictMatchesTexts
<1> DEFINE p == VerdictParser
           now == Text(seen)
           then == Text(before)
           first == Text(family.base)
           base == family.base
<1>1. TellsApart(family.policy, p, now, then, first, verdict)
  BY VerdictApart
<1>2. Text(seen) \in Seq(RawLine) /\ Text(before) \in Seq(RawLine) /\ Text(base) \in Seq(RawLine)
  BY VerdictTexts
<1>3. ReadAsWritten(p, seen) /\ ReadAsWritten(p, before) /\ ReadAsWritten(p, base)
  BY DEF TextsAreRead
<1> HIDE DEF p, base
<1>4. \A r : r \in Broken(seen) <=> r \in family.policy /\ Fails(p, now, r)
  BY <1>2, <1>3, FailsIsBroken
<1>5. \A r : r \in Broken(before) <=> r \in family.policy /\ Fails(p, then, r)
  BY <1>2, <1>3, FailsIsBroken
<1>6. \A r : r \in Broken(base) <=> r \in family.policy /\ Fails(p, first, r)
  <2>1. first = Text(base)
    BY DEF base
  <2> HIDE DEF first
  <2> QED  BY <1>2, <1>3, <2>1, FailsIsBroken
<1> HIDE DEF now, then, first
<1>7. \A r : /\ r \in Verdicts(verdict.fromPredecessor.introduced)
                  <=> r \in family.policy /\ Fails(p, now, r) /\ ~Fails(p, then, r)
             /\ r \in Verdicts(verdict.fromPredecessor.resolved)
                  <=> r \in family.policy /\ Fails(p, then, r) /\ ~Fails(p, now, r)
             /\ r \in Verdicts(verdict.fromBaseline.introduced)
                  <=> r \in family.policy /\ Fails(p, now, r) /\ ~Fails(p, first, r)
  BY <1>1 DEF TellsApart
<1>8. Verdicts(verdict.fromPredecessor.introduced) = Broken(seen) \ Broken(before)
  BY <1>4, <1>5, <1>7
<1>9. Verdicts(verdict.fromPredecessor.resolved) = Broken(before) \ Broken(seen)
  BY <1>4, <1>5, <1>7
<1>10. Verdicts(verdict.fromBaseline.introduced) = Broken(seen) \ Broken(base)
  BY <1>4, <1>6, <1>7
<1> QED  BY <1>8, <1>9, <1>10 DEF VerdictIs, base

\* The verdict is what the texts say, requirement for requirement, where the
\* blocks read the lines as they are written.
THEOREM VerdictsMatchTexts == Spec => [](TextsAreRead => VerdictMatchesTexts)
BY VerdictInvariant, VerdictMatches, PTL

----------------------------------------------------------------------------
\* A dangling reference is used and not defined

\* A line names what a reference is about.
Uses(l, r) ==
    \/ \E iface : r \in AclRefs(l, iface) \cup RouteMapRefs(l, iface)
    \/ r.kind = "prefix-list" /\ r.name \in MatchedPrefixList(l)

LEMMA RefsAreUsed ==
    ASSUME NEW blocks, NEW r \in InterfaceRefs(blocks)
    PROVE  \E l : Quotes(blocks, l) /\ Uses(l, r)
<1> DEFINE linesOf(i) == IF InterfaceName(blocks[i]) = <<>> THEN {} ELSE ToSet(blocks[i].lines)
           maps == UNION {UNION {RouteMapRefs(l, InterfaceName(blocks[i])) : l \in linesOf(i)}
                            : i \in DOMAIN blocks}
           acls == UNION {UNION {AclRefs(l, InterfaceName(blocks[i])) : l \in linesOf(i)}
                            : i \in DOMAIN blocks}
           viaMap(rm) == {Ref("prefix-list", p, rm.iface, "", rm.name) :
                            p \in UNION {MatchedPrefixList(l) : l \in RouteMapBody(blocks, rm.name)}}
           via == UNION {viaMap(rm) : rm \in maps}
<1>1. InterfaceRefs(blocks) = acls \cup maps \cup via
  BY DEF InterfaceRefs
<1>2. \A i \in DOMAIN blocks : \A l \in ToSet(blocks[i].lines) : Quotes(blocks, l)
  BY DEF Quotes, ToSet
<1>3. CASE r \in acls
  <2>1. PICK i \in DOMAIN blocks : \E l \in linesOf(i) : r \in AclRefs(l, InterfaceName(blocks[i]))
    BY <1>3
  <2>2. PICK l \in linesOf(i) : r \in AclRefs(l, InterfaceName(blocks[i]))
    BY <2>1
  <2>3. l \in ToSet(blocks[i].lines)
    BY <2>2
  <2> QED  BY <1>2, <2>2, <2>3 DEF Uses
<1>4. CASE r \in maps
  <2>1. PICK i \in DOMAIN blocks : \E l \in linesOf(i) : r \in RouteMapRefs(l, InterfaceName(blocks[i]))
    BY <1>4
  <2>2. PICK l \in linesOf(i) : r \in RouteMapRefs(l, InterfaceName(blocks[i]))
    BY <2>1
  <2>3. l \in ToSet(blocks[i].lines)
    BY <2>2
  <2> QED  BY <1>2, <2>2, <2>3 DEF Uses
<1>5. CASE r \in via
  <2>1. PICK rm \in maps : r \in viaMap(rm)
    BY <1>5
  <2>2. PICK l \in RouteMapBody(blocks, rm.name) :
               \E p \in MatchedPrefixList(l) : r = Ref("prefix-list", p, rm.iface, "", rm.name)
    <3> HIDE DEF maps
    <3> QED  BY <2>1
  <2>3. r.kind = "prefix-list" /\ r.name \in MatchedPrefixList(l)
    <3>1. PICK p \in MatchedPrefixList(l) : r = Ref("prefix-list", p, rm.iface, "", rm.name)
      BY <2>2
    <3>2. \A iface, name : Ref("prefix-list", p, iface, "", name).kind = "prefix-list"
                             /\ Ref("prefix-list", p, iface, "", name).name = p
      BY DEF Ref
    <3> QED  BY <3>1, <3>2
  <2>4. PICK i \in DOMAIN blocks : l \in ToSet(blocks[i].lines)
    BY DEF RouteMapBody
  <2> QED  BY <1>2, <2>3, <2>4 DEF Uses
<1> QED  BY <1>1, <1>3, <1>4, <1>5

\* A reported reference is used by a line of the new text and defined by none.
DanglingIsUndefined ==
    Reviewed =>
        \A r \in report.dangling :
            /\ \E l \in Statements(Text(seen)) : Uses(l, r)
            /\ \A l \in Statements(Text(seen)) :
                  Quotable(report.parser, l) => <<r.kind, r.name>> \notin DefinedByLine(l)

LEMMA DanglingLines ==
    ASSUME NEW R, NEW old, NEW new \in Seq(R), NEW vendor, NEW a, a = AnalyzeContent(old, new, vendor),
           NEW r \in a.dangling
    PROVE  /\ \E l \in Statements(new) : Uses(l, r)
           /\ \A l \in Statements(new) : Quotable(a.parser, l) => <<r.kind, r.name>> \notin DefinedByLine(l)
<1> DEFINE p == a.parser
           blocks == Parse(p, new)
           L == Normal(new)
<1>1. /\ \A l : Quotes(blocks, l) => l \in L /\ l # NoLine
      /\ \A l \in L : Quotable(p, l) => Quotes(blocks, l)
  BY ParseQuotes
<1>2. a.dangling = NewlyDangling(Parse(p, old), blocks)
  BY AnalysisHolds
<1> HIDE DEF blocks, L
<1>3. r \in InterfaceRefs(blocks) /\ <<r.kind, r.name>> \notin DefinedNames(blocks)
  BY <1>2 DEF NewlyDangling, DanglingRefs
<1>4. PICK l : Quotes(blocks, l) /\ Uses(l, r)
  BY <1>3, RefsAreUsed
<1>5. \A m : m \in Statements(new) <=> m \in L /\ m # NoLine
  BY DEF Statements, L
<1>6. l \in Statements(new)
  BY <1>1, <1>4, <1>5
<1>7. ASSUME NEW m \in Statements(new), Quotable(p, m)
      PROVE  <<r.kind, r.name>> \notin DefinedByLine(m)
  <2>1. PICK b \in ToSet(blocks) : m \in ToSet(b.lines)
    BY <1>1, <1>5, <1>7 DEF Quotes
  <2>2. DefinedByLine(m) \subseteq DefinedNames(blocks)
    BY <2>1 DEF DefinedNames, ToSet
  <2> QED  BY <1>3, <2>2
<1> QED  BY <1>4, <1>6, <1>7

LEMMA ReportDangling == ConfigInv => DanglingIsUndefined
<1> SUFFICES ASSUME ConfigInv, Reviewed, NEW x \in report.dangling
             PROVE  /\ \E l \in Statements(Text(seen)) : Uses(l, x)
                    /\ \A l \in Statements(Text(seen)) :
                          Quotable(report.parser, l) => <<x.kind, x.name>> \notin DefinedByLine(l)
  BY DEF DanglingIsUndefined
<1> DEFINE old == Text(before)
           new == Text(seen)
           R == RawLine
           r == report
           v == family.vendor
<1>1. new \in Seq(R)
  BY TextIs DEF ConfigInv
<1>2. r = AnalyzeContent(old, new, v)
  BY DEF ConfigInv, Reviewed
<1>3. x \in r.dangling
  OBVIOUS
<1> HIDE DEF old, new, R, r, v
<1>4. /\ \E l \in Statements(new) : Uses(l, x)
      /\ \A l \in Statements(new) : Quotable(r.parser, l) => <<x.kind, x.name>> \notin DefinedByLine(l)
  BY <1>1, <1>2, <1>3, DanglingLines
<1> QED  BY <1>4 DEF r, new

\* No report calls a reference dangling that a line of the text defines, or that
\* no line of it uses.
THEOREM DanglingIsReal == Spec => []DanglingIsUndefined
BY ConfigInvariant, ReportDangling, PTL

----------------------------------------------------------------------------
\* A global setting that got another value

\* A block that is there on both sides is quoted from both.
LEMMA FatePairs ==
    ASSUME NEW B, NEW b, NEW after \in Seq(B), NEW c \in ToSet(Fate(b, after))
    PROVE  /\ c.before = b.lines
           /\ \/ c.after = <<>> /\ \A y \in ToSet(after) : y.id # b.id
              \/ \E y \in ToSet(after) : y.id = b.id /\ c.after = y.lines
<1> DEFINE i == PlaceOf(after, b.id)
           a == after[i]
           gone == Change("removed", b, b.lines, <<>>)
           new == Change("changed", a, b.lines, a.lines)
<1>1. \A x : ToSet(<<x>>) = {x} /\ x \notin ToSet(<<>>)
  BY DEF ToSet
<1>2. CASE i = 0
  <2>1. c = gone
    BY <1>1, <1>2 DEF Fate, HasBlock
  <2>2. c.before = b.lines /\ c.after = <<>>
    BY <2>1 DEF Change
  <2>3. \A y \in ToSet(after) : y.id # b.id
    BY <1>2, PlaceIsFirst DEF ToSet
  <2> QED  BY <2>2, <2>3
<1>3. CASE i # 0
  <2>1. i \in DOMAIN after /\ a.id = b.id
    BY <1>3, PlaceIsFirst
  <2>2. a \in ToSet(after)
    BY <2>1 DEF ToSet
  <2>3. Fate(b, after) \in {<<>>, <<new>>}
    BY <1>3 DEF Fate, HasBlock, BlockWith, Changed
  <2>4. c = new
    BY <1>1, <2>3
  <2>5. c.before = b.lines /\ c.after = a.lines
    BY <2>4 DEF Change
  <2> HIDE DEF a
  <2> QED  BY <2>1, <2>2, <2>5
<1> QED  BY <1>2, <1>3

\* A line of the text that stands by itself is in one block of each side, of one
\* id: a report quotes it as gone exactly when it quotes it as new.
LEMMA StandingLine ==
    ASSUME NEW R, NEW old \in Seq(R), NEW new \in Seq(R), NEW vendor,
            NEW a, a = AnalyzeContent(old, new, vendor),
           a.parser # "fortinet", a.parser \notin SetStyle,
           NEW x, x \in Normal(old), x \in Normal(new), x # NoLine,
           x \notin Nested(old), x \notin Nested(new)
    PROVE  (\E c \in ToSet(a.changes) : x \in ToSet(c.before))
              <=> \E c \in ToSet(a.changes) : x \in ToSet(c.after)
<1> DEFINE p == a.parser
           earlier == Parse(p, old)
           later == Parse(p, new)
           home == Fallback(x).id
<1>1. a.changes = DiffBlocks(earlier, later)
  BY AnalysisHolds
<1>2. PICK B : earlier \in Seq(B) /\ Distinct(earlier) /\ later \in Seq(B) /\ Distinct(later)
  BY AnalysisTypes
<1>3. p # "fortinet" /\ p \notin SetStyle
  OBVIOUS
<1> HIDE DEF p
<1>4. /\ \A b \in ToSet(earlier) : x \in ToSet(b.lines) => b.id = home
      /\ \A y \in ToSet(later) : x \in ToSet(y.lines) => y.id = home
  BY <1>3, FilledParse DEF IsFilled
<1>5. Quotable(p, x)
  BY <1>3 DEF Quotable
<1>6. Quotes(earlier, x) /\ Quotes(later, x)
  BY <1>5, ParseQuotes
<1> HIDE DEF earlier, later, home
<1>7. PICK b \in ToSet(earlier) : x \in ToSet(b.lines)
  BY <1>6 DEF Quotes
<1>8. PICK y \in ToSet(later) : x \in ToSet(y.lines)
  BY <1>6 DEF Quotes
<1>9. b.id = home /\ y.id = home
  BY <1>4, <1>7, <1>8
<1>10. /\ \A u, v \in ToSet(earlier) : u.id = v.id => u = v
       /\ \A u, v \in ToSet(later) : u.id = v.id => u = v
  BY <1>2 DEF Distinct, ToSet
<1>11. x \notin ToSet(<<>>)
  BY DEF ToSet
<1>12. ASSUME NEW c \in ToSet(a.changes)
       PROVE  x \in ToSet(c.before) <=> x \in ToSet(c.after)
  <2>1. CASE \E u \in ToSet(earlier) : c \in ToSet(Fate(u, later))
    <3>1. PICK u \in ToSet(earlier) : c \in ToSet(Fate(u, later))
      BY <2>1
    <3>2. /\ c.before = u.lines
          /\ \/ c.after = <<>> /\ \A v \in ToSet(later) : v.id # u.id
             \/ \E v \in ToSet(later) : v.id = u.id /\ c.after = v.lines
      BY <1>2, <3>1, FatePairs
    <3>3. CASE c.after = <<>> /\ \A v \in ToSet(later) : v.id # u.id
      BY <1>4, <1>8, <1>9, <1>11, <3>2, <3>3
    <3>4. CASE \E v \in ToSet(later) : v.id = u.id /\ c.after = v.lines
      <4>1. PICK v \in ToSet(later) : v.id = u.id /\ c.after = v.lines
        BY <3>4
      <4>2. x \in ToSet(u.lines) <=> u.id = home
        BY <1>4, <1>7, <1>9, <1>10
      <4>3. x \in ToSet(v.lines) <=> v.id = home
        BY <1>4, <1>8, <1>9, <1>10
      <4> QED  BY <3>2, <4>1, <4>2, <4>3
    <3> QED  BY <3>2, <3>3, <3>4
  <2>2. CASE \E v \in ToSet(later) : c \in ToSet(Arrival(v, earlier))
    <3>1. PICK v \in ToSet(later) : c \in ToSet(Arrival(v, earlier))
      BY <2>2
    <3>2. c.before = <<>> /\ c.after = v.lines
      BY <3>1, ArrivalIsReal
    <3>3. v \in B
      BY <1>2 DEF ToSet
    <3>4. ~\E u \in ToSet(earlier) : u.id = v.id
      BY <1>2, <3>1, <3>3, ArrivalOf
    <3>5. x \notin ToSet(v.lines)
      BY <1>4, <1>7, <1>9, <3>4
    <3> QED  BY <1>11, <3>2, <3>5
  <2>3. \A d : d \in ToSet(DiffBlocks(earlier, later)) <=>
                 \/ \E u \in ToSet(earlier) : d \in ToSet(Fate(u, later))
                 \/ \E v \in ToSet(later) : d \in ToSet(Arrival(v, earlier))
    BY <1>2, DiffHolds
  <2> QED  BY <1>1, <2>1, <2>2, <2>3
<1> QED  BY <1>12

\* The last line about a global setting.
Latest(lines, key) == FirstMatch(Reverse(lines), LAMBDA l : GlobalKey(l) = key)

LEMMA LatestIs ==
    ASSUME NEW L, NEW lines \in Seq(L), NEW key
    PROVE  \/ Latest(lines, key) = NoLine /\ \A l \in ToSet(lines) : GlobalKey(l) # key
           \/ Latest(lines, key) \in ToSet(lines) /\ GlobalKey(Latest(lines, key)) = key
<1> DEFINE s == Reverse(lines)
           I == {i \in 1 .. Len(s) : GlobalKey(s[i]) = key}
           m == IF I # {} THEN Min(I) ELSE 0
<1>1. /\ s = [i \in 1 .. Len(lines) |-> lines[(Len(lines) - i) + 1]]
      /\ Len(lines) \in Nat /\ DOMAIN lines = 1 .. Len(lines)
  BY DEF Reverse
<1>2. s \in Seq(L) /\ Len(s) = Len(lines)
  <2>1. \A i \in 1 .. Len(lines) : (Len(lines) - i) + 1 \in DOMAIN lines
    BY <1>1
  <2>2. \A i \in 1 .. Len(lines) : s[i] \in L
    BY <1>1, <2>1
  <2> HIDE DEF s
  <2> QED  BY <1>1, <2>2
<1>3. Latest(lines, key) = IF m = 0 THEN NoLine ELSE s[m]
  BY DEF Latest, FirstMatch, SelectInSeq
<1>4. \A i \in 1 .. Len(s) : s[i] \in ToSet(lines)
  <2>1. \A i \in 1 .. Len(lines) : (Len(lines) - i) + 1 \in DOMAIN lines /\ s[i] = lines[(Len(lines) - i) + 1]
    BY <1>1
  <2> HIDE DEF s
  <2> QED  BY <1>2, <2>1 DEF ToSet
<1>5. \A l \in ToSet(lines) : \E i \in 1 .. Len(s) : s[i] = l
  <2>1. SUFFICES ASSUME NEW j \in DOMAIN lines PROVE \E i \in 1 .. Len(s) : s[i] = lines[j]
    BY DEF ToSet
  <2>2. (Len(lines) - j) + 1 \in 1 .. Len(lines)
        /\ (Len(lines) - ((Len(lines) - j) + 1)) + 1 = j
    BY <1>1
  <2>3. s[(Len(lines) - j) + 1] = lines[j]
    BY <1>1, <2>2
  <2> HIDE DEF s
  <2> QED  BY <1>2, <2>2, <2>3
<1> HIDE DEF s
<1>6. I \in SUBSET Nat /\ I \subseteq 1 .. Len(s) /\ 0 \notin I
  BY <1>2
<1>7. \A i \in 1 .. Len(s) : i \in I <=> GlobalKey(s[i]) = key
  OBVIOUS
<1> HIDE DEF I
<1>8. I # {} => Min(I) \in I
  BY <1>6, MinIsLeast
<1>9. CASE I = {}
  BY <1>3, <1>5, <1>7, <1>9
<1>10. CASE I # {}
  <2>1. m \in I /\ m # 0
    BY <1>6, <1>8, <1>10
  <2> HIDE DEF m
  <2> QED  BY <1>3, <1>4, <1>6, <1>7, <2>1
<1> QED  BY <1>9, <1>10

\* What the report says of a global setting.
GlobalFact(key, old, new) ==
    [category |-> IF key[1] = "vtp" THEN "vtp" ELSE "spanning_tree", subject |-> <<"global">>,
     type |-> IF old = NoLine THEN "added" ELSE IF new = NoLine THEN "removed" ELSE "changed",
     before |-> old, after |-> new]

\* The first words of a line.
LEMMA PairIs ==
    ASSUME NEW S, NEW l \in Seq(S), Len(l) = 2
    PROVE  l = <<l[1], l[2]>>
OBVIOUS

LEMMA FirstPair ==
    ASSUME NEW S, NEW l \in Seq(S), Len(l) > 1
    PROVE  SubSeq(l, 1, 2) = <<l[1], l[2]>>
<1>1. /\ SubSeq(l, 1, 2) \in Seq(S) /\ Len(SubSeq(l, 1, 2)) = 2
      /\ SubSeq(l, 1, 2)[1] = l[1] /\ SubSeq(l, 1, 2)[2] = l[2]
  OBVIOUS
<1> QED  BY <1>1, PairIs

LEMMA FirstThree ==
    ASSUME NEW S, NEW l \in Seq(S), Len(l) > 2
    PROVE  Len(SubSeq(l, 1, 3)) = 3
OBVIOUS

LEMMA WholePair ==
    ASSUME NEW v, NEW w
    PROVE  Len(<<v, w>>) = 2 /\ SubSeq(<<v, w>>, 1, 2) = <<v, w>>
<1> DEFINE S == {v, w}
           s == <<v, w>>
<1>1. s \in Seq(S) /\ Len(s) = 2 /\ s[1] = v /\ s[2] = w
  OBVIOUS
<1> HIDE DEF S, s
<1>2. SubSeq(s, 1, 2) = s
  BY <1>1
<1> QED  BY <1>1, <1>2 DEF s

LEMMA StartsWithTwo ==
    ASSUME NEW l \in Seq(STRING), NEW v, NEW w
    PROVE  Starts(l, <<v, w>>) <=> Len(l) > 1 /\ l[1] = v /\ l[2] = w
<1> DEFINE two == SubSeq(l, 1, 2)
<1>1. Len(l) \in Nat
  OBVIOUS
<1>2. Len(l) > 1 => two = <<l[1], l[2]>>
  BY FirstPair
<1>3. Len(<<v, w>>) = 2 /\ SubSeq(<<v, w>>, 1, 2) = <<v, w>>
  BY WholePair
<1>4. Starts(l, <<v, w>>) <=> 2 <= Len(l) /\ <<v, w>> = two
  BY <1>3 DEF Starts, IsPrefix
<1> HIDE DEF two
<1> QED  BY <1>1, <1>2, <1>4

LEMMA KeyIs ==
    ASSUME NEW l \in Seq(STRING), NEW key \in GlobalSettings
    PROVE  /\ GlobalKey(l) = key <=> Starts(l, key)
           /\ GlobalKey(l) # <<>> => Len(l) > 1
<1> DEFINE pairs == {<<"spanning-tree", "mode">>, <<"vtp", "mode">>, <<"vtp", "domain">>,
                     <<"vtp", "version">>, <<"vtp", "pruning">>}
           two == Words(l, 1, 2)
           three == Words(l, 1, 3)
<1>1. GlobalKey(l) = IF StartsAny(l, pairs) THEN two
                     ELSE IF Starts(l, <<"spanning-tree", "vlan">>) /\ Len(l) >= 3 /\ HasWord(l, {"priority", "root"})
                          THEN three ELSE <<>>
  BY DEF GlobalKey
<1>2. Len(l) \in Nat
  OBVIOUS
<1>3. ASSUME Len(l) > 1
      PROVE  two = <<l[1], l[2]>>
  <2>1. two = SubSeq(l, 1, 2)
    BY <1>2, <1>3 DEF Words
  <2> QED  BY <1>3, <2>1, FirstPair
<1>4. ASSUME Len(l) >= 3
      PROVE  Len(three) = 3
  <2>1. three = SubSeq(l, 1, 3)
    BY <1>2, <1>4 DEF Words
  <2>2. Len(l) > 2
    BY <1>2, <1>4
  <2> QED  BY <2>1, <2>2, FirstThree
<1>5. PICK v, w : key = <<v, w>> /\ key \in pairs
  BY DEF GlobalSettings
<1> HIDE DEF two, three
<1>6. CASE StartsAny(l, pairs)
  <2>1. PICK q, r : Starts(l, <<q, r>>)
    BY <1>6 DEF StartsAny
  <2>2. Len(l) > 1 /\ GlobalKey(l) = <<l[1], l[2]>>
    BY <1>1, <1>3, <1>6, <2>1, StartsWithTwo
  <2>3. Starts(l, <<v, w>>) <=> l[1] = v /\ l[2] = w
    BY <2>2, StartsWithTwo
  <2> QED  BY <1>5, <2>2, <2>3
<1>7. CASE ~StartsAny(l, pairs)
  <2>1. ~Starts(l, key)
    BY <1>5, <1>7 DEF StartsAny
  <2>2. CASE Starts(l, <<"spanning-tree", "vlan">>) /\ Len(l) >= 3 /\ HasWord(l, {"priority", "root"})
    <3>1. Len(GlobalKey(l)) = 3
      BY <1>1, <1>4, <1>7, <2>2
    <3>2. Len(key) = 2
      BY <1>5, WholePair
    <3>3. Len(l) > 1
      BY <1>2, <2>2
    <3> QED  BY <2>1, <3>1, <3>2, <3>3
  <2>3. CASE ~(Starts(l, <<"spanning-tree", "vlan">>) /\ Len(l) >= 3 /\ HasWord(l, {"priority", "root"}))
    <3>1. GlobalKey(l) = <<>>
      BY <1>1, <1>7, <2>3
    <3>2. key # <<>>
      BY <1>5
    <3> QED  BY <2>1, <3>1, <3>2
  <2> QED  BY <2>2, <2>3
<1> QED  BY <1>6, <1>7

\* A line with the key, or none.
OfKey(l, k) == k # <<>> /\ (l = NoLine \/ GlobalKey(l) = k)
JoinIsOf(l, m, k, key) == GlobalKey(l \o m) = key <=> k = key

\* A fact of two lines with one key, or of one, is of that key.
LEMMA KeyOfBoth ==
    ASSUME NEW l \in Seq(STRING), NEW m \in Seq(STRING), NEW k, OfKey(l, k), OfKey(m, k), l # m,
           NEW key \in GlobalSettings
    PROVE  JoinIsOf(l, m, k, key)
<1> SUFFICES GlobalKey(l \o m) = key <=> k = key
  BY DEF JoinIsOf
<1>1. CASE l = NoLine
  <2>1. l \o m = m
    BY <1>1 DEF NoLine
  <2>2. GlobalKey(m) = k
    BY <1>1 DEF OfKey
  <2> QED  BY <2>1, <2>2
<1>2. CASE l # NoLine
  <2>1. GlobalKey(l) = k /\ k # <<>> /\ Len(l) > 1
    BY <1>2, KeyIs DEF OfKey
  <2>2. PICK v, w : key = <<v, w>>
    BY DEF GlobalSettings
  <2> DEFINE both == l \o m
  <2>3. both \in Seq(STRING) /\ Len(both) > 1 /\ both[1] = l[1] /\ both[2] = l[2]
    <3>1. Len(l) \in Nat /\ Len(m) \in Nat
      OBVIOUS
    <3> QED  BY <2>1, <3>1
  <2> HIDE DEF both
  <2>4. Starts(both, <<v, w>>) <=> Starts(l, <<v, w>>)
    BY <2>1, <2>3, StartsWithTwo
  <2>5. GlobalKey(both) = key <=> Starts(both, key)
    BY <2>3, KeyIs
  <2>6. GlobalKey(l) = key <=> Starts(l, key)
    BY KeyIs
  <2> QED  BY <2>1, <2>2, <2>4, <2>5, <2>6 DEF both
<1> QED  BY <1>1, <1>2

Olds(changes) == FlattenSeq([i \in DOMAIN changes |-> changes[i].before])
News(changes) == FlattenSeq([i \in DOMAIN changes |-> changes[i].after])

\* The global facts about a setting: one when its last lines differ, or none.
FactsOf(changes, key) ==
    LET old == Latest(Olds(changes), key)
        new == Latest(News(changes), key)
    IN  IF old = new THEN {} ELSE {GlobalFact(key, old, new)}

LEMMA GlobalIs ==
    ASSUME NEW changes
    PROVE  GlobalSwitching(changes) =
             {GlobalFact(k, Latest(Olds(changes), k), Latest(News(changes), k)) :
                k \in {x \in {GlobalKey(l) : l \in ToSet(Olds(changes) \o News(changes))} \ {<<>>} :
                          Latest(Olds(changes), x) # Latest(News(changes), x)}}
BY DEF GlobalSwitching, GlobalFact, Latest, Olds, News

LEMMA FactIs ==
    ASSUME NEW k, NEW old, NEW new
    PROVE  /\ GlobalFact(k, old, new).before = old /\ GlobalFact(k, old, new).after = new
           /\ GlobalFact(k, old, new).subject = <<"global">>
BY DEF GlobalFact

LEMMA SettingFacts ==
    ASSUME NEW changes, Olds(changes) \in Seq(Seq(STRING)), News(changes) \in Seq(Seq(STRING)),
           NEW key \in GlobalSettings
    PROVE  {f \in GlobalSwitching(changes) : GlobalKey(f.before \o f.after) = key} = FactsOf(changes, key)
<1> DEFINE O == Olds(changes)
           N == News(changes)
           T == Seq(STRING)
           K == {GlobalKey(l) : l \in ToSet(O \o N)} \ {<<>>}
           old(k) == Latest(O, k)
           new(k) == Latest(N, k)
           fact(k) == GlobalFact(k, old(k), new(k))
<1>1. /\ \A f \in GlobalSwitching(changes) : \E k \in K : old(k) # new(k) /\ f = fact(k)
      /\ \A k \in K : old(k) # new(k) => fact(k) \in GlobalSwitching(changes)
  BY GlobalIs
<1>2. O \in Seq(T) /\ N \in Seq(T)
  OBVIOUS
<1>3. NoLine \in T
  BY DEF NoLine
<1> HIDE DEF T
<1>4. O \o N \in Seq(T) /\ \A l : l \in ToSet(O \o N) <=> l \in ToSet(O) \/ l \in ToSet(N)
  BY <1>2, ConcatHolds
<1>5. (\A l \in ToSet(O) : l \in T) /\ (\A l \in ToSet(N) : l \in T)
  BY <1>2 DEF ToSet
<1>6. \A k \in K : GlobalKey(<<>>) # k
  <2>1. GlobalKey(<<>>) = <<>>
    <3>1. \A v, w : ~Starts(<<>>, <<v, w>>)
      BY DEF Starts, IsPrefix
    <3> QED  BY <3>1 DEF GlobalKey, StartsAny
  <2> QED  BY <2>1
<1>7. ASSUME NEW k
      PROVE  /\ old(k) \in T /\ new(k) \in T
             /\ old(k) = NoLine \/ GlobalKey(old(k)) = k
             /\ new(k) = NoLine \/ GlobalKey(new(k)) = k
             /\ k # <<>> /\ old(k) # new(k) => k \in K
  <2>1. \/ old(k) = NoLine /\ \A l \in ToSet(O) : GlobalKey(l) # k
        \/ old(k) \in ToSet(O) /\ GlobalKey(old(k)) = k
    BY <1>2, LatestIs
  <2>2. \/ new(k) = NoLine /\ \A l \in ToSet(N) : GlobalKey(l) # k
        \/ new(k) \in ToSet(N) /\ GlobalKey(new(k)) = k
    BY <1>2, LatestIs
  <2> HIDE DEF O, N, old, new
  <2>3. \A l : l \in ToSet(O \o N) => GlobalKey(l) \in {GlobalKey(x) : x \in ToSet(O \o N)}
    OBVIOUS
  <2> QED  BY <1>3, <1>4, <1>5, <2>1, <2>2, <2>3
<1>8. \A k \in K : k # <<>>
  OBVIOUS
<1> HIDE DEF K
<1>9. ASSUME NEW k \in K, old(k) # new(k)
      PROVE  GlobalKey(fact(k).before \o fact(k).after) = key <=> k = key
  <2>1. fact(k).before = old(k) /\ fact(k).after = new(k)
    BY FactIs
  <2>2. /\ old(k) \in Seq(STRING) /\ new(k) \in Seq(STRING)
        /\ OfKey(old(k), k) /\ OfKey(new(k), k)
    BY <1>7, <1>8 DEF OfKey, T
  <2> HIDE DEF old, new, fact
  <2>3. JoinIsOf(old(k), new(k), k, key)
    BY <1>9, <2>2, KeyOfBoth
  <2> QED  BY <2>1, <2>3 DEF JoinIsOf
<1>10. key # <<>>
  <2>1. PICK v, w : key = <<v, w>>
    BY DEF GlobalSettings
  <2>2. Len(<<>>) = 0
    OBVIOUS
  <2> QED  BY <2>1, <2>2, WholePair
<1>11. FactsOf(changes, key) = IF old(key) = new(key) THEN {} ELSE {fact(key)}
  BY DEF FactsOf
<1>12. old(key) # new(key) => key \in K
  BY <1>7, <1>10
<1> HIDE DEF old, new, fact, O, N
<1> QED  BY <1>1, <1>9, <1>11, <1>12

\* An interface's facts have its name.
LEMMA PortFacts ==
    ASSUME NEW c, NEW f \in InterfaceSwitching(c)
    PROVE  f.subject = c.id[2]
BY DEF InterfaceSwitching

LEMMA AnalysisSwitches ==
    ASSUME NEW old, NEW new, NEW vendor, NEW a, a = AnalyzeContent(old, new, vendor)
    PROVE  a.switching = SwitchingChanges(a.changes)
<1> DEFINE parser == SelectParser(vendor, old \o new)
           b == Parse(parser, old)
           n == Parse(parser, new)
           changes == DiffBlocks(b, n)
           dangling == NewlyDangling(b, n)
           peers == RoutingPeerChanges(changes)
<1>1. a = Analysis(parser, changes, peers, dangling, RiskFindings(changes, peers, dangling))
  BY DEF AnalyzeContent, Analyze, AnalyzeBlocks, AnalyzeChanges, AnalyzeFindings
<1> HIDE DEF parser, changes, peers, dangling
<1>2. a.changes = changes /\ a.switching = SwitchingChanges(changes)
  BY <1>1 DEF Analysis
<1> QED  BY <1>2

\* What all changes together quote.
LEMMA QuotedLines ==
    ASSUME NEW L, NEW changes, NEW S, changes \in Seq(S),
           \A c \in ToSet(changes) : c.before \in Seq(L) /\ c.after \in Seq(L)
    PROVE  /\ Olds(changes) \in Seq(L) /\ News(changes) \in Seq(L)
           /\ \A l : l \in ToSet(Olds(changes)) <=> \E c \in ToSet(changes) : l \in ToSet(c.before)
           /\ \A l : l \in ToSet(News(changes)) <=> \E c \in ToSet(changes) : l \in ToSet(c.after)
<1> DEFINE Q == Seq(L)
           old == [i \in DOMAIN changes |-> changes[i].before]
           new == [i \in DOMAIN changes |-> changes[i].after]
<1>1. DOMAIN changes = 1 .. Len(changes) /\ Len(changes) \in Nat
  OBVIOUS
<1>2. /\ DOMAIN old = DOMAIN changes /\ DOMAIN new = DOMAIN changes
      /\ \A i \in DOMAIN changes : /\ old[i] = changes[i].before /\ new[i] = changes[i].after
                                   /\ changes[i] \in ToSet(changes)
      /\ \A c \in ToSet(changes) : \E i \in DOMAIN changes : c = changes[i]
  BY DEF ToSet
<1>3. old \in Seq(Q) /\ new \in Seq(Q)
  <2>1. \A i \in 1 .. Len(changes) : old[i] \in Q /\ new[i] \in Q
    BY <1>1, <1>2
  <2>2. old = [i \in 1 .. Len(changes) |-> old[i]] /\ new = [i \in 1 .. Len(changes) |-> new[i]]
    BY <1>1
  <2> HIDE DEF Q, old, new
  <2> QED  BY <1>1, <2>1, <2>2
<1>4. Olds(changes) = FlattenSeq(old) /\ News(changes) = FlattenSeq(new)
  BY DEF Olds, News
<1> HIDE DEF old, new
<1>5. /\ FlattenSeq(old) \in Seq(L) /\ FlattenSeq(new) \in Seq(L)
      /\ \A l : l \in ToSet(FlattenSeq(old)) <=> \E i \in DOMAIN old : l \in ToSet(old[i])
      /\ \A l : l \in ToSet(FlattenSeq(new)) <=> \E i \in DOMAIN new : l \in ToSet(new[i])
  BY <1>3, FlattenHolds
<1>6. \A l : (\E i \in DOMAIN old : l \in ToSet(old[i])) <=> \E c \in ToSet(changes) : l \in ToSet(c.before)
  BY <1>2
<1>7. \A l : (\E i \in DOMAIN new : l \in ToSet(new[i])) <=> \E c \in ToSet(changes) : l \in ToSet(c.after)
  BY <1>2
<1> QED  BY <1>4, <1>5, <1>6, <1>7

\* The lines about a global setting, and that there is no more than one of them.
SettingLines(text, key) == {l \in Normal(text) : Starts(l, key)}
AtMostOne(lines) == \A l, m \in lines : l = m

\* A text has a line about a global setting once, at the top of a section and
\* not indented, in a dialect that has such lines; no interface is called global.
StandsAlone(cfg, key) ==
    /\ SettingLines(Text(cfg), key) = Setting(cfg, key)
    /\ AtMostOne(Setting(cfg, key))
    /\ \A l \in Setting(cfg, key) :
          /\ l \notin Nested(Text(before)) /\ l \notin Nested(Text(seen))
          /\ report.parser \notin SetStyle /\ report.parser # "fortinet"
SettingsStandAlone ==
    /\ \A key \in GlobalSettings : StandsAlone(before, key) /\ StandsAlone(seen, key)
    /\ \A c \in ToSet(report.changes) : IsInterface(c) => c.id[2] # <<"global">>

\* Its last quoted line on a side: the line, when it is quoted, or none.
LEMMA QuotedSetting ==
    ASSUME NEW lines \in Seq(Seq(STRING)), NEW key \in GlobalSettings, NEW all, AtMostOne(all),
           \A l \in ToSet(lines) : Starts(l, key) => l \in all,
           \A l \in all : Starts(l, key)
    PROVE  /\ \A l \in all : l \in ToSet(lines) => Latest(lines, key) = l
           /\ (\A l \in all : l \notin ToSet(lines)) => Latest(lines, key) = NoLine
<1> DEFINE T == Seq(STRING)
           last == Latest(lines, key)
<1>1. \A l \in ToSet(lines) : l \in T
  BY DEF ToSet
<1>2. \A l \in ToSet(lines) : GlobalKey(l) = key <=> Starts(l, key)
  BY <1>1, KeyIs
<1>3. lines \in Seq(T)
  OBVIOUS
<1> HIDE DEF T
<1>4. \/ last = NoLine /\ \A l \in ToSet(lines) : GlobalKey(l) # key
      \/ last \in ToSet(lines) /\ GlobalKey(last) = key
  BY <1>3, LatestIs
<1> HIDE DEF last
<1>5. \A l \in ToSet(lines) : GlobalKey(l) = key <=> l \in all
  BY <1>2
<1>6. \A l, m \in all : l = m
  BY DEF AtMostOne
<1> QED  BY <1>4, <1>5, <1>6 DEF last

\* All lines of words that an analysis quotes.
LEMMA QuotedSettings ==
    ASSUME NEW R, NEW old \in Seq(R), NEW new \in Seq(R), NEW vendor,
            NEW a, a = AnalyzeContent(old, new, vendor),
           Normal(old) \subseteq Seq(STRING), Normal(new) \subseteq Seq(STRING)
    PROVE  /\ Olds(a.changes) \in Seq(Seq(STRING)) /\ News(a.changes) \in Seq(Seq(STRING))
           /\ \A l : l \in ToSet(Olds(a.changes)) <=> \E c \in ToSet(a.changes) : l \in ToSet(c.before)
           /\ \A l : l \in ToSet(News(a.changes)) <=> \E c \in ToSet(a.changes) : l \in ToSet(c.after)
<1> DEFINE changes == a.changes
           T == Seq(STRING)
           L == Normal(old) \cup Normal(new)
<1>2. \A c \in ToSet(changes) : c.before \in Seq(L) /\ c.after \in Seq(L)
  BY ChangesAreTyped
<1>3. PICK S : changes \in Seq(S)
  <2>1. changes = DiffBlocks(Parse(a.parser, old), Parse(a.parser, new))
    BY AnalysisHolds
  <2>2. PICK B : Parse(a.parser, old) \in Seq(B) /\ Parse(a.parser, new) \in Seq(B)
    BY AnalysisTypes
  <2> QED  BY <2>1, <2>2, DiffHolds
<1>4. L \subseteq T
  OBVIOUS
<1> HIDE DEF T, L, changes
<1>6. \A c \in ToSet(changes) : c.before \in Seq(T) /\ c.after \in Seq(T)
  BY <1>2, <1>4
<1>7. /\ Olds(changes) \in Seq(T) /\ News(changes) \in Seq(T)
      /\ \A l : l \in ToSet(Olds(changes)) <=> \E c \in ToSet(changes) : l \in ToSet(c.before)
      /\ \A l : l \in ToSet(News(changes)) <=> \E c \in ToSet(changes) : l \in ToSet(c.after)
  BY <1>3, <1>6, QuotedLines
<1> QED  BY <1>7 DEF T, changes

\* What an analysis reports of a global setting.
ReportedOf(a, key) == {c \in a.switching : c.subject = <<"global">> /\ GlobalKey(c.before \o c.after) = key}

TellsLast(a, key) == ReportedOf(a, key) = FactsOf(a.changes, key)

\* It is what the last lines about the setting tell.
LEMMA ReportedSettings ==
    ASSUME NEW R, NEW old \in Seq(R), NEW new \in Seq(R), NEW vendor,
            NEW a, a = AnalyzeContent(old, new, vendor),
           Normal(old) \subseteq Seq(STRING), Normal(new) \subseteq Seq(STRING),
           \A c \in ToSet(a.changes) : IsInterface(c) => c.id[2] # <<"global">>,
           NEW key \in GlobalSettings
    PROVE  TellsLast(a, key)
<1> DEFINE changes == a.changes
<1>1. a.switching = SwitchingChanges(changes)
  BY AnalysisSwitches
<1>5. \A c \in ToSet(changes) : IsInterface(c) => c.id[2] # <<"global">>
  OBVIOUS
<1>7. Olds(changes) \in Seq(Seq(STRING)) /\ News(changes) \in Seq(Seq(STRING))
  BY QuotedSettings
<1> HIDE DEF changes
<1>8. {f \in GlobalSwitching(changes) : GlobalKey(f.before \o f.after) = key} = FactsOf(changes, key)
  BY <1>7, SettingFacts
<1>9. \A f \in GlobalSwitching(changes) : f.subject = <<"global">>
  BY GlobalIs, FactIs
<1>10. ASSUME NEW f \in SwitchingChanges(changes), f.subject = <<"global">>
       PROVE  f \in GlobalSwitching(changes)
  <2>1. CASE \E i \in DOMAIN changes : IsInterface(changes[i]) /\ f \in InterfaceSwitching(changes[i])
    <3>1. PICK i \in DOMAIN changes : IsInterface(changes[i]) /\ f \in InterfaceSwitching(changes[i])
      BY <2>1
    <3>2. f.subject = changes[i].id[2]
      BY <3>1, PortFacts
    <3>3. changes[i] \in ToSet(changes)
      BY DEF ToSet
    <3> QED  BY <1>5, <1>10, <3>1, <3>2, <3>3
  <2>2. CASE f \in GlobalSwitching(changes)
    BY <2>2
  <2> QED  BY <2>1, <2>2 DEF SwitchingChanges
<1>11. GlobalSwitching(changes) \subseteq SwitchingChanges(changes)
  BY DEF SwitchingChanges
<1> QED  BY <1>1, <1>8, <1>9, <1>10, <1>11 DEF changes, ReportedOf, TellsLast

\* A setting's facts say what the texts say of it.
PairsSetting(facts, was, is) ==
    IF was = is THEN facts = {}
    ELSE /\ Cardinality(facts) = 1
         /\ \A f \in facts : {f.before} \ {NoLine} = was /\ {f.after} \ {NoLine} = is

LEMMA PairedFacts ==
    ASSUME NEW changes, NEW key, NEW was, NEW is, AtMostOne(was), AtMostOne(is),
           NEW gone, NEW new, gone = Latest(Olds(changes), key), new = Latest(News(changes), key),
           NoLine \notin was, NoLine \notin is,
           was = is => gone = new,
           was # is => {gone} \ {NoLine} = was /\ {new} \ {NoLine} = is
    PROVE  PairsSetting(FactsOf(changes, key), was, is)
<1> DEFINE fact == GlobalFact(key, gone, new)
<1>1. FactsOf(changes, key) = IF gone = new THEN {} ELSE {fact}
  BY DEF FactsOf
<1>2. fact.before = gone /\ fact.after = new
  BY FactIs
<1> HIDE DEF fact
<1>3. CASE was = is
  BY <1>1, <1>3 DEF PairsSetting
<1>4. CASE was # is
  <2>1. gone # new
    BY <1>4
  <2>2. FactsOf(changes, key) = {fact} /\ Cardinality({fact}) = 1
    BY <1>1, <2>1, FS_Singleton
  <2> QED  BY <1>2, <1>4, <2>2 DEF PairsSetting
<1> QED  BY <1>3, <1>4

\* One key: its lines in either text are at most one, and stand alone.
LEMMA AnalysisPairs ==
    ASSUME NEW R, NEW old \in Seq(R), NEW new \in Seq(R), NEW vendor,
            NEW a, a = AnalyzeContent(old, new, vendor),
           Normal(old) \subseteq Seq(STRING), Normal(new) \subseteq Seq(STRING),
           \A c \in ToSet(a.changes) : IsInterface(c) => c.id[2] # <<"global">>,
           NEW key \in GlobalSettings,
           NEW was, NEW is, was = SettingLines(old, key), is = SettingLines(new, key),
           AtMostOne(was), AtMostOne(is),
           \A l \in was \cup is : /\ l \notin Nested(old) /\ l \notin Nested(new)
                                  /\ a.parser \notin SetStyle /\ a.parser # "fortinet"
    PROVE  PairsSetting(FactsOf(a.changes, key), was, is)
<1> DEFINE O == ToSet(Olds(a.changes))
           N == ToSet(News(a.changes))
           gone == Latest(Olds(a.changes), key)
           come == Latest(News(a.changes), key)
<1>1. /\ Olds(a.changes) \in Seq(Seq(STRING)) /\ News(a.changes) \in Seq(Seq(STRING))
      /\ \A l : l \in O <=> \E c \in ToSet(a.changes) : l \in ToSet(c.before)
      /\ \A l : l \in N <=> \E c \in ToSet(a.changes) : l \in ToSet(c.after)
  BY QuotedSettings
<1>2. \A c \in ToSet(a.changes) : /\ \A l \in ToSet(c.before) : l \in Normal(old)
                                  /\ \A l \in ToSet(c.after) : l \in Normal(new)
  BY AnalysisIsReal
<1>3. /\ \A l : l \in was <=> l \in Normal(old) /\ Starts(l, key)
      /\ \A l : l \in is <=> l \in Normal(new) /\ Starts(l, key)
  BY DEF SettingLines
<1>4. ~Starts(NoLine, key)
  <2>1. PICK v, w : key = <<v, w>>
    BY DEF GlobalSettings
  <2>2. Len(key) = 2
    BY <2>1, WholePair
  <2>3. Len(NoLine) = 0
    BY DEF NoLine
  <2> QED  BY <2>2, <2>3 DEF Starts, IsPrefix
<1>5. NoLine \notin was /\ NoLine \notin is
  BY <1>3, <1>4
<1>6. /\ \A l \in O : Starts(l, key) => l \in was
      /\ \A l \in N : Starts(l, key) => l \in is
  BY <1>1, <1>2, <1>3
<1>7. /\ \A l \in was : l \in O => gone = l
      /\ (\A l \in was : l \notin O) => gone = NoLine
  BY <1>1, <1>3, <1>6, QuotedSetting
<1>8. /\ \A l \in is : l \in N => come = l
      /\ (\A l \in is : l \notin N) => come = NoLine
  BY <1>1, <1>3, <1>6, QuotedSetting
<1>9. ASSUME NEW l \in was, l \in is
      PROVE  l \in O <=> l \in N
  <2>1. l \notin Nested(old) /\ l \notin Nested(new) /\ a.parser \notin SetStyle /\ a.parser # "fortinet"
    BY <1>9
  <2>2. l \in Normal(old) /\ l \in Normal(new) /\ l # NoLine
    BY <1>3, <1>5, <1>9
  <2>3. (\E c \in ToSet(a.changes) : l \in ToSet(c.before)) <=> \E c \in ToSet(a.changes) : l \in ToSet(c.after)
    BY <2>1, <2>2, StandingLine
  <2> QED  BY <1>1, <2>3
<1>10. ASSUME NEW l \in was, l \notin is
       PROVE  l \in O
  <2>1. l \in Normal(old) /\ l \notin Normal(new)
    BY <1>3, <1>10
  <2>2. Quotable(a.parser, l)
    BY <1>5 DEF Quotable
  <2>3. \E c \in ToSet(a.changes) : l \in ToSet(c.before)
    <3> HIDE DEF O, N, gone, come
    <3> QED  BY <2>1, <2>2, AnalysisQuotes
  <2> QED  BY <1>1, <2>3
<1>11. ASSUME NEW l \in is, l \notin was
       PROVE  l \in N
  <2>1. l \in Normal(new) /\ l \notin Normal(old)
    BY <1>3, <1>11
  <2>2. Quotable(a.parser, l)
    BY <1>5 DEF Quotable
  <2> QED  BY <1>1, <2>1, <2>2, AnalysisQuotes
<1>12. (\A l, m \in was : l = m) /\ \A l, m \in is : l = m
  BY DEF AtMostOne
<1> HIDE DEF O, N, gone, come
<1>13. was = is => gone = come
  <2>1. CASE was = is /\ \E l \in was : l \in O
    BY <1>7, <1>8, <1>9, <2>1
  <2>2. CASE was = is /\ \A l \in was : l \notin O
    BY <1>7, <1>8, <1>9, <2>2
  <2> QED  BY <2>1, <2>2
<1>14. was # is => {gone} \ {NoLine} = was /\ {come} \ {NoLine} = is
  <2>1. SUFFICES ASSUME was # is PROVE {gone} \ {NoLine} = was /\ {come} \ {NoLine} = is
    OBVIOUS
  <2>2. \A l \in was : l \notin is
    <3>1. SUFFICES ASSUME NEW l \in was, l \in is PROVE FALSE
      OBVIOUS
    <3>2. (\A m \in was : m = l) /\ \A m \in is : m = l
      BY <1>12, <3>1
    <3>3. was = {l} /\ is = {l}
      BY <3>1, <3>2
    <3> QED  BY <2>1, <3>3
  <2>3. CASE \E l : l \in was
    <3>1. PICK l : l \in was
      BY <2>3
    <3>2. was = {l} /\ gone = l /\ l # NoLine
      BY <1>5, <1>7, <1>10, <1>12, <2>2, <3>1
    <3>3. {gone} \ {NoLine} = was
      BY <3>2
    <3>4. CASE \E m : m \in is
      <4>1. PICK m : m \in is
        BY <3>4
      <4>2. is = {m} /\ come = m /\ m # NoLine
        BY <1>5, <1>8, <1>11, <1>12, <2>2, <4>1
      <4> QED  BY <3>3, <4>2
    <3>5. CASE ~\E m : m \in is
      <4>1. is = {} /\ come = NoLine
        BY <1>8, <3>5
      <4> QED  BY <3>3, <4>1
    <3> QED  BY <3>4, <3>5
  <2>4. CASE ~\E l : l \in was
    <3>1. was = {} /\ gone = NoLine
      BY <1>7, <2>4
    <3>2. PICK m : m \in is
      BY <2>1, <3>1
    <3>3. is = {m} /\ come = m /\ m # NoLine
      BY <1>5, <1>8, <1>11, <1>12, <2>2, <3>2
    <3> QED  BY <3>1, <3>3
  <2> QED  BY <2>3, <2>4
<1> QED  BY <1>5, <1>13, <1>14, PairedFacts DEF gone, come

LEMMA SettingsPaired == ConfigInv => (SettingsStandAlone => SettingsArePaired)
<1> SUFFICES ASSUME ConfigInv, SettingsStandAlone, Reviewed, NEW key \in GlobalSettings
             PROVE  PairsSetting(ReportedOf(report, key), Setting(before, key), Setting(seen, key))
  BY DEF SettingsArePaired, PairsSetting, ReportedOf
<1> DEFINE old == Text(before)
           new == Text(seen)
           R == RawLine
           r == report
           v == family.vendor
           was == Setting(before, key)
           is == Setting(seen, key)
<1>1. old \in Seq(R) /\ new \in Seq(R)
  BY TextIs DEF ConfigInv
<1>2. r = AnalyzeContent(old, new, v)
  BY DEF ConfigInv, Reviewed
<1>3. Normal(old) \subseteq Seq(STRING) /\ Normal(new) \subseteq Seq(STRING)
  BY <1>1, LinesAreWords
<1>4. /\ was = SettingLines(old, key) /\ is = SettingLines(new, key)
      /\ AtMostOne(was) /\ AtMostOne(is)
      /\ \A l \in was \cup is : /\ l \notin Nested(old) /\ l \notin Nested(new)
                                /\ r.parser \notin SetStyle /\ r.parser # "fortinet"
  BY DEF SettingsStandAlone, StandsAlone
<1>5. \A c \in ToSet(r.changes) : IsInterface(c) => c.id[2] # <<"global">>
  BY DEF SettingsStandAlone
<1> HIDE DEF old, new, R, r, v, was, is
<1>6. TellsLast(r, key)
  BY <1>1, <1>2, <1>3, <1>5, ReportedSettings
<1>7. PairsSetting(FactsOf(r.changes, key), was, is)
  BY <1>1, <1>2, <1>3, <1>4, <1>5, AnalysisPairs
<1> QED  BY <1>6, <1>7 DEF r, was, is, TellsLast

\* Wherever the global settings stand alone, one that got another value is
\* reported once, with its old and its new line, and one that kept it is not.
THEOREM SettingChangesArePaired == Spec => [](SettingsStandAlone => SettingsArePaired)
BY ConfigInvariant, SettingsPaired, PTL

=============================================================================
