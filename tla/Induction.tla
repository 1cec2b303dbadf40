------------------------------ MODULE Induction ------------------------------
(***************************************************************************)
(* Induction without an operator parameter: a set of numbers has a least   *)
(* element, so what first fails somewhere can be looked at there, and a    *)
(* step that can be taken once can be taken any number of times.           *)
(***************************************************************************)
EXTENDS Naturals, FiniteSetsExt, FiniteSetTheorems, WellFoundedInduction, TLAPS

\* A set of numbers has a least one.
LEMMA LeastElement ==
    ASSUME NEW S \in SUBSET Nat, S # {}
    PROVE  \E n \in S : \A m \in S : n <= m
<1> DEFINE R == {p \in Nat \X Nat : p[1] < p[2]}
<1>1. IsWellFoundedOn(R, Nat)
  BY NatLessThanWellFounded DEF OpToRel
<1>2. PICK n \in S : \A m \in S : <<m, n>> \notin R
  <2> HIDE DEF R
  <2> QED  BY <1>1, WFMin
<1>3. ASSUME NEW m \in S
      PROVE  n <= m
  <2>1. m \in Nat /\ n \in Nat /\ <<m, n>> \notin R
    BY <1>2
  <2> QED  BY <2>1
<1> QED  BY <1>3

LEMMA MinIsLeast ==
    ASSUME NEW S \in SUBSET Nat, S # {}
    PROVE  Min(S) \in S /\ \A m \in S : Min(S) <= m
BY LeastElement DEF Min

LEMMA MinOfTwo ==
    ASSUME NEW m \in Nat, NEW n \in Nat
    PROVE  Min({m, n}) = IF m <= n THEN m ELSE n
<1>1. Min({m, n}) \in {m, n} /\ \A x \in {m, n} : Min({m, n}) <= x
  BY MinIsLeast
<1> QED  BY <1>1

\* A set of numbers that has 0, and with each number the next, has all.
LEMMA Succession ==
    ASSUME NEW S \in SUBSET Nat, 0 \in S, \A n \in S : n + 1 \in S
    PROVE  S = Nat
<1> SUFFICES ASSUME Nat \ S # {} PROVE FALSE
  OBVIOUS
<1>1. PICK m \in Nat \ S : \A k \in Nat \ S : m <= k
  BY LeastElement
<1>2. m # 0 /\ m - 1 \in Nat
  BY <1>1
<1>3. m - 1 \in S
  BY <1>1, <1>2
<1> QED  BY <1>1, <1>2, <1>3

\* The values of a step that is repeated n times, for every n.
LEMMA Iteration ==
    ASSUME NEW S, NEW base \in S, NEW step \in [S -> S]
    PROVE  \E f \in [Nat -> S] : f[0] = base /\ \A n \in Nat : f[n + 1] = step[f[n]]
<1> DEFINE Runs(g, n) ==
              g \in [0 .. n -> S] /\ g[0] = base /\ \A k \in 0 .. n - 1 : g[k + 1] = step[g[k]]
           Lengths == {n \in Nat : \E q : Runs(q, n)}
<1>1. 0 \in Lengths
  <2>1. Runs([k \in 0 .. 0 |-> base], 0)
    OBVIOUS
  <2> QED  BY <2>1
<1>2. ASSUME NEW n \in Lengths
      PROVE  n + 1 \in Lengths
  <2>1. PICK g : Runs(g, n)
    OBVIOUS
  <2> DEFINE h == [k \in 0 .. n + 1 |-> IF k = n + 1 THEN step[g[n]] ELSE g[k]]
  <2>2. n \in Nat /\ g[n] \in S
    BY <2>1
  <2>3. h \in [0 .. n + 1 -> S] /\ h[0] = base
    BY <2>1, <2>2
  <2>4. \A k \in 0 .. (n + 1) - 1 : h[k + 1] = step[h[k]]
    BY <2>1, <2>2
  <2> HIDE DEF h
  <2>5. Runs(h, n + 1)
    BY <2>3, <2>4
  <2>6. n + 1 \in Nat /\ \E q : Runs(q, n + 1)
    <3> HIDE DEF Runs
    <3> QED  BY <2>2, <2>5
  <2> QED  BY <2>6
<1>3. Lengths = Nat
  <2>1. Lengths \in SUBSET Nat
    OBVIOUS
  <2> HIDE DEF Lengths
  <2> QED  BY <1>1, <1>2, <2>1, Succession
<1>4. ASSUME NEW m \in Nat, NEW n \in Nat, NEW g, NEW h, Runs(g, m), Runs(h, n)
      PROVE  \A k \in Nat : k <= m /\ k <= n => g[k] = h[k]
  <2> DEFINE Same == {k \in Nat : k <= m /\ k <= n => g[k] = h[k]}
  <2>1. 0 \in Same
    BY <1>4
  <2>2. ASSUME NEW k \in Same
        PROVE  k + 1 \in Same
    BY <1>4, <2>2
  <2>3. Same = Nat
    <3>1. Same \in SUBSET Nat
      OBVIOUS
    <3> HIDE DEF Same
    <3> QED  BY <2>1, <2>2, <3>1, Succession
  <2> QED  BY <2>3
<1> HIDE DEF Lengths
<1> DEFINE run == [n \in Nat |-> CHOOSE g : Runs(g, n)]
           f == [n \in Nat |-> run[n][n]]
<1>5. ASSUME NEW n \in Nat
      PROVE  Runs(run[n], n)
  <2>1. \E g : Runs(g, n)
    BY <1>3 DEF Lengths
  <2>2. run[n] = CHOOSE g : Runs(g, n)
    OBVIOUS
  <2> HIDE DEF Runs, run
  <2> QED  BY <2>1, <2>2
<1>6. \A n \in Nat : f[n] = run[n][n]
  OBVIOUS
<1> HIDE DEF run
<1>7. ASSUME NEW n \in Nat
      PROVE  f[n] \in S /\ f[n + 1] = step[f[n]]
  <2>1. Runs(run[n], n) /\ Runs(run[n + 1], n + 1)
    BY <1>5
  <2>2. run[n + 1][n] = run[n][n]
    <3>1. \A k \in Nat : k <= n + 1 /\ k <= n => run[n + 1][k] = run[n][k]
      <4> HIDE DEF Runs
      <4> QED  BY <1>4, <2>1
    <3> QED  BY <3>1
  <2>3. run[n + 1][n + 1] = step[run[n + 1][n]]
    <3>1. n \in 0 .. (n + 1) - 1
      OBVIOUS
    <3> QED  BY <2>1, <3>1
  <2> QED  BY <1>6, <2>1, <2>2, <2>3
<1>8. f[0] = base
  BY <1>5, <1>6
<1>9. f \in [Nat -> S]
  BY <1>6, <1>7
<1> QED  BY <1>7, <1>8, <1>9

\* A property of 0 that each number below N passes on to the next.
Passes(N, S) == N \in Nat /\ 0 \in S /\ \A n \in 0 .. N - 1 : n \in S => n + 1 \in S

LEMMA UpTo ==
    ASSUME NEW N, NEW S, Passes(N, S)
    PROVE  \A n \in 0 .. N : n \in S
<1> USE DEF Passes
<1> DEFINE T == {n \in Nat : n <= N => n \in S}
<1>1. 0 \in T
  OBVIOUS
<1>2. ASSUME NEW n \in T
      PROVE  n + 1 \in T
  OBVIOUS
<1>3. T = Nat
  <2>1. T \in SUBSET Nat
    OBVIOUS
  <2> HIDE DEF T
  <2> QED  BY <1>1, <1>2, <2>1, Succession
<1> QED  BY <1>3

\* N steps inside S that may each be another, and the values they give.
Steps(N, S, base, step) ==
    N \in Nat /\ base \in S /\ \A n \in 1 .. N : \A x \in S : step[n][x] \in S
Run(N, S, base, step, f) ==
    f \in [0 .. N -> S] /\ f[0] = base /\ \A n \in 1 .. N : f[n] = step[n][f[n - 1]]

LEMMA Recursion ==
    ASSUME NEW N, NEW S, NEW base, NEW step, Steps(N, S, base, step)
    PROVE  \E f : Run(N, S, base, step, f)
<1> USE DEF Steps
<1> DEFINE P == Nat \X S
           first == <<0, base>>
           next == [p \in P |-> <<p[1] + 1, IF p[1] + 1 \in 1 .. N THEN step[p[1] + 1][p[2]] ELSE p[2]>>]
<1>1. first \in P
  OBVIOUS
<1>2. next \in [P -> P]
  <2>1. ASSUME NEW p \in P
        PROVE  next[p] \in P
    <3>1. p[1] + 1 \in Nat /\ p[2] \in S
      OBVIOUS
    <3>2. (IF p[1] + 1 \in 1 .. N THEN step[p[1] + 1][p[2]] ELSE p[2]) \in S
      BY <3>1
    <3> QED  BY <3>1, <3>2
  <2> QED  BY <2>1
<1>3. ASSUME NEW n \in Nat, NEW x \in S
      PROVE  next[<<n, x>>] = <<n + 1, IF n + 1 \in 1 .. N THEN step[n + 1][x] ELSE x>>
  OBVIOUS
<1> HIDE DEF next, first, P
<1>4. PICK f \in [Nat -> P] : f[0] = first /\ \A n \in Nat : f[n + 1] = next[f[n]]
  BY <1>1, <1>2, Iteration
<1> USE DEF first, P
<1> DEFINE T == {n \in Nat : f[n][1] = n}
<1>5. T = Nat
  <2>1. 0 \in T
    BY <1>4
  <2>2. ASSUME NEW n \in T
        PROVE  n + 1 \in T
    <3>1. n \in Nat /\ f[n] \in P /\ f[n][1] = n
      BY <1>4
    <3>2. f[n] = <<n, f[n][2]>> /\ f[n][2] \in S
      BY <3>1
    <3>3. f[n + 1] = next[<<n, f[n][2]>>]
      BY <1>4, <3>1, <3>2
    <3> QED  BY <1>3, <3>1, <3>2, <3>3
  <2>3. T \in SUBSET Nat
    OBVIOUS
  <2> HIDE DEF T
  <2> QED  BY <2>1, <2>2, <2>3, Succession
<1> DEFINE h == [n \in 0 .. N |-> f[n][2]]
<1>a. \A n \in Nat : f[n] \in P
  BY <1>4
<1>b. ASSUME NEW n \in Nat
      PROVE  f[n] = <<n, f[n][2]>> /\ f[n][2] \in S
  <2>1. f[n] \in P /\ f[n][1] = n
    BY <1>a, <1>5
  <2> QED  BY <2>1
<1>6. h \in [0 .. N -> S] /\ h[0] = base
  BY <1>4, <1>b
<1>7. ASSUME NEW n \in 1 .. N
      PROVE  h[n] = step[n][h[n - 1]]
  <2>1. n - 1 \in Nat /\ (n - 1) + 1 = n /\ n \in 0 .. N /\ n - 1 \in 0 .. N
    OBVIOUS
  <2>2. f[n - 1] = <<n - 1, f[n - 1][2]>> /\ f[n - 1][2] \in S
    BY <1>b, <2>1
  <2>3. f[n] = next[<<n - 1, f[n - 1][2]>>]
    BY <1>4, <2>1, <2>2
  <2>4. f[n] = <<n, step[n][f[n - 1][2]]>>
    BY <1>3, <2>1, <2>2, <2>3
  <2> QED  BY <2>1, <2>4
<1> QED  BY <1>6, <1>7 DEF Run

=============================================================================
