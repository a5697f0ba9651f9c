------------------------------ MODULE SumProofs ------------------------------
(***************************************************************************)
(* Sums over a finite set, such as the totals getTupleCounts compares: two *)
(* functions, one of which is nowhere above the other, have the same sum   *)
(* only if they are equal.  With them, that a finite set of numbers has a  *)
(* maximum.                                                                *)
(*                                                                         *)
(* A sum is a recursive function on the subsets of its domain.  That there *)
(* is one, and what it computes, is shown by induction on those subsets,   *)
(* in the form: a set of subsets that is not empty has a smallest member   *)
(* (Smallest), and a smallest counterexample is none.                      *)
(***************************************************************************)
EXTENDS Naturals, FiniteSets, FiniteSetsExt, FiniteSetTheorems, TLAPS

First(s) == CHOOSE x \in s : TRUE

\* The equation MapThenSumSet solves, for the function c on T.
IsSum(g, c, T) ==
  g = [s \in SUBSET T |-> IF s = {} THEN 0 ELSE c[First(s)] + g[s \ {First(s)}]]

SumOf(c, T) == (CHOOSE g : IsSum(g, c, T))[T]

\* A set of subsets of a finite set has a member that includes no other.
LEMMA Smallest ==
  ASSUME NEW T, IsFiniteSet(T), NEW B \in SUBSET SUBSET T, B # {}
  PROVE  \E s \in B : \A u \in SUBSET s : u # s => u \notin B
<1>1. IsWellFoundedOn(StrictSubsetOrdering(T), SUBSET T)
  BY FS_StrictSubsetOrderingWellFounded, FS_FiniteSubsetsOfFinite
<1>2. PICK s \in B : \A u \in B : <<u, s>> \notin StrictSubsetOrdering(T)
  BY <1>1, WFMin
<1>3. QED BY <1>2 DEF StrictSubsetOrdering

\* A finite set of numbers that is not empty has a maximum.
LEMMA HasMaximum ==
  ASSUME NEW T, IsFiniteSet(T), T \subseteq Nat, T # {}
  PROVE  \E x \in T : \A y \in T : y <= x
<1> DEFINE P(s) == \E x \in s : \A y \in s : y <= x
           B == {s \in SUBSET T : s # {} /\ ~P(s)}
<1>1. SUFFICES ASSUME B # {} PROVE FALSE
  OBVIOUS
<1>2. PICK s \in B : \A u \in SUBSET s : u # s => u \notin B
  <2>1. B \in SUBSET SUBSET T
    OBVIOUS
  <2> HIDE DEF B
  <2>2. QED BY <1>1, <2>1, Smallest
<1>3. PICK x \in s : TRUE
  OBVIOUS
<1>4. CASE s = {x}
  BY <1>3, <1>4
<1>5. CASE s # {x}
  <2>1. P(s \ {x})
    BY <1>2, <1>3, <1>5
  <2>2. PICK z \in s \ {x} : \A y \in s \ {x} : y <= z
    BY <2>1
  <2>3. x \in Nat /\ z \in Nat /\ \A y \in s : y \in Nat
    BY <1>3
  <2>4. CASE x <= z
    BY <2>2, <2>3, <2>4
  <2>5. CASE z <= x
    BY <2>2, <2>3, <2>5
  <2>6. QED BY <2>3, <2>4, <2>5
<1>6. QED BY <1>4, <1>5

\* What a sum takes out of a set first is in it.
LEMMA FirstIn == ASSUME NEW s, s # {} PROVE First(s) \in s
BY DEF First

\* The sum over a set does not depend on the set the equation is solved on.
LEMMA SumsAgree ==
  ASSUME NEW A, IsFiniteSet(A), NEW D, IsFiniteSet(D), NEW c,
         NEW g, NEW h, IsSum(g, c, A), IsSum(h, c, D), NEW s, s \in SUBSET A, s \in SUBSET D
  PROVE  g[s] = h[s]
<1> DEFINE B == {u \in SUBSET A : u \in SUBSET D /\ g[u] # h[u]}
<1>1. SUFFICES ASSUME B # {} PROVE FALSE
  OBVIOUS
<1>2. PICK u \in B : \A v \in SUBSET u : v # u => v \notin B
  <2>1. B \in SUBSET SUBSET A
    OBVIOUS
  <2> HIDE DEF B
  <2>2. QED BY <1>1, <2>1, Smallest
<1>3. u # {}
  BY DEF IsSum
<1>4. First(u) \in u
  BY <1>3, FirstIn
<1>5. g[u \ {First(u)}] = h[u \ {First(u)}]
  BY <1>2, <1>4
<1>6. QED BY <1>3, <1>5 DEF IsSum

\* The equation has a solution: the sums over the proper subsets give that over
\* the set.
LEMMA SumExists ==
  ASSUME NEW T, IsFiniteSet(T), NEW c
  PROVE  \E g : IsSum(g, c, T)
<1> DEFINE B == {U \in SUBSET T : ~ \E g : IsSum(g, c, U)}
           G(U) == CHOOSE g : IsSum(g, c, U)
<1>1. SUFFICES ASSUME B # {} PROVE FALSE
  OBVIOUS
<1>2. PICK U \in B : \A V \in SUBSET U : V # U => V \notin B
  <2>1. B \in SUBSET SUBSET T
    OBVIOUS
  <2> HIDE DEF B
  <2>2. QED BY <1>1, <2>1, Smallest
<1>3. \A V \in SUBSET U : V # U => IsSum(G(V), c, V) /\ IsFiniteSet(V)
  BY <1>2, FS_Subset
<1> DEFINE Rest(s) == s \ {First(s)}
           h == [s \in SUBSET U |-> IF s = {} THEN 0 ELSE c[First(s)] + G(Rest(s))[Rest(s)]]
<1>4. ASSUME NEW s \in SUBSET U, s # {} PROVE h[Rest(s)] = G(Rest(s))[Rest(s)]
  <2> DEFINE v == Rest(s)
  <2>1. v \in SUBSET U /\ v # U
    BY <1>4, FirstIn
  <2>2. IsSum(G(v), c, v) /\ IsFiniteSet(v)
    BY <1>3, <2>1
  <2> HIDE DEF G
  <2>3. CASE v = {}
    BY <2>1, <2>2, <2>3 DEF IsSum
  <2>4. CASE v # {}
    <3> DEFINE w == Rest(v)
    <3>1. w \in SUBSET U /\ w # U /\ w \in SUBSET v
      BY <2>1, <2>4, FirstIn
    <3>2. IsSum(G(w), c, w) /\ IsFiniteSet(w)
      BY <1>3, <3>1
    <3>3. G(v)[w] = G(w)[w]
      BY <2>2, <3>1, <3>2, SumsAgree
    <3>4. G(v)[v] = c[First(v)] + G(v)[w]
      BY <2>2, <2>4 DEF IsSum
    <3>5. h[v] = c[First(v)] + G(w)[w]
      BY <2>1, <2>4
    <3>6. QED BY <3>3, <3>4, <3>5
  <2>5. QED BY <2>3, <2>4
<1>5. IsSum(h, c, U)
  <2> HIDE DEF G
  <2>1. \A s \in SUBSET U : s # {} => h[Rest(s)] = G(Rest(s))[Rest(s)]
    BY <1>4
  <2>2. QED BY <2>1 DEF IsSum
<1>6. QED BY <1>2, <1>5

\* Of two solutions, for f nowhere above g, the sums compare as f and g do.
LEMMA SumsCompare ==
  ASSUME NEW T, IsFiniteSet(T), NEW f \in [T -> Nat], NEW g \in [T -> Nat],
         \A x \in T : f[x] <= g[x], NEW F, NEW G, IsSum(F, f, T), IsSum(G, g, T)
  PROVE  \A s \in SUBSET T : /\ F[s] \in Nat /\ G[s] \in Nat /\ F[s] <= G[s]
                             /\ F[s] = G[s] => \A x \in s : f[x] = g[x]
<1> DEFINE P(s) == /\ F[s] \in Nat /\ G[s] \in Nat /\ F[s] <= G[s]
                   /\ F[s] = G[s] => \A x \in s : f[x] = g[x]
           B == {s \in SUBSET T : ~P(s)}
<1>1. SUFFICES ASSUME B # {} PROVE FALSE
  OBVIOUS
<1>2. PICK s \in B : \A u \in SUBSET s : u # s => u \notin B
  <2>1. B \in SUBSET SUBSET T
    OBVIOUS
  <2> HIDE DEF B
  <2>2. QED BY <1>1, <2>1, Smallest
<1>3. s # {}
  BY DEF IsSum
<1> DEFINE x == First(s)
           r == s \ {x}
<1>4. x \in s
  BY <1>3, FirstIn
<1>5. P(r)
  BY <1>2, <1>4
<1>6. F[s] = f[x] + F[r] /\ G[s] = g[x] + G[r]
  BY <1>3 DEF IsSum
<1>7. f[x] \in Nat /\ g[x] \in Nat /\ f[x] <= g[x]
  BY <1>4
<1> HIDE DEF x
<1>8. F[s] = G[s] => f[x] = g[x] /\ F[r] = G[r]
  BY <1>5, <1>6, <1>7
<1>9. P(s)
  BY <1>5, <1>6, <1>7, <1>8
<1>10. QED BY <1>9

\* Of two counters, one of which is nowhere above the other, the sums are equal
\* only if the counters are.
LEMMA EqualSums ==
  ASSUME NEW T, IsFiniteSet(T), NEW f \in [T -> Nat], NEW g \in [T -> Nat],
         \A x \in T : f[x] <= g[x]
  PROVE  (SumOf(f, T) = SumOf(g, T)) <=> (f = g)
<1> DEFINE F == CHOOSE h : IsSum(h, f, T)
           G == CHOOSE h : IsSum(h, g, T)
<1>1. IsSum(F, f, T) /\ IsSum(G, g, T)
  BY SumExists
<1>2. SumOf(f, T) = F[T] /\ SumOf(g, T) = G[T]
  BY DEF SumOf
<1> HIDE DEF F, G
<1>3. F[T] = G[T] => \A x \in T : f[x] = g[x]
  <2>1. \A s \in SUBSET T : F[s] = G[s] => \A x \in s : f[x] = g[x]
    BY <1>1, SumsCompare
  <2>2. QED BY <2>1
<1>4. QED BY <1>2, <1>3
=============================================================================
