----------------------------- MODULE SumTheorems -----------------------------
(***************************************************************************)
(* Sums over finite sets.  What the models count in bytes, an owner's      *)
(* xorbs, the files of a cache, the terms of a file, is SumFunctionOnSet   *)
(* of a function to Nat.  It is defined by a recursive function that takes *)
(* elements away in an order CHOOSE fixes; the lemmas below say that the   *)
(* function exists, and that the order does not matter.                    *)
(*                                                                         *)
(* Induction is by a counterexample of least cardinality.                  *)
(***************************************************************************)
EXTENDS Naturals, Functions, FiniteSets, FiniteSetTheorems, WellFoundedInduction, TLAPS

LOCAL Pick(s) == CHOOSE x \in s : TRUE

(* g adds up w over every subset of S. *)
LOCAL Adds(g, w, S) ==
    g = [s \in SUBSET S |-> IF s = {} THEN 0 ELSE w[Pick(s)] + g[s \ {Pick(s)}]]

LOCAL HasSum(w, S) == \E g : Adds(g, w, S)

(* A non-empty set of numbers has a least one. *)
LEMMA LeastNat ==
    ASSUME NEW T \in SUBSET Nat, T # {}
    PROVE  \E n \in T : \A m \in T : n <= m
<1>1. PICK n \in T : \A m \in T : <<m, n>> \notin OpToRel(<, Nat)
  BY NatLessThanWellFounded, WFMin
<1>2. ASSUME NEW m \in T PROVE n <= m
  <2>1. ~(m < n)
    BY <1>1, Zenon DEF OpToRel
  <2>2. m \in Nat /\ n \in Nat
    OBVIOUS
  <2>3. QED
    BY <2>1, <2>2
<1>3. QED
  BY <1>2

(* A non-empty collection of finite sets has one of least cardinality.     *)
LEMMA LeastSet ==
    ASSUME NEW C, C # {}, \A U \in C : IsFiniteSet(U)
    PROVE  \E U \in C : \A V \in C : Cardinality(U) <= Cardinality(V)
<1> DEFINE T == {Cardinality(U) : U \in C}
<1>1. T \in SUBSET Nat /\ T # {}
  BY FS_CardinalityType
<1>2. PICK n \in T : \A m \in T : n <= m
  BY <1>1, LeastNat
<1>3. QED
  BY <1>2

(* A set without one of its elements has fewer. *)
LEMMA Smaller ==
    ASSUME NEW S, IsFiniteSet(S), NEW x \in S
    PROVE  /\ IsFiniteSet(S \ {x}) /\ ~(Cardinality(S) <= Cardinality(S \ {x}))
           /\ Cardinality(S) \in Nat
<1>1. IsFiniteSet(S \ {x}) /\ Cardinality(S \ {x}) = Cardinality(S) - 1
  BY FS_RemoveElement
<1>2. Cardinality(S) \in Nat
  BY FS_CardinalityType
<1>3. QED
  BY <1>1, <1>2

(* The element that the fold takes first is one of the set. *)
LEMMA PickIn ==
    ASSUME NEW S, S # {}
    PROVE  Pick(S) \in S
BY DEF Pick

(* The two equations of the recursion. *)
LEMMA AddsAt ==
    ASSUME NEW g, NEW w, NEW S, Adds(g, w, S), NEW s \in SUBSET S
    PROVE  /\ s = {} => g[s] = 0
           /\ s # {} => g[s] = w[Pick(s)] + g[s \ {Pick(s)}]
BY DEF Adds

(* Two such functions agree where both are defined. *)
LEMMA AddsAgree ==
    ASSUME NEW w, NEW S, NEW T, NEW g, NEW h, Adds(g, w, S), Adds(h, w, T),
           NEW U \in SUBSET (S \cap T), IsFiniteSet(U)
    PROVE  g[U] = h[U]
<1> DEFINE C == {V \in SUBSET U : g[V] # h[V]}
<1> SUFFICES ASSUME C # {} PROVE FALSE
  OBVIOUS
<1>1. PICK V \in C : \A W \in C : Cardinality(V) <= Cardinality(W)
  BY LeastSet, FS_Subset
<1>2. V \in SUBSET S /\ V \in SUBSET T /\ IsFiniteSet(V) /\ g[V] # h[V]
  BY FS_Subset
<1>3. V # {}
  <2>1. V = {} => g[V] = 0 /\ h[V] = 0
    BY <1>2, AddsAt
  <2>2. QED
    BY <1>2, <2>1
<1>4. Pick(V) \in V
  BY <1>3, PickIn
<1>5. V \ {Pick(V)} \notin C
  BY <1>1, <1>2, <1>4, Smaller
<1>6. g[V \ {Pick(V)}] = h[V \ {Pick(V)}]
  BY <1>5
<1>7. g[V] = w[Pick(V)] + g[V \ {Pick(V)}]
  BY <1>2, <1>3, AddsAt
<1>8. h[V] = w[Pick(V)] + h[V \ {Pick(V)}]
  <2> HIDE DEF C
  <2>1. Adds(h, w, T) /\ V \in SUBSET T
    BY <1>2
  <2>2. QED
    BY <2>1, <1>3, AddsAt
<1>9. QED
  BY <1>2, <1>6, <1>7, <1>8

(* There is such a function on every finite set: a least set without one   *)
(* would get one from those of its subsets.                                *)
LEMMA AddsExists ==
    ASSUME NEW w, NEW S, IsFiniteSet(S)
    PROVE  HasSum(w, S)
<1> DEFINE C == {V \in SUBSET S : ~HasSum(w, V)}
<1> SUFFICES ASSUME C # {} PROVE FALSE
  OBVIOUS
<1>1. PICK U \in C : \A V \in C : Cardinality(U) <= Cardinality(V)
  BY LeastSet, FS_Subset
<1>2. U \in SUBSET S /\ IsFiniteSet(U) /\ ~HasSum(w, U)
  BY FS_Subset
<1> DEFINE F(t) == CHOOSE h : Adds(h, w, t)
           G == [s \in SUBSET U |-> IF s = {} THEN 0 ELSE w[Pick(s)] + F(s \ {Pick(s)})[s \ {Pick(s)}]]
<1>3. ASSUME NEW t \in SUBSET U, t # U PROVE IsFiniteSet(t) /\ Adds(F(t), w, t)
  <2>1. IsFiniteSet(t) /\ t \notin C
    <3>1. IsFiniteSet(t) /\ Cardinality(t) <= Cardinality(U) /\ Cardinality(t) # Cardinality(U)
      BY <1>2, <1>3, FS_Subset
    <3>2. Cardinality(t) \in Nat /\ Cardinality(U) \in Nat
      BY <1>2, <3>1, FS_CardinalityType
    <3>3. QED
      BY <1>1, <3>1, <3>2
  <2>2. HasSum(w, t)
    BY <1>2, <2>1
  <2>3. QED
    BY <2>1, <2>2 DEF HasSum
<1>4. ASSUME NEW t \in SUBSET U, t # U PROVE G[t] = F(t)[t]
  <2>1. CASE t = {}
    <3>1. Adds(F(t), w, t)
      BY <1>3, <1>4
    <3> HIDE DEF F
    <3>2. F(t)[t] = 0
      BY <2>1, <3>1, AddsAt
    <3>3. QED
      BY <2>1, <3>2
  <2>2. CASE t # {}
    <3> DEFINE v == t \ {Pick(t)}
    <3>1. Pick(t) \in t
      BY <2>2, PickIn
    <3>2. v \in SUBSET U /\ v # U /\ v \in SUBSET (t \cap v)
      BY <3>1
    <3>3. Adds(F(t), w, t) /\ Adds(F(v), w, v) /\ IsFiniteSet(v)
      BY <1>3, <1>4, <3>2
    <3> HIDE DEF F
    <3>4. F(t)[v] = F(v)[v]
      BY <3>2, <3>3, AddsAgree
    <3>5. F(t)[t] = w[Pick(t)] + F(t)[v]
      BY <2>2, <3>3, AddsAt
    <3>6. QED
      BY <2>2, <3>4, <3>5
  <2>3. QED
    BY <2>1, <2>2
<1>5. ASSUME NEW s \in SUBSET U, s # {} PROVE G[s] = w[Pick(s)] + G[s \ {Pick(s)}]
  <2>1. Pick(s) \in s
    BY <1>5, PickIn
  <2>2. s \ {Pick(s)} \in SUBSET U /\ s \ {Pick(s)} # U
    BY <2>1
  <2>3. G[s \ {Pick(s)}] = F(s \ {Pick(s)})[s \ {Pick(s)}]
    BY <1>4, <2>2
  <2> HIDE DEF F
  <2>4. QED
    BY <1>5, <2>3
<1>6. Adds(G, w, U)
  <2>1. G = [s \in SUBSET U |-> G[s]]
    OBVIOUS
  <2>2. ASSUME NEW s \in SUBSET U
        PROVE  G[s] = IF s = {} THEN 0 ELSE w[Pick(s)] + G[s \ {Pick(s)}]
    <3>1. CASE s = {}
      BY <3>1
    <3>2. CASE s # {}
      <4>1. G[s] = w[Pick(s)] + G[s \ {Pick(s)}]
        BY <3>2, <1>5
      <4> HIDE DEF G
      <4>2. QED
        BY <3>2, <4>1
    <3>3. QED
      BY <3>1, <3>2
  <2> HIDE DEF G
  <2>3. QED
    BY <2>1, <2>2 DEF Adds
<1>7. QED
  BY <1>2, <1>6 DEF HasSum

-----------------------------------------------------------------------------
(* Sums of numbers. *)

(* The sum is taken with one such function. *)
LEMMA SumAdds ==
    ASSUME NEW w, NEW S, IsFiniteSet(S)
    PROVE  \E g : Adds(g, w, S) /\ SumFunctionOnSet(w, S) = g[S]
<1> DEFINE g == CHOOSE h : Adds(h, w, S)
<1>1. SumFunctionOnSet(w, S) = g[S]
  BY DEF Adds, Pick, SumFunctionOnSet, FoldFunctionOnSet, MapThenFoldSet
<1>2. Adds(g, w, S)
  BY AddsExists DEF HasSum
<1>3. QED
  BY <1>1, <1>2

(* The sum over no elements. *)
LEMMA SumEmpty == ASSUME NEW w PROVE SumFunctionOnSet(w, {}) = 0
<1>1. PICK g : Adds(g, w, {}) /\ SumFunctionOnSet(w, {}) = g[{}]
  BY SumAdds, FS_EmptySet
<1>2. QED
  BY <1>1, AddsAt

(* The sum takes out the element that the fold chooses. *)
LEMMA SumPick ==
    ASSUME NEW w, NEW S, IsFiniteSet(S), S # {}
    PROVE  SumFunctionOnSet(w, S) = w[Pick(S)] + SumFunctionOnSet(w, S \ {Pick(S)})
<1> DEFINE R == S \ {Pick(S)}
<1>1. IsFiniteSet(R)
  BY FS_Subset
<1>2. PICK g : Adds(g, w, S) /\ SumFunctionOnSet(w, S) = g[S]
  BY SumAdds
<1>3. PICK h : Adds(h, w, R) /\ SumFunctionOnSet(w, R) = h[R]
  BY <1>1, SumAdds
<1>4. g[R] = h[R]
  BY <1>1, <1>2, <1>3, AddsAgree
<1>5. g[S] = w[Pick(S)] + g[R]
  BY <1>2, AddsAt
<1>6. QED
  BY <1>2, <1>3, <1>4, <1>5

(* A sum of naturals is a natural. *)
LEMMA SumNat ==
    ASSUME NEW w, NEW S, IsFiniteSet(S), \A x \in S : w[x] \in Nat
    PROVE  SumFunctionOnSet(w, S) \in Nat
<1> DEFINE C == {V \in SUBSET S : SumFunctionOnSet(w, V) \notin Nat}
<1> SUFFICES ASSUME C # {} PROVE FALSE
  OBVIOUS
<1>1. PICK V \in C : \A W \in C : Cardinality(V) <= Cardinality(W)
  BY LeastSet, FS_Subset
<1>2. V \in SUBSET S /\ IsFiniteSet(V) /\ SumFunctionOnSet(w, V) \notin Nat
  BY FS_Subset
<1>3. V # {}
  BY <1>2, SumEmpty
<1>4. Pick(V) \in V
  BY <1>3, PickIn
<1>5. SumFunctionOnSet(w, V \ {Pick(V)}) \in Nat
  BY <1>1, <1>2, <1>4, Smaller
<1>6. SumFunctionOnSet(w, V) = w[Pick(V)] + SumFunctionOnSet(w, V \ {Pick(V)})
  BY <1>2, <1>3, SumPick
<1>7. w[Pick(V)] \in Nat
  BY <1>2, <1>4
<1>8. QED
  BY <1>2, <1>5, <1>6, <1>7

(* Any element may be taken away first. *)
LEMMA SumRemove ==
    ASSUME NEW w, NEW S, IsFiniteSet(S), \A x \in S : w[x] \in Nat, NEW y \in S
    PROVE  SumFunctionOnSet(w, S) = w[y] + SumFunctionOnSet(w, S \ {y})
<1> DEFINE Bad(V) == \E z \in V : SumFunctionOnSet(w, V) # w[z] + SumFunctionOnSet(w, V \ {z})
           C == {V \in SUBSET S : Bad(V)}
<1> SUFFICES ASSUME C # {} PROVE FALSE
  OBVIOUS
<1>1. PICK V \in C : \A W \in C : Cardinality(V) <= Cardinality(W)
  BY LeastSet, FS_Subset
<1>2. V \in SUBSET S /\ IsFiniteSet(V) /\ Bad(V)
  BY FS_Subset
<1>3. PICK z \in V : SumFunctionOnSet(w, V) # w[z] + SumFunctionOnSet(w, V \ {z})
  BY <1>2
<1> DEFINE c == Pick(V)
           R == (V \ {z}) \ {c}
<1>4. c \in V
  BY <1>3, PickIn
<1>5. SumFunctionOnSet(w, V) = w[c] + SumFunctionOnSet(w, V \ {c})
  BY <1>2, <1>3, SumPick
<1> HIDE DEF c
<1>6. c # z
  BY <1>3, <1>5
<1>7. ~Bad(V \ {c}) /\ ~Bad(V \ {z})
  BY <1>1, <1>2, <1>3, <1>4, Smaller
<1>8. SumFunctionOnSet(w, V \ {c}) = w[z] + SumFunctionOnSet(w, R)
  <2>1. z \in V \ {c} /\ (V \ {c}) \ {z} = R
    BY <1>3, <1>6
  <2>2. QED
    BY <1>7, <2>1
<1>9. SumFunctionOnSet(w, V \ {z}) = w[c] + SumFunctionOnSet(w, R)
  BY <1>4, <1>6, <1>7
<1>10. w[c] \in Nat /\ w[z] \in Nat /\ SumFunctionOnSet(w, R) \in Nat
  <2>1. IsFiniteSet(R) /\ \A x \in R : w[x] \in Nat
    BY <1>2, FS_Subset
  <2>2. QED
    BY <1>2, <1>3, <1>4, <2>1, SumNat
<1>11. QED
  BY <1>3, <1>5, <1>8, <1>9, <1>10

(* Functions that agree on a set have the same sum over it. *)
LEMMA SumAgree ==
    ASSUME NEW v, NEW w, NEW S, IsFiniteSet(S), \A x \in S : v[x] = w[x]
    PROVE  SumFunctionOnSet(v, S) = SumFunctionOnSet(w, S)
<1> DEFINE C == {V \in SUBSET S : SumFunctionOnSet(v, V) # SumFunctionOnSet(w, V)}
<1> SUFFICES ASSUME C # {} PROVE FALSE
  OBVIOUS
<1>1. PICK V \in C : \A W \in C : Cardinality(V) <= Cardinality(W)
  BY LeastSet, FS_Subset
<1>2. V \in SUBSET S /\ IsFiniteSet(V) /\ SumFunctionOnSet(v, V) # SumFunctionOnSet(w, V)
  BY FS_Subset
<1>3. V # {}
  BY <1>2, SumEmpty
<1>4. Pick(V) \in V
  BY <1>3, PickIn
<1>5. SumFunctionOnSet(v, V \ {Pick(V)}) = SumFunctionOnSet(w, V \ {Pick(V)})
  BY <1>1, <1>2, <1>4, Smaller
<1>6. v[Pick(V)] = w[Pick(V)]
  BY <1>2, <1>4
<1>7. QED
  BY <1>2, <1>3, <1>5, <1>6, SumPick

(* A set may be summed up in two parts. *)
LEMMA SumSplit ==
    ASSUME NEW w, NEW S, IsFiniteSet(S), \A x \in S : w[x] \in Nat, NEW T \in SUBSET S
    PROVE  SumFunctionOnSet(w, S) = SumFunctionOnSet(w, T) + SumFunctionOnSet(w, S \ T)
<1> DEFINE Part(V) == SumFunctionOnSet(w, S) = SumFunctionOnSet(w, V) + SumFunctionOnSet(w, S \ V)
           C == {V \in SUBSET S : ~Part(V)}
<1> SUFFICES ASSUME C # {} PROVE FALSE
  OBVIOUS
<1>1. PICK V \in C : \A W \in C : Cardinality(V) <= Cardinality(W)
  BY LeastSet, FS_Subset
<1>2. V \in SUBSET S /\ IsFiniteSet(V) /\ ~Part(V)
  BY FS_Subset
<1>3. SumFunctionOnSet(w, S) \in Nat
  BY SumNat
<1>4. V # {}
  <2>1. S \ {} = S
    OBVIOUS
  <2>2. Part({})
    BY <1>3, <2>1, SumEmpty
  <2>3. QED
    BY <1>2, <2>2
<1>5. PICK y \in V : TRUE
  BY <1>4
<1> DEFINE V1 == V \ {y}
           R == S \ V
<1>6. Part(V1)
  <2>1. ~(Cardinality(V) <= Cardinality(V1))
    BY <1>2, <1>5, Smaller
  <2>2. QED
    BY <1>1, <1>2, <2>1
<1>7. (S \ V1) \ {y} = R /\ y \in S \ V1 /\ y \in S
  BY <1>2, <1>5
<1>8. IsFiniteSet(S \ V1) /\ IsFiniteSet(R) /\ IsFiniteSet(V1)
  BY <1>2, FS_Subset
<1>9. SumFunctionOnSet(w, S \ V1) = w[y] + SumFunctionOnSet(w, R)
  <2>1. \A x \in S \ V1 : w[x] \in Nat
    OBVIOUS
  <2>2. SumFunctionOnSet(w, S \ V1) = w[y] + SumFunctionOnSet(w, (S \ V1) \ {y})
    BY <1>7, <1>8, <2>1, SumRemove
  <2>3. QED
    BY <1>7, <2>2
<1>10. SumFunctionOnSet(w, V) = w[y] + SumFunctionOnSet(w, V1)
  <2>1. \A x \in V : w[x] \in Nat
    BY <1>2
  <2>2. QED
    BY <1>2, <2>1, SumRemove
<1>11. w[y] \in Nat /\ SumFunctionOnSet(w, R) \in Nat /\ SumFunctionOnSet(w, V1) \in Nat
  <2>1. (\A x \in R : w[x] \in Nat) /\ (\A x \in V1 : w[x] \in Nat)
    BY <1>2
  <2>2. QED
    BY <1>7, <1>8, <2>1, SumNat
<1>12. QED
  BY <1>2, <1>6, <1>9, <1>10, <1>11

(* A part is no more than the whole. *)
LEMMA SumMonotonic ==
    ASSUME NEW w, NEW S, IsFiniteSet(S), \A x \in S : w[x] \in Nat, NEW T \in SUBSET S
    PROVE  SumFunctionOnSet(w, T) <= SumFunctionOnSet(w, S)
<1>1. IsFiniteSet(T) /\ IsFiniteSet(S \ T)
  BY FS_Subset
<1>2. (\A x \in T : w[x] \in Nat) /\ (\A x \in S \ T : w[x] \in Nat)
  OBVIOUS
<1>3. SumFunctionOnSet(w, T) \in Nat /\ SumFunctionOnSet(w, S \ T) \in Nat
  BY <1>1, <1>2, SumNat
<1>4. QED
  BY <1>3, SumSplit

(* An element added. *)
LEMMA SumAdd ==
    ASSUME NEW w, NEW S, IsFiniteSet(S), NEW y, y \notin S, \A x \in S \cup {y} : w[x] \in Nat
    PROVE  SumFunctionOnSet(w, S \cup {y}) = w[y] + SumFunctionOnSet(w, S)
<1>1. IsFiniteSet(S \cup {y}) /\ y \in S \cup {y} /\ (S \cup {y}) \ {y} = S
  BY FS_AddElement
<1>2. SumFunctionOnSet(w, S \cup {y}) = w[y] + SumFunctionOnSet(w, (S \cup {y}) \ {y})
  BY <1>1, SumRemove
<1>3. QED
  BY <1>1, <1>2
==============================================================================
