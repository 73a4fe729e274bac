----------------------------- MODULE SumLemmas -----------------------------
(***************************************************************************)
(* Facts about the sum of a function over a finite set, which the library  *)
(* defines by taking one element after the other: neither the order nor    *)
(* what the function does outside the set matters; and about functions     *)
(* defined along the numbers up to a bound, as the models' loops are.      *)
(* Each induction is carried out by hand, on a smallest counterexample.    *)
(***************************************************************************)
EXTENDS Integers, Functions, FiniteSetTheorems, WellFoundedInduction, TLAPS

\* The sum of f over S.
Sum(f, S) == SumFunctionOnSet(f, S)

\* The element a sum takes next, and what one pass over the subsets computes.
Picked(S) == CHOOSE x \in S : TRUE

IsPass(g, f, S) ==
    g = [s \in SUBSET S |-> IF s = {} THEN 0
                            ELSE f[Picked(s)] + g[s \ {Picked(s)}]]
-----------------------------------------------------------------------------
\* A set of natural numbers that is not empty has a least element.
LEMMA LeastElement ==
    ASSUME NEW T \in SUBSET Nat, T # {}
    PROVE  \E n \in T : \A m \in T : n <= m
<1>1. PICK n \in T : \A m \in T : ~ (<<m, n>> \in OpToRel(<, Nat))
  BY NatLessThanWellFounded, WFMin
<1>2. ASSUME NEW m \in T PROVE n <= m
  <2>1. ASSUME m < n PROVE <<m, n>> \in OpToRel(<, Nat)
    BY <2>1 DEF OpToRel
  <2>2. ~ (m < n)
    BY <1>1, <2>1
  <2> QED BY <2>2
<1> QED BY <1>2

\* And a greatest one if it has a bound.
LEMMA GreatestElement ==
    ASSUME NEW T \in SUBSET Nat, T # {}, NEW n \in Nat, \A t \in T : t <= n
    PROVE  \E m \in T : \A t \in T : t <= m
<1> DEFINE D == {n - t : t \in T}
<1>1. D \in SUBSET Nat /\ D # {}
  <2>1. \A t \in T : t \in Nat /\ n - t \in Nat
    OBVIOUS
  <2> QED BY <2>1
<1>2. PICK d \in D : \A e \in D : d <= e
  <2> HIDE DEF D
  <2> QED BY <1>1, LeastElement
<1>3. PICK m \in T : d = n - m
  BY <1>2
<1>4. ASSUME NEW t \in T PROVE t <= m
  <2>1. n - m <= n - t
    BY <1>2, <1>3
  <2> QED BY <2>1
<1> QED BY <1>4

\* Of a family of finite sets that is not empty one has the fewest elements.
LEMMA SmallestSet ==
    ASSUME NEW F, F # {}, \A s \in F : IsFiniteSet(s)
    PROVE  \E s \in F : \A t \in F : ~ (Cardinality(t) < Cardinality(s))
<1> DEFINE T == {Cardinality(s) : s \in F}
<1>1. T \in SUBSET Nat /\ T # {}
  BY FS_CardinalityType
<1> HIDE DEF T
<1>2. PICK n \in T : \A m \in T : n <= m
  BY <1>1, LeastElement
<1>3. PICK s \in F : Cardinality(s) = n
  BY <1>2 DEF T
<1>4. ASSUME NEW t \in F PROVE ~ (Cardinality(t) < Cardinality(s))
  <2>1. Cardinality(t) \in T
    BY DEF T
  <2>2. n <= Cardinality(t) /\ n \in Nat /\ Cardinality(t) \in Nat
    BY <1>1, <1>2, <2>1
  <2> QED BY <1>3, <2>2
<1> QED BY <1>4

LEMMA PickedIsElement ==
    ASSUME NEW S, S # {}
    PROVE  Picked(S) \in S
BY DEF Picked

\* A set without one of its elements is finite and smaller.
LEMMA OneLess ==
    ASSUME NEW S, IsFiniteSet(S), NEW x \in S
    PROVE  /\ IsFiniteSet(S \ {x})
           /\ Cardinality(S \ {x}) < Cardinality(S)
<1>1. IsFiniteSet(S \ {x}) /\ Cardinality(S \ {x}) = Cardinality(S) - 1
  BY FS_RemoveElement
<1>2. Cardinality(S) \in Nat
  BY FS_CardinalityType
<1> QED BY <1>1, <1>2

LEMMA SumIsPass ==
    ASSUME NEW f, NEW S
    PROVE  Sum(f, S) = (CHOOSE g : IsPass(g, f, S))[S]
BY DEF Sum, SumFunctionOnSet, FoldFunctionOnSet, MapThenFoldSet, IsPass, Picked
-----------------------------------------------------------------------------
\* A pass over S contains the passes over the subsets of S.
LEMMA PassRestricts ==
    ASSUME NEW f, NEW S, NEW T \in SUBSET S, NEW g, IsPass(g, f, S)
    PROVE  IsPass([s \in SUBSET T |-> g[s]], f, T)
<1> DEFINE h == [s \in SUBSET T |-> g[s]]
<1>1. ASSUME NEW s \in SUBSET T
      PROVE  h[s] = IF s = {} THEN 0 ELSE f[Picked(s)] + h[s \ {Picked(s)}]
  <2>1. g[s] = IF s = {} THEN 0 ELSE f[Picked(s)] + g[s \ {Picked(s)}]
    BY DEF IsPass
  <2>2. h[s] = g[s] /\ h[s \ {Picked(s)}] = g[s \ {Picked(s)}]
    OBVIOUS
  <2> QED BY <2>1, <2>2
<1>2. h = [s \in SUBSET T |-> IF s = {} THEN 0
                              ELSE f[Picked(s)] + h[s \ {Picked(s)}]]
  BY <1>1
<1> QED BY <1>2 DEF IsPass

\* There is one pass over a finite set at most.
LEMMA PassUnique ==
    ASSUME NEW f, NEW S, IsFiniteSet(S),
           NEW g, NEW h, IsPass(g, f, S), IsPass(h, f, S)
    PROVE  g = h
<1> DEFINE F == {s \in SUBSET S : g[s] # h[s]}
<1>1. F = {}
  <2> SUFFICES ASSUME F # {} PROVE FALSE
    OBVIOUS
  <2>1. \A s \in F : IsFiniteSet(s)
    BY FS_Subset
  <2>2. PICK s \in F : \A t \in F : ~ (Cardinality(t) < Cardinality(s))
    <3> HIDE DEF F
    <3> QED BY <2>1, SmallestSet
  <2>3. /\ g[s] = IF s = {} THEN 0 ELSE f[Picked(s)] + g[s \ {Picked(s)}]
        /\ h[s] = IF s = {} THEN 0 ELSE f[Picked(s)] + h[s \ {Picked(s)}]
    BY DEF IsPass
  <2>4. s # {} /\ g[s \ {Picked(s)}] # h[s \ {Picked(s)}]
    BY <2>3
  <2>5. s \ {Picked(s)} \in F
    BY <2>4
  <2>6. Cardinality(s \ {Picked(s)}) < Cardinality(s)
    BY <2>1, <2>4, PickedIsElement, OneLess
  <2> QED BY <2>2, <2>5, <2>6
<1>2. DOMAIN g = SUBSET S /\ DOMAIN h = SUBSET S
  BY DEF IsPass
<1>3. g = [s \in SUBSET S |-> g[s]] /\ h = [s \in SUBSET S |-> h[s]]
  BY DEF IsPass
<1> QED BY <1>1, <1>3

\* There is a pass over every finite set.
LEMMA PassExists ==
    ASSUME NEW f, NEW S, IsFiniteSet(S)
    PROVE  \E g : IsPass(g, f, S)
<1> DEFINE F == {s \in SUBSET S : ~ \E g : IsPass(g, f, s)}
<1> SUFFICES ASSUME F # {} PROVE FALSE
  OBVIOUS
<1>1. \A s \in F : IsFiniteSet(s)
  BY FS_Subset
<1>2. PICK T \in F : \A t \in F : ~ (Cardinality(t) < Cardinality(T))
  <2> HIDE DEF F
  <2> QED BY <1>1, SmallestSet
<1> DEFINE pass(u) == CHOOSE g : IsPass(g, f, u)
           rest(u) == u \ {Picked(u)}
           g == [s \in SUBSET T |-> IF s = {} THEN 0
                                    ELSE f[Picked(s)] + pass(rest(s))[rest(s)]]
<1>3. ASSUME NEW u \in SUBSET T, u # T
      PROVE  IsFiniteSet(u) /\ IsPass(pass(u), f, u)
  <2>1. IsFiniteSet(T) /\ IsFiniteSet(u)
    BY <1>1, FS_Subset
  <2>2. Cardinality(u) < Cardinality(T)
    BY <1>3, <2>1, FS_Subset, FS_CardinalityType
  <2>3. u \notin F
    BY <1>2, <2>2
  <2>4. \E p : IsPass(p, f, u)
    BY <2>3
  <2> QED BY <2>1, <2>4
<1>4. ASSUME NEW s \in SUBSET T, s # {}
      PROVE  g[rest(s)] = pass(rest(s))[rest(s)]
  <2> DEFINE u == rest(s)
  <2>1. u \in SUBSET T /\ u # T
    BY <1>4, PickedIsElement
  <2>2. IsFiniteSet(u) /\ IsPass(pass(u), f, u)
    BY <1>3, <2>1
  <2>3. CASE u = {}
    <3>1. pass(u)[u] = 0
      BY <2>2, <2>3 DEF IsPass
    <3> QED BY <2>1, <2>3, <3>1
  <2>4. CASE u # {}
    <3> DEFINE v == rest(u)
    <3>1. v \in SUBSET u /\ v \in SUBSET T /\ v # T
      BY <2>1, <2>4, PickedIsElement
    <3>2. IsFiniteSet(v) /\ IsPass(pass(v), f, v)
      BY <1>3, <3>1
    <3>3. pass(u)[u] = f[Picked(u)] + pass(u)[v]
      BY <2>2, <2>4 DEF IsPass
    <3> DEFINE r == [w \in SUBSET v |-> pass(u)[w]]
    <3>4. IsPass(r, f, v)
      <4>1. \A p : IsPass(p, f, u) => IsPass([w \in SUBSET v |-> p[w]], f, v)
        <5> HIDE DEF v, u
        <5> QED BY <3>1, PassRestricts
      <4> QED BY <2>2, <4>1
    <3>5. r = pass(v)
      <4> HIDE DEF pass, v, r
      <4> QED BY <3>2, <3>4, PassUnique
    <3>6. r[v] = pass(u)[v]
      OBVIOUS
    <3>7. g[u] = f[Picked(u)] + pass(v)[v]
      BY <2>1, <2>4
    <3> QED
      <4> HIDE DEF pass, v, r, g, u
      <4> QED BY <3>3, <3>5, <3>6, <3>7 DEF u
  <2> QED BY <2>3, <2>4
<1>5. g = [s \in SUBSET T |-> IF s = {} THEN 0
                              ELSE f[Picked(s)] + g[s \ {Picked(s)}]]
  <2>1. ASSUME NEW s \in SUBSET T
        PROVE  g[s] = IF s = {} THEN 0 ELSE f[Picked(s)] + g[s \ {Picked(s)}]
    <3>1. g[s] = IF s = {} THEN 0 ELSE f[Picked(s)] + pass(rest(s))[rest(s)]
      OBVIOUS
    <3>2. ASSUME s # {} PROVE g[s \ {Picked(s)}] = pass(rest(s))[rest(s)]
      <4> HIDE DEF g, pass
      <4> QED BY <1>4, <3>2
    <3> HIDE DEF g, pass
    <3> QED BY <3>1, <3>2
  <2>2. g = [s \in SUBSET T |-> g[s]]
    OBVIOUS
  <2> HIDE DEF g
  <2> QED BY <2>1, <2>2
<1>6. IsPass(g, f, T)
  <2> HIDE DEF g
  <2> QED BY <1>5 DEF IsPass
<1> QED
  <2> HIDE DEF g
  <2> QED BY <1>6
-----------------------------------------------------------------------------
\* A sum over a finite set is the element taken next and the sum of the rest.
LEMMA SumStep ==
    ASSUME NEW f, NEW S, IsFiniteSet(S)
    PROVE  Sum(f, S) = IF S = {} THEN 0 ELSE f[Picked(S)] + Sum(f, S \ {Picked(S)})
<1> DEFINE g == CHOOSE p : IsPass(p, f, S)
           R == S \ {Picked(S)}
           h == CHOOSE p : IsPass(p, f, R)
<1>1. IsPass(g, f, S)
  BY PassExists
<1>2. Sum(f, S) = g[S] /\ Sum(f, R) = h[R]
  BY SumIsPass
<1>3. CASE S = {}
  BY <1>1, <1>2, <1>3 DEF IsPass
<1>4. CASE S # {}
  <2>1. Picked(S) \in S /\ R \in SUBSET S
    BY <1>4, PickedIsElement
  <2>2. IsFiniteSet(R)
    BY <2>1, OneLess
  <2>3. IsPass(h, f, R)
    <3> HIDE DEF R
    <3> QED BY <2>2, PassExists
  <2> DEFINE r == [s \in SUBSET R |-> g[s]]
  <2>4. IsPass(r, f, R)
    <3> HIDE DEF R, g
    <3> QED BY <1>1, <2>1, PassRestricts
  <2>5. r = h
    <3> HIDE DEF R, h, r
    <3> QED BY <2>2, <2>3, <2>4, PassUnique
  <2>6. r[R] = g[R]
    OBVIOUS
  <2>7. g[S] = f[Picked(S)] + g[R]
    <3> HIDE DEF g
    <3> QED BY <1>1, <1>4 DEF IsPass
  <2> HIDE DEF g, h, r
  <2> QED BY <1>2, <1>4, <2>5, <2>6, <2>7
<1> QED BY <1>3, <1>4

\* A sum of integers is an integer, and any element of the set may be taken out
\* of it first.
LEMMA SumTakes ==
    ASSUME NEW f, NEW S, IsFiniteSet(S), \A x \in S : f[x] \in Int
    PROVE  /\ Sum(f, S) \in Int
           /\ \A x \in S : Sum(f, S) = f[x] + Sum(f, S \ {x})
<1> DEFINE Good(s) == /\ Sum(f, s) \in Int
                      /\ \A x \in s : Sum(f, s) = f[x] + Sum(f, s \ {x})
           F == {s \in SUBSET S : ~ Good(s)}
<1> SUFFICES ASSUME F # {} PROVE FALSE
  OBVIOUS
<1>1. \A s \in F : IsFiniteSet(s)
  BY FS_Subset
<1>2. PICK T \in F : \A t \in F : ~ (Cardinality(t) < Cardinality(T))
  <2> HIDE DEF F
  <2> QED BY <1>1, SmallestSet
<1>3. ASSUME NEW x \in T PROVE Good(T \ {x})
  <2>1. Cardinality(T \ {x}) < Cardinality(T)
    BY <1>1, OneLess
  <2> QED BY <1>2, <2>1
<1>4. Sum(f, T) = IF T = {} THEN 0 ELSE f[Picked(T)] + Sum(f, T \ {Picked(T)})
  BY <1>1, SumStep
<1>5. T # {}
  BY <1>4
<1> DEFINE y == Picked(T)
<1>6. y \in T
  BY <1>5, PickedIsElement
<1> HIDE DEF y
<1>7. Sum(f, T) = f[y] + Sum(f, T \ {y}) /\ Sum(f, T \ {y}) \in Int /\ f[y] \in Int
  BY <1>3, <1>4, <1>5, <1>6 DEF y
<1>8. ASSUME NEW x \in T PROVE Sum(f, T) = f[x] + Sum(f, T \ {x})
  <2>1. CASE x = y
    BY <1>7, <2>1
  <2>2. CASE x # y
    <3>1. x \in T \ {y} /\ y \in T \ {x} /\ f[x] \in Int
      BY <1>6, <2>2
    <3>2. Sum(f, T \ {y}) = f[x] + Sum(f, (T \ {y}) \ {x})
      BY <1>3, <1>6, <3>1
    <3>3. Sum(f, T \ {x}) = f[y] + Sum(f, (T \ {x}) \ {y}) /\ Sum(f, T \ {x}) \in Int
      BY <1>3, <3>1
    <3>4. Sum(f, (T \ {y}) \ {x}) = Sum(f, (T \ {x}) \ {y})
      <4>1. (T \ {y}) \ {x} = (T \ {x}) \ {y}
        OBVIOUS
      <4> QED BY <4>1, Zenon
    <3>5. Good((T \ {x}) \ {y})
      <4>1. IsFiniteSet(T \ {x}) /\ Cardinality(T \ {x}) < Cardinality(T)
        BY <1>1, OneLess
      <4>2. Cardinality((T \ {x}) \ {y}) < Cardinality(T \ {x})
        BY <3>1, <4>1, OneLess
      <4>3. Cardinality(T) \in Nat /\ Cardinality(T \ {x}) \in Nat
        BY <1>1, <4>1, FS_CardinalityType
      <4>4. IsFiniteSet((T \ {x}) \ {y}) 
        BY <3>1, <4>1, OneLess
      <4>5. Cardinality((T \ {x}) \ {y}) \in Nat
        BY <4>4, FS_CardinalityType
      <4>6. Cardinality((T \ {x}) \ {y}) < Cardinality(T)
        BY <4>1, <4>2, <4>3, <4>5
      <4> QED BY <1>2, <4>6
    <3>6. Sum(f, (T \ {x}) \ {y}) \in Int
      BY <3>5
    <3> QED BY <1>7, <3>1, <3>2, <3>3, <3>4, <3>6
  <2> QED BY <2>1, <2>2
<1> QED BY <1>2, <1>7, <1>8

\* What lies outside the set is not summed.
LEMMA SumAgrees ==
    ASSUME NEW f, NEW g, NEW S, IsFiniteSet(S), \A x \in S : f[x] = g[x]
    PROVE  Sum(f, S) = Sum(g, S)
<1> DEFINE F == {s \in SUBSET S : Sum(f, s) # Sum(g, s)}
<1> SUFFICES ASSUME F # {} PROVE FALSE
  OBVIOUS
<1>1. \A s \in F : IsFiniteSet(s)
  BY FS_Subset
<1>2. PICK T \in F : \A t \in F : ~ (Cardinality(t) < Cardinality(T))
  <2> HIDE DEF F
  <2> QED BY <1>1, SmallestSet
<1>3. /\ Sum(f, T) = IF T = {} THEN 0 ELSE f[Picked(T)] + Sum(f, T \ {Picked(T)})
      /\ Sum(g, T) = IF T = {} THEN 0 ELSE g[Picked(T)] + Sum(g, T \ {Picked(T)})
  BY <1>1, SumStep
<1>4. Picked(T) \in T
  BY <1>3, PickedIsElement
<1>5. Cardinality(T \ {Picked(T)}) < Cardinality(T)
  BY <1>1, <1>4, OneLess
<1>6. Sum(f, T \ {Picked(T)}) = Sum(g, T \ {Picked(T)})
  BY <1>2, <1>4, <1>5
<1> QED BY <1>3, <1>4, <1>6

\* The sum over two sets without a common element.
LEMMA SumJoins ==
    ASSUME NEW f, NEW A, NEW B, IsFiniteSet(A), IsFiniteSet(B), A \cap B = {},
           \A x \in A \cup B : f[x] \in Int
    PROVE  Sum(f, A \cup B) = Sum(f, A) + Sum(f, B)
<1> DEFINE F == {s \in SUBSET B : Sum(f, A \cup s) # Sum(f, A) + Sum(f, s)}
<1> SUFFICES ASSUME F # {} PROVE FALSE
  OBVIOUS
<1>1. \A s \in F : IsFiniteSet(s)
  BY FS_Subset
<1>2. PICK T \in F : \A t \in F : ~ (Cardinality(t) < Cardinality(T))
  <2> HIDE DEF F
  <2> QED BY <1>1, SmallestSet
<1>3. Sum(f, A) \in Int /\ Sum(f, T) \in Int /\ Sum(f, {}) = 0
  BY <1>1, SumTakes, SumStep, FS_EmptySet
<1>4. T # {}
  BY <1>3
<1>5. PICK y \in T : TRUE
  BY <1>4
<1>6. Cardinality(T \ {y}) < Cardinality(T) /\ IsFiniteSet(T \ {y})
  BY <1>1, OneLess
<1>7. Sum(f, A \cup (T \ {y})) = Sum(f, A) + Sum(f, T \ {y})
  BY <1>2, <1>6
<1>8. Sum(f, T) = f[y] + Sum(f, T \ {y}) /\ f[y] \in Int
  BY <1>1, SumTakes
<1>9. Sum(f, T \ {y}) \in Int
  BY <1>6, SumTakes
<1>10. IsFiniteSet(A \cup T)
  BY <1>1, FS_Union
<1>11. Sum(f, A \cup T) = f[y] + Sum(f, (A \cup T) \ {y})
  <2>1. \A x \in A \cup T : f[x] \in Int
    OBVIOUS
  <2>2. y \in A \cup T
    OBVIOUS
  <2> QED BY <1>10, <2>1, <2>2, SumTakes
<1>12. Sum(f, (A \cup T) \ {y}) = Sum(f, A \cup (T \ {y}))
  <2>1. (A \cup T) \ {y} = A \cup (T \ {y})
    OBVIOUS
  <2> QED BY <2>1, Zenon
<1>13. Sum(f, A \cup T) = Sum(f, A) + Sum(f, T)
  BY <1>3, <1>7, <1>8, <1>9, <1>11, <1>12
<1> QED BY <1>2, <1>13

\* Two sums over one set are added element by element.
LEMMA SumAdds ==
    ASSUME NEW f, NEW g, NEW S, IsFiniteSet(S), 
           \A x \in S : f[x] \in Int /\ g[x] \in Int
    PROVE  Sum([x \in S |-> f[x] + g[x]], S) = Sum(f, S) + Sum(g, S)
<1> DEFINE h == [x \in S |-> f[x] + g[x]]
           F == {s \in SUBSET S : Sum(h, s) # Sum(f, s) + Sum(g, s)}
<1>10. \A x \in S : h[x] = f[x] + g[x] /\ h[x] \in Int
  OBVIOUS
<1> HIDE DEF h
<1> SUFFICES ASSUME F # {} PROVE FALSE
  BY DEF h
<1>11. ASSUME NEW s \in F PROVE Sum(h, s) # Sum(f, s) + Sum(g, s) /\ s \in SUBSET S
  OBVIOUS
<1>1. \A s \in F : IsFiniteSet(s)
  BY FS_Subset
<1>2. PICK T \in F : \A t \in F : ~ (Cardinality(t) < Cardinality(T))
  <2> HIDE DEF F
  <2> QED BY <1>1, SmallestSet
<1>3. Sum(h, {}) = 0 /\ Sum(f, {}) = 0 /\ Sum(g, {}) = 0
  BY SumStep, FS_EmptySet
<1>4. T # {}
  BY <1>11, <1>3
<1>5. PICK y \in T : TRUE
  BY <1>4
<1>6. Cardinality(T \ {y}) < Cardinality(T) /\ IsFiniteSet(T \ {y})
  BY <1>1, OneLess
<1>7. Sum(h, T \ {y}) = Sum(f, T \ {y}) + Sum(g, T \ {y})
  BY <1>2, <1>6
<1>8. /\ Sum(f, T) = f[y] + Sum(f, T \ {y}) 
      /\ Sum(g, T) = g[y] + Sum(g, T \ {y}) 
      /\ Sum(h, T) = h[y] + Sum(h, T \ {y}) 
  BY <1>10, <1>1, SumTakes
<1>9. Sum(f, T \ {y}) \in Int /\ Sum(g, T \ {y}) \in Int /\ f[y] \in Int /\ g[y] \in Int
  BY <1>6, SumTakes
<1> QED BY <1>10, <1>2, <1>7, <1>8, <1>9

\* A sum whose set grows: the old part keeps its value, the new part is added.
LEMMA SumGrows ==
    ASSUME NEW f, NEW g, NEW h, NEW A, NEW B, IsFiniteSet(A), IsFiniteSet(B),
           A \cap B = {}, \A x \in A : g[x] = f[x], \A x \in B : g[x] = h[x],
           \A x \in A \cup B : g[x] \in Int
    PROVE  Sum(g, A \cup B) = Sum(f, A) + Sum(h, B)
<1>1. Sum(g, A \cup B) = Sum(g, A) + Sum(g, B)
  BY SumJoins
<1>2. Sum(g, A) = Sum(f, A)
  BY SumAgrees
<1>3. Sum(g, B) = Sum(h, B)
  BY SumAgrees
<1> QED BY <1>1, <1>2, <1>3

\* Changing what one element contributes changes the sum by the difference.
LEMMA SumChanges ==
    ASSUME NEW f, NEW g, NEW S, IsFiniteSet(S), NEW x \in S,
           \A y \in S \ {x} : g[y] = f[y],
           \A y \in S : f[y] \in Int /\ g[y] \in Int
    PROVE  Sum(g, S) = Sum(f, S) + (g[x] - f[x])
<1>1. IsFiniteSet(S \ {x})
  BY OneLess
<1>2. Sum(g, S \ {x}) = Sum(f, S \ {x})
  BY <1>1, SumAgrees
<1>3. /\ Sum(f, S) = f[x] + Sum(f, S \ {x})
      /\ Sum(g, S) = g[x] + Sum(g, S \ {x})
  <2>1. (\A y \in S : f[y] \in Int) /\ (\A y \in S : g[y] \in Int)
    OBVIOUS
  <2>2. \A y \in S : Sum(f, S) = f[y] + Sum(f, S \ {y})
    BY <2>1, SumTakes, Zenon
  <2>3. \A y \in S : Sum(g, S) = g[y] + Sum(g, S \ {y})
    BY <2>1, SumTakes, Zenon
  <2> QED BY <2>2, <2>3
<1>4. Sum(f, S \ {x}) \in Int /\ f[x] \in Int /\ g[x] \in Int
  <2>1. \A y \in S \ {x} : f[y] \in Int
    OBVIOUS
  <2>2. Sum(f, S \ {x}) \in Int
    BY <1>1, <2>1, SumTakes, Zenon
  <2> QED BY <2>2
<1> QED BY <1>2, <1>3, <1>4

\* A sum over a sequence grows by its last element.
LEMMA SumExtends ==
    ASSUME NEW f, NEW n \in Nat, \A i \in 1 .. n + 1 : f[i] \in Int
    PROVE  Sum(f, 1 .. n + 1) = Sum(f, 1 .. n) + f[n + 1]
<1> DEFINE S == 1 .. n + 1
<1>1. IsFiniteSet(S)
  BY FS_Interval
<1>2. n + 1 \in S /\ f[n + 1] \in Int
  OBVIOUS
<1>3. S \ {n + 1} = 1 .. n
  OBVIOUS
<1> HIDE DEF S
<1>4. \A i \in S : f[i] \in Int
  BY DEF S
<1>5. Sum(f, S) = f[n + 1] + Sum(f, S \ {n + 1})
  BY <1>1, <1>2, <1>4, SumTakes
<1>6. Sum(f, S \ {n + 1}) = Sum(f, 1 .. n)
  BY <1>3, Zenon
<1>7. Sum(f, 1 .. n) \in Int
  <2>1. IsFiniteSet(1 .. n) /\ \A i \in 1 .. n : f[i] \in Int
    BY FS_Interval
  <2> QED BY <2>1, SumTakes
<1>8. Sum(f, S) = Sum(f, 1 .. n) + f[n + 1]
  BY <1>2, <1>5, <1>6, <1>7
<1> QED BY <1>8 DEF S
-----------------------------------------------------------------------------
(* Recursion along the numbers up to n. *)

\* What holds at 0 and from each number to the next holds at all.
LEMMA Climb ==
    ASSUME NEW n \in Nat, NEW S, 0 \in S, \A i \in 1 .. n : i - 1 \in S => i \in S
    PROVE  \A i \in 0 .. n : i \in S
<1> DEFINE F == {i \in 0 .. n : i \notin S}
<1> SUFFICES ASSUME F # {} PROVE FALSE
  OBVIOUS
<1>1. PICK i \in F : \A j \in F : i <= j
  <2>1. F \in SUBSET Nat
    OBVIOUS
  <2> HIDE DEF F
  <2> QED BY <2>1, LeastElement
<1>2. i \in 1 .. n /\ i \notin S
  BY <1>1
<1>3. i - 1 \in 0 .. n /\ ~ (i <= i - 1)
  BY <1>2
<1>4. i - 1 \notin F
  BY <1>1, <1>3
<1> QED BY <1>2, <1>3, <1>4

\* A run from base by the steps of h, one function for each number.
IsRun(g, D, base, h, n) ==
    /\ g \in [0 .. n -> D]
    /\ g[0] = base
    /\ \A i \in 1 .. n : g[i] = h[i][g[i - 1]]

LEMMA RunExists ==
    ASSUME NEW n \in Nat, NEW D, NEW base \in D, NEW h,
           \A i \in 1 .. n : h[i] \in [D -> D]
    PROVE  \E g : IsRun(g, D, base, h, n)
<1> DEFINE S == {m \in 0 .. n : \E g : IsRun(g, D, base, h, m)}
<1>1. 0 \in S
  <2> DEFINE g == [i \in 0 .. 0 |-> base]
  <2>1. IsRun(g, D, base, h, 0)
    BY DEF IsRun
  <2> QED BY <2>1
<1>2. ASSUME NEW m \in 1 .. n, m - 1 \in S PROVE m \in S
  <2>1. PICK f : IsRun(f, D, base, h, m - 1)
    BY <1>2
  <2> DEFINE g == [i \in 0 .. m |-> IF i = m THEN h[m][f[m - 1]] ELSE f[i]]
  <2>2. \A i \in 0 .. m - 1 : g[i] = f[i] /\ f[i] \in D
    BY <2>1 DEF IsRun
  <2>3. g[m] = h[m][f[m - 1]] /\ m - 1 \in 0 .. m - 1
    OBVIOUS
  <2>4. h[m][f[m - 1]] \in D
    BY <2>2, <2>3
  <2>5. g \in [0 .. m -> D]
    <3>1. \A i \in 0 .. m : i = m \/ i \in 0 .. m - 1
      OBVIOUS
    <3>2. \A i \in 0 .. m : (IF i = m THEN h[m][f[m - 1]] ELSE f[i]) \in D
      BY <2>1, <2>4, <3>1 DEF IsRun
    <3> QED BY <3>2
  <2>6. ASSUME NEW i \in 1 .. m PROVE g[i] = h[i][g[i - 1]]
    <3>1. g[i - 1] = f[i - 1]
      <4>1. i - 1 \in 0 .. m - 1
        OBVIOUS
      <4> HIDE DEF g
      <4> QED BY <2>2, <4>1
    <3>2. CASE i = m
      <4> HIDE DEF g
      <4> QED BY <2>3, <3>1, <3>2
    <3>3. CASE i # m
      <4>1. i \in 0 .. m - 1 /\ i \in 1 .. m - 1
        BY <3>3
      <4> HIDE DEF g
      <4> QED BY <2>1, <2>2, <3>1, <4>1 DEF IsRun
    <3> QED BY <3>2, <3>3
  <2>7. g[0] = base
    <3>1. 0 \in 0 .. m - 1 /\ f[0] = base
      BY <2>1 DEF IsRun
    <3> HIDE DEF g
    <3> QED BY <2>2, <3>1
  <2>8. IsRun(g, D, base, h, m)
    <3> HIDE DEF g
    <3> QED BY <2>5, <2>6, <2>7 DEF IsRun
  <2> HIDE DEF g
  <2> QED BY <2>8
<1> HIDE DEF S
<1>3. n \in S
  <2>1. \A i \in 0 .. n : i \in S
    BY <1>1, <1>2, Climb
  <2> QED BY <2>1
<1> QED BY <1>3 DEF S

\* A run whose steps stay in a set never leaves it.
LEMMA StaysIn ==
    ASSUME NEW n \in Nat, NEW D, NEW g, g[0] \in D,
           \A i \in 1 .. n : g[i - 1] \in D => g[i] \in D
    PROVE  \A i \in 0 .. n : g[i] \in D
<1> DEFINE S == {i \in 0 .. n : g[i] \in D}
<1>1. 0 \in S
  OBVIOUS
<1>2. ASSUME NEW i \in 1 .. n, i - 1 \in S PROVE i \in S
  BY <1>2
<1> HIDE DEF S
<1>3. \A i \in 0 .. n : i \in S
  BY <1>1, <1>2, Climb
<1> QED BY <1>3 DEF S
=============================================================================
