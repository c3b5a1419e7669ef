------------------------------ MODULE FoldTheory ------------------------------
(***************************************************************************)
(* Folds over finite sets, which SumFunction, FoldLeft and their like of   *)
(* the community modules are made of: the recursive function they choose   *)
(* exists, so that a fold may be unfolded.  The operator folded and the    *)
(* choice of the next element are constants of the module, given by        *)
(* INSTANCE, because a proof cannot instantiate an operator that is bound  *)
(* in a theorem.                                                           *)
(***************************************************************************)
EXTENDS Integers, FiniteSets, FiniteSetTheorems, WellFoundedInduction, TLAPS

CONSTANTS
    Op(_, _, _),        \* of a parameter, the element's value and the rest's result
    Choice(_)           \* the element of a set that is folded last

\* The values folded are those of a function, or of a sequence, p.
Step(c, p, x, rest) == Op(c, p[x], rest)

\* A nonempty set of natural numbers has a least element.
LEMMA LeastNat ==
    ASSUME NEW T \in SUBSET Nat, T # {}
    PROVE  \E x \in T : \A y \in T : x <= y
<1> DEFINE Less == {ss \in Nat \X Nat : ss[1] < ss[2]}
<1>1. IsWellFoundedOn(Less, Nat)
    BY NatLessThanWellFounded, Zenon DEF OpToRel
<1>2. PICK x \in T : \A y \in T : <<y, x>> \notin Less
    <2> HIDE DEF Less
    <2> QED  BY <1>1, WFMin
<1>3. ASSUME NEW y \in T PROVE x <= y
    <2>1. <<y, x>> \in Nat \X Nat /\ <<y, x>>[1] = y /\ <<y, x>>[2] = x
        OBVIOUS
    <2>2. ~(y < x)  BY <1>2, <2>1
    <2> QED  BY <2>2
<1> QED  BY <1>3

Recursion(g, c, p, base, C) ==
    g = [s \in C |-> IF s = {} THEN base ELSE Step(c, p, Choice(s), g[s \ {Choice(s)}])]

Chooses(D) == \A s \in SUBSET D : s # {} => Choice(s) \in s

Small(D, n) == {s \in SUBSET D : Cardinality(s) <= n}

\* What a fold of the library defines by LET iter[s \in SUBSET D] == ...
Iter(c, p, base, D) == CHOOSE g : Recursion(g, c, p, base, SUBSET D)

\* A set without its chosen element is smaller.
LEMMA Smaller ==
    ASSUME NEW D, IsFiniteSet(D), Chooses(D), NEW s \in SUBSET D, s # {}
    PROVE  /\ s \ {Choice(s)} \in SUBSET D
           /\ Cardinality(s) \in Nat /\ Cardinality(s \ {Choice(s)}) \in Nat
           /\ Cardinality(s \ {Choice(s)}) = Cardinality(s) - 1
<1>1. IsFiniteSet(s)  BY FS_Subset
<1>2. Choice(s) \in s  BY DEF Chooses
<1>3. Cardinality(s \ {Choice(s)}) = Cardinality(s) - 1  BY <1>1, <1>2, FS_RemoveElement
<1>4. Cardinality(s) \in Nat /\ Cardinality(s \ {Choice(s)}) \in Nat
    BY <1>1, FS_CardinalityType, FS_Subset
<1> QED  BY <1>3, <1>4

\* The recursion has a solution on the subsets of at most n elements.
LEMMA SolvedBySize ==
    ASSUME NEW c, NEW p, NEW base, NEW D, IsFiniteSet(D), Chooses(D), NEW n \in Nat
    PROVE  \E g : Recursion(g, c, p, base, Small(D, n))
<1> DEFINE Unsolved == {k \in Nat : ~\E g : Recursion(g, c, p, base, Small(D, k))}
<1> SUFFICES ASSUME Unsolved # {} PROVE FALSE
    OBVIOUS
<1>1. PICK m \in Unsolved : \A k \in Unsolved : m <= k
    <2> HIDE DEF Unsolved
    <2>1. Unsolved \in SUBSET Nat  BY DEF Unsolved
    <2> QED  BY <2>1, LeastNat
<1>2. CASE m = 0
    <2> DEFINE g == [s \in Small(D, 0) |-> base]
    <2>1. ASSUME NEW s \in Small(D, 0) PROVE s = {}
        <3>1. IsFiniteSet(s) /\ Cardinality(s) <= 0  BY FS_Subset DEF Small
        <3>2. Cardinality(s) = 0  BY <3>1, FS_CardinalityType
        <3> QED  BY <3>1, <3>2, FS_EmptySet
    <2>2. g = [s \in Small(D, 0) |-> IF s = {} THEN base ELSE Step(c, p, Choice(s), g[s \ {Choice(s)}])]
        <3> DEFINE h == [s \in Small(D, 0) |-> IF s = {} THEN base ELSE Step(c, p, Choice(s), g[s \ {Choice(s)}])]
        <3>1. \A s \in Small(D, 0) : (IF s = {} THEN base ELSE Step(c, p, Choice(s), g[s \ {Choice(s)}])) = base
            BY <2>1
        <3> QED  BY <3>1
    <2>3. Recursion(g, c, p, base, Small(D, 0))
        <3> HIDE DEF g
        <3> QED  BY <2>2 DEF Recursion
    <2>4. 0 \notin Unsolved
        <3> HIDE DEF g
        <3> QED  BY <2>3
    <2> QED  BY <1>2, <2>4
<1>3. CASE m # 0
    <2>1. m - 1 \in Nat /\ m - 1 \notin Unsolved
        <3> HIDE DEF Unsolved
        <3>1. m \in Nat  BY DEF Unsolved
        <3>2. m - 1 \in Nat /\ ~(m <= m - 1)  BY <1>3, <3>1
        <3> QED  BY <1>1, <3>2
    <2>2. PICK f : Recursion(f, c, p, base, Small(D, m - 1))  BY <2>1
    <2> DEFINE G(s, h) == IF s = {} THEN base ELSE Step(c, p, Choice(s), h[s \ {Choice(s)}])
               g == [s \in Small(D, m) |-> G(s, f)]
    <2>3. ASSUME NEW s \in Small(D, m), s # {}
          PROVE  s \ {Choice(s)} \in Small(D, m - 1) /\ s \ {Choice(s)} \in Small(D, m)
        <3>1. s \in SUBSET D /\ Cardinality(s) <= m  BY DEF Small
        <3> HIDE DEF Unsolved
        <3>2. m \in Nat  BY DEF Unsolved
        <3>3. /\ s \ {Choice(s)} \in SUBSET D
              /\ Cardinality(s) \in Nat /\ Cardinality(s \ {Choice(s)}) \in Nat
              /\ Cardinality(s \ {Choice(s)}) = Cardinality(s) - 1
            BY <2>3, <3>1, Smaller
        <3>4. Cardinality(s \ {Choice(s)}) <= m - 1 /\ Cardinality(s \ {Choice(s)}) <= m
            BY <3>1, <3>2, <3>3
        <3> QED  BY <3>3, <3>4 DEF Small
    <2>4. ASSUME NEW s \in Small(D, m - 1), s \in Small(D, m) PROVE g[s] = f[s]
        <3>1. f[s] = G(s, f)
            <4>1. f = [t \in Small(D, m - 1) |-> G(t, f)]  BY <2>2 DEF Recursion
            <4> HIDE DEF G
            <4> QED  BY <4>1
        <3>2. g[s] = G(s, f)
            <4> HIDE DEF G
            <4> QED  BY <2>4
        <3> QED  BY <3>1, <3>2
    <2>5. ASSUME NEW s \in Small(D, m) PROVE G(s, f) = G(s, g)
        <3>1. CASE s = {}  BY <3>1
        <3>2. CASE s # {}
            <4>1. g[s \ {Choice(s)}] = f[s \ {Choice(s)}]
                <5> HIDE DEF g
                <5> QED  BY <2>3, <2>4, <3>2
            <4> HIDE DEF g
            <4> QED  BY <3>2, <4>1
        <3> QED  BY <3>1, <3>2
    <2>6. g = [s \in Small(D, m) |-> G(s, g)]
        <3> DEFINE h == g
        <3>1. \A s \in Small(D, m) : G(s, f) = G(s, h)  BY <2>5
        <3>2. h = [s \in Small(D, m) |-> G(s, f)]  OBVIOUS
        <3> HIDE DEF h, G
        <3>3. h = [s \in Small(D, m) |-> G(s, h)]  BY <3>1, <3>2
        <3> QED  BY <3>3 DEF h
    <2>7. Recursion(g, c, p, base, Small(D, m))
        <3> DEFINE h == g
        <3>1. h = [s \in Small(D, m) |-> G(s, h)]  BY <2>6
        <3> HIDE DEF h
        <3>2. Recursion(h, c, p, base, Small(D, m))  BY <3>1 DEF Recursion
        <3> QED  BY <3>2 DEF h
    <2>8. m \notin Unsolved
        <3> DEFINE h == g
        <3>1. Recursion(h, c, p, base, Small(D, m))  BY <2>7
        <3> HIDE DEF h
        <3> QED  BY <3>1
    <2> QED  BY <1>1, <2>8
<1> QED  BY <1>2, <1>3

\* The function the fold chooses is one that satisfies the recursion.
THEOREM Unfolds ==
    ASSUME NEW c, NEW p, NEW base, NEW D, IsFiniteSet(D), Chooses(D)
    PROVE  /\ Iter(c, p, base, D)[{}] = base
           /\ \A s \in SUBSET D : s # {} =>
                Iter(c, p, base, D)[s] = Step(c, p, Choice(s), Iter(c, p, base, D)[s \ {Choice(s)}])
<1>1. Cardinality(D) \in Nat  BY FS_CardinalityType
<1>2. Small(D, Cardinality(D)) = SUBSET D
    <2>1. \A s \in SUBSET D : Cardinality(s) <= Cardinality(D)  BY FS_Subset
    <2> QED  BY <2>1 DEF Small
<1>3. \E g : Recursion(g, c, p, base, SUBSET D)
    <2>1. \E g : Recursion(g, c, p, base, Small(D, Cardinality(D)))  BY <1>1, SolvedBySize
    <2> QED  BY <1>2, <2>1
<1> DEFINE g == Iter(c, p, base, D)
<1>4. Recursion(g, c, p, base, SUBSET D)
    BY <1>3 DEF Iter
<1> HIDE DEF g
<1>5. g = [s \in SUBSET D |-> IF s = {} THEN base ELSE Step(c, p, Choice(s), g[s \ {Choice(s)}])]
    BY <1>4 DEF Recursion
<1>6. /\ g[{}] = base
      /\ \A s \in SUBSET D : s # {} => g[s] = Step(c, p, Choice(s), g[s \ {Choice(s)}])
    BY <1>5
<1> QED  BY <1>6 DEF g

\* Folds of functions that agree on a set both range over agree on it.
THEOREM Agrees ==
    ASSUME NEW c, NEW p, NEW q, NEW base, NEW D, NEW E, IsFiniteSet(D), IsFiniteSet(E),
           Chooses(D), Chooses(E), NEW S \in SUBSET D, S \in SUBSET E,
           \A x \in S : p[x] = q[x]
    PROVE  Iter(c, p, base, D)[S] = Iter(c, q, base, E)[S]
<1> DEFINE f == Iter(c, p, base, D)
           g == Iter(c, q, base, E)
           Apart == {s \in SUBSET S : f[s] # g[s]}
           Sizes == {Cardinality(s) : s \in Apart}
<1>1. /\ f[{}] = base
      /\ \A s \in SUBSET D : s # {} => f[s] = Step(c, p, Choice(s), f[s \ {Choice(s)}])
    BY Unfolds
<1>2. /\ g[{}] = base
      /\ \A s \in SUBSET E : s # {} => g[s] = Step(c, q, Choice(s), g[s \ {Choice(s)}])
    BY Unfolds
<1> HIDE DEF f, g
<1> SUFFICES ASSUME Apart # {} PROVE FALSE
    BY DEF f, g
<1>3. Sizes \in SUBSET Nat
    BY FS_CardinalityType, FS_Subset
<1>4. PICK k \in Sizes : \A n \in Sizes : k <= n
    <2> HIDE DEF Sizes
    <2>1. Sizes # {}  BY DEF Sizes
    <2> QED  BY <1>3, <2>1, LeastNat
<1>5. PICK s \in Apart : k = Cardinality(s)
    OBVIOUS
<1>6. s # {} /\ s \in SUBSET S /\ s \in SUBSET D /\ s \in SUBSET E
    BY <1>1, <1>2, <1>5
<1>7. /\ s \ {Choice(s)} \in SUBSET D
      /\ Cardinality(s) \in Nat /\ Cardinality(s \ {Choice(s)}) \in Nat
      /\ Cardinality(s \ {Choice(s)}) = Cardinality(s) - 1
    BY <1>6, Smaller
<1>8. s \ {Choice(s)} \notin Apart
    <2>1. SUFFICES ASSUME s \ {Choice(s)} \in Apart PROVE FALSE
        OBVIOUS
    <2>2. Cardinality(s \ {Choice(s)}) \in Sizes  BY <2>1
    <2>3. k <= Cardinality(s \ {Choice(s)})  BY <1>4, <2>2
    <2> QED  BY <1>5, <1>7, <2>3
<1>9. f[s \ {Choice(s)}] = g[s \ {Choice(s)}]
    BY <1>6, <1>8
<1>10. Choice(s) \in S
    BY <1>6 DEF Chooses
<1>11. f[s] = Step(c, p, Choice(s), f[s \ {Choice(s)}]) /\ g[s] = Step(c, q, Choice(s), g[s \ {Choice(s)}])
    BY <1>1, <1>2, <1>6
<1>12. f[s] = g[s]
    BY <1>9, <1>10, <1>11 DEF Step
<1> QED  BY <1>5, <1>12

\* The last of 1 .. n + 1 is chosen first, when the choice is the greatest.
Greatest == \A n \in Nat : Choice(1..(n + 1)) = n + 1

\* A fold of the empty sequence is its base.
THEOREM Starts ==
    ASSUME NEW c, NEW base, NEW p
    PROVE  Iter(c, p, base, 1..0)[1..0] = base
<1> DEFINE D == 1..0
<1>1. D = {}
    OBVIOUS
<1>2. IsFiniteSet(D) /\ Chooses(D)
    <2> HIDE DEF D
    <2> QED  BY <1>1, FS_EmptySet DEF Chooses
<1> HIDE DEF D
<1>3. /\ Iter(c, p, base, D)[{}] = base
      /\ \A s \in SUBSET D : s # {} =>
            Iter(c, p, base, D)[s] = Step(c, p, Choice(s), Iter(c, p, base, D)[s \ {Choice(s)}])
    BY <1>2, Unfolds
<1> QED  BY <1>1, <1>3 DEF D

\* A fold of a longer sequence is one more step.
THEOREM Appends ==
    ASSUME NEW c, NEW base, NEW n \in Nat, NEW p, NEW q, \A i \in 1..n : q[i] = p[i],
           Greatest, Chooses(1..n), Chooses(1..(n + 1))
    PROVE  Iter(c, q, base, 1..(n + 1))[1..(n + 1)] = Op(c, q[n + 1], Iter(c, p, base, 1..n)[1..n])
<1>1. IsFiniteSet(1..n) /\ IsFiniteSet(1..(n + 1))
    BY FS_Interval
<1>2. Choice(1..(n + 1)) = n + 1 /\ (1..(n + 1)) \ {n + 1} = 1..n /\ 1..(n + 1) # {}
      /\ 1..n \in SUBSET (1..(n + 1)) /\ 1..n \in SUBSET (1..n)
    BY DEF Greatest
<1>3. Iter(c, q, base, 1..(n + 1))[1..(n + 1)]
        = Step(c, q, Choice(1..(n + 1)), Iter(c, q, base, 1..(n + 1))[(1..(n + 1)) \ {Choice(1..(n + 1))}])
    <2> DEFINE D == 1..(n + 1)
    <2>1. IsFiniteSet(D) /\ Chooses(D) /\ D \in SUBSET D /\ D # {}
        BY <1>1, <1>2
    <2> HIDE DEF D
    <2>2. /\ Iter(c, q, base, D)[{}] = base
          /\ \A s \in SUBSET D : s # {} =>
                Iter(c, q, base, D)[s] = Step(c, q, Choice(s), Iter(c, q, base, D)[s \ {Choice(s)}])
        BY <2>1, Unfolds
    <2> QED  BY <2>1, <2>2 DEF D
<1>4. Iter(c, q, base, 1..(n + 1))[1..n] = Iter(c, p, base, 1..n)[1..n]
    BY <1>1, <1>2, Agrees
<1> QED  BY <1>2, <1>3, <1>4 DEF Step

\* What each step of a fold keeps holds of the result: T[k] is what the result
\* over the first k elements may be.
THEOREM Keeps ==
    ASSUME NEW c, NEW base, NEW n \in Nat, NEW p, NEW T, Greatest, \A k \in Nat : Chooses(1..k),
           base \in T[0], \A k \in Nat : k < n => \A r \in T[k] : Op(c, p[k + 1], r) \in T[k + 1]
    PROVE  Iter(c, p, base, 1..n)[1..n] \in T[n]
<1> DEFINE Fold(k) == Iter(c, p, base, 1..k)[1..k]
           Bad == {k \in Nat : k <= n /\ Fold(k) \notin T[k]}
<1>1. Fold(0) \in T[0]
    BY Starts
<1>2. ASSUME NEW k \in Nat PROVE Fold(k + 1) = Op(c, p[k + 1], Fold(k))
    <2> DEFINE m == k + 1
    <2>1. m \in Nat  OBVIOUS
    <2> HIDE DEF m
    <2>2. Chooses(1..k) /\ Chooses(1..m)  BY <2>1
    <2>3. Chooses(1..k) /\ Chooses(1..(k + 1))  BY <2>2 DEF m
    <2> QED  BY <2>3, Appends
<1> HIDE DEF Fold
<1>3. Bad = {}
    <2> SUFFICES ASSUME Bad # {} PROVE FALSE
        OBVIOUS
    <2>1. PICK k \in Bad : \A j \in Bad : k <= j
        <3>1. Bad \in SUBSET Nat  OBVIOUS
        <3> HIDE DEF Bad
        <3> QED  BY <3>1, LeastNat
    <2>2. k \in Nat /\ k <= n /\ Fold(k) \notin T[k]
        OBVIOUS
    <2>3. k # 0  BY <1>1, <2>2
    <2>4. k - 1 \in Nat /\ k - 1 < n /\ k - 1 <= n /\ (k - 1) + 1 = k /\ ~(k <= k - 1)
        BY <2>2, <2>3
    <2>5. Fold(k - 1) \in T[k - 1]
        <3>1. k - 1 \notin Bad  BY <2>1, <2>4
        <3> QED  BY <2>4, <3>1
    <2>6. Op(c, p[(k - 1) + 1], Fold(k - 1)) \in T[(k - 1) + 1]
        BY <2>4, <2>5
    <2>7. Fold((k - 1) + 1) = Op(c, p[(k - 1) + 1], Fold(k - 1))
        BY <1>2, <2>4
    <2> QED  BY <2>2, <2>4, <2>6, <2>7
<1>4. Fold(n) \in T[n]
    BY <1>3
<1> QED  BY <1>4 DEF Fold
=============================================================================
