------------------------------ MODULE SumProofs ------------------------------
(***************************************************************************)
(* Sums over finite sets, for every set and every summand.  The library's  *)
(* induction theorems range over operators; here induction is over sets:   *)
(* of the counterexamples to a claim, one has the fewest elements.         *)
(***************************************************************************)
EXTENDS Sums, FiniteSetTheorems, WellFoundedInduction, TLAPS

-----------------------------------------------------------------------------
(* Induction. *)

\* Every nonempty set of naturals has a least member.
LEMMA Least ==
    ASSUME NEW T, T \subseteq Nat, T # {}
    PROVE  \E n \in T : \A m \in T : n <= m
<1>1. PICK n \in T : \A m \in T : ~ (<<m, n>> \in OpToRel(<, Nat))
    BY NatLessThanWellFounded, WFMin
<1>2. \A m \in T : ~(m < n)
    BY <1>1 DEF OpToRel
<1> QED
    BY <1>2

\* A set of naturals that has 0 and, with each member, the next one has them all.
LEMMA Upwards ==
    ASSUME NEW P, 0 \in P, \A n \in Nat : n \in P => n + 1 \in P
    PROVE  Nat \subseteq P
<1> SUFFICES ASSUME Nat \ P # {} PROVE FALSE
    OBVIOUS
<1>1. PICK n \in Nat \ P : \A m \in Nat \ P : n <= m
    BY Least
<1>2. n - 1 \in Nat /\ n - 1 \in P
    BY <1>1
<1> QED
    BY <1>1, <1>2

\* What holds of a finite set whenever it holds of its proper subsets holds of all.
LEMMA Shrinking ==
    ASSUME NEW S, IsFiniteSet(S), NEW G,
           \A T \in SUBSET S : (\A U \in SUBSET T : U # T => U \in G) => T \in G
    PROVE  S \in G
<1> SUFFICES ASSUME S \notin G PROVE FALSE
    OBVIOUS
<1> DEFINE Sizes == {Cardinality(T) : T \in {T \in SUBSET S : T \notin G}}
<1>0. \A T \in SUBSET S : IsFiniteSet(T) /\ Cardinality(T) \in Nat
    BY FS_Subset, FS_CardinalityType
<1>1. Sizes \subseteq Nat /\ Sizes # {}
    BY <1>0
<1>2. PICK n \in Sizes : \A m \in Sizes : n <= m
    <2> HIDE DEF Sizes
    <2> QED
        BY <1>1, Least
<1>3. PICK T \in SUBSET S : T \notin G /\ n = Cardinality(T)
    BY <1>2
<1>4. ASSUME NEW U \in SUBSET T, U # T PROVE U \in G
    <2>1. IsFiniteSet(T)
        BY <1>0
    <2>2. Cardinality(U) <= Cardinality(T) /\ Cardinality(U) # Cardinality(T)
        BY <1>4, <2>1, FS_Subset
    <2>3. Cardinality(U) \in Nat /\ Cardinality(T) \in Nat /\ U \in SUBSET S
        BY <1>0
    <2>4. ~(Cardinality(T) <= Cardinality(U))
        BY <2>2, <2>3
    <2>5. U \notin G => Cardinality(U) \in Sizes
        BY <2>3
    <2> QED
        BY <1>2, <1>3, <2>4, <2>5
<1> QED
    BY <1>3, <1>4

\* What holds of the empty set and is kept by adding an element holds of a finite set.
LEMMA Growing ==
    ASSUME NEW S, IsFiniteSet(S), NEW G, {} \in G,
           \A T \in SUBSET S, x \in S : T \in G /\ x \notin T => T \cup {x} \in G
    PROVE  S \in G
<1>1. ASSUME NEW T \in SUBSET S, \A U \in SUBSET T : U # T => U \in G
      PROVE  T \in G
    <2>1. CASE T = {}
        BY <2>1
    <2>2. CASE T # {}
        <3>1. PICK x \in T : TRUE
            BY <2>2
        <3>2. T \ {x} \in G
            BY <1>1
        <3>3. (T \ {x}) \cup {x} = T
            OBVIOUS
        <3> QED
            BY <3>2, <3>3
    <2> QED
        BY <2>1, <2>2
<1> QED
    BY <1>1, Shrinking

-----------------------------------------------------------------------------
(* The function by which SumOver is defined exists, and is the same on every set it is *)
(* restricted to.                                                                   *)

Pick(s) == CHOOSE x \in s : TRUE

Rest(s) == s \ {Pick(s)}

\* g adds up f over all subsets of S.
Adds(g, f, S) == g = [s \in SUBSET S |-> IF s = {} THEN 0 ELSE f[Pick(s)] + g[Rest(s)]]

LEMMA PickIn == ASSUME NEW s, s # {} PROVE Pick(s) \in s
BY DEF Pick

LEMMA SumIsChosen ==
    ASSUME NEW f, NEW S
    PROVE  SumOver(f, S) = (CHOOSE g : Adds(g, f, S))[S]
<1>1. SumOver(f, S) = (CHOOSE g : g = [s \in SUBSET S |->
                       IF s = {} THEN 0
                       ELSE f[CHOOSE x \in s : TRUE] + g[s \ {CHOOSE x \in s : TRUE}]])[S]
    BY Zenon DEF SumOver, MapThenFoldSet
<1> QED
    BY <1>1, Zenon DEF Adds, Pick, Rest

\* The subsets of S with fewer than n elements.
Small(S, n) == {s \in SUBSET S : Cardinality(s) < n}

LEMMA AddsExists ==
    ASSUME NEW f, NEW S, IsFiniteSet(S)
    PROVE  \E g : Adds(g, f, S)
<1> DEFINE Next(g, s) == IF s = {} THEN 0 ELSE f[Pick(s)] + g[Rest(s)]
           P == {n \in Nat : \E g : g = [s \in Small(S, n) |-> Next(g, s)]}
<1>0. \A T \in SUBSET S : IsFiniteSet(T) /\ Cardinality(T) \in Nat
    BY FS_Subset, FS_CardinalityType
<1>1. 0 \in P
    <2> DEFINE g == [s \in Small(S, 0) |-> 0]
    <2>1. Small(S, 0) = {}
        BY <1>0 DEF Small
    <2>2. g = [s \in Small(S, 0) |-> Next(g, s)]
        BY <2>1
    <2> QED
        BY <2>2
<1>2. ASSUME NEW n \in Nat, n \in P PROVE n + 1 \in P
    <2>1. PICK g : g = [s \in Small(S, n) |-> Next(g, s)]
        BY <1>2
    <2> DEFINE h == [s \in Small(S, n + 1) |-> Next(g, s)]
    <2>2. \A s \in Small(S, n + 1) : s # {} => Rest(s) \in Small(S, n)
        <3> SUFFICES ASSUME NEW s \in SUBSET S, Cardinality(s) < n + 1, s # {}
                     PROVE  Rest(s) \in Small(S, n)
            BY DEF Small
        <3>1. Pick(s) \in s
            BY PickIn
        <3>2. Cardinality(Rest(s)) = Cardinality(s) - 1
            BY <1>0, <3>1, FS_RemoveElement DEF Rest
        <3> QED
            BY <1>0, <3>2 DEF Small, Rest
    <2>3. \A s \in Small(S, n) : s \in Small(S, n + 1)
        BY <1>0 DEF Small
    <2>4. \A s \in Small(S, n) : h[s] = g[s]
        BY <2>1, <2>3
    <2>5. \A s \in Small(S, n + 1) : Next(g, s) = Next(h, s)
        BY <2>2, <2>4
    <2>6. h = [s \in Small(S, n + 1) |-> Next(h, s)]
        <3> HIDE DEF Next
        <3> QED
            BY <2>5
    <2>7. \E k : k = [s \in Small(S, n + 1) |-> Next(k, s)]
        <3> HIDE DEF Next, h
        <3> QED
            BY <2>6
    <2> QED
        <3> HIDE DEF Next
        <3> QED
            BY <2>7
<1>3. Cardinality(S) + 1 \in P
    <2> HIDE DEF P
    <2> QED
        BY <1>0, <1>1, <1>2, Upwards
<1>4. Small(S, Cardinality(S) + 1) = SUBSET S
    <2>1. ASSUME NEW T \in SUBSET S PROVE Cardinality(T) <= Cardinality(S)
        BY FS_Subset
    <2> QED
        BY <1>0, <2>1 DEF Small
<1>5. PICK g : g = [s \in SUBSET S |-> Next(g, s)]
    BY <1>3, <1>4
<1> QED
    BY <1>5, Zenon DEF Adds

\* Two such functions agree on every subset.
LEMMA AddsOnce ==
    ASSUME NEW f, NEW S, IsFiniteSet(S), NEW g, NEW h, Adds(g, f, S),
           NEW U \in SUBSET S, Adds(h, f, U)
    PROVE  \A s \in SUBSET U : g[s] = h[s]
<1> DEFINE G == {s \in SUBSET U : g[s] = h[s]}
<1>1. IsFiniteSet(U)
    BY FS_Subset
<1>2. ASSUME NEW s \in SUBSET U, \A r \in SUBSET s : r # s => r \in G PROVE s \in G
    <2>1. CASE s = {}
        BY <2>1 DEF Adds
    <2>2. CASE s # {}
        <3>1. Rest(s) \in SUBSET s /\ Rest(s) # s
            BY <2>2, PickIn DEF Rest
        <3>2. g[Rest(s)] = h[Rest(s)]
            BY <1>2, <3>1
        <3>3. g[s] = f[Pick(s)] + g[Rest(s)] /\ h[s] = f[Pick(s)] + h[Rest(s)]
            BY <2>2 DEF Adds
        <3> QED
            BY <3>2, <3>3
    <2> QED
        BY <2>1, <2>2
<1>3. ASSUME NEW s \in SUBSET U PROVE s \in G
    <2>1. IsFiniteSet(s) /\ \A T \in SUBSET s : T \in SUBSET U
        BY <1>1, FS_Subset
    <2> HIDE DEF G
    <2> QED
        BY <1>2, <2>1, Shrinking
<1> QED
    BY <1>3

LEMMA SumEmpty == ASSUME NEW f PROVE SumOver(f, {}) = 0
<1>1. IsFiniteSet({})
    BY FS_EmptySet
<1>2. Adds(CHOOSE g : Adds(g, f, {}), f, {})
    BY <1>1, AddsExists
<1> QED
    BY <1>2, SumIsChosen DEF Adds

\* One step of the fold.
LEMMA SumStep ==
    ASSUME NEW f, NEW S, IsFiniteSet(S), S # {}
    PROVE  SumOver(f, S) = f[Pick(S)] + SumOver(f, Rest(S))
<1> DEFINE g == CHOOSE a : Adds(a, f, S)
           h == CHOOSE a : Adds(a, f, Rest(S))
<1>1. Rest(S) \in SUBSET S /\ IsFiniteSet(Rest(S))
    BY FS_RemoveElement DEF Rest
<1>2. Adds(g, f, S)
    BY AddsExists
<1>3. Adds(h, f, Rest(S))
    BY <1>1, AddsExists
<1>4. g[Rest(S)] = h[Rest(S)]
    <2> HIDE DEF g, h
    <2> QED
        BY <1>1, <1>2, <1>3, AddsOnce
<1>5. g[S] = f[Pick(S)] + g[Rest(S)]
    <2> HIDE DEF g
    <2> QED
        BY <1>2 DEF Adds
<1>6. SumOver(f, S) = g[S] /\ SumOver(f, Rest(S)) = h[Rest(S)]
    BY SumIsChosen
<1> QED
    BY <1>4, <1>5, <1>6

-----------------------------------------------------------------------------
(* Sums of integers. *)

Summable(f, S) == IsFiniteSet(S) /\ \A x \in S : f[x] \in Int

\* A sum of integers is one, and any member may be taken out first.
LEMMA SumRemove ==
    ASSUME NEW f, NEW S, Summable(f, S)
    PROVE  SumOver(f, S) \in Int /\ \A x \in S : SumOver(f, S) = f[x] + SumOver(f, S \ {x})
<1> DEFINE G == {T \in SUBSET S : /\ SumOver(f, T) \in Int
                                  /\ \A x \in T : SumOver(f, T) = f[x] + SumOver(f, T \ {x})}
<1>1. ASSUME NEW T \in SUBSET S, \A U \in SUBSET T : U # T => U \in G PROVE T \in G
    <2>1. CASE T = {}
        BY <2>1, SumEmpty
    <2>2. CASE T # {}
        <3> DEFINE p == Pick(T)
                   R == T \ {p}
        <3>1. p \in T
            BY <2>2, PickIn
        <3>2. SumOver(f, T) = f[p] + SumOver(f, R)
            BY <2>2, SumStep, FS_Subset DEF Summable, Rest
        <3> HIDE DEF p
        <3>3. R \in G /\ f[p] \in Int
            BY <1>1, <3>1 DEF Summable
        <3>4. SumOver(f, R) \in Int /\ SumOver(f, T) \in Int
            BY <3>2, <3>3
        <3>5. ASSUME NEW x \in T, x # p PROVE SumOver(f, T) = f[x] + SumOver(f, T \ {x})
            <4>1. T \ {x} \in G /\ p \in T \ {x} /\ f[x] \in Int /\ R \ {x} \in G
                BY <1>1, <3>1, <3>5 DEF Summable
            <4>2. SumOver(f, R) = f[x] + SumOver(f, R \ {x})
                BY <3>3, <3>5
            <4>3. (T \ {x}) \ {p} = R \ {x}
                OBVIOUS
            <4>4. SumOver(f, T \ {x}) = f[p] + SumOver(f, R \ {x})
                BY <4>1, <4>3
            <4>5. SumOver(f, R \ {x}) \in Int
                BY <4>1
            <4> QED
                BY <3>2, <3>3, <4>1, <4>2, <4>4, <4>5
        <3> QED
            BY <3>2, <3>4, <3>5
    <2> QED
        BY <2>1, <2>2
<1>2. S \in G
    <2> HIDE DEF G
    <2> QED
        BY <1>1, Shrinking DEF Summable
<1> QED
    BY <1>2

LEMMA SumInt == ASSUME NEW f, NEW S, Summable(f, S) PROVE SumOver(f, S) \in Int
BY SumRemove

LEMMA SumAdd ==
    ASSUME NEW f, NEW S, Summable(f, S), NEW x, x \notin S, f[x] \in Int
    PROVE  SumOver(f, S \cup {x}) = f[x] + SumOver(f, S)
<1>1. Summable(f, S \cup {x})
    BY FS_AddElement DEF Summable
<1>2. (S \cup {x}) \ {x} = S /\ x \in S \cup {x}
    OBVIOUS
<1> QED
    BY <1>1, <1>2, SumRemove

\* Sums are added member by member.
LEMMA SumPlus ==
    ASSUME NEW f, NEW g, NEW h, NEW S, Summable(f, S), Summable(g, S),
           \A x \in S : h[x] = f[x] + g[x]
    PROVE  SumOver(h, S) = SumOver(f, S) + SumOver(g, S)
<1> DEFINE G == {T \in SUBSET S : SumOver(h, T) = SumOver(f, T) + SumOver(g, T)}
<1>1. {} \in G
    BY SumEmpty
<1>2. ASSUME NEW T \in SUBSET S, NEW x \in S, T \in G, x \notin T PROVE T \cup {x} \in G
    <2>1. Summable(f, T) /\ Summable(g, T) /\ Summable(h, T)
        BY FS_Subset DEF Summable
    <2>2. f[x] \in Int /\ g[x] \in Int /\ h[x] \in Int /\ h[x] = f[x] + g[x]
        BY DEF Summable
    <2>3. /\ SumOver(f, T \cup {x}) = f[x] + SumOver(f, T)
          /\ SumOver(g, T \cup {x}) = g[x] + SumOver(g, T)
          /\ SumOver(h, T \cup {x}) = h[x] + SumOver(h, T)
        BY <1>2, <2>1, <2>2, SumAdd
    <2>4. SumOver(f, T) \in Int /\ SumOver(g, T) \in Int
        BY <2>1, SumInt
    <2> QED
        BY <1>2, <2>2, <2>3, <2>4
<1>3. S \in G
    <2> HIDE DEF G
    <2> QED
        BY <1>1, <1>2, Growing DEF Summable
<1> QED
    BY <1>3

\* A sum depends on its members' terms only.
LEMMA SumSame ==
    ASSUME NEW f, NEW g, NEW S, Summable(f, S), \A x \in S : g[x] = f[x]
    PROVE  SumOver(g, S) = SumOver(f, S)
<1> DEFINE G == {T \in SUBSET S : SumOver(g, T) = SumOver(f, T)}
<1>1. {} \in G
    BY SumEmpty
<1>2. ASSUME NEW T \in SUBSET S, NEW x \in S, T \in G, x \notin T PROVE T \cup {x} \in G
    <2>1. Summable(f, T) /\ Summable(g, T) /\ f[x] \in Int /\ g[x] = f[x]
        BY FS_Subset DEF Summable
    <2> QED
        BY <1>2, <2>1, SumAdd
<1>3. S \in G
    <2> HIDE DEF G
    <2> QED
        BY <1>1, <1>2, Growing DEF Summable
<1> QED
    BY <1>3

\* Sums over disjoint sets.
LEMMA SumUnion ==
    ASSUME NEW f, NEW S, NEW T, Summable(f, S), Summable(f, T), S \cap T = {}
    PROVE  SumOver(f, S \cup T) = SumOver(f, S) + SumOver(f, T)
<1> DEFINE G == {U \in SUBSET T : SumOver(f, S \cup U) = SumOver(f, S) + SumOver(f, U)}
<1>0. SumOver(f, S) \in Int
    BY SumInt
<1>1. {} \in G
    <2>1. S \cup {} = S
        OBVIOUS
    <2> QED
        BY <1>0, <2>1, SumEmpty
<1>2. ASSUME NEW U \in SUBSET T, NEW x \in T, U \in G, x \notin U PROVE U \cup {x} \in G
    <2>1. Summable(f, U) /\ Summable(f, S \cup U) /\ f[x] \in Int
        <3>1. IsFiniteSet(U) /\ IsFiniteSet(S \cup U)
            BY FS_Subset, FS_Union DEF Summable
        <3> QED
            BY <3>1 DEF Summable
    <2>2. S \cup (U \cup {x}) = (S \cup U) \cup {x} /\ x \notin S \cup U
        BY <1>2
    <2>3. SumOver(f, (S \cup U) \cup {x}) = f[x] + SumOver(f, S \cup U)
        BY <2>1, <2>2, SumAdd
    <2>4. SumOver(f, U \cup {x}) = f[x] + SumOver(f, U) /\ SumOver(f, U) \in Int
        BY <1>2, <2>1, SumAdd, SumInt
    <2>5. SumOver(f, S \cup U) = SumOver(f, S) + SumOver(f, U)
        BY <1>2
    <2>6. SumOver(f, S \cup (U \cup {x})) = f[x] + (SumOver(f, S) + SumOver(f, U))
        BY <2>2, <2>3, <2>5
    <2>7. SumOver(f, S \cup (U \cup {x})) = SumOver(f, S) + SumOver(f, U \cup {x})
        BY <1>0, <2>1, <2>4, <2>6
    <2> QED
        BY <2>7
<1>3. T \in G
    <2> HIDE DEF G
    <2> QED
        BY <1>1, <1>2, Growing DEF Summable
<1> QED
    BY <1>3

\* Terms that are nowhere negative add up to as much, and to nothing only from nothing.
LEMMA SumNat ==
    ASSUME NEW f, NEW S, IsFiniteSet(S), \A x \in S : f[x] \in Nat
    PROVE  SumOver(f, S) \in Nat
<1> DEFINE G == {T \in SUBSET S : SumOver(f, T) \in Nat}
<1>1. {} \in G
    BY SumEmpty
<1>2. ASSUME NEW T \in SUBSET S, NEW x \in S, T \in G, x \notin T PROVE T \cup {x} \in G
    <2>1. Summable(f, T) /\ f[x] \in Int
        BY FS_Subset DEF Summable
    <2> QED
        BY <1>2, <2>1, SumAdd
<1>3. S \in G
    <2> HIDE DEF G
    <2> QED
        BY <1>1, <1>2, Growing
<1> QED
    BY <1>3

LEMMA SumZero ==
    ASSUME NEW f, NEW S, IsFiniteSet(S), \A x \in S : f[x] = 0
    PROVE  SumOver(f, S) = 0
<1> DEFINE G == {T \in SUBSET S : SumOver(f, T) = 0}
<1>1. {} \in G
    BY SumEmpty
<1>2. ASSUME NEW T \in SUBSET S, NEW x \in S, T \in G, x \notin T PROVE T \cup {x} \in G
    <2>1. Summable(f, T) /\ f[x] = 0
        BY FS_Subset DEF Summable
    <2> QED
        BY <1>2, <2>1, SumAdd
<1>3. S \in G
    <2> HIDE DEF G
    <2> QED
        BY <1>1, <1>2, Growing
<1> QED
    BY <1>3

\* Only one term changes.
LEMMA SumBump ==
    ASSUME NEW f, NEW g, NEW S, Summable(f, S), NEW x \in S, g[x] \in Int,
           \A y \in S \ {x} : g[y] = f[y]
    PROVE  SumOver(g, S) = SumOver(f, S) + (g[x] - f[x])
<1>1. Summable(f, S \ {x}) /\ Summable(g, S) /\ f[x] \in Int
    BY FS_RemoveElement DEF Summable
<1>2. SumOver(g, S \ {x}) = SumOver(f, S \ {x}) /\ SumOver(f, S \ {x}) \in Int
    BY <1>1, SumSame, SumInt
<1>3. SumOver(f, S) = f[x] + SumOver(f, S \ {x}) /\ SumOver(g, S) = g[x] + SumOver(g, S \ {x})
    BY <1>1, SumRemove
<1> QED
    BY <1>1, <1>2, <1>3

\* One member more, the others as they were.
LEMMA SumExtend ==
    ASSUME NEW f, NEW g, NEW S, Summable(f, S), NEW x, x \notin S, g[x] \in Int,
           \A y \in S : g[y] = f[y]
    PROVE  SumOver(g, S \cup {x}) = SumOver(f, S) + g[x]
<1>1. SumOver(g, S) = SumOver(f, S) /\ SumOver(f, S) \in Int
    BY SumSame, SumInt
<1>2. Summable(g, S)
    BY DEF Summable
<1>3. SumOver(g, S \cup {x}) = g[x] + SumOver(g, S)
    BY <1>2, SumAdd
<1> QED
    BY <1>1, <1>3

\* Terms that are nothing may be left out.
LEMMA SumWiden ==
    ASSUME NEW f, NEW S, NEW T \in SUBSET S, Summable(f, T), IsFiniteSet(S),
           \A x \in S \ T : f[x] = 0
    PROVE  SumOver(f, S) = SumOver(f, T)
<1>1. IsFiniteSet(S \ T) /\ Summable(f, S \ T)
    BY FS_Subset DEF Summable
<1>2. SumOver(f, S \ T) = 0
    BY <1>1, SumZero
<1>3. SumOver(f, T \cup (S \ T)) = SumOver(f, T) + SumOver(f, S \ T)
    BY <1>1, SumUnion
<1>4. T \cup (S \ T) = S
    OBVIOUS
<1>5. SumOver(f, T) \in Int
    BY SumInt
<1> QED
    BY <1>2, <1>3, <1>4, <1>5

\* A sum over the images of a set's members under an injection is one over the set.
LEMMA SumImage ==
    ASSUME NEW f, NEW g, NEW h, NEW S, NEW K, Summable(f, S),
           \A x \in S : h[x] \in K /\ g[h[x]] = f[x],
           \A k \in K : \E x \in S : k = h[x],
           \A x, y \in S : h[x] = h[y] => x = y
    PROVE  IsFiniteSet(K) /\ SumOver(g, K) = SumOver(f, S)
<1> DEFINE Image(T) == {h[x] : x \in T}
           G == {T \in SUBSET S : /\ IsFiniteSet(Image(T))
                                  /\ SumOver(g, Image(T)) = SumOver(f, T)}
<1>1. {} \in G
    <2>1. Image({}) = {}
        OBVIOUS
    <2> QED
        BY <2>1, SumEmpty, FS_EmptySet
<1>2. ASSUME NEW T \in SUBSET S, NEW x \in S, T \in G, x \notin T PROVE T \cup {x} \in G
    <2>1. Image(T \cup {x}) = Image(T) \cup {h[x]} /\ h[x] \notin Image(T)
        BY <1>2
    <2>2. /\ Summable(f, T) /\ f[x] \in Int /\ Summable(g, Image(T))
          /\ g[h[x]] = f[x] /\ g[h[x]] \in Int
        BY <1>2, FS_Subset DEF Summable
    <2>3. SumOver(f, T \cup {x}) = f[x] + SumOver(f, T)
        BY <1>2, <2>2, SumAdd
    <2>4. SumOver(g, Image(T) \cup {h[x]}) = f[x] + SumOver(g, Image(T))
        <3> DEFINE p == h[x]
                   P == Image(T)
        <3>1. SumOver(g, P \cup {p}) = g[p] + SumOver(g, P)
            <4>1. Summable(g, P) /\ p \notin P /\ g[p] \in Int
                BY <2>1, <2>2
            <4> HIDE DEF p, P
            <4> QED
                BY <4>1, SumAdd
        <3> QED
            BY <2>2, <3>1
    <2>5. IsFiniteSet(Image(T) \cup {h[x]})
        BY <2>2, FS_AddElement DEF Summable
    <2> QED
        BY <1>2, <2>1, <2>3, <2>4, <2>5
<1>3. S \in G
    <2> HIDE DEF G
    <2> QED
        BY <1>1, <1>2, Growing DEF Summable
<1>4. Image(S) = K
    OBVIOUS
<1> QED
    BY <1>3, <1>4

\* As many ones as there are members.
LEMMA SumOnes ==
    ASSUME NEW one, NEW S, IsFiniteSet(S), \A x \in S : one[x] = 1
    PROVE  SumOver(one, S) = Cardinality(S)
<1> DEFINE G == {T \in SUBSET S : SumOver(one, T) = Cardinality(T)}
<1>1. {} \in G
    BY SumEmpty, FS_EmptySet
<1>2. ASSUME NEW T \in SUBSET S, NEW x \in S, T \in G, x \notin T
      PROVE  T \cup {x} \in G
    <2>1. Summable(one, T) /\ one[x] = 1 /\ IsFiniteSet(T)
        BY FS_Subset DEF Summable
    <2>2. SumOver(one, T \cup {x}) = one[x] + SumOver(one, T)
        BY <1>2, <2>1, SumAdd
    <2>3. Cardinality(T \cup {x}) = Cardinality(T) + 1 /\ Cardinality(T) \in Nat
        BY <1>2, <2>1, FS_AddElement, FS_CardinalityType
    <2> QED
        BY <1>2, <2>1, <2>2, <2>3
<1> HIDE DEF G
<1>3. S \in G
    BY <1>1, <1>2, Growing
<1> QED
    BY <1>3 DEF G

\* The sums of f over the sets B[c].
Parts(f, B, K) == [c \in K |-> SumOver(f, B[c])]

\* Adding up part by part.
LEMMA SumParts ==
    ASSUME NEW f, NEW B, NEW K, IsFiniteSet(K), NEW U, Summable(f, U),
           \A c \in K : B[c] \subseteq U,
           \A x \in U : \E c \in K : x \in B[c],
           \A c, d \in K : c # d => B[c] \cap B[d] = {}
    PROVE  SumOver(Parts(f, B, K), K) = SumOver(f, U)
<1> DEFINE P == Parts(f, B, K)
           Cover(T) == {x \in U : \E c \in T : x \in B[c]}
           G == {T \in SUBSET K : SumOver(P, T) = SumOver(f, Cover(T))}
<1>1. \A c \in K : P[c] = SumOver(f, B[c])
    BY DEF Parts
<1>2. \A V \in SUBSET U : Summable(f, V)
    BY FS_Subset DEF Summable
<1>3. {} \in G
    <2>1. Cover({}) = {}
        OBVIOUS
    <2> QED
        BY <2>1, SumEmpty
<1> HIDE DEF P
<1>4. ASSUME NEW T \in SUBSET K, NEW c \in K, T \in G, c \notin T
      PROVE  T \cup {c} \in G
    <2>1. Cover(T \cup {c}) = Cover(T) \cup B[c]
        OBVIOUS
    <2>2. Cover(T) \cap B[c] = {}
        BY <1>4
    <2>3. Cover(T) \in SUBSET U /\ B[c] \in SUBSET U
        OBVIOUS
    <2> HIDE DEF Cover
    <2>4. SumOver(f, Cover(T) \cup B[c]) = SumOver(f, Cover(T)) + SumOver(f, B[c])
        BY <1>2, <2>2, <2>3, SumUnion
    <2>5. /\ SumOver(f, B[c]) \in Int /\ SumOver(f, Cover(T)) \in Int
          /\ \A d \in T : SumOver(f, B[d]) \in Int
        BY <1>2, <2>3, SumInt
    <2>6. Summable(P, T) /\ P[c] \in Int
        BY <1>1, <2>5, FS_Subset DEF Summable
    <2>7. SumOver(P, T \cup {c}) = P[c] + SumOver(P, T)
        BY <1>4, <2>6, SumAdd
    <2>8. SumOver(P, T) = SumOver(f, Cover(T)) /\ T \cup {c} \in SUBSET K
        BY <1>4
    <2>9. SumOver(P, T \cup {c}) = SumOver(f, Cover(T) \cup B[c])
        BY <1>1, <2>4, <2>5, <2>7, <2>8
    <2> QED
        BY <2>1, <2>8, <2>9
<1>5. Cover(K) = U
    OBVIOUS
<1> HIDE DEF G
<1>6. K \in G
    BY <1>3, <1>4, Growing
<1> QED
    BY <1>5, <1>6 DEF G, P
=============================================================================
