-------------------------------- MODULE Sums --------------------------------
(***************************************************************************)
(* Sums of the values of a function, as the models write them:             *)
(* FoldFunction(+, 0, f), and the numbers up to a number.  Every induction *)
(* here is done by a smallest counterexample (theorem WFMin with           *)
(* FS_StrictSubsetOrderingWellFounded for finite sets, LeastNumber for     *)
(* numbers), which needs sets and no operators.                            *)
(***************************************************************************)
EXTENDS Integers, FiniteSets, Sequences, Functions, FiniteSetTheorems,
        SequenceTheorems, TLAPS

Pick(S) == CHOOSE x \in S : TRUE

(* iter of MapThenFoldSet.                                                 *)
IsIter(it, f, S) ==
  it = [s \in SUBSET S |-> IF s = {} THEN 0
                           ELSE f[Pick(s)] + it[s \ {Pick(s)}]]

SumOn(f, S) == (CHOOSE it : IsIter(it, f, S))[S]

SumOf(f) == SumOn(f, DOMAIN f)

(* The fold of the community modules is the sum proved about here.         *)
LEMMA SumIsFold ==
  ASSUME NEW f
  PROVE  FoldFunction(+, 0, f) = SumOf(f)
BY DEF FoldFunction, FoldFunctionOnSet, MapThenFoldSet, SumOf, SumOn, IsIter,
       Pick

(* A property of finite sets that fails for one of them fails for a set    *)
(* all whose proper subsets have it.                                       *)
HasSmallest(S) ==
  \A B \in SUBSET SUBSET S : B # {} =>
    \E T \in B : /\ IsFiniteSet(T) /\ T \subseteq S
                /\ \A U \in SUBSET T : U # T => U \notin B

(* Every family of subsets of a finite set has a smallest member.          *)
LEMMA SmallestSet ==
  ASSUME NEW S, IsFiniteSet(S)
  PROVE  HasSmallest(S)
<1> SUFFICES ASSUME NEW B \in SUBSET SUBSET S, B # {}
             PROVE  \E T \in B : /\ IsFiniteSet(T) /\ T \subseteq S
                                 /\ \A U \in SUBSET T : U # T => U \notin B
  BY DEF HasSmallest
<1>1. FiniteSubsetsOf(S) = SUBSET S
  BY FS_FiniteSubsetsOfFinite
<1>2. PICK T \in B : \A U \in B : <<U, T>> \notin StrictSubsetOrdering(S)
  BY <1>1, WFMin, FS_StrictSubsetOrderingWellFounded
<1>3. T \subseteq S /\ IsFiniteSet(T)
  BY FS_Subset
<1>4. ASSUME NEW U \in SUBSET T, U # T, U \in B PROVE FALSE
  BY <1>2, <1>3, <1>4 DEF StrictSubsetOrdering
<1> QED BY <1>3, <1>4

(* The element the fold takes next is one of the set.                      *)
LEMMA PickIn == ASSUME NEW S, S # {} PROVE Pick(S) \in S
BY DEF Pick

(* The equation of iter.                                                   *)
LEMMA IterAt ==
  ASSUME NEW f, NEW S, NEW it, IsIter(it, f, S)
  PROVE  \A T \in SUBSET S :
           it[T] = IF T = {} THEN 0 ELSE f[Pick(T)] + it[T \ {Pick(T)}]
BY DEF IsIter

(* On a finite set there is only one such function, and it serves the      *)
(* subsets as well.                                                        *)
LEMMA IterUnique ==
  ASSUME NEW f, NEW S, IsFiniteSet(S), NEW T, T \subseteq S,
         NEW it, IsIter(it, f, S), NEW jt, IsIter(jt, f, T)
  PROVE  \A U \in SUBSET T : it[U] = jt[U]
<1>1. \A V \in SUBSET S :
         it[V] = IF V = {} THEN 0 ELSE f[Pick(V)] + it[V \ {Pick(V)}]
  BY IterAt
<1>2. \A V \in SUBSET T :
         jt[V] = IF V = {} THEN 0 ELSE f[Pick(V)] + jt[V \ {Pick(V)}]
  BY IterAt
<1> DEFINE B == { U \in SUBSET T : it[U] # jt[U] }
<1>3. SUFFICES ASSUME B # {} PROVE FALSE
  OBVIOUS
<1>4. IsFiniteSet(T)
  BY FS_Subset
<1>5. HasSmallest(T)
  BY <1>4, SmallestSet
<1>6. B \subseteq SUBSET T
  OBVIOUS
<1>7. ASSUME NEW V \in SUBSET T, V \notin B PROVE it[V] = jt[V]
  BY <1>7
<1>8. ASSUME NEW V \in B PROVE it[V] # jt[V]
  OBVIOUS
<1> HIDE DEF B
<1>9. PICK U \in B : /\ IsFiniteSet(U) /\ U \subseteq T
                     /\ \A V \in SUBSET U : V # U => V \notin B
  BY <1>3, <1>4, <1>6, <1>5 DEF HasSmallest
<1>10. U \in SUBSET T /\ U \in SUBSET S
  BY <1>6
<1>11. it[U] = IF U = {} THEN 0 ELSE f[Pick(U)] + it[U \ {Pick(U)}]
  BY <1>1, <1>10
<1>12. jt[U] = IF U = {} THEN 0 ELSE f[Pick(U)] + jt[U \ {Pick(U)}]
  BY <1>2, <1>10
<1>13. U # {}
  BY <1>8, <1>11, <1>12
<1>14. U \ {Pick(U)} \in SUBSET U /\ U \ {Pick(U)} # U
  BY <1>13, PickIn
<1>15. U \ {Pick(U)} \in SUBSET T
  BY <1>10, <1>14
<1>16. it[U \ {Pick(U)}] = jt[U \ {Pick(U)}]
  BY <1>7, <1>9, <1>14, <1>15
<1> QED BY <1>8, <1>11, <1>12, <1>13, <1>16

(* An iter of a set is one of each of its subsets.                         *)
LEMMA IterOfSubset ==
  ASSUME NEW f, NEW S, NEW it, IsIter(it, f, S), NEW T, T \subseteq S
  PROVE  IsIter([s \in SUBSET T |-> it[s]], f, T)
<1> DEFINE jt == [s \in SUBSET T |-> it[s]]
<1>1. ASSUME NEW s \in SUBSET T
      PROVE  jt[s] = IF s = {} THEN 0 ELSE f[Pick(s)] + jt[s \ {Pick(s)}]
  <2>1. s \in SUBSET S /\ s \ {Pick(s)} \in SUBSET T
    OBVIOUS
  <2>2. jt[s] = it[s] /\ jt[s \ {Pick(s)}] = it[s \ {Pick(s)}]
    BY <2>1
  <2> QED BY <2>1, <2>2, IterAt
<1>2. jt = [s \in SUBSET T |-> jt[s]]
  OBVIOUS
<1> HIDE DEF jt
<1>3. jt = [s \in SUBSET T |-> IF s = {} THEN 0
                                ELSE f[Pick(s)] + jt[s \ {Pick(s)}]]
  BY <1>1, <1>2
<1>4. IsIter(jt, f, T)
  BY <1>3 DEF IsIter
<1> QED BY <1>4 DEF jt

(* Any iter gives the sum, whichever of them CHOOSE takes.                 *)
LEMMA SumIsIter ==
  ASSUME NEW f, NEW S, IsFiniteSet(S), NEW it, IsIter(it, f, S),
         NEW T, T \subseteq S
  PROVE  SumOn(f, T) = it[T]
<1>1. \E jt : IsIter(jt, f, T)
  BY IterOfSubset
<1> DEFINE jt == CHOOSE jt : IsIter(jt, f, T)
<1>2. IsIter(jt, f, T)
  BY <1>1
<1> HIDE DEF jt
<1>3. it[T] = jt[T]
  BY <1>2, IterUnique
<1> QED BY <1>3 DEF SumOn, jt

(* A finite set has an iter.                                               *)
LEMMA IterExists ==
  ASSUME NEW f, NEW S, IsFiniteSet(S)
  PROVE  \E it : IsIter(it, f, S)
<1> DEFINE B == { T \in SUBSET S : ~ \E it : IsIter(it, f, T) }
<1>1. SUFFICES ASSUME B # {} PROVE FALSE
  OBVIOUS
<1>2. HasSmallest(S)
  BY SmallestSet
<1>3. B \subseteq SUBSET S
  OBVIOUS
<1>4. ASSUME NEW T \in SUBSET S PROVE T \in B <=> ~ \E it : IsIter(it, f, T)
  OBVIOUS
<1> HIDE DEF B
<1>5. PICK T \in B : /\ IsFiniteSet(T) /\ T \subseteq S
                     /\ \A U \in SUBSET T : U # T => U \notin B
  BY <1>1, <1>3, <1>2 DEF HasSmallest
<1>6. ~ \E it : IsIter(it, f, T)
  BY <1>5, <1>4
<1>7. ASSUME NEW U \in SUBSET T, U # T
      PROVE  SumOn(f, U) = IF U = {} THEN 0
                           ELSE f[Pick(U)] + SumOn(f, U \ {Pick(U)})
  <2>1. U \in SUBSET S /\ U \notin B
    BY <1>5, <1>7
  <2>2. PICK it : IsIter(it, f, U)
    BY <2>1, <1>4
  <2>3. IsFiniteSet(U) /\ U \ {Pick(U)} \subseteq U
    BY <1>5, FS_Subset
  <2>4. SumOn(f, U) = it[U] /\ SumOn(f, U \ {Pick(U)}) = it[U \ {Pick(U)}]
    BY <2>2, <2>3, SumIsIter
  <2> QED BY <2>2, <2>4, IterAt
<1> DEFINE jt == [s \in SUBSET T |-> IF s = {} THEN 0
                                      ELSE f[Pick(s)] + SumOn(f, s \ {Pick(s)})]
<1>8. ASSUME NEW s \in SUBSET T, s # {}
      PROVE  jt[s \ {Pick(s)}] = SumOn(f, s \ {Pick(s)})
  <2> DEFINE U == s \ {Pick(s)}
  <2>1. U \in SUBSET T /\ U # T
    BY <1>8, PickIn
  <2>2. SumOn(f, U) = IF U = {} THEN 0 ELSE f[Pick(U)] + SumOn(f, U \ {Pick(U)})
    BY <1>7, <2>1
  <2>3. jt[U] = IF U = {} THEN 0 ELSE f[Pick(U)] + SumOn(f, U \ {Pick(U)})
    BY <2>1
  <2> QED BY <2>2, <2>3
<1>9. ASSUME NEW s \in SUBSET T
      PROVE  jt[s] = IF s = {} THEN 0 ELSE f[Pick(s)] + jt[s \ {Pick(s)}]
  BY <1>8
<1>10. jt = [s \in SUBSET T |-> jt[s]]
  OBVIOUS
<1> HIDE DEF jt
<1>11. jt = [s \in SUBSET T |-> IF s = {} THEN 0
                                ELSE f[Pick(s)] + jt[s \ {Pick(s)}]]
  BY <1>9, <1>10
<1>12. IsIter(jt, f, T)
  BY <1>11 DEF IsIter
<1> QED BY <1>6, <1>12

-----------------------------------------------------------------------------
(* What a sum is, one element at a time.                                   *)
LEMMA SumPicks ==
  ASSUME NEW f, NEW S, IsFiniteSet(S)
  PROVE  SumOn(f, S) = IF S = {} THEN 0
                       ELSE f[Pick(S)] + SumOn(f, S \ {Pick(S)})
<1>1. PICK it : IsIter(it, f, S)
  BY IterExists
<1>2. SumOn(f, S) = it[S] /\ SumOn(f, S \ {Pick(S)}) = it[S \ {Pick(S)}]
  BY <1>1, SumIsIter
<1> QED BY <1>1, <1>2, IterAt

(* The sum of nothing.                                                     *)
LEMMA SumEmpty == ASSUME NEW f PROVE SumOn(f, {}) = 0
BY FS_EmptySet, SumPicks

(* N is Nat or Int below.                                                  *)
Additive(N) == /\ N \subseteq Int /\ 0 \in N
               /\ \A a, b \in N : a + b \in N

(* The integers and the numbers are closed under addition.                 *)
LEMMA AdditiveSets == Additive(Int) /\ Additive(Nat)
BY DEF Additive

(* A sum of members of such a set is one of them.                          *)
LEMMA SumType ==
  ASSUME NEW N, Additive(N), NEW S, IsFiniteSet(S),
         NEW f, \A x \in S : f[x] \in N
  PROVE  SumOn(f, S) \in N
<1> DEFINE B == { T \in SUBSET S : SumOn(f, T) \notin N }
<1>1. SUFFICES ASSUME B # {} PROVE FALSE
  OBVIOUS
<1>2. HasSmallest(S)
  BY SmallestSet
<1>3. B \subseteq SUBSET S
  OBVIOUS
<1>4. ASSUME NEW T \in SUBSET S PROVE T \in B <=> SumOn(f, T) \notin N
  OBVIOUS
<1> HIDE DEF B
<1>5. PICK T \in B : /\ IsFiniteSet(T) /\ T \subseteq S
                     /\ \A U \in SUBSET T : U # T => U \notin B
  BY <1>1, <1>3, <1>2 DEF HasSmallest
<1>6. SumOn(f, T) = IF T = {} THEN 0
                    ELSE f[Pick(T)] + SumOn(f, T \ {Pick(T)})
  BY <1>5, SumPicks
<1>7. T # {}
  BY <1>4, <1>5, <1>6 DEF Additive
<1>8. /\ Pick(T) \in S
      /\ T \ {Pick(T)} \in SUBSET T /\ T \ {Pick(T)} # T
      /\ T \ {Pick(T)} \in SUBSET S
  BY <1>5, <1>7, PickIn
<1>9. SumOn(f, T \ {Pick(T)}) \in N
  BY <1>4, <1>5, <1>8
<1>10. SumOn(f, T) \in N
  BY <1>6, <1>7, <1>8, <1>9 DEF Additive
<1> QED BY <1>4, <1>5, <1>10

(* Any element may be taken out first.                                     *)
LEMMA SumRemove ==
  ASSUME NEW S, IsFiniteSet(S), NEW f, \A x \in S : f[x] \in Int
  PROVE  \A x \in S : SumOn(f, S) = f[x] + SumOn(f, S \ {x})
<1> DEFINE Fails(T) == \E x \in T : SumOn(f, T) # f[x] + SumOn(f, T \ {x})
           B == { T \in SUBSET S : Fails(T) }
<1>1. SUFFICES ASSUME B # {} PROVE FALSE
  OBVIOUS
<1>2. HasSmallest(S)
  BY SmallestSet
<1>3. B \subseteq SUBSET S
  OBVIOUS
<1>4. ASSUME NEW T \in SUBSET S PROVE T \in B <=> Fails(T)
  OBVIOUS
<1> HIDE DEF B
<1>5. PICK T \in B : /\ IsFiniteSet(T) /\ T \subseteq S
                     /\ \A U \in SUBSET T : U # T => U \notin B
  BY <1>1, <1>3, <1>2 DEF HasSmallest
<1>6. PICK x \in T : SumOn(f, T) # f[x] + SumOn(f, T \ {x})
  BY <1>4, <1>5
<1> DEFINE y == Pick(T)
<1>7. y \in T /\ T # {}
  BY PickIn
<1>8. SumOn(f, T) = f[y] + SumOn(f, T \ {y})
  BY <1>5, <1>7, SumPicks
<1> HIDE DEF y
<1>9. x # y
  BY <1>6, <1>8
<1>10. /\ IsFiniteSet(T \ {x}) /\ IsFiniteSet(T \ {y})
      /\ IsFiniteSet((T \ {x}) \ {y})
  BY <1>5, FS_RemoveElement
<1>11. /\ T \ {x} \in SUBSET T /\ T \ {x} # T /\ T \ {x} \in SUBSET S
       /\ T \ {y} \in SUBSET T /\ T \ {y} # T /\ T \ {y} \in SUBSET S
       /\ y \in T \ {x} /\ x \in T \ {y}
       /\ (T \ {x}) \ {y} = (T \ {y}) \ {x}
  BY <1>5, <1>7, <1>9
<1>12. ~ Fails(T \ {x}) /\ ~ Fails(T \ {y})
  BY <1>4, <1>5, <1>11
<1>13. /\ SumOn(f, T \ {x}) = f[y] + SumOn(f, (T \ {x}) \ {y})
       /\ SumOn(f, T \ {y}) = f[x] + SumOn(f, (T \ {x}) \ {y})
  BY <1>11, <1>12
<1>14. /\ f[x] \in Int /\ f[y] \in Int
       /\ SumOn(f, (T \ {x}) \ {y}) \in Int
  <2>1. \A z \in (T \ {x}) \ {y} : f[z] \in Int
    BY <1>5
  <2>2. SumOn(f, (T \ {x}) \ {y}) \in Int
    BY <1>10, <2>1, SumType, AdditiveSets
  <2> QED BY <1>5, <1>7, <2>2
<1>15. SumOn(f, T) = f[x] + SumOn(f, T \ {x})
  BY <1>8, <1>13, <1>14
<1> QED BY <1>6, <1>15

(* Only the values on the set count.                                       *)
LEMMA SumSame ==
  ASSUME NEW S, IsFiniteSet(S), NEW f, NEW g, \A x \in S : f[x] = g[x]
  PROVE  SumOn(f, S) = SumOn(g, S)
<1> DEFINE B == { T \in SUBSET S : SumOn(f, T) # SumOn(g, T) }
<1>1. SUFFICES ASSUME B # {} PROVE FALSE
  OBVIOUS
<1>2. HasSmallest(S)
  BY SmallestSet
<1>3. B \subseteq SUBSET S
  OBVIOUS
<1>4. ASSUME NEW T \in SUBSET S PROVE T \in B <=> SumOn(f, T) # SumOn(g, T)
  OBVIOUS
<1> HIDE DEF B
<1>5. PICK T \in B : /\ IsFiniteSet(T) /\ T \subseteq S
                     /\ \A U \in SUBSET T : U # T => U \notin B
  BY <1>1, <1>3, <1>2 DEF HasSmallest
<1>6. SumOn(f, T) = IF T = {} THEN 0
                    ELSE f[Pick(T)] + SumOn(f, T \ {Pick(T)})
  BY <1>5, SumPicks
<1>7. SumOn(g, T) = IF T = {} THEN 0
                    ELSE g[Pick(T)] + SumOn(g, T \ {Pick(T)})
  BY <1>5, SumPicks
<1>8. T # {}
  BY <1>4, <1>5, <1>6, <1>7
<1>9. /\ Pick(T) \in S
      /\ T \ {Pick(T)} \in SUBSET T /\ T \ {Pick(T)} # T
      /\ T \ {Pick(T)} \in SUBSET S
  BY <1>5, <1>8, PickIn
<1>10. SumOn(f, T \ {Pick(T)}) = SumOn(g, T \ {Pick(T)})
  BY <1>4, <1>5, <1>9
<1>11. SumOn(f, T) = SumOn(g, T)
  BY <1>6, <1>7, <1>8, <1>9, <1>10
<1> QED BY <1>4, <1>5, <1>11

-----------------------------------------------------------------------------
(* The sum of a function and of a sequence, as a step changes them.        *)
LEMMA SumOfType ==
  ASSUME NEW D, IsFiniteSet(D), NEW N, Additive(N), NEW f \in [D -> N]
  PROVE  SumOf(f) \in N
<1>1. DOMAIN f = D /\ \A x \in D : f[x] \in N
  OBVIOUS
<1>2. SumOn(f, D) \in N
  BY <1>1, SumType
<1> QED BY <1>1, <1>2 DEF SumOf

(* A new value for one argument changes the sum by the difference.         *)
LEMMA SumOfExcept ==
  ASSUME NEW D, IsFiniteSet(D), NEW f \in [D -> Int], NEW x \in D, NEW v \in Int
  PROVE  /\ SumOf([f EXCEPT ![x] = v]) = (SumOf(f) - f[x]) + v
         /\ SumOf(f) \in Int
<1> DEFINE g == [f EXCEPT ![x] = v]
<1>1. /\ DOMAIN f = D /\ DOMAIN g = D /\ g[x] = v
      /\ \A y \in D : f[y] \in Int /\ g[y] \in Int
      /\ \A y \in D \ {x} : f[y] = g[y]
  OBVIOUS
<1> HIDE DEF g
<1>2. IsFiniteSet(D \ {x})
  BY FS_RemoveElement
<1>3. SumOn(f, D) = f[x] + SumOn(f, D \ {x})
  BY <1>1, SumRemove
<1>4. SumOn(g, D) = g[x] + SumOn(g, D \ {x})
  BY <1>1, SumRemove
<1>5. SumOn(f, D \ {x}) = SumOn(g, D \ {x})
  BY <1>1, <1>2, SumSame
<1>6. SumOn(f, D \ {x}) \in Int
  <2>1. \A y \in D \ {x} : f[y] \in Int
    BY <1>1
  <2> QED BY <1>2, <2>1, SumType, AdditiveSets
<1>7. SumOf(g) = (SumOf(f) - f[x]) + v /\ SumOf(f) \in Int
  BY <1>1, <1>3, <1>4, <1>5, <1>6 DEF SumOf
<1> QED BY <1>7 DEF g

(* An element appended to a sequence is added to its sum.                  *)
LEMMA SumOfAppend ==
  ASSUME NEW s \in Seq(Int), NEW v \in Int
  PROVE  /\ SumOf(Append(s, v)) = SumOf(s) + v
         /\ SumOf(s) \in Int
<1> DEFINE t == Append(s, v)
           n == Len(s)
<1>1. /\ n \in Nat /\ DOMAIN s = 1..n /\ DOMAIN t = 1..(n + 1)
      /\ t[n + 1] = v /\ n + 1 \in 1..(n + 1) /\ (1..(n + 1)) \ {n + 1} = 1..n
      /\ \A i \in 1..n : s[i] \in Int /\ t[i] = s[i]
      /\ \A i \in 1..(n + 1) : t[i] \in Int
  BY AppendProperties, LenProperties
<1>2. IsFiniteSet(1..n) /\ IsFiniteSet(1..(n + 1))
  BY <1>1, FS_Interval
<1> HIDE DEF t, n
<1>3. SumOn(t, 1..(n + 1)) = t[n + 1] + SumOn(t, 1..n)
  BY <1>1, <1>2, SumRemove
<1>4. SumOn(t, 1..n) = SumOn(s, 1..n)
  BY <1>1, <1>2, SumSame
<1>5. SumOn(s, 1..n) \in Int
  BY <1>1, <1>2, SumType, AdditiveSets
<1> QED BY <1>1, <1>3, <1>4, <1>5 DEF SumOf, t

(* Where all values but one are 0, the sum is that one.                    *)
LEMMA SumSingle ==
  ASSUME NEW S, IsFiniteSet(S), NEW x \in S,
         NEW f, f[x] \in Int, \A y \in S \ {x} : f[y] = 0
  PROVE  SumOn(f, S) = f[x]
<1>1. IsFiniteSet(S \ {x}) /\ IsFiniteSet({})
  BY FS_RemoveElement, FS_EmptySet
<1>2. SumOn(f, S) = f[x] + SumOn(f, S \ {x})
  <2>1. \A y \in S : f[y] \in Int
    OBVIOUS
  <2> QED BY <2>1, SumRemove
<1>3. SumOn(f, S \ {x}) \in {0}
  <2>1. Additive({0})
    BY DEF Additive
  <2>2. \A y \in S \ {x} : f[y] \in {0}
    OBVIOUS
  <2> QED BY <1>1, <2>1, <2>2, SumType
<1> QED BY <1>2, <1>3

(* The sum of the empty sequence.                                          *)
LEMMA SumOfEmpty == SumOf(<<>>) = 0
<1>1. DOMAIN <<>> = {}
  OBVIOUS
<1> QED BY <1>1, SumEmpty DEF SumOf

(* A sum of naturals grows with each of them.                              *)
LEMMA SumMonotone ==
  ASSUME NEW S, IsFiniteSet(S), NEW f, NEW g,
         \A x \in S : f[x] \in Int /\ g[x] \in Int /\ f[x] <= g[x]
  PROVE  SumOn(f, S) <= SumOn(g, S)
<1> DEFINE B == { T \in SUBSET S : ~ (SumOn(f, T) <= SumOn(g, T)) }
<1>1. SUFFICES ASSUME B # {} PROVE FALSE
  OBVIOUS
<1>2. HasSmallest(S)
  BY SmallestSet
<1>3. B \subseteq SUBSET S
  OBVIOUS
<1>4. ASSUME NEW T \in SUBSET S
      PROVE  T \in B <=> ~ (SumOn(f, T) <= SumOn(g, T))
  OBVIOUS
<1> HIDE DEF B
<1>5. PICK T \in B : /\ IsFiniteSet(T) /\ T \subseteq S
                     /\ \A U \in SUBSET T : U # T => U \notin B
  BY <1>1, <1>3, <1>2 DEF HasSmallest
<1>6. /\ SumOn(f, T) = IF T = {} THEN 0
                       ELSE f[Pick(T)] + SumOn(f, T \ {Pick(T)})
      /\ SumOn(g, T) = IF T = {} THEN 0
                       ELSE g[Pick(T)] + SumOn(g, T \ {Pick(T)})
  BY <1>5, SumPicks
<1>7. T # {}
  BY <1>4, <1>5, <1>6
<1>8. /\ Pick(T) \in S
      /\ T \ {Pick(T)} \in SUBSET T /\ T \ {Pick(T)} # T
      /\ T \ {Pick(T)} \in SUBSET S
  BY <1>5, <1>7, PickIn
<1>9. SumOn(f, T \ {Pick(T)}) <= SumOn(g, T \ {Pick(T)})
  BY <1>4, <1>5, <1>8
<1>10. /\ SumOn(f, T \ {Pick(T)}) \in Int /\ SumOn(g, T \ {Pick(T)}) \in Int
      /\ f[Pick(T)] \in Int /\ g[Pick(T)] \in Int /\ f[Pick(T)] <= g[Pick(T)]
  <2>1. IsFiniteSet(T \ {Pick(T)})
    BY <1>5, FS_RemoveElement
  <2>2. \A x \in T \ {Pick(T)} : f[x] \in Int /\ g[x] \in Int
    BY <1>5
  <2> QED BY <1>8, <2>1, <2>2, SumType, AdditiveSets
<1>11. SumOn(f, T) <= SumOn(g, T)
  BY <1>6, <1>7, <1>9, <1>10
<1> QED BY <1>4, <1>5, <1>11

(* A sum in which one term changes.                                        *)
LEMMA OneTerm ==
  ASSUME NEW D, IsFiniteSet(D), NEW f \in [D -> Nat], NEW g \in [D -> Nat],
         NEW x \in D, \A y \in D \ {x} : g[y] = f[y]
  PROVE  /\ SumOf(f) \in Nat /\ SumOf(g) \in Nat
         /\ SumOf(g) + f[x] = SumOf(f) + g[x]
<1>1. SumOf(f) \in Nat /\ SumOf(g) \in Nat
  BY SumOfType, AdditiveSets
<1>2. DOMAIN f = D /\ DOMAIN g = D
      /\ \A y \in D : f[y] \in Int /\ g[y] \in Int
  OBVIOUS
<1>3. IsFiniteSet(D \ {x})
  BY FS_RemoveElement
<1>4. /\ SumOn(f, D) = f[x] + SumOn(f, D \ {x})
      /\ SumOn(g, D) = g[x] + SumOn(g, D \ {x})
  BY <1>2, SumRemove
<1>5. SumOn(f, D \ {x}) = SumOn(g, D \ {x})
  BY <1>3, SumSame
<1>6. SumOn(f, D \ {x}) \in Int
  <2>1. \A y \in D \ {x} : f[y] \in Int
    BY <1>2
  <2> QED BY <1>3, <2>1, SumType, AdditiveSets
<1>7. f[x] \in Nat /\ g[x] \in Nat
  OBVIOUS
<1> QED BY <1>1, <1>2, <1>4, <1>5, <1>6, <1>7 DEF SumOf

(* Two terms of at most m together, for each element.                      *)
LEMMA PairBounded ==
  ASSUME NEW S, IsFiniteSet(S), NEW m \in Nat, NEW f, NEW g,
         \A x \in S : f[x] \in Nat /\ g[x] \in Nat /\ f[x] + g[x] <= m
  PROVE  /\ SumOn(f, S) \in Nat /\ SumOn(g, S) \in Nat
         /\ SumOn(f, S) + SumOn(g, S) <= Cardinality(S) * m
<1> DEFINE Fits(T) == SumOn(f, T) + SumOn(g, T) <= Cardinality(T) * m
           B == { T \in SUBSET S : ~ Fits(T) }
<1>1. ASSUME NEW T \in SUBSET S, IsFiniteSet(T)
      PROVE  SumOn(f, T) \in Nat /\ SumOn(g, T) \in Nat
  <2>1. \A x \in T : f[x] \in Nat /\ g[x] \in Nat
    OBVIOUS
  <2> QED BY <1>1, <2>1, SumType, AdditiveSets
<1>2. SUFFICES ASSUME B # {} PROVE FALSE
  BY <1>1
<1>3. HasSmallest(S)
  BY SmallestSet
<1>4. B \subseteq SUBSET S
  OBVIOUS
<1>5. ASSUME NEW T \in SUBSET S PROVE T \in B <=> ~ Fits(T)
  OBVIOUS
<1> HIDE DEF B
<1>6. PICK T \in B : /\ IsFiniteSet(T) /\ T \subseteq S
                     /\ \A U \in SUBSET T : U # T => U \notin B
  BY <1>2, <1>3, <1>4 DEF HasSmallest
<1>7. /\ SumOn(f, T) = IF T = {} THEN 0
                       ELSE f[Pick(T)] + SumOn(f, T \ {Pick(T)})
      /\ SumOn(g, T) = IF T = {} THEN 0
                       ELSE g[Pick(T)] + SumOn(g, T \ {Pick(T)})
  BY <1>6, SumPicks
<1>8. T # {}
  <2>1. Cardinality({}) * m = 0
    BY FS_EmptySet
  <2>2. T = {} => Fits(T)
    BY <1>7, <2>1
  <2> QED BY <1>5, <1>6, <2>2
<1> DEFINE x == Pick(T)
           U == T \ {x}
<1>9. /\ x \in T /\ x \in S /\ U \in SUBSET T /\ U # T /\ U \in SUBSET S
  BY <1>6, <1>8, PickIn
<1>10. Fits(U)
  BY <1>5, <1>6, <1>9
<1>11. /\ IsFiniteSet(U) /\ Cardinality(U) = Cardinality(T) - 1
       /\ Cardinality(T) \in Nat /\ Cardinality(U) \in Nat
  BY <1>6, <1>9, FS_RemoveElement, FS_CardinalityType
<1>12. SumOn(f, U) \in Nat /\ SumOn(g, U) \in Nat
  BY <1>1, <1>9, <1>11
<1>13. SumOn(f, T) = f[x] + SumOn(f, U) /\ SumOn(g, T) = g[x] + SumOn(g, U)
  BY <1>7, <1>8
<1>14. f[x] \in Nat /\ g[x] \in Nat /\ f[x] + g[x] <= m
  BY <1>9
<1> HIDE DEF U, x
<1>15. Cardinality(T) * m = Cardinality(U) * m + m /\ Cardinality(U) * m \in Nat
  BY <1>11
<1>16. Fits(T)
  BY <1>10, <1>12, <1>13, <1>14, <1>15
<1> QED BY <1>5, <1>6, <1>16

-----------------------------------------------------------------------------
(* Numbers and sequences.                                                  *)

(* Every set of numbers that is not empty has a least one.                 *)
LEMMA LeastNumber ==
  ASSUME NEW S, S \subseteq Nat, S # {}
  PROVE  \E x \in S : \A y \in S : x <= y
<1>1. \E R : /\ IsWellFoundedOn(R, Nat)
            /\ \A x, y \in Nat : <<x, y>> \in R <=> x < y
  <2> DEFINE Q == OpToRel(<, Nat)
  <2>1. /\ IsWellFoundedOn(Q, Nat)
        /\ \A x, y \in Nat : <<x, y>> \in Q <=> x < y
    BY NatLessThanWellFounded DEF OpToRel
  <2> HIDE DEF Q
  <2> QED BY <2>1
<1>2. PICK R : /\ IsWellFoundedOn(R, Nat)
               /\ \A x, y \in Nat : <<x, y>> \in R <=> x < y
  BY <1>1
<1>3. IsWellFoundedOn(R, Nat)
  BY <1>2
<1>4. PICK x \in S : \A y \in S : ~ (<<y, x>> \in R)
  BY <1>3, WFMin
<1>5. ASSUME NEW y \in S PROVE x <= y
  <2>1. x \in Nat /\ y \in Nat
    OBVIOUS
  <2>2. ~ (<<y, x>> \in R)
    BY <1>4
  <2>3. ~ (y < x)
    BY <1>2, <2>1, <2>2
  <2> QED BY <2>1, <2>3
<1> QED BY <1>5

(* Induction up to N, for the numbers of a set.                            *)
LEMMA UpTo ==
  ASSUME NEW N \in Nat, NEW C, 0 \in C, \A n \in 1..N : n - 1 \in C => n \in C
  PROVE  0..N \subseteq C
<1> DEFINE B == (0..N) \ C
<1>1. SUFFICES ASSUME B # {} PROVE FALSE
  OBVIOUS
<1>2. PICK n \in B : \A m \in B : n <= m
  <2>1. B \subseteq Nat
    OBVIOUS
  <2> QED BY <1>1, <2>1, LeastNumber
<1>3. n \in 1..N /\ n - 1 \in 0..N
  OBVIOUS
<1>4. n - 1 \notin B
  BY <1>2, <1>3
<1> QED BY <1>3, <1>4

(* Induction over sequences, for the sequences of a set.                   *)
LEMMA SeqUpTo ==
  ASSUME NEW S, NEW C, <<>> \in C,
         \A s \in Seq(S), e \in S : s \in C => Append(s, e) \in C
  PROVE  Seq(S) \subseteq C
<1> SUFFICES ASSUME NEW t \in Seq(S) PROVE t \in C
  OBVIOUS
<1> DEFINE D == { n \in Nat : \A s \in Seq(S) : Len(s) = n => s \in C }
<1>1. Len(t) \in Nat
  OBVIOUS
<1>2. 0 \in D
  BY EmptySeq
<1>3. ASSUME NEW n \in 1..Len(t), n - 1 \in D PROVE n \in D
  <2> SUFFICES ASSUME NEW s \in Seq(S), Len(s) = n PROVE s \in C
    BY <1>1
  <2>1. s # <<>>
    BY EmptySeq
  <2>2. PICK r \in Seq(S), e \in S : s = Append(r, e)
    BY <2>1, SequenceEmptyOrAppend
  <2>3. Len(r) = n - 1
    BY <2>2, AppendProperties
  <2> QED BY <1>3, <2>2, <2>3
<1> HIDE DEF D
<1>4. 0..Len(t) \subseteq D
  BY <1>1, <1>2, <1>3, UpTo
<1> QED BY <1>1, <1>4 DEF D
=============================================================================
