--------------------------- MODULE PipelineProofs ---------------------------
(* What the risk gate and the decision nodes guarantee for every list of   *)
(* trades and of pools, whatever its length.                               *)
EXTENDS RiskGate, Decision, Sums

-----------------------------------------------------------------------------
(* Filters.                                                                *)

IsKept(kept, s, K) ==
  kept = [n \in 0..Len(s) |->
            IF n = 0 THEN <<>>
            ELSE IF s[n] \in K THEN Append(kept[n - 1], s[n]) ELSE kept[n - 1]]

Steps(step, N, A) == step \in [(1..N) \X A -> A]

Solves(f, base, step, N, A) ==
  /\ f \in [0..N -> A]
  /\ \A n \in 0..N : f[n] = IF n = 0 THEN base ELSE step[<<n, f[n - 1]>>]

(* A recursion along the numbers up to N has a solution.                   *)
LEMMA RecursionExists ==
  ASSUME NEW A, NEW base \in A, NEW N \in Nat, NEW step, Steps(step, N, A)
  PROVE  \E f : Solves(f, base, step, N, A)
<1> DEFINE Rec(f, M) == \A n \in 0..M : f[n] = IF n = 0 THEN base
                                               ELSE step[<<n, f[n - 1]>>]
           C == { M \in 0..N : \E f \in [0..M -> A] : Rec(f, M) }
<1> USE DEF Steps
<1>1. 0 \in C
  <2> DEFINE f == [n \in 0..0 |-> base]
  <2>1. f \in [0..0 -> A] /\ Rec(f, 0)
    OBVIOUS
  <2> HIDE DEF f, Rec
  <2>2. \E g \in [0..0 -> A] : Rec(g, 0)
    BY <2>1
  <2> QED BY <2>2
<1>2. ASSUME NEW M \in 1..N, M - 1 \in C PROVE M \in C
  <2>1. PICK f \in [0..(M - 1) -> A] : Rec(f, M - 1)
    BY <1>2
  <2> DEFINE v == step[<<M, f[M - 1]>>]
             g == [n \in 0..M |-> IF n = M THEN v ELSE f[n]]
  <2>2. v \in A
    OBVIOUS
  <2>3. g \in [0..M -> A]
    BY <2>2
  <2>4. ASSUME NEW n \in 0..M
        PROVE  g[n] = IF n = 0 THEN base ELSE step[<<n, g[n - 1]>>]
    <3>1. CASE n = M
      <4>1. n # 0 /\ g[n] = v /\ g[n - 1] = f[M - 1]
        BY <3>1
      <4> QED BY <3>1, <4>1
    <3>2. CASE n # M
      <4>1. n \in 0..(M - 1) /\ g[n] = f[n] /\ (n # 0 => g[n - 1] = f[n - 1])
        BY <3>2
      <4> QED BY <2>1, <4>1
    <3> QED BY <3>1, <3>2
  <2>5. Rec(g, M)
    BY <2>4
  <2> HIDE DEF g, v, Rec
  <2>6. \E h \in [0..M -> A] : Rec(h, M)
    BY <2>3, <2>5
  <2> QED BY <2>6
<1> HIDE DEF C
<1>3. 0..N \subseteq C
  BY <1>1, <1>2, UpTo
<1>4. \E f \in [0..N -> A] : Rec(f, N)
  BY <1>3 DEF C
<1> QED BY <1>4 DEF Solves

(* The recursion of a filter has a solution.                               *)
LEMMA KeptExists ==
  ASSUME NEW S, NEW s \in Seq(S), NEW K
  PROVE  \E kept \in [0..Len(s) -> Seq(S)] : IsKept(kept, s, K)
<1> DEFINE Keep(n, f) == IF s[n] \in K THEN Append(f, s[n]) ELSE f
           step == [q \in (1..Len(s)) \X Seq(S) |-> Keep(q[1], q[2])]
<1>1. Len(s) \in Nat /\ <<>> \in Seq(S)
  BY EmptySeq
<1>2. ASSUME NEW n \in 1..Len(s), NEW f \in Seq(S)
      PROVE  Keep(n, f) \in Seq(S) /\ step[<<n, f>>] = Keep(n, f)
  BY ElementOfSeq, AppendProperties
<1>3. step \in [(1..Len(s)) \X Seq(S) -> Seq(S)]
  BY <1>2
<1>4. Steps(step, Len(s), Seq(S))
  BY <1>3 DEF Steps
<1> HIDE DEF step
<1>5. PICK kept : Solves(kept, <<>>, step, Len(s), Seq(S))
  BY <1>1, <1>4, RecursionExists
<1>6. /\ kept \in [0..Len(s) -> Seq(S)]
      /\ \A n \in 0..Len(s) : kept[n] = IF n = 0 THEN <<>>
                                        ELSE step[<<n, kept[n - 1]>>]
  BY <1>5 DEF Solves
<1>7. ASSUME NEW n \in 0..Len(s)
      PROVE  kept[n] = IF n = 0 THEN <<>> ELSE Keep(n, kept[n - 1])
  <2>1. CASE n = 0
    BY <1>6, <2>1
  <2>2. CASE n # 0
    <3>1. n \in 1..Len(s) /\ n - 1 \in 0..Len(s)
      BY <1>1, <2>2
    <3>2. kept[n - 1] \in Seq(S)
      BY <1>6, <3>1
    <3>3. kept[n] = step[<<n, kept[n - 1]>>]
      BY <1>6, <2>2
    <3>4. step[<<n, kept[n - 1]>>] = Keep(n, kept[n - 1])
      BY <1>2, <3>1, <3>2
    <3> QED BY <2>2, <3>3, <3>4
  <2> QED BY <2>1, <2>2
<1>8. kept = [n \in 0..Len(s) |-> kept[n]]
  BY <1>6
<1>9. IsKept(kept, s, K)
  BY <1>7, <1>8 DEF IsKept
<1> QED BY <1>6, <1>9

(* A filter's recursion, whichever solution CHOOSE takes.                  *)
LEMMA FilterRuns ==
  ASSUME NEW S, NEW s \in Seq(S), NEW K
  PROVE  \E kept : IsKept(kept, s, K) /\ Filtered(s, K) = kept[Len(s)]
<1>1. Filtered(s, K) = (CHOOSE kept : IsKept(kept, s, K))[Len(s)]
  BY DEF Filtered, IsKept
<1>2. \E kept : IsKept(kept, s, K)
  BY KeptExists
<1> QED BY <1>1, <1>2

(* Two solutions agree as far as their sequences do.                       *)
LEMMA KeptAgree ==
  ASSUME NEW S, NEW s \in Seq(S), NEW t \in Seq(S), NEW K, NEW N \in Nat,
         N <= Len(s), N <= Len(t), \A i \in 1..N : s[i] = t[i],
         NEW f, IsKept(f, s, K), NEW g, IsKept(g, t, K)
  PROVE  f[N] = g[N]
<1> DEFINE C == { n \in 0..N : f[n] = g[n] }
<1>1. /\ \A n \in 0..N : f[n] = IF n = 0 THEN <<>>
                                ELSE IF s[n] \in K THEN Append(f[n - 1], s[n])
                                ELSE f[n - 1]
      /\ \A n \in 0..N : g[n] = IF n = 0 THEN <<>>
                                ELSE IF t[n] \in K THEN Append(g[n - 1], t[n])
                                ELSE g[n - 1]
  <2>1. (0..N) \subseteq 0..Len(s) /\ (0..N) \subseteq 0..Len(t)
    OBVIOUS
  <2>2. \A n \in 0..Len(s) : f[n] = IF n = 0 THEN <<>>
                                ELSE IF s[n] \in K THEN Append(f[n - 1], s[n])
                                ELSE f[n - 1]
    BY DEF IsKept
  <2>3. \A n \in 0..Len(t) : g[n] = IF n = 0 THEN <<>>
                                ELSE IF t[n] \in K THEN Append(g[n - 1], t[n])
                                ELSE g[n - 1]
    BY DEF IsKept
  <2> QED BY <2>1, <2>2, <2>3
<1>2. 0 \in C
  BY <1>1
<1>3. ASSUME NEW n \in 1..N, n - 1 \in C PROVE n \in C
  <2>1. n \in 0..N /\ n # 0 /\ f[n - 1] = g[n - 1] /\ s[n] = t[n]
    BY <1>3
  <2> QED BY <1>1, <2>1
<1> HIDE DEF C
<1>4. 0..N \subseteq C
  BY <1>2, <1>3, UpTo
<1>5. N \in C
  BY <1>4
<1> QED BY <1>5 DEF C

(* The two equations of a filter.                                          *)
LEMMA FilteredEmpty ==
  ASSUME NEW K
  PROVE  Filtered(<<>>, K) = <<>>
<1>1. PICK kept : IsKept(kept, <<>>, K) /\ Filtered(<<>>, K) = kept[Len(<<>>)]
  BY FilterRuns, EmptySeq
<1> QED BY <1>1 DEF IsKept

(* A filter takes the elements in the order of the sequence.               *)
LEMMA FilteredAppend ==
  ASSUME NEW S, NEW s \in Seq(S), NEW x \in S, NEW K
  PROVE  Filtered(Append(s, x), K) =
           IF x \in K THEN Append(Filtered(s, K), x) ELSE Filtered(s, K)
<1> DEFINE t == Append(s, x)
           N == Len(s)
<1>1. /\ t \in Seq(S) /\ Len(t) = N + 1 /\ N \in Nat /\ t[N + 1] = x
      /\ \A i \in 1..N : s[i] = t[i]
  BY AppendProperties
<1> HIDE DEF t
<1>2. PICK f : IsKept(f, s, K) /\ Filtered(s, K) = f[N]
  BY FilterRuns
<1>3. PICK g : IsKept(g, t, K) /\ Filtered(t, K) = g[N + 1]
  BY <1>1, FilterRuns
<1>4. f[N] = g[N]
  <2>1. N <= Len(s) /\ N <= Len(t)
    BY <1>1
  <2> HIDE DEF N
  <2> QED BY <1>1, <1>2, <1>3, <2>1, KeptAgree
<1>5. g[N + 1] = IF t[N + 1] \in K THEN Append(g[N], t[N + 1]) ELSE g[N]
  <2>1. \A n \in 0..Len(t) : g[n] = IF n = 0 THEN <<>>
                                ELSE IF t[n] \in K THEN Append(g[n - 1], t[n])
                                ELSE g[n - 1]
    BY <1>3 DEF IsKept
  <2>2. N + 1 \in 0..Len(t) /\ N + 1 # 0 /\ (N + 1) - 1 = N
    BY <1>1
  <2> HIDE DEF N
  <2> QED BY <2>1, <2>2
<1> QED BY <1>1, <1>2, <1>3, <1>4, <1>5 DEF t

(* A filter keeps elements of its set, and no more of them than there are. *)
LEMMA FilteredIn ==
  ASSUME NEW S, NEW K, NEW t \in Seq(S)
  PROVE  /\ Filtered(t, K) \in Seq(S)
         /\ Len(Filtered(t, K)) <= Len(t)
         /\ \A j \in 1..Len(Filtered(t, K)) : Filtered(t, K)[j] \in K
<1> DEFINE Good(s, f) == /\ f \in Seq(S) /\ Len(f) <= Len(s)
                         /\ \A j \in 1..Len(f) : f[j] \in K
           C == { s \in Seq(S) : Good(s, Filtered(s, K)) }
<1>1. <<>> \in C
  <2>1. Filtered(<<>>, K) = <<>>
    BY FilteredEmpty
  <2>2. Good(<<>>, <<>>) /\ <<>> \in Seq(S)
    BY EmptySeq
  <2> HIDE DEF Good
  <2> QED BY <2>1, <2>2
<1>2. ASSUME NEW s \in Seq(S), NEW e \in S, s \in C PROVE Append(s, e) \in C
  <2> DEFINE f == Filtered(s, K)
             g == Filtered(Append(s, e), K)
  <2>1. Good(s, f)
    BY <1>2
  <2>2. g = IF e \in K THEN Append(f, e) ELSE f
    BY FilteredAppend
  <2> HIDE DEF f, g
  <2>3. Good(Append(s, e), g)
    <3>1. CASE e \notin K
      <4>1. g = f /\ Len(Append(s, e)) = Len(s) + 1 /\ Len(s) \in Nat /\ Len(f) \in Nat
        BY <2>1, <2>2, <3>1, AppendProperties
      <4> QED BY <2>1, <4>1
    <3>2. CASE e \in K
      <4>1. /\ g = Append(f, e) /\ f \in Seq(S) /\ Len(f) \in Nat /\ Len(s) \in Nat
        BY <2>1, <2>2, <3>2
      <4>2. /\ g \in Seq(S) /\ Len(g) = Len(f) + 1 /\ g[Len(f) + 1] = e
            /\ \A j \in 1..Len(f) : g[j] = f[j]
            /\ Len(Append(s, e)) = Len(s) + 1
        BY <4>1, AppendProperties
      <4>3. ASSUME NEW j \in 1..Len(g) PROVE g[j] \in K
        BY <2>1, <3>2, <4>1, <4>2
      <4> QED BY <2>1, <4>1, <4>2, <4>3
    <3> QED BY <3>1, <3>2
  <2>4. Append(s, e) \in Seq(S)
    BY AppendProperties
  <2> HIDE DEF Good
  <2> QED BY <2>3, <2>4 DEF g
<1> HIDE DEF C
<1>3. Seq(S) \subseteq C
  BY <1>1, <1>2, SeqUpTo
<1> QED BY <1>3 DEF C

(* A filter loses nothing of its set and keeps the order.                  *)
LEMMA FilteredOrder ==
  ASSUME NEW S, NEW K, NEW t \in Seq(S)
  PROVE  /\ \A i \in 1..Len(t) : t[i] \in K =>
              \E j \in 1..Len(Filtered(t, K)) : Filtered(t, K)[j] = t[i]
         /\ \A j \in 1..Len(Filtered(t, K)) :
              \E i \in 1..Len(t) : t[i] = Filtered(t, K)[j]
         /\ \A j, m \in 1..Len(Filtered(t, K)) : j < m =>
              \E i, k \in 1..Len(t) : /\ i < k /\ t[i] = Filtered(t, K)[j]
                                      /\ t[k] = Filtered(t, K)[m]
<1> DEFINE All(s, f) == \A i \in 1..Len(s) : s[i] \in K =>
                          \E j \in 1..Len(f) : f[j] = s[i]
           Only(s, f) == \A j \in 1..Len(f) : \E i \in 1..Len(s) : s[i] = f[j]
           Order(s, f) == \A j, m \in 1..Len(f) : j < m =>
                            \E i, k \in 1..Len(s) :
                              i < k /\ s[i] = f[j] /\ s[k] = f[m]
           Good(s, f) == All(s, f) /\ Only(s, f) /\ Order(s, f)
           C == { s \in Seq(S) : Good(s, Filtered(s, K)) }
<1>1. <<>> \in C
  BY FilteredEmpty, EmptySeq
<1>2. ASSUME NEW s \in Seq(S), NEW e \in S, s \in C PROVE Append(s, e) \in C
  <2> DEFINE f == Filtered(s, K)
             r == Append(s, e)
             g == Filtered(r, K)
             n == Len(s)
             l == Len(f)
  <2>1. Good(s, f) /\ f \in Seq(S) /\ l \in Nat /\ n \in Nat
    BY <1>2, FilteredIn
  <2>2. g = IF e \in K THEN Append(f, e) ELSE f
    BY FilteredAppend
  <2>3. r \in Seq(S) /\ Len(r) = n + 1 /\ r[n + 1] = e /\ \A i \in 1..n : r[i] = s[i]
    BY AppendProperties
  <2>4. e \in K => /\ Len(g) = l + 1 /\ g[l + 1] = e
                   /\ \A j \in 1..l : g[j] = f[j]
    BY <2>1, <2>2, AppendProperties
  <2> HIDE DEF f, g, r
  <2>5. Good(r, g)
    <3>1. CASE e \notin K
      <4>1. g = f /\ 1..n \subseteq 1..Len(r)
        BY <2>1, <2>2, <2>3, <3>1
      <4>2. All(r, g)
        BY <2>1, <2>3, <3>1, <4>1
      <4>3. Only(r, g)
        BY <2>1, <2>3, <4>1
      <4>4. Order(r, g)
        <5> SUFFICES ASSUME NEW j \in 1..l, NEW m \in 1..l, j < m
                     PROVE  \E i, k \in 1..Len(r) :
                              i < k /\ r[i] = g[j] /\ r[k] = g[m]
          BY <4>1
        <5>1. PICK i, k \in 1..n : i < k /\ s[i] = f[j] /\ s[k] = f[m]
          BY <2>1
        <5> QED BY <2>3, <4>1, <5>1
      <4> QED BY <4>2, <4>3, <4>4
    <3>2. CASE e \in K
      <4>1. /\ Len(g) = l + 1 /\ g[l + 1] = e /\ \A j \in 1..l : g[j] = f[j]
            /\ 1..n \subseteq 1..Len(r) /\ 1..l \subseteq 1..Len(g)
            /\ n + 1 \in 1..Len(r) /\ l + 1 \in 1..Len(g)
        BY <2>1, <2>3, <2>4, <3>2
      <4>2. All(r, g)
        <5> SUFFICES ASSUME NEW i \in 1..Len(r), r[i] \in K
                     PROVE  \E j \in 1..Len(g) : g[j] = r[i]
          OBVIOUS
        <5>1. CASE i = n + 1
          BY <2>3, <4>1, <5>1
        <5>2. CASE i # n + 1
          <6>1. i \in 1..n /\ r[i] = s[i]
            BY <2>1, <2>3, <5>2
          <6>2. PICK j \in 1..l : f[j] = s[i]
            BY <2>1, <6>1
          <6> QED BY <4>1, <6>1, <6>2
        <5> QED BY <5>1, <5>2
      <4>3. ASSUME NEW j \in 1..l PROVE \E i \in 1..n : r[i] = g[j]
        <5>1. PICK i \in 1..n : s[i] = f[j]
          BY <2>1
        <5> QED BY <2>3, <4>1, <5>1
      <4>4. ASSUME NEW j \in 1..Len(g) PROVE j = l + 1 \/ j \in 1..l
        BY <2>1, <4>1
      <4>5. Only(r, g)
        <5> SUFFICES ASSUME NEW j \in 1..Len(g)
                     PROVE  \E i \in 1..Len(r) : r[i] = g[j]
          OBVIOUS
        <5> QED BY <2>3, <4>1, <4>3, <4>4
      <4>6. Order(r, g)
        <5> SUFFICES ASSUME NEW j \in 1..Len(g), NEW m \in 1..Len(g), j < m
                     PROVE  \E i, k \in 1..Len(r) :
                              i < k /\ r[i] = g[j] /\ r[k] = g[m]
          OBVIOUS
        <5>1. j \in 1..l
          BY <2>1, <4>1
        <5>2. CASE m = l + 1
          <6>1. PICK i \in 1..n : r[i] = g[j]
            BY <4>3, <5>1
          <6>2. i < n + 1 /\ i \in 1..Len(r)
            BY <2>1, <4>1
          <6> QED BY <2>3, <4>1, <5>2, <6>1, <6>2
        <5>3. CASE m \in 1..l
          <6>1. PICK i, k \in 1..n : i < k /\ s[i] = f[j] /\ s[k] = f[m]
            BY <2>1, <5>1, <5>3
          <6>2. r[i] = g[j] /\ r[k] = g[m] /\ i \in 1..Len(r) /\ k \in 1..Len(r)
            BY <2>3, <4>1, <5>1, <5>3, <6>1
          <6> QED BY <6>1, <6>2
        <5> QED BY <4>4, <5>2, <5>3
      <4> QED BY <4>2, <4>5, <4>6
    <3> QED BY <3>1, <3>2
  <2> HIDE DEF Good
  <2> QED BY <2>3, <2>5 DEF g, r
<1> HIDE DEF Good
<1>3. Seq(S) \subseteq C
  <2> HIDE DEF C
  <2> QED BY <1>1, <1>2, SeqUpTo
<1>4. Good(t, Filtered(t, K))
  BY <1>3
<1> QED BY <1>4 DEF Good

(* Two filters are the filter of both.                                     *)
LEMMA FilteredTwice ==
  ASSUME NEW S, NEW A, NEW B, NEW K, \A x \in S : x \in K <=> x \in A /\ x \in B,
         NEW t \in Seq(S)
  PROVE  Filtered(Filtered(t, A), B) = Filtered(t, K)
<1> DEFINE C == { s \in Seq(S) : Filtered(Filtered(s, A), B) = Filtered(s, K) }
<1>1. <<>> \in C
  BY FilteredEmpty, EmptySeq
<1>2. ASSUME NEW s \in Seq(S), NEW e \in S, s \in C PROVE Append(s, e) \in C
  <2> DEFINE f == Filtered(s, A)
             r == Append(s, e)
  <2>1. f \in Seq(S)
    BY FilteredIn
  <2>2. /\ Filtered(r, A) = IF e \in A THEN Append(f, e) ELSE f
        /\ Filtered(r, K) = IF e \in K THEN Append(Filtered(s, K), e)
                            ELSE Filtered(s, K)
    BY FilteredAppend
  <2>3. Filtered(Append(f, e), B) =
          IF e \in B THEN Append(Filtered(f, B), e) ELSE Filtered(f, B)
    BY <2>1, FilteredAppend
  <2>4. Filtered(f, B) = Filtered(s, K) /\ r \in Seq(S)
    BY <1>2, AppendProperties
  <2> HIDE DEF f, r
  <2>5. Filtered(Filtered(r, A), B) = Filtered(r, K)
    <3>1. e \in K <=> e \in A /\ e \in B
      OBVIOUS
    <3>2. CASE e \in A
      <4>1. Filtered(r, A) = Append(f, e)
        BY <2>2, <3>2
      <4> QED BY <2>2, <2>3, <2>4, <3>1, <3>2, <4>1
    <3>3. CASE e \notin A
      <4>1. Filtered(r, A) = f
        BY <2>2, <3>3
      <4> QED BY <2>2, <2>4, <3>1, <3>3, <4>1
    <3> QED BY <3>2, <3>3
  <2> QED BY <2>4, <2>5 DEF r
<1> HIDE DEF C
<1>3. Seq(S) \subseteq C
  BY <1>1, <1>2, SeqUpTo
<1> QED BY <1>3 DEF C

(* What one filter leaves the opposite one keeps.                          *)
LEMMA FilteredParts ==
  ASSUME NEW S, NEW A, NEW B, \A x \in S : x \in A <=> x \notin B, NEW t \in Seq(S)
  PROVE  Len(Filtered(t, A)) + Len(Filtered(t, B)) = Len(t)
<1> DEFINE C == { s \in Seq(S) : Len(Filtered(s, A)) + Len(Filtered(s, B)) = Len(s) }
<1>1. <<>> \in C
  BY FilteredEmpty, EmptySeq
<1>2. ASSUME NEW s \in Seq(S), NEW e \in S, s \in C PROVE Append(s, e) \in C
  <2> DEFINE f == Filtered(s, A)
             g == Filtered(s, B)
             r == Append(s, e)
  <2>1. f \in Seq(S) /\ g \in Seq(S) /\ r \in Seq(S) /\ Len(r) = Len(s) + 1
    BY FilteredIn, AppendProperties
  <2>2. /\ Filtered(r, A) = IF e \in A THEN Append(f, e) ELSE f
        /\ Filtered(r, B) = IF e \in B THEN Append(g, e) ELSE g
    BY FilteredAppend
  <2>3. Len(Append(f, e)) = Len(f) + 1 /\ Len(Append(g, e)) = Len(g) + 1
    BY <2>1, AppendProperties
  <2>4. /\ Len(f) + Len(g) = Len(s)
        /\ Len(f) \in Nat /\ Len(g) \in Nat /\ Len(s) \in Nat
    BY <1>2, <2>1
  <2> DEFINE m == Len(f)
             n == Len(g)
  <2>5. /\ Len(r) = (m + n) + 1 /\ m \in Nat /\ n \in Nat
        /\ \/ Len(Filtered(r, A)) = m + 1 /\ Len(Filtered(r, B)) = n
           \/ Len(Filtered(r, A)) = m /\ Len(Filtered(r, B)) = n + 1
    BY <2>1, <2>2, <2>3, <2>4
  <2> HIDE DEF f, g, m, n
  <2>6. Len(Filtered(r, A)) + Len(Filtered(r, B)) = Len(r)
    BY <2>5
  <2> QED BY <2>1, <2>6
<1> HIDE DEF C
<1>3. Seq(S) \subseteq C
  BY <1>1, <1>2, SeqUpTo
<1> QED BY <1>3 DEF C

-----------------------------------------------------------------------------
(* The risk gate.  In the process that made all the trades the breaker     *)
(* keeps those of the log that were recent when the last one was recorded. *)

Since(time) == { t \in Trades : t.at > time - Window }

KeepsTheRecent ==
  earlier = 0 =>
    IF log = <<>> THEN daily_trades = <<>>
    ELSE daily_trades = Filtered(log, Since(log[Len(log)].at))

GateInv ==
  /\ GateTypeOK
  /\ log # <<>> => log[Len(log)].at <= now
  /\ KeepsTheRecent

(* The breaker's state has its types at first.                             *)
LEMMA GateStarts == GateInit => GateInv
<1> SUFFICES ASSUME GateInit PROVE GateInv
  OBVIOUS
<1>1. <<>> \in Seq(Trades) /\ Len(<<>>) = 0
  BY EmptySeq
<1> QED BY <1>1, RiskAssumption DEF GateInit, GateInv, GateTypeOK, KeepsTheRecent

(* A trade is recorded with its time, and what is older than a window goes *)
(* out of the list.                                                        *)
LEMMA TradeKeeps ==
  ASSUME GateInv, NEW pnl \in PnLs, RecordPnl(pnl)
  PROVE  GateInv'
<1> DEFINE e == [at |-> now, pnl |-> pnl]
           n == Len(log)
<1> USE RiskAssumption
<1>1. /\ e \in Trades /\ log \in Seq(Trades) /\ daily_trades \in Seq(Trades)
      /\ now \in Nat /\ n \in Nat /\ Window \in Nat \ {0} /\ now \in 0..MaxTime
      /\ earlier \in 0..n /\ UNCHANGED <<now, earlier, sized_amount>>
      /\ sized_amount \in Capitals \cup {0}
      /\ e.at = now
  BY DEF GateInv, GateTypeOK, Trades, RecordPnl
<1>2. /\ daily_trades' = Append(Filtered(daily_trades, Since(now)), e)
      /\ log' = Append(log, e)
  BY DEF RecordPnl, Recorded, Recent, Since
<1>3. /\ log' \in Seq(Trades) /\ Len(log') = n + 1 /\ log'[n + 1] = e
      /\ log' # <<>> /\ log'[Len(log')].at = now
  BY <1>1, <1>2, AppendProperties
<1>4. daily_trades' \in Seq(Trades)
  BY <1>1, <1>2, FilteredIn, AppendProperties
<1>5. GateTypeOK'
  BY <1>1, <1>3, <1>4 DEF GateTypeOK
<1>6. ASSUME earlier = 0 PROVE daily_trades' = Filtered(log', Since(now))
  <2>1. e \in Since(now)
    BY <1>1 DEF Since
  <2>2. Filtered(log', Since(now)) = Append(Filtered(log, Since(now)), e)
    BY <1>1, <1>2, <2>1, FilteredAppend
  <2>3. Filtered(daily_trades, Since(now)) = Filtered(log, Since(now))
    <3>1. CASE log = <<>>
      BY <1>6, <3>1 DEF GateInv, KeepsTheRecent
    <3>2. CASE log # <<>>
      <4> DEFINE last == log[n].at
      <4>1. daily_trades = Filtered(log, Since(last)) /\ last <= now
        BY <1>6, <3>2 DEF GateInv, KeepsTheRecent
      <4>2. last \in Nat
        <5>1. n \in 1..Len(log)
          BY <1>1, <3>2, EmptySeq
        <5>2. log[n] \in Trades
          BY <1>1, <5>1, ElementOfSeq
        <5> QED BY <5>2 DEF Trades
      <4> HIDE DEF last
      <4>3. \A t \in Trades : t \in Since(now) <=> t \in Since(last) /\ t \in Since(now)
        <5> SUFFICES ASSUME NEW t \in Trades, t \in Since(now)
                     PROVE  t \in Since(last)
          OBVIOUS
        <5>1. t.at \in Nat
          BY DEF Trades
        <5> QED BY <1>1, <4>1, <4>2, <5>1 DEF Since
      <4> QED BY <1>1, <4>1, <4>3, FilteredTwice
    <3> QED BY <3>1, <3>2
  <2> QED BY <1>2, <2>2, <2>3
<1>7. KeepsTheRecent'
  BY <1>1, <1>3, <1>6 DEF KeepsTheRecent, Since
<1> QED BY <1>1, <1>3, <1>5, <1>7 DEF GateInv

(* Every step keeps the breaker's types and what it keeps of the log.      *)
LEMMA GateSteps == GateInv /\ [GateNext]_gateVars => GateInv'
<1> SUFFICES ASSUME GateInv, [GateNext]_gateVars PROVE GateInv'
  OBVIOUS
<1> USE RiskAssumption
<1>1. ASSUME NEW capital \in Capitals, NEW tvl \in TVLs, CheckRisks(capital, tvl)
      PROVE  GateInv'
  <2>1. GateTypeOK'
    BY <1>1 DEF CheckRisks, FixedFraction, GateInv, GateTypeOK
  <2> QED BY <1>1, <2>1 DEF CheckRisks, GateInv, KeepsTheRecent, Since
<1>2. ASSUME NEW pnl \in PnLs, RecordPnl(pnl) PROVE GateInv'
  BY <1>2, TradeKeeps
<1>3. CASE Reset
  <2>1. <<>> \in Seq(Trades) /\ Len(<<>>) = 0
    BY EmptySeq
  <2> QED BY <1>3, <2>1 DEF Reset, GateInv, GateTypeOK, KeepsTheRecent
<1>4. CASE Tick
  <2>1. GateTypeOK'
    BY <1>4 DEF Tick, GateInv, GateTypeOK
  <2>2. log # <<>> => log[Len(log)].at \in Nat
    <3> SUFFICES ASSUME log # <<>> PROVE log[Len(log)].at \in Nat
      OBVIOUS
    <3>1. log \in Seq(Trades) /\ Len(log) \in 1..Len(log)
      BY EmptySeq DEF GateInv, GateTypeOK
    <3>2. log[Len(log)] \in Trades
      BY <3>1, ElementOfSeq
    <3> QED BY <3>2 DEF Trades
  <2>3. (log # <<>> => log[Len(log)].at <= now)'
    BY <1>4, <2>2 DEF Tick, GateInv, GateTypeOK
  <2>4. KeepsTheRecent'
    BY <1>4 DEF Tick, GateInv, KeepsTheRecent, Since
  <2> QED BY <2>1, <2>3, <2>4 DEF GateInv
<1>5. CASE Restart
  <2>1. <<>> \in Seq(Trades) /\ log \in Seq(Trades) /\ Len(log) \in Nat
    BY EmptySeq DEF GateInv, GateTypeOK
  <2>2. GateTypeOK'
    BY <1>5, <2>1 DEF Restart, GateInv, GateTypeOK
  <2>3. KeepsTheRecent'
    BY <1>5, <2>1, EmptySeq DEF Restart, KeepsTheRecent
  <2> QED BY <1>5, <2>2, <2>3 DEF Restart, GateInv
<1>6. CASE UNCHANGED gateVars
  BY <1>6 DEF gateVars, GateInv, GateTypeOK, KeepsTheRecent, Since
<1> QED BY <1>1, <1>2, <1>3, <1>4, <1>5, <1>6 DEF GateNext

(* The breaker always keeps just what was recent at its last trade.        *)
LEMMA GateInvariance == GateSpec => []GateInv
BY GateStarts, GateSteps, PTL DEF GateSpec

(* The breaker's state has its types, for every limit, window and trade.   *)
THEOREM GateTypes == GateSpec => []GateTypeOK
<1>1. GateInv => GateTypeOK
  BY DEF GateInv
<1> QED BY <1>1, GateInvariance, PTL

(* Right after a trade of the process that made them all the breaker trips *)
(* just when the PnL of the last window is below the limit.                *)
THEOREM BreakerIsExact == GateSpec => []ExactAfterTrade
<1>1. GateInv => ExactAfterTrade
  <2> SUFFICES ASSUME GateInv, earlier = 0, log # <<>>, Last(log).at = now
               PROVE  IsTripped <=> DailyPnL < -Limit
    BY DEF ExactAfterTrade
  <2>1. daily_trades = Recent(log)
    BY DEF GateInv, KeepsTheRecent, Since, Recent, Last
  <2> QED BY <2>1 DEF IsTripped, DailyPnL
<1> QED BY <1>1, GateInvariance, PTL

(* The total grows with every trade by its PnL.                            *)
LEMMA TotalGrows ==
  ASSUME NEW s \in Seq(Trades), NEW e \in Trades
  PROVE  /\ Total(Append(s, e)) = Total(s) + e.pnl
         /\ Total(s) \in Int
<1> DEFINE PnL(ts) == [i \in DOMAIN ts |-> ts[i].pnl]
           r == Append(s, e)
           n == Len(s)
<1>1. /\ n \in Nat /\ DOMAIN s = 1..n /\ r \in Seq(Trades)
      /\ Len(r) = n + 1 /\ DOMAIN r = 1..(n + 1) /\ r[n + 1] = e
      /\ \A i \in 1..n : r[i] = s[i] /\ s[i].pnl \in Int
      /\ e.pnl \in Int
  <2>1. n \in Nat /\ DOMAIN s = 1..n
    BY LenProperties
  <2>2. /\ r \in Seq(Trades) /\ Len(r) = n + 1 /\ r[n + 1] = e
        /\ \A i \in 1..n : r[i] = s[i]
    BY AppendProperties
  <2>3. DOMAIN r = 1..(n + 1)
    BY <2>2, LenProperties
  <2>4. ASSUME NEW i \in 1..n PROVE s[i].pnl \in Int
    <3>1. s[i] \in Trades
      BY ElementOfSeq
    <3> QED BY <3>1 DEF Trades
  <2>5. e.pnl \in Int
    BY DEF Trades
  <2> QED BY <2>1, <2>2, <2>3, <2>4, <2>5
<1>2. PnL(s) \in Seq(Int) /\ Len(PnL(s)) = n
  <2>1. PnL(s) \in [1..n -> Int]
    BY <1>1
  <2> QED BY <1>1, <2>1
<1>3. PnL(r) = Append(PnL(s), e.pnl)
  <2> DEFINE a == PnL(r)
             b == Append(PnL(s), e.pnl)
  <2>1. a \in Seq(Int) /\ Len(a) = n + 1
    <3>1. a \in [1..(n + 1) -> Int]
      BY <1>1
    <3> QED BY <1>1, <3>1
  <2>2. b \in Seq(Int) /\ Len(b) = n + 1 /\ b[n + 1] = e.pnl
        /\ \A i \in 1..n : b[i] = PnL(s)[i]
    BY <1>1, <1>2, AppendProperties
  <2>3. ASSUME NEW i \in 1..(n + 1) PROVE a[i] = b[i]
    <3>1. CASE i = n + 1
      BY <1>1, <2>2, <3>1
    <3>2. CASE i # n + 1
      <4>1. i \in 1..n
        BY <1>1, <3>2
      <4>2. a[i] = r[i].pnl /\ b[i] = s[i].pnl
        BY <1>1, <2>2, <4>1
      <4> QED BY <1>1, <4>1, <4>2
    <3> QED BY <3>1, <3>2
  <2> HIDE DEF a, b
  <2>4. a = b
    BY <2>1, <2>2, <2>3, SeqEqual
  <2> QED BY <2>4 DEF a, b
<1>4. Total(s) = SumOf(PnL(s)) /\ Total(r) = SumOf(PnL(r))
  BY SumIsFold DEF Total
<1> HIDE DEF PnL
<1> QED BY <1>1, <1>2, <1>3, <1>4, SumOfAppend

(* What a filter drops without gains has not raised the total, what it     *)
(* drops without losses has not lowered it.                                *)
LEMMA DroppedTrades ==
  ASSUME NEW K, NEW ts \in Seq(Trades)
  PROVE  /\ Total(ts) \in Int /\ Total(Filtered(ts, K)) \in Int
         /\ (\A i \in 1..Len(ts) : ts[i] \in K \/ ts[i].pnl <= 0)
              => Total(ts) <= Total(Filtered(ts, K))
         /\ (\A i \in 1..Len(ts) : ts[i] \in K \/ ts[i].pnl >= 0)
              => Total(ts) >= Total(Filtered(ts, K))
<1> DEFINE NoGain(s) == \A i \in 1..Len(s) : s[i] \in K \/ s[i].pnl <= 0
           NoLoss(s) == \A i \in 1..Len(s) : s[i] \in K \/ s[i].pnl >= 0
           Ordered(s) == /\ Total(s) \in Int /\ Total(Filtered(s, K)) \in Int
                         /\ NoGain(s) => Total(s) <= Total(Filtered(s, K))
                         /\ NoLoss(s) => Total(s) >= Total(Filtered(s, K))
           C == { s \in Seq(Trades) : Ordered(s) }
<1>1. <<>> \in C
  <2>1. Total(<<>>) = 0
    <3>1. DOMAIN <<>> = {}
      OBVIOUS
    <3>2. Total(<<>>) = SumOf([i \in DOMAIN <<>> |-> <<>>[i].pnl])
      BY SumIsFold DEF Total
    <3> QED BY <3>1, <3>2, SumEmpty DEF SumOf
  <2> QED BY <2>1, FilteredEmpty, EmptySeq
<1>2. ASSUME NEW s \in Seq(Trades), NEW e \in Trades, s \in C
      PROVE  Append(s, e) \in C
  <2> DEFINE r == Append(s, e)
             f == Filtered(s, K)
  <2>1. r \in Seq(Trades)
    BY AppendProperties
  <2>2. e.pnl \in Int
    BY DEF Trades
  <2>3. /\ Len(s) \in Nat /\ Len(r) = Len(s) + 1 /\ r[Len(s) + 1] = e
        /\ \A i \in 1..Len(s) : r[i] = s[i]
    BY AppendProperties
  <2>4. /\ NoGain(r) => NoGain(s) /\ (e \in K \/ e.pnl <= 0)
        /\ NoLoss(r) => NoLoss(s) /\ (e \in K \/ e.pnl >= 0)
    <3>1. Len(s) + 1 \in 1..Len(r) /\ 1..Len(s) \subseteq 1..Len(r)
      BY <2>3
    <3> HIDE DEF r
    <3> QED BY <2>3, <3>1
  <2>5. Ordered(s)
    BY <1>2
  <2>6. f \in Seq(Trades)
    BY FilteredIn
  <2>7. /\ Total(r) = Total(s) + e.pnl
        /\ Total(Append(f, e)) = Total(f) + e.pnl
    BY <2>6, TotalGrows
  <2>8. Filtered(r, K) = IF e \in K THEN Append(f, e) ELSE f
    BY FilteredAppend
  <2> HIDE DEF r, f, NoGain, NoLoss
  <2>9. Ordered(r)
    <3>1. Total(s) \in Int /\ Total(f) \in Int
      BY <2>5 DEF f
    <3>2. /\ NoGain(s) => Total(s) <= Total(f)
          /\ NoLoss(s) => Total(s) >= Total(f)
      BY <2>5 DEF f
    <3>3. CASE e \in K
      <4>1. Total(Filtered(r, K)) = Total(f) + e.pnl
        BY <2>7, <2>8, <3>3
      <4> QED BY <2>2, <2>4, <2>7, <3>1, <3>2, <4>1
    <3>4. CASE e \notin K
      <4>1. Total(Filtered(r, K)) = Total(f)
        BY <2>8, <3>4
      <4> QED BY <2>2, <2>4, <2>7, <3>1, <3>2, <3>4, <4>1
    <3> QED BY <3>3, <3>4
  <2> QED BY <2>1, <2>9 DEF r
<1>3. ASSUME NEW s \in C PROVE s \in Seq(Trades) /\ Ordered(s)
  OBVIOUS
<1> HIDE DEF C
<1>4. Seq(Trades) \subseteq C
  BY <1>1, <1>2, SeqUpTo
<1> QED BY <1>3, <1>4

(* In the process that made them all, the trades of the last 24 hours are  *)
(* those the breaker keeps, without the old ones among them.               *)
LEMMA KeptAndRecent ==
  ASSUME GateInv, earlier = 0
  PROVE  Recent(log) = Filtered(daily_trades, Since(now))
<1>1. log \in Seq(Trades) /\ now \in Nat /\ Window \in Nat
  BY RiskAssumption DEF GateInv, GateTypeOK
<1>2. CASE log = <<>>
  BY <1>2 DEF Recent, Since, GateInv, KeepsTheRecent
<1>3. CASE log # <<>>
  <2> DEFINE last == log[Len(log)].at
  <2>1. daily_trades = Filtered(log, Since(last)) /\ last <= now
    BY <1>3 DEF GateInv, KeepsTheRecent
  <2>2. last \in Nat
    <3>1. Len(log) \in 1..Len(log)
      BY <1>1, <1>3, EmptySeq
    <3>2. log[Len(log)] \in Trades
      BY <1>1, <3>1, ElementOfSeq
    <3> QED BY <3>2 DEF Trades
  <2> HIDE DEF last
  <2>3. \A t \in Trades : t \in Since(now) <=> t \in Since(last) /\ t \in Since(now)
    <3> SUFFICES ASSUME NEW t \in Trades, t \in Since(now)
                 PROVE  t \in Since(last)
      OBVIOUS
    <3>1. t.at \in Nat
      BY DEF Trades
    <3> QED BY <1>1, <2>1, <2>2, <3>1 DEF Since
  <2>4. Filtered(Filtered(log, Since(last)), Since(now)) = Filtered(log, Since(now))
    BY <1>1, <2>3, FilteredTwice
  <2> QED BY <2>1, <2>4 DEF Recent, Since
<1> QED BY <1>2, <1>3

(* The breaker errs by old trades only: an old gain when it is not tripped *)
(* in a drawdown, an old loss when it is tripped in none                   *)
(* (circuit_breaker.py:10-21).                                             *)
THEOREM BreakerErrsByOldTrades == GateSpec => []ErrsByOldTrades
<1>1. GateInv => ErrsByOldTrades
  <2> SUFFICES ASSUME GateInv, earlier = 0
               PROVE  /\ ~IsTripped /\ DailyPnL < -Limit
                           => \E t \in Range(daily_trades) : Old(t) /\ t.pnl > 0
                      /\ IsTripped /\ DailyPnL >= -Limit
                           => \E t \in Range(daily_trades) : Old(t) /\ t.pnl < 0
    BY DEF ErrsByOldTrades
  <2> DEFINE ts == daily_trades
  <2>1. /\ ts \in Seq(Trades) /\ now \in Nat /\ Window \in Nat /\ Limit \in Nat
    BY RiskAssumption DEF GateInv, GateTypeOK
  <2>2. DailyPnL = Total(Filtered(ts, Since(now)))
    BY KeptAndRecent DEF DailyPnL
  <2>3. IsTripped <=> Total(ts) < -Limit
    BY DEF IsTripped
  <2>4. ASSUME NEW i \in 1..Len(ts)
        PROVE  /\ ts[i] \in Range(ts) /\ ts[i].pnl \in Int
               /\ ts[i] \notin Since(now) => Old(ts[i])
    <3>1. ts[i] \in Trades
      BY <2>1, ElementOfSeq
    <3>2. ts[i].at \in Nat /\ ts[i].pnl \in Int
      BY <3>1 DEF Trades
    <3>3. ts[i] \in Range(ts)
      BY <2>1 DEF Range
    <3> QED BY <2>1, <3>1, <3>2, <3>3 DEF Old, Since
  <2> HIDE DEF ts
  <2>5. /\ Total(ts) \in Int /\ DailyPnL \in Int
        /\ (\A i \in 1..Len(ts) : ts[i] \in Since(now) \/ ts[i].pnl <= 0)
             => Total(ts) <= DailyPnL
        /\ (\A i \in 1..Len(ts) : ts[i] \in Since(now) \/ ts[i].pnl >= 0)
             => Total(ts) >= DailyPnL
    BY <2>1, <2>2, DroppedTrades
  <2>6. ASSUME ~IsTripped, DailyPnL < -Limit
        PROVE  \E t \in Range(ts) : Old(t) /\ t.pnl > 0
    <3>1. ~ (Total(ts) <= DailyPnL)
      BY <2>1, <2>3, <2>5, <2>6
    <3>2. PICK i \in 1..Len(ts) : ts[i] \notin Since(now) /\ ~ (ts[i].pnl <= 0)
      BY <2>5, <3>1
    <3> QED BY <2>4, <3>2
  <2>7. ASSUME IsTripped, DailyPnL >= -Limit
        PROVE  \E t \in Range(ts) : Old(t) /\ t.pnl < 0
    <3>1. ~ (Total(ts) >= DailyPnL)
      BY <2>1, <2>3, <2>5, <2>7
    <3>2. PICK i \in 1..Len(ts) : ts[i] \notin Since(now) /\ ~ (ts[i].pnl >= 0)
      BY <2>5, <3>1
    <3> QED BY <2>4, <3>2
  <2> QED BY <2>6, <2>7 DEF ts
<1> QED BY <1>1, GateInvariance, PTL

-----------------------------------------------------------------------------
(* The collector's order.                                                  *)

IsSorting(sorted, first, ps) ==
  sorted = [n \in 0..Len(ps) |->
              IF n = 0 THEN <<>> ELSE Insert(first, sorted[n - 1], ps[n])]

Unpreferred(first, p) == { q \in Pools : ~Before(first, p, q) }
Preferred(first, p) == { q \in Pools : Before(first, p, q) }

Ahead(first, s, p) == Filtered(s, Unpreferred(first, p))
Behind(first, s, p) == Filtered(s, Preferred(first, p))

Between(a, p, b, t) ==
  /\ t \in Seq(Pools) /\ a \in Seq(Pools) /\ b \in Seq(Pools)
  /\ Len(t) = Len(a) + 1 + Len(b)
  /\ \A i \in 1..Len(a) : t[i] = a[i]
  /\ t[Len(a) + 1] = p
  /\ \A i \in 1..Len(b) : t[Len(a) + 1 + i] = b[i]

Holds(ps, p) == \E i \in 1..Len(ps) : ps[i] = p

InOrder(first, ps) ==
  \A i, j \in 1..Len(ps) : i < j => ~Before(first, ps[j], ps[i])

(* A pool is inserted between those it does not precede and the others.    *)
LEMMA InsertedAt ==
  ASSUME NEW first, NEW s \in Seq(Pools), NEW p \in Pools
  PROVE  /\ Insert(first, s, p) \in Seq(Pools)
         /\ Len(Insert(first, s, p)) = Len(s) + 1
         /\ Between(Ahead(first, s, p), p, Behind(first, s, p), Insert(first, s, p))
<1> DEFINE a == Ahead(first, s, p)
           b == Behind(first, s, p)
           t == Insert(first, s, p)
           m == Len(a)
           n == Len(b)
<1>1. a \in Seq(Pools) /\ b \in Seq(Pools)
  BY FilteredIn DEF Ahead, Behind
<1>2. m + n = Len(s)
  <2>1. \A x \in Pools : x \in Unpreferred(first, p) <=> x \notin Preferred(first, p)
    BY DEF Unpreferred, Preferred
  <2> QED BY <2>1, FilteredParts DEF Ahead, Behind
<1>3. t = a \o <<p>> \o b
  BY DEF Insert, Unpreferred, Preferred, Ahead, Behind
<1> HIDE DEF a, b, t
<1>4. /\ t \in Seq(Pools) /\ Len(t) = m + 1 + n /\ m \in Nat /\ n \in Nat
      /\ \A i \in 1..m : t[i] = a[i]
      /\ t[m + 1] = p
      /\ \A i \in 1..n : t[m + 1 + i] = b[i]
  BY <1>1, <1>3
<1>5. Len(t) = Len(s) + 1
  BY <1>2, <1>4
<1>6. Between(a, p, b, t)
  BY <1>1, <1>4 DEF Between
<1> QED BY <1>4, <1>5, <1>6 DEF a, b, t

(* What precedes another pool precedes those that one precedes.            *)
LEMMA BeforeOrders ==
  ASSUME NEW first, NEW p \in Pools, NEW q \in Pools, NEW r \in Pools
  PROVE  /\ Before(first, p, q) => ~Before(first, q, p)
         /\ Before(first, p, q) /\ Before(first, q, r) => Before(first, p, r)
<1>1. p.apy \in Nat /\ q.apy \in Nat /\ r.apy \in Nat
  BY DecisionAssumption
<1> QED BY <1>1 DEF Before

(* An inserted pool leaves the order as it should be and loses no pool.    *)
LEMMA InsertKeeps ==
  ASSUME NEW first, NEW s \in Seq(Pools), NEW p \in Pools
  PROVE  /\ InOrder(first, s) => InOrder(first, Insert(first, s, p))
         /\ Holds(Insert(first, s, p), p)
         /\ \A i \in 1..Len(s) : Holds(Insert(first, s, p), s[i])
         /\ \A q : Holds(Insert(first, s, p), q) => q = p \/ Holds(s, q)
<1> DEFINE a == Ahead(first, s, p)
           b == Behind(first, s, p)
           t == Insert(first, s, p)
           m == Len(a)
           n == Len(b)
<1>1. /\ t \in Seq(Pools) /\ a \in Seq(Pools) /\ b \in Seq(Pools)
      /\ Len(t) = m + 1 + n /\ m \in Nat /\ n \in Nat
      /\ \A i \in 1..m : t[i] = a[i]
      /\ t[m + 1] = p
      /\ \A i \in 1..n : t[m + 1 + i] = b[i]
  <2>1. Between(a, p, b, t)
    BY InsertedAt
  <2> HIDE DEF a, b, t
  <2>2. a \in Seq(Pools) /\ b \in Seq(Pools)
    BY <2>1 DEF Between
  <2>3. m \in Nat /\ n \in Nat
    BY <2>2
  <2> QED BY <2>1, <2>3 DEF Between
<1>2. /\ \A i \in 1..m : ~Before(first, p, a[i])
      /\ \A i \in 1..n : Before(first, p, b[i])
  <2>1. \A i \in 1..m : a[i] \in Unpreferred(first, p)
    BY FilteredIn DEF Ahead, Behind
  <2>2. \A i \in 1..n : b[i] \in Preferred(first, p)
    BY FilteredIn DEF Ahead, Behind
  <2> QED BY <2>1, <2>2 DEF Unpreferred, Preferred
<1>3. /\ \A j \in 1..m : \E i \in 1..Len(s) : s[i] = a[j]
      /\ \A j \in 1..n : \E i \in 1..Len(s) : s[i] = b[j]
      /\ \A j, k \in 1..m : j < k => \E i, l \in 1..Len(s) :
                              i < l /\ s[i] = a[j] /\ s[l] = a[k]
      /\ \A j, k \in 1..n : j < k => \E i, l \in 1..Len(s) :
                              i < l /\ s[i] = b[j] /\ s[l] = b[k]
  BY FilteredOrder DEF Ahead, Behind
<1>4. \A i \in 1..Len(s) : \/ \E j \in 1..m : a[j] = s[i]
                           \/ \E j \in 1..n : b[j] = s[i]
  <2> SUFFICES ASSUME NEW i \in 1..Len(s)
               PROVE  \/ \E j \in 1..m : a[j] = s[i]
                      \/ \E j \in 1..n : b[j] = s[i]
    OBVIOUS
  <2>1. s[i] \in Unpreferred(first, p) \/ s[i] \in Preferred(first, p)
    BY ElementOfSeq DEF Unpreferred, Preferred
  <2> QED BY <2>1, FilteredOrder DEF Ahead, Behind
<1>5. ASSUME NEW k \in 1..Len(t)
      PROVE  k \in 1..m \/ k = m + 1 \/ \E i \in 1..n : k = m + 1 + i
  <2>1. CASE k > m + 1
    <3>1. k - (m + 1) \in 1..n /\ k = m + 1 + (k - (m + 1))
      BY <1>1, <2>1
    <3> QED BY <3>1
  <2>2. CASE ~ (k > m + 1)
    BY <1>1, <2>2
  <2> QED BY <2>1, <2>2
<1>6. \A i \in 1..n : m + 1 + i \in 1..Len(t)
  BY <1>1
<1>7. m + 1 \in 1..Len(t) /\ \A i \in 1..m : i \in 1..Len(t)
  BY <1>1
<1>8. /\ \A i \in 1..m : a[i] \in Pools
      /\ \A i \in 1..n : b[i] \in Pools
  BY <1>1, ElementOfSeq
<1> HIDE DEF a, b, t, m, n
<1>9. \E k \in 1..Len(t) : t[k] = p
  BY <1>1, <1>7
<1>10. \A i \in 1..Len(s) : \E k \in 1..Len(t) : t[k] = s[i]
  <2> SUFFICES ASSUME NEW i \in 1..Len(s) PROVE \E k \in 1..Len(t) : t[k] = s[i]
    OBVIOUS
  <2>1. CASE \E j \in 1..m : a[j] = s[i]
    BY <1>1, <1>7, <2>1
  <2>2. CASE \E j \in 1..n : b[j] = s[i]
    <3>1. PICK j \in 1..n : b[j] = s[i]
      BY <2>2
    <3>2. t[m + 1 + j] = s[i] /\ m + 1 + j \in 1..Len(t)
      BY <1>1, <1>6, <3>1
    <3> QED BY <3>2
  <2> QED BY <1>4, <2>1, <2>2
<1>11. \A k \in 1..Len(t) : t[k] = p \/ \E i \in 1..Len(s) : s[i] = t[k]
  <2> SUFFICES ASSUME NEW k \in 1..Len(t)
               PROVE  t[k] = p \/ \E i \in 1..Len(s) : s[i] = t[k]
    OBVIOUS
  <2>1. CASE k \in 1..m
    BY <1>1, <1>3, <2>1, SMTT(60)
  <2>2. CASE k = m + 1
    BY <1>1, <2>2
  <2>3. ASSUME NEW j \in 1..n, k = m + 1 + j
        PROVE  \E i \in 1..Len(s) : s[i] = t[k]
    <3>1. t[k] = b[j]
      BY <1>1, <2>3
    <3> QED BY <1>3, <3>1
  <2> QED BY <1>5, <2>1, <2>2, <2>3
<1>12. ASSUME InOrder(first, s), NEW k \in 1..Len(t), NEW l \in 1..Len(t), k < l
       PROVE  ~Before(first, t[l], t[k])
  <2>1. CASE l \in 1..m
    <3>1. k \in 1..m
      BY <1>1, <1>12, <2>1
    <3>2. PICK i, j \in 1..Len(s) : i < j /\ s[i] = a[k] /\ s[j] = a[l]
      BY <1>3, <1>12, <2>1, <3>1
    <3> QED BY <1>1, <1>12, <2>1, <3>1, <3>2 DEF InOrder
  <2>2. CASE l = m + 1
    <3>1. k \in 1..m
      BY <1>1, <1>12, <2>2
    <3> QED BY <1>1, <1>2, <2>2, <3>1
  <2>3. ASSUME NEW j \in 1..n, l = m + 1 + j PROVE ~Before(first, t[l], t[k])
    <3>1. t[l] = b[j] /\ Before(first, p, b[j]) /\ b[j] \in Pools
      BY <1>1, <1>2, <1>8, <2>3
    <3>2. CASE k \in 1..m
      <4>1. t[k] = a[k] /\ ~Before(first, p, a[k]) /\ a[k] \in Pools
        BY <1>1, <1>2, <1>8, <3>2
      <4> QED BY <3>1, <4>1, BeforeOrders
    <3>3. CASE k = m + 1
      BY <1>1, <3>1, <3>3, BeforeOrders
    <3>4. ASSUME NEW i \in 1..n, k = m + 1 + i PROVE ~Before(first, t[l], t[k])
      <4>1. i < j /\ t[k] = b[i]
        BY <1>1, <1>12, <2>3, <3>4
      <4>2. PICK c, d \in 1..Len(s) : c < d /\ s[c] = b[i] /\ s[d] = b[j]
        BY <1>3, <4>1
      <4> QED BY <1>12, <3>1, <4>1, <4>2 DEF InOrder
    <3> QED BY <1>5, <3>2, <3>3, <3>4
  <2> QED BY <1>5, <2>1, <2>2, <2>3
<1>13. InOrder(first, s) => InOrder(first, t)
  BY <1>12 DEF InOrder
<1> QED BY <1>9, <1>10, <1>11, <1>13 DEF t, Holds

(* The recursion of the sort has a solution.                               *)
LEMMA SortingExists ==
  ASSUME NEW first, NEW ps \in Seq(Pools)
  PROVE  \E sorted \in [0..Len(ps) -> Seq(Pools)] : IsSorting(sorted, first, ps)
<1> DEFINE step == [q \in (1..Len(ps)) \X Seq(Pools) |->
                      Insert(first, q[2], ps[q[1]])]
<1>1. Len(ps) \in Nat /\ <<>> \in Seq(Pools)
  BY EmptySeq
<1>2. ASSUME NEW n \in 1..Len(ps), NEW s \in Seq(Pools)
      PROVE  /\ Insert(first, s, ps[n]) \in Seq(Pools)
             /\ step[<<n, s>>] = Insert(first, s, ps[n])
  <2>1. ps[n] \in Pools
    BY ElementOfSeq
  <2> QED BY <2>1, InsertedAt
<1>3. step \in [(1..Len(ps)) \X Seq(Pools) -> Seq(Pools)]
  BY <1>2
<1>4. Steps(step, Len(ps), Seq(Pools))
  BY <1>3 DEF Steps
<1> HIDE DEF step
<1>5. PICK sorted : Solves(sorted, <<>>, step, Len(ps), Seq(Pools))
  BY <1>1, <1>4, RecursionExists
<1>6. /\ sorted \in [0..Len(ps) -> Seq(Pools)]
      /\ \A n \in 0..Len(ps) : sorted[n] = IF n = 0 THEN <<>>
                                           ELSE step[<<n, sorted[n - 1]>>]
  BY <1>5 DEF Solves
<1>7. ASSUME NEW n \in 0..Len(ps)
      PROVE  sorted[n] = IF n = 0 THEN <<>> ELSE Insert(first, sorted[n - 1], ps[n])
  <2>1. CASE n = 0
    BY <1>6, <2>1
  <2>2. CASE n # 0
    <3>1. n \in 1..Len(ps) /\ n - 1 \in 0..Len(ps)
      BY <1>1, <2>2
    <3>2. sorted[n - 1] \in Seq(Pools)
      BY <1>6, <3>1
    <3>3. sorted[n] = step[<<n, sorted[n - 1]>>]
      BY <1>6, <2>2
    <3>4. step[<<n, sorted[n - 1]>>] = Insert(first, sorted[n - 1], ps[n])
      BY <1>2, <3>1, <3>2
    <3> QED BY <2>2, <3>3, <3>4
  <2> QED BY <2>1, <2>2
<1>8. sorted = [n \in 0..Len(ps) |-> sorted[n]]
  BY <1>6
<1>9. IsSorting(sorted, first, ps)
  BY <1>7, <1>8 DEF IsSorting
<1> QED BY <1>6, <1>9

(* The collector's order holds every pool it was given and no other, the   *)
(* preferred ones first; without a memory it is the listed order.          *)
LEMMA SortedIs ==
  ASSUME NEW first, NEW ps \in Seq(Pools)
  PROVE  /\ Sorted(first, ps) \in Seq(Pools)
         /\ Len(Sorted(first, ps)) = Len(ps)
         /\ first = {} => Sorted(first, ps) = ps
         /\ first # {} => InOrder(first, Sorted(first, ps))
         /\ \A p : Holds(Sorted(first, ps), p) <=> Holds(ps, p)
<1> DEFINE t == Sorted(first, ps)
<1>1. CASE first = {}
  <2>1. t = ps
    BY <1>1 DEF Sorted
  <2> QED BY <1>1, <2>1
<1>2. CASE first # {}
  <2>1. t = (CHOOSE g : IsSorting(g, first, ps))[Len(ps)]
    BY <1>2 DEF Sorted, IsSorting
  <2>2. \E g : IsSorting(g, first, ps)
    BY SortingExists
  <2>3. PICK g : IsSorting(g, first, ps) /\ t = g[Len(ps)]
    BY <2>1, <2>2
  <2>4. \A n \in 0..Len(ps) : g[n] = IF n = 0 THEN <<>>
                                     ELSE Insert(first, g[n - 1], ps[n])
    BY <2>3 DEF IsSorting
  <2> DEFINE Good(n, s) ==
               /\ s \in Seq(Pools) /\ Len(s) = n
               /\ InOrder(first, s)
               /\ \A p : Holds(s, p) <=> \E i \in 1..n : ps[i] = p
             C == { n \in 0..Len(ps) : Good(n, g[n]) }
  <2>5. Len(ps) \in Nat
    OBVIOUS
  <2>6. 0 \in C
    <3>1. g[0] = <<>> /\ 0 \in 0..Len(ps)
      BY <2>4, <2>5
    <3>2. Good(0, <<>>)
      BY EmptySeq DEF InOrder, Holds
    <3> HIDE DEF Good
    <3> QED BY <3>1, <3>2
  <2>7. ASSUME NEW n \in 1..Len(ps), n - 1 \in C PROVE n \in C
    <3> DEFINE s == g[n - 1]
               p == ps[n]
               r == Insert(first, s, p)
    <3>1. g[n] = r /\ p \in Pools /\ n \in 0..Len(ps)
      BY <2>4, ElementOfSeq
    <3>2. Good(n - 1, s)
      BY <2>7
    <3> HIDE DEF s, p, r
    <3>3. /\ r \in Seq(Pools) /\ Len(r) = n
          /\ s \in Seq(Pools) /\ Len(s) = n - 1 /\ InOrder(first, s)
      <4>1. s \in Seq(Pools) /\ Len(s) = n - 1 /\ InOrder(first, s)
        BY <3>2
      <4>2. r \in Seq(Pools) /\ Len(r) = Len(s) + 1
        BY <3>1, <4>1, InsertedAt DEF r
      <4> QED BY <4>1, <4>2
    <3>4. /\ InOrder(first, r)
          /\ Holds(r, p)
          /\ \A i \in 1..Len(s) : Holds(r, s[i])
          /\ \A q : Holds(r, q) => q = p \/ Holds(s, q)
      BY <3>1, <3>3, InsertKeeps DEF r
    <3>5. ASSUME NEW i \in 1..n PROVE Holds(r, ps[i])
      <4>1. CASE i = n
        BY <3>4, <4>1 DEF p
      <4>2. CASE i # n
        <5>1. i \in 1..(n - 1)
          BY <4>2
        <5>2. Holds(s, ps[i])
          BY <3>2, <5>1
        <5> QED BY <3>4, <5>2 DEF Holds
      <4> QED BY <4>1, <4>2
    <3>6. ASSUME NEW q, Holds(r, q) PROVE \E i \in 1..n : ps[i] = q
      <4>1. CASE q = p
        BY <4>1 DEF p
      <4>2. CASE Holds(s, q)
        <5>1. PICK i \in 1..(n - 1) : ps[i] = q
          BY <3>2, <4>2
        <5> QED BY <5>1
      <4> QED BY <3>4, <3>6, <4>1, <4>2
    <3>7. Good(n, r)
      <4>1. \A q : Holds(r, q) <=> \E i \in 1..n : ps[i] = q
        BY <3>5, <3>6
      <4> QED BY <3>3, <3>4, <4>1
    <3> HIDE DEF Good
    <3> QED BY <3>1, <3>7
  <2> HIDE DEF Good
  <2>8. 0..Len(ps) \subseteq C
    <3> HIDE DEF C
    <3> QED BY <2>5, <2>6, <2>7, UpTo
  <2>9. Good(Len(ps), t)
    BY <2>3, <2>5, <2>8
  <2> QED BY <1>2, <2>9 DEF Good, Holds
<1> QED BY <1>1, <1>2

-----------------------------------------------------------------------------
(* The analyzer's choice.                                                  *)

(* Feeds are the sequences of pools up to the bound.                       *)
LEMMA FeedsAre ==
  ASSUME NEW s
  PROVE  s \in Feeds <=> s \in Seq(Pools) /\ Len(s) <= MaxListed
<1> USE DecisionAssumption
<1>1. ASSUME s \in Feeds PROVE s \in Seq(Pools) /\ Len(s) <= MaxListed
  <2>1. PICK n \in 0..MaxListed : s \in [1..n -> Pools]
    BY <1>1 DEF Feeds
  <2>2. n \in Nat
    OBVIOUS
  <2>3. s \in Seq(Pools) /\ Len(s) = n
    BY <2>1, <2>2, SMTT(60)
  <2> QED BY <2>3
<1>2. ASSUME s \in Seq(Pools), Len(s) <= MaxListed PROVE s \in Feeds
  <2>1. Len(s) \in 0..MaxListed /\ s \in [1..Len(s) -> Pools]
    BY <1>2, LenProperties
  <2> QED BY <2>1 DEF Feeds
<1> QED BY <1>1, <1>2

(* What is collected of a feed is no longer than the feed.                 *)
LEMMA CollectedIs ==
  ASSUME NEW feed \in Feeds, NEW past
  PROVE  /\ Collected(feed) \in Seq(Pools)
         /\ Sorted(past, Collected(feed)) \in Feeds
<1>1. feed \in Seq(Pools) /\ Len(feed) <= MaxListed
  BY FeedsAre
<1>2. Collected(feed) \in Seq(Pools) /\ Len(Collected(feed)) <= Len(feed)
  BY <1>1, FilteredIn DEF Collected
<1>3. /\ Sorted(past, Collected(feed)) \in Seq(Pools)
      /\ Len(Sorted(past, Collected(feed))) = Len(Collected(feed))
  BY <1>2, SortedIs
<1>4. Len(Sorted(past, Collected(feed))) <= MaxListed
  BY <1>1, <1>2, <1>3, DecisionAssumption
<1> QED BY <1>2, <1>3, <1>4, FeedsAre

Best(ps, i) == /\ \A j \in 1..Len(ps) : ps[j].apy <= ps[i].apy
               /\ \A j \in 1..(i - 1) : ps[j].apy < ps[i].apy

(* A list that is not empty has a first pool with the highest APY.         *)
LEMMA FirstBestIs ==
  ASSUME NEW ps \in Seq(Pools), ps # <<>>
  PROVE  \E i \in 1..Len(ps) : Best(ps, i) /\ FirstBest(ps) = ps[i]
<1>1. /\ Len(ps) \in Nat \ {0}
      /\ \A i \in 1..Len(ps) : ps[i].apy \in Nat
  BY EmptySeq, ElementOfSeq, DecisionAssumption
<1> DEFINE Tops(i, n) == \A j \in 1..n : ps[j].apy <= ps[i].apy
           C == { n \in 0..Len(ps) : n = 0 \/ \E i \in 1..n : Tops(i, n) }
<1>2. 0 \in C
  BY <1>1
<1>3. ASSUME NEW n \in 1..Len(ps), n - 1 \in C PROVE n \in C
  <2>1. n \in 0..Len(ps) /\ n \in 1..n
    BY <1>1
  <2>2. CASE n = 1
    <3>1. Tops(n, n)
      BY <1>1, <2>2
    <3> QED BY <2>1, <3>1
  <2>3. CASE n # 1
    <3>1. PICK i \in 1..(n - 1) : Tops(i, n - 1)
      BY <1>3, <2>3
    <3>2. i \in 1..n /\ i \in 1..Len(ps)
      OBVIOUS
    <3>3. CASE ps[n].apy <= ps[i].apy
      <4>1. Tops(i, n)
        <5> SUFFICES ASSUME NEW j \in 1..n PROVE ps[j].apy <= ps[i].apy
          OBVIOUS
        <5>1. j = n \/ j \in 1..(n - 1)
          OBVIOUS
        <5> QED BY <3>1, <3>3, <5>1
      <4> HIDE DEF Tops
      <4> QED BY <2>1, <3>2, <4>1
    <3>4. CASE ~ (ps[n].apy <= ps[i].apy)
      <4>1. Tops(n, n)
        <5> SUFFICES ASSUME NEW j \in 1..n PROVE ps[j].apy <= ps[n].apy
          OBVIOUS
        <5>1. j = n \/ j \in 1..(n - 1)
          OBVIOUS
        <5>2. ps[j].apy \in Nat /\ ps[n].apy \in Nat /\ ps[i].apy \in Nat
          BY <1>1, <3>2
        <5>3. CASE j = n
          BY <5>2, <5>3
        <5>4. CASE j \in 1..(n - 1)
          <6>1. ps[j].apy <= ps[i].apy
            BY <3>1, <5>4
          <6> QED BY <3>4, <5>2, <6>1
        <5> QED BY <5>1, <5>3, <5>4
      <4> HIDE DEF Tops
      <4> QED BY <2>1, <4>1
    <3> QED BY <3>3, <3>4
  <2> QED BY <2>2, <2>3
<1>4. Len(ps) \in C
  <2> HIDE DEF C
  <2>1. 0..Len(ps) \subseteq C
    BY <1>1, <1>2, <1>3, UpTo
  <2> QED BY <1>1, <2>1
<1> DEFINE I == { i \in 1..Len(ps) : Tops(i, Len(ps)) }
<1>5. I # {} /\ I \subseteq Nat
  BY <1>1, <1>4
<1>6. PICK i \in I : \A j \in I : i <= j
  <2> HIDE DEF I
  <2> QED BY <1>5, LeastNumber
<1>7. Best(ps, i)
  <2>1. Tops(i, Len(ps)) /\ i \in 1..Len(ps)
    BY <1>6
  <2>2. ASSUME NEW j \in 1..(i - 1) PROVE ps[j].apy < ps[i].apy
    <3>1. j \in 1..Len(ps) /\ j \notin I
      BY <1>1, <1>6, <2>1
    <3>2. PICK k \in 1..Len(ps) : ~ (ps[k].apy <= ps[j].apy)
      BY <3>1
    <3>3. ps[k].apy <= ps[i].apy
      BY <2>1
    <3>4. ps[j].apy \in Nat /\ ps[k].apy \in Nat /\ ps[i].apy \in Nat
      BY <1>1, <2>1, <3>1
    <3> QED BY <3>2, <3>3, <3>4
  <2> QED BY <2>1, <2>2 DEF Best
<1>8. FirstBest(ps) = ps[CHOOSE k \in 1..Len(ps) : Best(ps, k)]
  BY DEF FirstBest, Best
<1> QED BY <1>6, <1>7, <1>8

(* The pool that is taken for the model's answer has its symbol and does   *)
(* not stand behind it.                                                    *)
LEMMA MatchedIs ==
  ASSUME NEW ps \in Seq(Pools), NEW p \in Pools, Holds(ps, p)
  PROVE  /\ Matched(p, ps) \in Pools /\ Matched(p, ps).pool = p.pool
         /\ \E i \in 1..Len(ps) : \E k \in 1..i :
              ps[k] = Matched(p, ps) /\ ps[i] = p
<1> DEFINE K == { q \in Pools : q.pool = p.pool }
           f == Filtered(ps, K)
<1>1. p \in K /\ Matched(p, ps) = f[1]
  BY DEF Matched
<1>2. PICK c \in 1..Len(ps) : ps[c] = p
  BY DEF Holds
<1> HIDE DEF K
<1>3. f \in Seq(Pools) /\ \A j \in 1..Len(f) : f[j] \in K
  BY FilteredIn
<1>4. /\ \A l \in 1..Len(ps) : ps[l] \in K => \E j \in 1..Len(f) : f[j] = ps[l]
      /\ \A j, m \in 1..Len(f) : j < m => \E l, k \in 1..Len(ps) :
                                   l < k /\ ps[l] = f[j] /\ ps[k] = f[m]
  <2>1. \A l \in 1..Len(ps) : ps[l] \in K => \E j \in 1..Len(f) : f[j] = ps[l]
    BY FilteredOrder
  <2>2. \A j, m \in 1..Len(f) : j < m => \E l, k \in 1..Len(ps) :
                                  l < k /\ ps[l] = f[j] /\ ps[k] = f[m]
    BY FilteredOrder
  <2> QED BY <2>1, <2>2
<1> HIDE DEF f
<1>5. PICK j \in 1..Len(f) : f[j] = p
  BY <1>1, <1>2, <1>4
<1>6. 1 \in 1..Len(f) /\ f[1] \in K /\ f[1] \in Pools /\ Len(f) \in Nat
  BY <1>3, <1>5
<1>7. \E i \in 1..Len(ps) : \E k \in 1..i : ps[k] = f[1] /\ ps[i] = p
  <2>1. CASE j = 1
    BY <1>2, <1>5, <2>1
  <2>2. CASE j # 1
    <3>1. 1 < j
      BY <1>6, <2>2
    <3>2. PICK l, k \in 1..Len(ps) : l < k /\ ps[l] = f[1] /\ ps[k] = f[j]
      BY <1>4, <1>6, <3>1
    <3>3. l \in 1..k
      BY <3>2
    <3> QED BY <1>5, <3>2, <3>3
  <2> QED BY <2>1, <2>2
<1> QED BY <1>1, <1>6, <1>7 DEF K

-----------------------------------------------------------------------------
(* The size.                                                               *)

(* The sum of the APYs is a natural number.                                *)
LEMMA SumAPYType ==
  ASSUME NEW ps \in Seq(Pools)
  PROVE  SumAPY(ps) \in Nat
<1> DEFINE f == [i \in DOMAIN ps |-> ps[i].apy]
<1>1. IsFiniteSet(1..Len(ps)) /\ DOMAIN ps = 1..Len(ps)
  BY FS_Interval, LenProperties
<1>2. ASSUME NEW i \in 1..Len(ps) PROVE ps[i].apy \in Nat
  BY ElementOfSeq, DecisionAssumption
<1>3. f \in [1..Len(ps) -> Nat]
  BY <1>1, <1>2
<1>4. SumAPY(ps) = SumOf(f)
  BY SumIsFold DEF SumAPY
<1> HIDE DEF f
<1>5. SumOf(f) \in Nat
  BY <1>1, <1>3, SumOfType, AdditiveSets
<1> QED BY <1>4, <1>5

(* The product of positive numbers.                                        *)
LEMMA PositiveProduct ==
  ASSUME NEW a \in Nat \ {0}, NEW b \in Nat \ {0}
  PROVE  a * b \in Nat \ {0}
OBVIOUS

(* The clipped chance of winning, and the fraction Kelly's formula makes   *)
(* of it: g and s stand for the pool's APY and the average, by the length. *)
LEMMA FractionIs ==
  ASSUME NEW g \in Nat \ {0}, NEW s \in Nat \ {0}
  PROVE  LET f == KellyFraction(Clip(<<g, g + s>>), <<g, s>>)
         IN  /\ g <= s => f = <<0, 1>>
             /\ s < g /\ g < 99 * s => f = <<g * g - s * s, (g + s) * g>>
             /\ 99 * s <= g => f = <<99 * g - s, 100 * g>>
<1> DEFINE c == Clip(<<g, g + s>>)
<1>1. CASE g * 100 <= g + s
  <2>1. c = <<1, 100>>
    BY <1>1 DEF Clip, AtMost
  <2>2. 1 * g - (100 - 1) * s <= 0 /\ g <= s
    BY <1>1
  <2>3. KellyFraction(<<1, 100>>, <<g, s>>) = <<0, 1>>
    BY <2>2 DEF KellyFraction
  <2> QED BY <2>1, <2>2, <2>3
<1>2. CASE ~ (g * 100 <= g + s) /\ 99 * (g + s) <= g * 100
  <2>1. c = <<99, 100>>
    BY <1>2 DEF Clip, AtMost
  <2>2. 99 * s <= g /\ 99 * g - (100 - 99) * s = 99 * g - s /\ ~ (99 * g - s <= 0)
        /\ ~ (g <= s)
    BY <1>2
  <2>3. KellyFraction(<<99, 100>>, <<g, s>>) = <<99 * g - s, 100 * g>>
    BY <2>2 DEF KellyFraction
  <2> QED BY <2>1, <2>2, <2>3
<1>3. CASE ~ (g * 100 <= g + s) /\ ~ (99 * (g + s) <= g * 100)
  <2>1. c = <<g, g + s>>
    BY <1>3 DEF Clip, AtMost
  <2>2. ~ (99 * s <= g) /\ (g + s) - g = s
    BY <1>3
  <2>3. KellyFraction(<<g, g + s>>, <<g, s>>) =
          IF g * g - s * s <= 0 THEN <<0, 1>>
          ELSE <<g * g - s * s, (g + s) * g>>
    BY <2>2 DEF KellyFraction
  <2>4. g <= s => g * g - s * s <= 0
    <3>1. ASSUME g <= s PROVE g * g <= s * s
      <4>1. g * g <= g * s /\ g * s <= s * s
        BY <3>1
      <4> QED BY <4>1
    <3> QED BY <3>1
  <2>5. s < g => ~ (g * g - s * s <= 0)
    <3>1. ASSUME s < g PROVE s * s < g * g
      <4>1. s * s <= g * s /\ g * s < g * g
        BY <3>1
      <4> QED BY <4>1
    <3> QED BY <3>1
  <2> QED BY <2>1, <2>2, <2>3, <2>4, <2>5
<1> QED BY <1>1, <1>2, <1>3

IsKellys(a, gain, sum) ==
  IF sum = 0 THEN a[1] * 50 = Capital * a[2]
  ELSE IF gain <= sum THEN a[1] = 0
  ELSE IF gain <= 99 * sum THEN a[1] * gain = Capital * (gain - sum) * a[2]
  ELSE a[1] * 100 * gain = Capital * (99 * gain - sum) * a[2]

(* The equations of a size.                                                *)
LEMMA Equations ==
  ASSUME NEW c \in Nat, NEW g \in Nat \ {0}, NEW s \in Nat \ {0}
  PROVE  /\ (c * (g * g - s * s)) * g = c * (g - s) * ((g + s) * g)
         /\ g = 99 * s => (c * (99 * g - s)) * g = c * (g - s) * (100 * g)
         /\ (c * (99 * g - s)) * 100 * g = c * (99 * g - s) * (100 * g)
<1>1. g * g - s * s = (g - s) * (g + s)
  OBVIOUS
<1>2. (c * ((g - s) * (g + s))) * g = c * (g - s) * ((g + s) * g)
  <2> DEFINE d == g - s
             e == g + s
  <2>1. d \in Int /\ e \in Int
    OBVIOUS
  <2> HIDE DEF d, e
  <2>2. (c * (d * e)) * g = c * d * (e * g)
    BY <2>1
  <2> QED BY <2>2 DEF d, e
<1>3. ASSUME g = 99 * s PROVE (c * (99 * g - s)) * g = c * (g - s) * (100 * g)
  <2>1. 99 * g - s = 100 * (g - s)
    BY <1>3
  <2> DEFINE d == g - s
  <2>2. d \in Int
    OBVIOUS
  <2> HIDE DEF d
  <2>3. (c * (100 * d)) * g = c * d * (100 * g)
    BY <2>2
  <2> QED BY <2>1, <2>3 DEF d
<1>4. (c * (99 * g - s)) * 100 * g = c * (99 * g - s) * (100 * g)
  <2> DEFINE d == 99 * g - s
  <2>1. d \in Int
    OBVIOUS
  <2> HIDE DEF d
  <2>2. (c * d) * 100 * g = c * d * (100 * g)
    BY <2>1
  <2> QED BY <2>2 DEF d
<1> QED BY <1>1, <1>2, <1>3, <1>4

(* A size is a fraction, and Kelly's.                                      *)
LEMMA SizeIs ==
  ASSUME NEW ps \in Seq(Pools), ps # <<>>, NEW apy \in Nat,
         ~ (apy = 0 /\ SumAPY(ps) > 0)
  PROVE  /\ KellyAmount(apy, ps) \in Nat \X (Nat \ {0})
         /\ IsKellys(KellyAmount(apy, ps), Len(ps) * apy, SumAPY(ps))
<1> DEFINE g == Len(ps) * apy
           s == SumAPY(ps)
           f == KellyFraction(Clip(<<g, g + s>>), <<g, s>>)
           a == KellyAmount(apy, ps)
<1>1. s \in Nat /\ Len(ps) \in Nat \ {0} /\ Capital \in Nat \ {0}
  BY SumAPYType, EmptySeq, DecisionAssumption
<1>2. a = IF s = 0 THEN <<Capital, 50>> ELSE <<Capital * f[1], f[2]>>
  BY DEF KellyAmount
<1>3. CASE s = 0
  <2>1. a = <<Capital, 50>>
    BY <1>2, <1>3
  <2> HIDE DEF a, s, g
  <2>2. a \in Nat \X (Nat \ {0}) /\ IsKellys(a, g, s)
    BY <1>1, <1>3, <2>1 DEF IsKellys
  <2> QED BY <2>2 DEF a, s, g
<1>4. CASE s # 0
  <2>1. g \in Nat \ {0} /\ s \in Nat \ {0}
    <3>1. apy \in Nat \ {0}
      BY <1>1, <1>4
    <3> QED BY <1>1, <1>4, <3>1, PositiveProduct
  <2>2. a = <<Capital * f[1], f[2]>>
    BY <1>2, <1>4
  <2> HIDE DEF a, s, g
  <2>3. /\ g <= s => f = <<0, 1>>
        /\ s < g /\ g < 99 * s => f = <<g * g - s * s, (g + s) * g>>
        /\ 99 * s <= g => f = <<99 * g - s, 100 * g>>
    BY <2>1, FractionIs
  <2> HIDE DEF f
  <2>4. CASE g <= s
    <3>1. a = <<Capital * 0, 1>>
      BY <2>2, <2>3, <2>4
    <3>2. a \in Nat \X (Nat \ {0}) /\ IsKellys(a, g, s)
      BY <1>1, <2>1, <2>4, <3>1 DEF IsKellys
    <3> QED BY <3>2 DEF a, s, g
  <2>5. CASE s < g /\ g < 99 * s
    <3>1. a = <<Capital * (g * g - s * s), (g + s) * g>>
      BY <2>2, <2>3, <2>5
    <3>2. Capital * (g * g - s * s) \in Nat /\ (g + s) * g \in Nat \ {0}
      <4>1. g * g - s * s \in Nat
        <5>1. s * s <= g * s /\ g * s <= g * g
          BY <2>1, <2>5
        <5>2. s * s \in Nat /\ g * g \in Nat /\ g * s \in Nat
          BY <2>1
        <5> QED BY <5>1, <5>2
      <4>2. g + s \in Nat \ {0}
        BY <2>1
      <4>3. (g + s) * g \in Nat \ {0}
        BY <2>1, <4>2, PositiveProduct
      <4>4. ASSUME NEW c \in Nat, NEW d \in Nat PROVE c * d \in Nat
        OBVIOUS
      <4> QED BY <1>1, <4>1, <4>3, <4>4
    <3>3. a[1] * g = Capital * (g - s) * a[2]
      BY <1>1, <2>1, <3>1, Equations
    <3>4. ~ (g <= s) /\ g <= 99 * s /\ s # 0
      BY <2>1, <2>5
    <3>5. a \in Nat \X (Nat \ {0})
      BY <3>1, <3>2
    <3>6. IsKellys(a, g, s)
      BY <3>3, <3>4 DEF IsKellys
    <3> QED BY <3>5, <3>6 DEF a, s, g
  <2>6. CASE 99 * s <= g
    <3>1. a = <<Capital * (99 * g - s), 100 * g>>
      BY <2>2, <2>3, <2>6
    <3>2. Capital * (99 * g - s) \in Nat /\ 100 * g \in Nat \ {0}
      <4>1. 99 * g - s \in Nat
        BY <2>1, <2>6
      <4>2. ASSUME NEW c \in Nat, NEW d \in Nat PROVE c * d \in Nat
        OBVIOUS
      <4> QED BY <1>1, <2>1, <4>1, <4>2
    <3>3. /\ g = 99 * s => a[1] * g = Capital * (g - s) * a[2]
          /\ a[1] * 100 * g = Capital * (99 * g - s) * a[2]
      <4>1. a[1] = Capital * (99 * g - s) /\ a[2] = 100 * g
        BY <3>1
      <4> QED BY <1>1, <2>1, <4>1, Equations
    <3>4. ~ (g <= s) /\ s # 0 /\ (g <= 99 * s => g = 99 * s)
      BY <2>1, <2>6
    <3>5. a \in Nat \X (Nat \ {0})
      BY <3>1, <3>2
    <3>6. IsKellys(a, g, s)
      BY <3>3, <3>4 DEF IsKellys
    <3> QED BY <3>5, <3>6 DEF a, s, g
  <2> QED BY <2>1, <2>4, <2>5, <2>6
<1> QED BY <1>3, <1>4

-----------------------------------------------------------------------------
(* The cycle.                                                              *)

Chosen ==
  analysis # None =>
    /\ choice # None => Holds(yields, choice)
    /\ IF heard
       THEN /\ analysis.pool = choice.pool
            /\ \E i \in 1..Len(yields) : \E k \in 1..i :
                 yields[k] = analysis /\ yields[i] = choice
       ELSE \E k \in 1..Len(yields) : Best(yields, k) /\ yields[k] = analysis

AsSized ==
  /\ ~DividesByZero
  /\ signal = [protocol |-> analysis.protocol, pool |-> analysis.pool,
               amount |-> KellyAmount(analysis.apy, yields)]

DecisionInv ==
  /\ TypeOK
  /\ yields = Sorted(recalled, Collected(listed))
  /\ stage \in {"collector", "analyzer"} =>
       analysis = None /\ choice = None /\ heard = FALSE
  /\ stage \in {"signaler", "store"} => analysis # None /\ yields # <<>>
  /\ IF stage = "store" THEN AsSized ELSE signal = None
  /\ Chosen

(* A cycle begins, and ends, with nothing collected.                       *)
LEMMA NothingCollected ==
  /\ Sorted({}, Collected(<<>>)) = <<>>
  /\ <<>> \in Feeds
<1>1. Collected(<<>>) = <<>>
  BY FilteredEmpty DEF Collected
<1>2. Sorted({}, <<>>) = <<>>
  BY DEF Sorted
<1>3. <<>> \in Feeds
  <2>1. <<>> \in Seq(Pools) /\ Len(<<>>) <= MaxListed
    BY EmptySeq, DecisionAssumption
  <2> QED BY <2>1, FeedsAre
<1> QED BY <1>1, <1>2, <1>3

(* The first cycle begins so.                                              *)
LEMMA DecisionStarts == Init => DecisionInv
BY NothingCollected DEF Init, DecisionInv, TypeOK, Chosen

(* ... and every other one.                                                *)
LEMMA CycleBegins ==
  ASSUME DecisionInv, EndCycle, memory' \subseteq Protocols \cup {None}
  PROVE  DecisionInv'
<1>1. TypeOK'
  BY NothingCollected DEF EndCycle, TypeOK
<1>2. yields' = Sorted(recalled', Collected(listed'))
  BY NothingCollected DEF EndCycle
<1> QED BY <1>1, <1>2 DEF EndCycle, DecisionInv, Chosen

(* A step from node to node keeps what is known of the cycle.              *)
LEMMA CollectKeeps ==
  ASSUME DecisionInv, NEW feed \in Feeds, NEW past \in SUBSET memory,
         Collect(feed, past)
  PROVE  DecisionInv'
<1>1. yields' = Sorted(recalled', Collected(listed')) /\ yields' \in Feeds
  BY CollectedIs DEF Collect
<1>2. TypeOK'
  BY <1>1 DEF DecisionInv, TypeOK, Collect, answer
<1>3. /\ analysis' = None /\ choice' = None /\ heard' = FALSE
      /\ stage' = "analyzer" /\ signal' = None
  BY DEF DecisionInv, Collect, answer
<1> QED BY <1>1, <1>2, <1>3 DEF DecisionInv, Chosen

(* The analyzer takes the pool its model named, or falls back to the best  *)
(* of the list, and the invariant stays.                                   *)
LEMMA AnalyzeKeeps ==
  ASSUME DecisionInv, AnalyzeFallback \/ \E p \in Pools : Analyze(p)
  PROVE  DecisionInv'
<1>1. /\ yields \in Seq(Pools) /\ yields # <<>>
      /\ stage = "analyzer" /\ stage' = "signaler"
      /\ UNCHANGED <<listed, recalled, yields, signal, memory>>
  BY FeedsAre, EmptySeq DEF DecisionInv, TypeOK, Analyze, AnalyzeFallback, input
<1>2. None \notin Pools
  BY DecisionAssumption
<1>3. /\ choice' \in Pools \cup {None} /\ heard' \in BOOLEAN
      /\ choice' # None => Holds(yields, choice')
  <2>1. CASE AnalyzeFallback
    BY <1>1, <2>1 DEF AnalyzeFallback, answer, DecisionInv
  <2>2. ASSUME NEW p \in Pools, Analyze(p)
        PROVE  choice' = p /\ heard' \in BOOLEAN /\ Holds(yields, p)
    BY <2>2 DEF Analyze, Holds
  <2> QED BY <2>1, <2>2
<1>4. CASE heard'
  <2>1. ~heard /\ choice = None
    BY <1>1 DEF DecisionInv
  <2>2. PICK p \in Pools : Analyze(p)
    BY <1>4, <2>1 DEF AnalyzeFallback, answer
  <2>3. choice' = p /\ analysis' = Matched(p, yields) /\ Holds(yields, p)
    BY <1>4, <2>2 DEF Analyze, Holds
  <2>4. /\ analysis' \in Pools /\ analysis'.pool = p.pool
        /\ \E i \in 1..Len(yields) : \E k \in 1..i :
             yields[k] = analysis' /\ yields[i] = p
    BY <1>1, <2>3, MatchedIs
  <2>5. TypeOK'
    BY <1>1, <1>3, <2>4 DEF DecisionInv, TypeOK
  <2>6. Chosen'
    BY <1>1, <1>3, <1>4, <2>3, <2>4 DEF Chosen
  <2> QED BY <1>1, <1>2, <2>4, <2>5, <2>6 DEF DecisionInv
<1>5. CASE ~heard'
  <2>1. analysis' = FirstBest(yields)
    BY <1>5 DEF Analyze, AnalyzeFallback
  <2>2. PICK k \in 1..Len(yields) : Best(yields, k) /\ FirstBest(yields) = yields[k]
    BY <1>1, FirstBestIs
  <2>3. analysis' \in Pools
    BY <1>1, <2>1, <2>2, ElementOfSeq
  <2>4. TypeOK'
    BY <1>1, <1>3, <2>3 DEF DecisionInv, TypeOK
  <2>5. Chosen'
    BY <1>1, <1>3, <1>5, <2>1, <2>2 DEF Chosen, Best
  <2> QED BY <1>1, <1>2, <2>3, <2>4, <2>5 DEF DecisionInv
<1> QED BY <1>4, <1>5

(* The signaler sizes the best of the list, or says hold, and the          *)
(* invariant stays.                                                        *)
LEMMA SignalKeeps ==
  ASSUME DecisionInv, GenerateSignal
  PROVE  DecisionInv'
<1>1. /\ UNCHANGED <<listed, recalled, yields, analysis, choice, heard, memory>>
      /\ stage = "signaler" /\ stage' = "store" /\ ~DividesByZero
      /\ signal' = [protocol |-> analysis.protocol, pool |-> analysis.pool,
                    amount |-> KellyAmount(analysis.apy, yields)]
  BY DEF GenerateSignal, input, answer
<1>2. /\ analysis \in Pools /\ analysis # None
      /\ yields \in Seq(Pools) /\ yields # <<>>
  BY <1>1, FeedsAre DEF DecisionInv, TypeOK
<1>3. KellyAmount(analysis.apy, yields) \in Nat \X (Nat \ {0})
  <2>1. analysis.apy \in Nat
    BY <1>2, DecisionAssumption
  <2> QED BY <1>1, <1>2, <2>1, SizeIs DEF DividesByZero
<1>4. analysis.protocol \in Protocols /\ analysis.pool \in { p.pool : p \in Pools }
  BY <1>2 DEF Protocols
<1>5. TypeOK'
  BY <1>1, <1>3, <1>4 DEF DecisionInv, TypeOK
<1>6. AsSized'
  BY <1>1 DEF AsSized, DividesByZero
<1>7. Chosen'
  BY <1>1 DEF Chosen, DecisionInv, Best, Holds
<1> QED BY <1>1, <1>2, <1>5, <1>6, <1>7 DEF DecisionInv

(* Every step keeps what is known of the cycle.                            *)
LEMMA DecisionSteps == DecisionInv /\ [Next]_vars => DecisionInv'
<1> SUFFICES ASSUME DecisionInv, [Next]_vars PROVE DecisionInv'
  OBVIOUS
<1>1. ASSUME NEW feed \in Feeds, NEW past \in SUBSET memory, Collect(feed, past)
      PROVE  DecisionInv'
  BY <1>1, CollectKeeps
<1>2. CASE AnalyzeFallback \/ \E p \in Pools : Analyze(p)
  BY <1>2, AnalyzeKeeps
<1>3. CASE NothingToAnalyze \/ SignalRaises
  <2>1. EndCycle /\ memory' \subseteq Protocols \cup {None}
    BY <1>3 DEF NothingToAnalyze, SignalRaises, DecisionInv, TypeOK
  <2> QED BY <2>1, CycleBegins
<1>4. CASE GenerateSignal
  BY <1>4, SignalKeeps
<1>5. ASSUME NEW blocked \in BOOLEAN, Store(blocked) PROVE DecisionInv'
  <2>1. stage = "store" /\ EndCycle
    BY <1>5 DEF Store
  <2>2. signal.protocol \in Protocols
    <3>1. analysis \in Pools
      BY <2>1 DEF DecisionInv, TypeOK
    <3> QED BY <2>1, <3>1 DEF DecisionInv, AsSized, Protocols
  <2>3. memory' \subseteq Protocols \cup {None}
    BY <1>5, <2>2 DEF Store, DecisionInv, TypeOK
  <2> QED BY <2>1, <2>3, CycleBegins
<1>6. CASE UNCHANGED vars
  BY <1>6 DEF vars, input, answer, DecisionInv, TypeOK, Chosen, Best, Holds,
              AsSized, DividesByZero
<1> QED BY <1>1, <1>2, <1>3, <1>4, <1>5, <1>6 DEF Next

(* Every state of every cycle is as it should be.                          *)
LEMMA DecisionInvariance == Spec => []DecisionInv
BY DecisionStarts, DecisionSteps, PTL DEF Spec

(* The pipeline's state has its types: above all no size is negative and   *)
(* none divides by 0.                                                      *)
THEOREM PipelineTypes == Spec => []TypeOK
<1>1. DecisionInv => TypeOK
  BY DEF DecisionInv
<1> QED BY <1>1, DecisionInvariance, PTL

(* Unless the model named a symbol, the pool taken is one no admissible    *)
(* listed pool yields more than (analyzer.py:76-93).                       *)
THEOREM FallbackTakesBest == Spec => []FallbackIsBest
<1>1. DecisionInv => FallbackIsBest
  <2> SUFFICES ASSUME DecisionInv, analysis # None, ~heard,
                      NEW i \in 1..Len(listed),
                      listed[i].protocol \in Targeted, listed[i].chain \in TargetChains
               PROVE  listed[i].apy <= analysis.apy
    BY DEF FallbackIsBest
  <2> DEFINE K == { p \in Pools : p.protocol \in Targeted /\ p.chain \in TargetChains }
  <2>1. listed \in Seq(Pools) /\ Collected(listed) \in Seq(Pools)
    BY FeedsAre, CollectedIs DEF DecisionInv, TypeOK
  <2>2. listed[i] \in K
    BY <2>1, ElementOfSeq
  <2>3. Holds(Collected(listed), listed[i])
    <3>1. Collected(listed) = Filtered(listed, K)
      BY DEF Collected
    <3> HIDE DEF K
    <3>2. \A l \in 1..Len(listed) : listed[l] \in K =>
            \E j \in 1..Len(Filtered(listed, K)) : Filtered(listed, K)[j] = listed[l]
      BY <2>1, FilteredOrder
    <3> QED BY <2>2, <3>1, <3>2 DEF Holds
  <2>4. Holds(yields, listed[i])
    BY <2>1, <2>3, SortedIs DEF DecisionInv
  <2>5. PICK k \in 1..Len(yields) : Best(yields, k) /\ yields[k] = analysis
    BY DEF DecisionInv, Chosen
  <2> QED BY <2>4, <2>5 DEF Holds, Best
<1> QED BY <1>1, DecisionInvariance, PTL

(* Among pools of the same APY the fallback prefers one of a protocol with *)
(* a deposit the memory recalls, successful or not (collector.py:17-25).   *)
THEOREM DepositsDecideTies == Spec => []AnyDepositBreaksTies
<1>1. DecisionInv => AnyDepositBreaksTies
  <2> SUFFICES ASSUME DecisionInv, analysis # None, ~heard,
                      NEW i \in 1..Len(yields), yields[i].apy = analysis.apy,
                      yields[i].protocol \in recalled
               PROVE  analysis.protocol \in recalled
    BY DEF AnyDepositBreaksTies
  <2>1. PICK k \in 1..Len(yields) : Best(yields, k) /\ yields[k] = analysis
    BY DEF DecisionInv, Chosen
  <2>2. yields \in Seq(Pools) /\ Collected(listed) \in Seq(Pools)
    BY FeedsAre, CollectedIs DEF DecisionInv, TypeOK
  <2>3. InOrder(recalled, yields)
    <3>1. recalled # {}
      OBVIOUS
    <3> QED BY <2>2, <3>1, SortedIs DEF DecisionInv
  <2>4. ASSUME analysis.protocol \notin recalled PROVE FALSE
    <3>1. Before(recalled, yields[i], yields[k])
      BY <2>1, <2>4 DEF Before
    <3>2. ~ (k < i)
      BY <2>3, <3>1 DEF InOrder
    <3>3. i # k
      BY <2>1, <2>4
    <3>4. i \in 1..(k - 1)
      BY <2>2, <3>2, <3>3
    <3>5. yields[i].apy < yields[k].apy
      BY <2>1, <3>4 DEF Best
    <3>6. yields[k].apy \in Nat
      BY <2>2, ElementOfSeq, DecisionAssumption
    <3> QED BY <2>1, <3>5, <3>6
  <2> QED BY <2>4
<1> QED BY <1>1, DecisionInvariance, PTL

(* The pool that stands in for the model's has the symbol it named, if it  *)
(* named one, and yields less only where the memory prefers its protocol,  *)
(* or for want of a memory was listed first; an answer that names no       *)
(* symbol is never replaced by a pool of less yield (analyzer.py:66-81).   *)
THEOREM StandInIsFair == Spec => []StandInIsNoWorse
<1>1. ASSUME DecisionInv, analysis # None, choice # None, ~heard
      PROVE  ~(analysis.apy < choice.apy)
  <2>1. PICK k \in 1..Len(yields) : Best(yields, k) /\ yields[k] = analysis
    BY <1>1 DEF DecisionInv, Chosen
  <2>2. PICK i \in 1..Len(yields) : yields[i] = choice
    BY <1>1 DEF DecisionInv, Chosen, Holds
  <2>3. choice.apy <= analysis.apy
    BY <2>1, <2>2 DEF Best
  <2>4. analysis.apy \in Nat /\ choice.apy \in Nat
    BY <1>1, DecisionAssumption DEF DecisionInv, TypeOK
  <2> QED BY <2>3, <2>4
<1>2. ASSUME DecisionInv, analysis # None, choice # None, heard
      PROVE  /\ analysis.pool = choice.pool
             /\ analysis.apy < choice.apy =>
                  IF recalled = {}
                  THEN \E j \in 1..Len(listed) : \E i \in 1..j :
                         listed[i] = analysis /\ listed[j] = choice
                  ELSE /\ analysis.protocol \in recalled
                       /\ choice.protocol \notin recalled
  <2> USE <1>2
  <2>1. /\ analysis.pool = choice.pool
        /\ \E i \in 1..Len(yields) : \E k \in 1..i :
             yields[k] = analysis /\ yields[i] = choice
    BY DEF DecisionInv, Chosen
  <2>2. PICK i \in 1..Len(yields) : \E k \in 1..i :
          yields[k] = analysis /\ yields[i] = choice
    BY <2>1
  <2>3. PICK k \in 1..i : yields[k] = analysis /\ yields[i] = choice
    BY <2>2
  <2>4. /\ yields \in Seq(Pools) /\ listed \in Seq(Pools)
        /\ Collected(listed) \in Seq(Pools)
    BY FeedsAre, CollectedIs DEF DecisionInv, TypeOK
  <2>5. analysis \in Pools /\ choice \in Pools
    BY DEF DecisionInv, TypeOK
  <2>6. analysis.apy \in Nat /\ choice.apy \in Nat
    BY <2>5, DecisionAssumption
  <2>7. ASSUME analysis.apy < choice.apy
        PROVE  k < i /\ k \in 1..Len(yields)
    BY <2>3, <2>4, <2>6, <2>7
  <2>8. CASE analysis.apy < choice.apy /\ recalled = {}
    <3>1. yields = Collected(listed)
      BY <2>4, <2>8, SortedIs DEF DecisionInv
    <3>2. PICK l, j \in 1..Len(listed) :
            l < j /\ listed[l] = yields[k] /\ listed[j] = yields[i]
      <4> DEFINE K == { p \in Pools : /\ p.protocol \in Targeted
                                     /\ p.chain \in TargetChains }
      <4>1. yields = Filtered(listed, K)
        BY <3>1 DEF Collected
      <4> HIDE DEF K
      <4>2. \A m, n \in 1..Len(Filtered(listed, K)) : m < n =>
              \E l, j \in 1..Len(listed) : /\ l < j
                                           /\ listed[l] = Filtered(listed, K)[m]
                                           /\ listed[j] = Filtered(listed, K)[n]
        BY <2>4, FilteredOrder
      <4> QED BY <2>7, <2>8, <4>1, <4>2
    <3>3. l \in 1..j
      BY <3>2
    <3> QED BY <2>1, <2>3, <2>8, <3>2, <3>3
  <2>9. CASE analysis.apy < choice.apy /\ recalled # {}
    <3>1. InOrder(recalled, yields)
      BY <2>4, <2>9, SortedIs DEF DecisionInv
    <3>2. ~Before(recalled, choice, analysis)
      BY <2>3, <2>7, <2>9, <3>1 DEF InOrder
    <3> QED BY <2>1, <2>6, <2>9, <3>2 DEF Before
  <2> QED BY <2>1, <2>8, <2>9
<1>3. DecisionInv => heard \in BOOLEAN
  BY DEF DecisionInv, TypeOK
<1>4. DecisionInv => StandInIsNoWorse
  BY <1>1, <1>2, <1>3 DEF StandInIsNoWorse
<1> QED BY <1>4, DecisionInvariance, PTL

(* A deposit's size is Kelly's, for every list, APY and capital, also where *)
(* the odds are clipped.                                                   *)
THEOREM SizeIsKellys == Spec => []SizedByEdge
<1>1. DecisionInv => SizedByEdge
  <2> SUFFICES ASSUME DecisionInv, signal # None
               PROVE  IsKellys(signal.amount, Len(yields) * analysis.apy, SumAPY(yields))
    BY DEF SizedByEdge, IsKellys
  <2>1. stage = "store" /\ AsSized
    BY DEF DecisionInv
  <2>2. /\ analysis \in Pools /\ yields \in Seq(Pools) /\ yields # <<>>
    BY <2>1, FeedsAre DEF DecisionInv, TypeOK
  <2>3. analysis.apy \in Nat
    BY <2>2, DecisionAssumption
  <2>4. signal.amount = KellyAmount(analysis.apy, yields)
    BY <2>1 DEF AsSized
  <2> QED BY <2>1, <2>2, <2>3, <2>4, SizeIs DEF AsSized, DividesByZero
<1> QED BY <1>1, DecisionInvariance, PTL
=============================================================================
