---------------------------- MODULE ServicesProofs ----------------------------
(***************************************************************************)
(* Theorems about what a process keeps for all its requests, and about the *)
(* tasks it executes: the bucket of RateLimiter, for any limit, window and *)
(* clock, the shared objects of Singletons, for any number of threads,     *)
(* models and restarts, the gate of EvaluationGate, for any sources,       *)
(* dataset, ranking and discount, and the chunks of Chunking, for any      *)
(* document, chunk size and overlap.                                       *)
(***************************************************************************)
EXTENDS RateLimiter, Singletons, EvaluationGate, Chunking, FiniteSetTheorems,
    SequenceTheorems, TLAPS
-----------------------------------------------------------------------------
(* Sums over finite sets *)

SumOver(f, S) == MapThenSumSet(LAMBDA x : f[x], S)

Pick(s) == CHOOSE x \in s : TRUE

\* The recursion behind the sum of f over the subsets of S.
SumsUp(f, S, g) ==
    g = [s \in SUBSET S |-> IF s = {} THEN 0 ELSE f[Pick(s)] + g[s \ {Pick(s)}]]

\* Among the subsets of a finite set with some property one has no smaller one with it.
LEMMA SmallestSubset ==
    ASSUME NEW S, IsFiniteSet(S), NEW Bad \in SUBSET SUBSET S, Bad # {}
    PROVE  \E T \in Bad : \A U \in Bad : U \subseteq T => U = T
  <1>1. IsWellFoundedOn(StrictSubsetOrdering(S), FiniteSubsetsOf(S))
    BY FS_StrictSubsetOrderingWellFounded
  <1>2. FiniteSubsetsOf(S) = SUBSET S
    BY FS_FiniteSubsetsOfFinite
  <1>3. PICK T \in Bad : \A U \in Bad : ~ (<<U, T>> \in StrictSubsetOrdering(S))
    BY <1>1, <1>2, WFMin
  <1> QED BY <1>3 DEF StrictSubsetOrdering

\* What is picked from a set is in it.
LEMMA PickIsElement ==
    ASSUME NEW S, S # {}
    PROVE  Pick(S) \in S
  BY DEF Pick

\* What the recursion makes of a set depends on the set alone.
LEMMA SumsAgree ==
    ASSUME NEW f, NEW S, IsFiniteSet(S), NEW A, NEW B, NEW g, NEW h,
           S \subseteq A, S \subseteq B, SumsUp(f, A, g), SumsUp(f, B, h)
    PROVE  g[S] = h[S]
  <1> DEFINE Bad == {T \in SUBSET S : g[T] # h[T]}
  <1> SUFFICES ASSUME Bad # {} PROVE FALSE
    OBVIOUS
  <1>1. PICK T \in Bad : \A U \in Bad : U \subseteq T => U = T
    <2> HIDE DEF Bad
    <2>1. Bad \in SUBSET SUBSET S
      BY DEF Bad
    <2> QED BY <2>1, SmallestSubset
  <1>2. T # {}
    BY DEF SumsUp
  <1>3. Pick(T) \in T
    BY <1>2, PickIsElement
  <1>4. g[T \ {Pick(T)}] = h[T \ {Pick(T)}]
    BY <1>1, <1>3
  <1>5. g[T] = f[Pick(T)] + g[T \ {Pick(T)}] /\ h[T] = f[Pick(T)] + h[T \ {Pick(T)}]
    <2>1. T \in SUBSET A /\ T \in SUBSET B
      OBVIOUS
    <2> QED BY <1>2, <2>1 DEF SumsUp
  <1> QED BY <1>4, <1>5

\* The value of the recursion, wherever it has a solution.
SumOf(f, S) == (CHOOSE g : SumsUp(f, S, g))[S]

\* It has one for every finite set.
LEMMA SumExists ==
    ASSUME NEW f, NEW S, IsFiniteSet(S)
    PROVE  \E g : SumsUp(f, S, g)
  <1> DEFINE Bad == {T \in SUBSET S : ~ \E g : SumsUp(f, T, g)}
  <1> SUFFICES ASSUME Bad # {} PROVE FALSE
    OBVIOUS
  <1>1. PICK T \in Bad : \A U \in Bad : U \subseteq T => U = T
    <2> HIDE DEF Bad
    <2>1. Bad \in SUBSET SUBSET S
      BY DEF Bad
    <2> QED BY <2>1, SmallestSubset
  <1>2. IsFiniteSet(T)
    BY FS_Subset
  <1> DEFINE G == [s \in SUBSET T |->
                     IF s = {} THEN 0 ELSE f[Pick(s)] + SumOf(f, s \ {Pick(s)})]
  <1>3. ASSUME NEW u \in SUBSET T, u # T
        PROVE  SumsUp(f, u, CHOOSE g : SumsUp(f, u, g))
    <2>1. \E g : SumsUp(f, u, g)
      BY <1>1, <1>3
    <2> QED BY <2>1
  <1>4. ASSUME NEW u \in SUBSET T, u # T
        PROVE  G[u] = SumOf(f, u)
    <2> DEFINE g == CHOOSE g : SumsUp(f, u, g)
    <2>1. SumsUp(f, u, g)
      BY <1>3, <1>4
    <2>2. CASE u = {}
      BY <2>1, <2>2 DEF SumsUp, SumOf
    <2>3. CASE u # {}
      <3> DEFINE w == u \ {Pick(u)}
                 h == CHOOSE h : SumsUp(f, w, h)
      <3>1. Pick(u) \in u
        BY <2>3, PickIsElement
      <3>2. w \subseteq u /\ w \in SUBSET T /\ w # T /\ IsFiniteSet(w)
        BY <1>2, <1>4, <3>1, FS_Subset
      <3>3. SumsUp(f, w, h)
        BY <1>3, <3>2
      <3>4. g[w] = h[w]
        <4> HIDE DEF g, h, w
        <4> QED BY <2>1, <3>2, <3>3, SumsAgree
      <3>5. g[u] = f[Pick(u)] + g[w]
        <4> HIDE DEF g
        <4> QED BY <2>1, <2>3 DEF SumsUp
      <3>6. G[u] = f[Pick(u)] + h[w]
        BY <2>3 DEF SumOf
      <3> QED BY <3>4, <3>5, <3>6 DEF SumOf
    <2> QED BY <2>2, <2>3
  <1>5. ASSUME NEW s \in SUBSET T, s # {}
        PROVE  SumOf(f, s \ {Pick(s)}) = G[s \ {Pick(s)}]
    <2>1. Pick(s) \in s
      BY <1>5, PickIsElement
    <2>2. s \ {Pick(s)} \in SUBSET T /\ s \ {Pick(s)} # T
      BY <1>5, <2>1
    <2> QED BY <1>4, <2>2
  <1>6. SumsUp(f, T, G)
    <2>1. G = [s \in SUBSET T |-> IF s = {} THEN 0 ELSE f[Pick(s)] + G[s \ {Pick(s)}]]
      BY <1>5, Zenon
    <2> QED BY <2>1 DEF SumsUp
  <1> QED BY <1>6

\* The community module's sum is this recursion.
LEMMA SumIsSumOf ==
    ASSUME NEW f, NEW S
    PROVE  SumOver(f, S) = SumOf(f, S)
  BY Zenon DEF SumOver, MapThenSumSet, MapThenFoldSet, SumOf, SumsUp, Pick

\* What a sum is: nothing, or an element and the sum of the rest.
LEMMA SumSteps ==
    ASSUME NEW f, NEW S, IsFiniteSet(S)
    PROVE  /\ S = {} => SumOver(f, S) = 0
           /\ S # {} => SumOver(f, S) = f[Pick(S)] + SumOver(f, S \ {Pick(S)})
  <1> DEFINE g == CHOOSE g : SumsUp(f, S, g)
             w == S \ {Pick(S)}
             h == CHOOSE h : SumsUp(f, w, h)
  <1>1. SumsUp(f, S, g)
    BY SumExists
  <1>2. IsFiniteSet(w) /\ w \subseteq S
    BY FS_Subset
  <1>3. SumsUp(f, w, h)
    <2> HIDE DEF w
    <2> QED BY <1>2, SumExists
  <1>4. g[w] = h[w]
    <2> HIDE DEF g, h, w
    <2> QED BY <1>1, <1>2, <1>3, SumsAgree
  <1>5. S = {} => g[S] = 0
    <2> HIDE DEF g
    <2> QED BY <1>1 DEF SumsUp
  <1>6. S # {} => g[S] = f[Pick(S)] + g[w]
    <2> HIDE DEF g
    <2> QED BY <1>1 DEF SumsUp
  <1>7. SumOver(f, S) = g[S] /\ SumOver(f, w) = h[w]
    BY SumIsSumOf DEF SumOf
  <1> QED BY <1>4, <1>5, <1>6, <1>7

\* A sum of numbers is a number.
LEMMA SumIsNatural ==
    ASSUME NEW f, NEW S, IsFiniteSet(S), \A x \in S : f[x] \in Nat
    PROVE  SumOver(f, S) \in Nat
  <1> DEFINE Bad == {T \in SUBSET S : SumOver(f, T) \notin Nat}
  <1> SUFFICES ASSUME Bad # {} PROVE FALSE
    BY Zenon
  <1>1. PICK T \in Bad : \A U \in Bad : U \subseteq T => U = T
    <2> HIDE DEF Bad
    <2>1. Bad \in SUBSET SUBSET S
      BY DEF Bad
    <2> QED BY <2>1, SmallestSubset
  <1>2. IsFiniteSet(T) /\ T \subseteq S /\ SumOver(f, T) \notin Nat
    BY FS_Subset
  <1>3. T # {} /\ SumOver(f, T) = f[Pick(T)] + SumOver(f, T \ {Pick(T)})
    <2>1. SumOver(f, {}) = 0
      BY FS_EmptySet, SumSteps
    <2>2. T # {}
      BY <1>2, <2>1
    <2> QED BY <1>2, <2>2, SumSteps
  <1>4. Pick(T) \in T
    BY <1>3, PickIsElement
  <1>5. SumOver(f, T \ {Pick(T)}) \in Nat
    BY <1>1, <1>2, <1>4
  <1> QED BY <1>2, <1>3, <1>4, <1>5

\* Any element may be taken first.
LEMMA SumTakesAny ==
    ASSUME NEW f, NEW S, IsFiniteSet(S), \A x \in S : f[x] \in Nat, NEW x \in S
    PROVE  SumOver(f, S) = f[x] + SumOver(f, S \ {x})
  <1> DEFINE Bad == {T \in SUBSET S : \E y \in T : SumOver(f, T) # f[y] + SumOver(f, T \ {y})}
  <1> SUFFICES ASSUME Bad # {} PROVE FALSE
    BY Zenon
  <1>1. PICK T \in Bad : \A U \in Bad : U \subseteq T => U = T
    <2> HIDE DEF Bad
    <2>1. Bad \in SUBSET SUBSET S
      BY DEF Bad
    <2> QED BY <2>1, SmallestSubset
  <1>2. PICK y \in T : SumOver(f, T) # f[y] + SumOver(f, T \ {y})
    OBVIOUS
  <1> DEFINE p == Pick(T)
             rest == (T \ {p}) \ {y}
  <1>3. IsFiniteSet(T) /\ T \subseteq S /\ T # {} /\ p \in T
    BY FS_Subset, PickIsElement
  <1>4. SumOver(f, T) = f[p] + SumOver(f, T \ {p})
    BY <1>3, SumSteps
  <1>5. y # p
    BY <1>2, <1>4
  <1>6. SumOver(f, T \ {p}) = f[y] + SumOver(f, rest)
    <2>1. T \ {p} \notin Bad /\ y \in T \ {p} /\ T \ {p} \in SUBSET S
      BY <1>1, <1>3, <1>5
    <2> QED BY <2>1
  <1>7. SumOver(f, T \ {y}) = f[p] + SumOver(f, rest)
    <2>1. T \ {y} \notin Bad /\ p \in T \ {y} /\ T \ {y} \in SUBSET S
      BY <1>1, <1>3, <1>5
    <2>2. (T \ {y}) \ {p} = rest
      OBVIOUS
    <2> HIDE DEF p, rest
    <2>3. SumOver(f, T \ {y}) = f[p] + SumOver(f, (T \ {y}) \ {p})
      BY <2>1
    <2> QED BY <2>2, <2>3
  <1>8. SumOver(f, rest) \in Nat /\ f[y] \in Nat /\ f[p] \in Nat
    <2>1. rest \in SUBSET T
      OBVIOUS
    <2>2. IsFiniteSet(rest) /\ \A z \in rest : f[z] \in Nat
      BY <1>3, <2>1, FS_Subset
    <2> QED BY <1>3, <2>2, SumIsNatural
  <1> HIDE DEF p, rest
  <1> QED BY <1>2, <1>4, <1>6, <1>7, <1>8

\* A sum depends on the values at the elements alone.
LEMMA SumOfEquals ==
    ASSUME NEW f, NEW h, NEW S, IsFiniteSet(S), \A x \in S : f[x] = h[x]
    PROVE  SumOver(f, S) = SumOver(h, S)
  <1> DEFINE Bad == {T \in SUBSET S : SumOver(f, T) # SumOver(h, T)}
  <1> SUFFICES ASSUME Bad # {} PROVE FALSE
    BY Zenon
  <1>1. PICK T \in Bad : \A U \in Bad : U \subseteq T => U = T
    <2> HIDE DEF Bad
    <2>1. Bad \in SUBSET SUBSET S
      BY DEF Bad
    <2> QED BY <2>1, SmallestSubset
  <1>2. IsFiniteSet(T) /\ T \subseteq S /\ SumOver(f, T) # SumOver(h, T)
    BY FS_Subset
  <1>3. T # {} /\ SumOver(f, T) = f[Pick(T)] + SumOver(f, T \ {Pick(T)})
        /\ SumOver(h, T) = h[Pick(T)] + SumOver(h, T \ {Pick(T)})
    BY <1>2, SumSteps
  <1>4. Pick(T) \in T
    BY <1>3, PickIsElement
  <1>5. SumOver(f, T \ {Pick(T)}) = SumOver(h, T \ {Pick(T)})
    BY <1>1, <1>2, <1>4
  <1> QED BY <1>2, <1>3, <1>4, <1>5

\* The sum of two parts.
LEMMA SumOfParts ==
    ASSUME NEW f, NEW S, IsFiniteSet(S), \A x \in S : f[x] \in Nat, NEW A \in SUBSET S
    PROVE  SumOver(f, S) = SumOver(f, A) + SumOver(f, S \ A)
  <1> DEFINE Bad == {T \in SUBSET S : SumOver(f, T) # SumOver(f, T \intersect A) + SumOver(f, T \ A)}
  <1> SUFFICES ASSUME Bad # {} PROVE FALSE
    <2>1. S \notin Bad => SumOver(f, S) = SumOver(f, S \intersect A) + SumOver(f, S \ A)
      BY Zenon
    <2>2. S \intersect A = A
      OBVIOUS
    <2> HIDE DEF Bad
    <2> QED BY <2>1, <2>2
  <1>1. PICK T \in Bad : \A U \in Bad : U \subseteq T => U = T
    <2> HIDE DEF Bad
    <2>1. Bad \in SUBSET SUBSET S
      BY DEF Bad
    <2> QED BY <2>1, SmallestSubset
  <1>2. /\ IsFiniteSet(T) /\ T \subseteq S
        /\ SumOver(f, T) # SumOver(f, T \intersect A) + SumOver(f, T \ A)
    BY FS_Subset
  <1>3. T # {}
    <2>1. SumOver(f, {}) = 0
      BY FS_EmptySet, SumSteps
    <2>2. T = {} => T \intersect A = {} /\ T \ A = {}
      OBVIOUS
    <2> QED BY <1>2, <2>1, <2>2
  <1> DEFINE p == Pick(T)
             U == T \ {p}
  <1>4. p \in T
    BY <1>3, PickIsElement
  <1>5. SumOver(f, T) = f[p] + SumOver(f, U)
    BY <1>2, <1>3, SumSteps
  <1>6. SumOver(f, U) = SumOver(f, U \intersect A) + SumOver(f, U \ A)
    BY <1>1, <1>2, <1>4
  <1>7. /\ IsFiniteSet(T \intersect A) /\ IsFiniteSet(T \ A)
        /\ IsFiniteSet(U \intersect A) /\ IsFiniteSet(U \ A)
    <2>1. {T \intersect A, T \ A, U \intersect A, U \ A} \subseteq SUBSET T
      OBVIOUS
    <2> QED BY <1>2, <2>1, FS_Subset
  <1>8. /\ f[p] \in Nat /\ SumOver(f, U \intersect A) \in Nat /\ SumOver(f, U \ A) \in Nat
    BY <1>2, <1>4, <1>7, SumIsNatural
  <1>9. CASE p \in A
    <2>1. T \ A = U \ A /\ (T \intersect A) \ {p} = U \intersect A /\ p \in T \intersect A
      BY <1>4, <1>9
    <2>2. \A x \in T \intersect A : f[x] \in Nat
      BY <1>2
    <2> HIDE DEF p, U
    <2>3. SumOver(f, T \intersect A) = f[p] + SumOver(f, (T \intersect A) \ {p})
      BY <1>7, <2>1, <2>2, SumTakesAny
    <2>4. SumOver(f, T \ A) = SumOver(f, U \ A) /\ SumOver(f, (T \intersect A) \ {p}) = SumOver(f, U \intersect A)
      BY <2>1, Zenon
    <2> QED BY <1>2, <1>5, <1>6, <1>8, <2>3, <2>4
  <1>10. CASE p \notin A
    <2>1. T \intersect A = U \intersect A /\ (T \ A) \ {p} = U \ A /\ p \in T \ A
      BY <1>4, <1>10
    <2>2. \A x \in T \ A : f[x] \in Nat
      BY <1>2
    <2> HIDE DEF p, U
    <2>3. SumOver(f, T \ A) = f[p] + SumOver(f, (T \ A) \ {p})
      BY <1>7, <2>1, <2>2, SumTakesAny
    <2>4. SumOver(f, T \intersect A) = SumOver(f, U \intersect A) /\ SumOver(f, (T \ A) \ {p}) = SumOver(f, U \ A)
      BY <2>1, Zenon
    <2> QED BY <1>2, <1>5, <1>6, <1>8, <2>3, <2>4
  <1> QED BY <1>9, <1>10

\* Nothing adds up to nothing.
LEMMA SumOfZeros ==
    ASSUME NEW f, NEW S, IsFiniteSet(S), \A x \in S : f[x] = 0
    PROVE  SumOver(f, S) = 0
  <1> DEFINE Bad == {T \in SUBSET S : SumOver(f, T) # 0}
  <1> SUFFICES ASSUME Bad # {} PROVE FALSE
    BY Zenon
  <1>1. PICK T \in Bad : \A U \in Bad : U \subseteq T => U = T
    <2> HIDE DEF Bad
    <2>1. Bad \in SUBSET SUBSET S
      BY DEF Bad
    <2> QED BY <2>1, SmallestSubset
  <1>2. IsFiniteSet(T) /\ T \subseteq S /\ SumOver(f, T) # 0
    BY FS_Subset
  <1>3. T # {} /\ SumOver(f, T) = f[Pick(T)] + SumOver(f, T \ {Pick(T)})
    BY <1>2, SumSteps
  <1>4. Pick(T) \in T
    BY <1>3, PickIsElement
  <1>5. SumOver(f, T \ {Pick(T)}) = 0
    BY <1>1, <1>2, <1>4
  <1> QED BY <1>2, <1>3, <1>4, <1>5

\* U has what is in S, one later, and h has the values of f there.
IsShifted(f, h, S, U) ==
    /\ S \subseteq Nat /\ U \subseteq Nat \ {0}
    /\ \A x \in Nat : x \in S <=> x + 1 \in U
    /\ \A x \in S : f[x] \in Nat /\ h[x + 1] = f[x]

\* Ages that all grow by one keep their sum.
LEMMA SumOfShifted ==
    ASSUME NEW f, NEW h, NEW S, NEW U1, IsFiniteSet(S), IsShifted(f, h, S, U1)
    PROVE  SumOver(h, U1) = SumOver(f, S)
  <1>0. /\ S \subseteq Nat /\ U1 \subseteq Nat \ {0}
        /\ \A x \in Nat : x \in S <=> x + 1 \in U1
        /\ \A x \in S : f[x] \in Nat /\ h[x + 1] = f[x]
    BY DEF IsShifted
  <1> DEFINE Next1(T) == {x + 1 : x \in T}
             Holds(T) == IsFiniteSet(Next1(T)) /\ SumOver(h, Next1(T)) = SumOver(f, T)
             Bad == {T \in SUBSET S : ~ Holds(T)}
  <1> SUFFICES ASSUME Bad # {} PROVE FALSE
    <2>1. S \notin Bad => IsFiniteSet(Next1(S)) /\ SumOver(h, Next1(S)) = SumOver(f, S)
      BY Zenon
    <2>2. U1 = Next1(S)
      <3>1. \A y \in U1 : y - 1 \in Nat /\ (y - 1) + 1 = y
        BY <1>0
      <3> QED BY <1>0, <3>1
    <2> QED BY <2>1, <2>2, Zenon
  <1>1. PICK T \in Bad : \A U \in Bad : U \subseteq T => U = T
    <2> HIDE DEF Holds, Bad
    <2>1. Bad \in SUBSET SUBSET S
      BY DEF Bad
    <2>2. IsFiniteSet(S) /\ Bad # {}
      OBVIOUS
    <2> QED BY ONLY <2>1, <2>2, SmallestSubset
  <1>2. /\ IsFiniteSet(T) /\ T \subseteq S
        /\ ~ (IsFiniteSet(Next1(T)) /\ SumOver(h, Next1(T)) = SumOver(f, T))
    BY FS_Subset
  <1>3. T # {}
    <2>1. Next1({}) = {}
      OBVIOUS
    <2>2. IsFiniteSet({}) /\ SumOver(h, {}) = 0 /\ SumOver(f, {}) = 0
      BY FS_EmptySet, SumSteps
    <2> HIDE DEF Next1
    <2> QED BY <1>2, <2>1, <2>2
  <1> DEFINE p == Pick(T)
             U == T \ {p}
  <1>4. p \in T /\ p \in Nat
    BY <1>0, <1>2, <1>3, PickIsElement
  <1>5. IsFiniteSet(Next1(U)) /\ SumOver(h, Next1(U)) = SumOver(f, U)
    <2>1. U \notin Bad /\ U \in SUBSET S
      BY <1>1, <1>2, <1>4
    <2> HIDE DEF Next1, U
    <2> QED BY <2>1
  <1>6. Next1(T) = Next1(U) \union {p + 1} /\ Next1(T) \ {p + 1} = Next1(U)
    BY <1>0, <1>2, <1>4
  <1>7. IsFiniteSet(Next1(T))
    <2> HIDE DEF Next1, p, U
    <2> QED BY <1>5, <1>6, FS_AddElement
  <1>8. \A y \in Next1(T) : h[y] \in Nat
    BY <1>0, <1>2
  <1>9. SumOver(h, Next1(T)) = h[p + 1] + SumOver(h, Next1(U))
    <2>1. p + 1 \in Next1(T)
      BY <1>4
    <2> HIDE DEF Next1, p, U
    <2>2. SumOver(h, Next1(T)) = h[p + 1] + SumOver(h, Next1(T) \ {p + 1})
      BY <1>7, <1>8, <2>1, SumTakesAny
    <2> QED BY <1>6, <2>2
  <1>10. SumOver(f, T) = f[p] + SumOver(f, U) /\ h[p + 1] = f[p]
    BY <1>0, <1>2, <1>3, <1>4, SumSteps
  <1> HIDE DEF Next1, p, U
  <1> QED BY <1>2, <1>5, <1>7, <1>9, <1>10
-----------------------------------------------------------------------------
(* RateLimiter: what a refused client is told *)

\* A window is a number of ticks.
LEMMA WindowIsPositive ==
    ASSUME LimiterAssumption
    PROVE  Window \in Nat \ {0} /\ Window = WindowSeconds * TicksPerSecond
  BY DEF LimiterAssumption, Window

\* Factors keep their order under a product.
LEMMA ProductIsMonotone ==
    ASSUME NEW a \in Nat, NEW b \in Nat, NEW d \in Nat \ {0}, a >= b + 1
    PROVE  a * d >= b * d + d
  <1>1. a = b + 1 + (a - b - 1) /\ a - b - 1 \in Nat
    OBVIOUS
  <1>2. a * d = b * d + d + (a - b - 1) * d
    BY <1>1
  <1>3. (a - b - 1) * d >= 0
    BY <1>1
  <1> QED BY <1>2, <1>3

\* What integer division leaves over is less than the divisor.
LEMMA Division ==
    ASSUME NEW a \in Nat, NEW d \in Nat \ {0}
    PROVE  /\ a \div d \in Nat
           /\ (a \div d) * d <= a
           /\ a < (a \div d) * d + d
  OBVIOUS

\* Seconds that are rounded up or down by less than one are honest.
LEMMA RoundingIsHonest ==
    ASSUME LimiterAssumption, NEW l \in 0..Window, NEW extra \in 0..(TicksPerSecond - 1)
    PROVE  LET s == (l + extra) \div TicksPerSecond IN
           /\ s \in Nat /\ s <= WindowSeconds
           /\ s * TicksPerSecond > l - TicksPerSecond
  <1> DEFINE s == (l + extra) \div TicksPerSecond
  <1>0. /\ TicksPerSecond \in Nat \ {0} /\ WindowSeconds \in Nat \ {0} /\ l \in Nat /\ extra \in Nat
        /\ Window \in Nat /\ Window = WindowSeconds * TicksPerSecond /\ l <= Window
        /\ extra < TicksPerSecond
    BY WindowIsPositive DEF LimiterAssumption
  <1>1. s \in Nat /\ s * TicksPerSecond <= l + extra /\ l + extra < s * TicksPerSecond + TicksPerSecond
    BY <1>0, Division
  <1> HIDE DEF s
  <1>2. s * TicksPerSecond \in Nat
    BY <1>0, <1>1
  <1>3. s <= WindowSeconds
    <2> SUFFICES ASSUME s >= WindowSeconds + 1 PROVE FALSE
      BY <1>0, <1>1
    <2>1. s * TicksPerSecond >= WindowSeconds * TicksPerSecond + TicksPerSecond
      BY <1>0, <1>1, ProductIsMonotone
    <2> QED BY <1>0, <1>1, <1>2, <2>1
  <1> QED BY <1>0, <1>1, <1>2, <1>3 DEF s

\* The answer is never less than a second, nor more than a window.
HonestAnswer(after, l) ==
    /\ after \in Nat /\ after <= WindowSeconds
    /\ l # Forever => after * TicksPerSecond > l - TicksPerSecond

\* Both stores answer so, with any time left.
LEMMA AnswersAreHonest ==
    ASSUME LimiterAssumption, NEW l \in {Forever} \union 0..Window
    PROVE  /\ LET ttl == (l + TicksPerSecond \div 2) \div TicksPerSecond IN
              HonestAnswer(AtLeastOne(IF l # Forever /\ ttl > 0 THEN ttl ELSE WindowSeconds), l)
           /\ l # Forever => HonestAnswer(AtLeastOne(l \div TicksPerSecond), l)
  <1>0. TicksPerSecond \in Nat \ {0} /\ WindowSeconds \in Nat \ {0} /\ Window \in Nat
        /\ Window = WindowSeconds * TicksPerSecond /\ Forever = -1
    BY WindowIsPositive DEF LimiterAssumption, Forever
  <1>1. TicksPerSecond \div 2 \in 0..(TicksPerSecond - 1)
    BY <1>0
  <1>2. CASE l = Forever
    BY <1>0, <1>2 DEF HonestAnswer, AtLeastOne
  <1>3. CASE l # Forever
    <2> DEFINE ttl == (l + TicksPerSecond \div 2) \div TicksPerSecond
               floor == (l + 0) \div TicksPerSecond
    <2>0. l \in 0..Window /\ l + 0 = l
      BY <1>0, <1>3
    <2>1. ttl \in Nat /\ ttl <= WindowSeconds /\ ttl * TicksPerSecond > l - TicksPerSecond
      BY <1>1, <2>0, RoundingIsHonest
    <2>2. floor \in Nat /\ floor <= WindowSeconds /\ floor * TicksPerSecond > l - TicksPerSecond
      BY <1>0, <2>0, RoundingIsHonest
    <2>3. floor = l \div TicksPerSecond
      BY <2>0
    <2> HIDE DEF ttl, floor
    <2>4. WindowSeconds * TicksPerSecond > l - TicksPerSecond
      BY <1>0, <2>0
    <2>5. HonestAnswer(AtLeastOne(IF ttl > 0 THEN ttl ELSE WindowSeconds), l)
      BY <1>0, <2>1, <2>4 DEF HonestAnswer, AtLeastOne
    <2>6. HonestAnswer(AtLeastOne(floor), l)
      <3>1. floor < 1 => l - TicksPerSecond < TicksPerSecond
        <4>1. floor < 1 => floor * TicksPerSecond = 0
          BY <1>0, <2>2
        <4> QED BY <1>0, <2>0, <2>2, <4>1
      <3>2. 1 * TicksPerSecond = TicksPerSecond
        BY <1>0
      <3> QED BY <1>0, <2>0, <2>2, <3>1, <3>2 DEF HonestAnswer, AtLeastOne
    <2> QED BY <1>3, <2>3, <2>5, <2>6 DEF ttl
  <1> QED BY <1>2, <1>3
-----------------------------------------------------------------------------
(* RateLimiter: the bucket *)

Ages == 0..(Window - 1)
\* What was admitted less than e ticks ago, and before.
Newer(e) == {age \in Ages : age < e}
Older(e) == {age \in Ages : age >= e}

\* Which states a store can be in: Redis forgets the counter with its TTL, and
\* one hit at most is about to set it; the memory keeps an exhausted window until
\* the next hit.
BucketIsConsistent ==
    /\ backend = "redis" => left # 0 /\ (count = 0 => left = Forever)
    /\ backend = "memory" =>
          /\ left = Forever => count = 0
          /\ left = 0 => recent[0] = 0
          /\ \A h \in Hits : hits[h].pc = "idle"
    /\ \A h \in Hits : hits[h].pc = "expiring" =>
          left = Forever /\ count # 0 /\ \A g \in Hits : hits[g].pc = "expiring" => g = h

\* The last e ticks belong to the present window, of which count tells; what is
\* older was admitted in one window, and is forgotten before the present one ends.
SplitAt(e) ==
    /\ SumOver(recent, Newer(e)) <= count /\ SumOver(recent, Newer(e)) <= Limit
    /\ SumOver(recent, Older(e)) <= Limit
    /\ left # Forever => e + left >= Window + 1

WindowsAreSplit == FailClosed => \E e \in Nat \ {0} : SplitAt(e)

LimiterInv ==
    /\ LimiterTypeOK
    /\ HonestAnswer(told.after, told.left)
    /\ BucketIsConsistent
    /\ WindowsAreSplit

\* Sums of what was admitted are numbers, and grow with the set.
LEMMA PartsAreFinite ==
    ASSUME LimiterAssumption, recent \in [Ages -> Nat], NEW S \in SUBSET Ages
    PROVE  /\ IsFiniteSet(S) /\ SumOver(recent, S) \in Nat
           /\ \A T \in SUBSET S : SumOver(recent, T) \in Nat /\ SumOver(recent, T) <= SumOver(recent, S)
  <1>1. IsFiniteSet(Ages)
    BY WindowIsPositive, FS_Interval DEF Ages
  <1>2. IsFiniteSet(S) /\ \A x \in S : recent[x] \in Nat
    BY <1>1, FS_Subset
  <1>3. ASSUME NEW T \in SUBSET S
        PROVE  SumOver(recent, T) \in Nat /\ SumOver(recent, T) <= SumOver(recent, S)
    <2>1. IsFiniteSet(T) /\ IsFiniteSet(S \ T)
      BY <1>2, FS_Subset, FS_Difference
    <2>2. SumOver(recent, S) = SumOver(recent, T) + SumOver(recent, S \ T)
      BY <1>2, SumOfParts
    <2>3. SumOver(recent, T) \in Nat /\ SumOver(recent, S \ T) \in Nat
      BY <1>2, <2>1, SumIsNatural
    <2> QED BY <2>2, <2>3
  <1>4. SumOver(recent, S) \in Nat
    BY <1>2, SumIsNatural
  <1> QED BY <1>2, <1>3, <1>4

\* Zero is a new age.
LEMMA ZeroIsNew ==
    ASSUME LimiterAssumption, NEW e \in Nat \ {0}
    PROVE  0 \in Newer(e) /\ 0 \notin Older(e) /\ 0 \in Ages
  BY WindowIsPositive DEF Newer, Older, Ages

\* One more request is admitted now.
LEMMA AdmissionAddsOne ==
    ASSUME LimiterAssumption, recent \in [Ages -> Nat], NEW S \in SUBSET Ages,
           recent' = [recent EXCEPT ![0] = @ + 1]
    PROVE  SumOver(recent', S) = IF 0 \in S THEN SumOver(recent, S) + 1 ELSE SumOver(recent, S)
  <1>0. recent' \in [Ages -> Nat] /\ \A a \in Ages \ {0} : recent'[a] = recent[a]
    <2>1. recent[0] + 1 \in Nat
      BY WindowIsPositive DEF Ages
    <2> QED BY <2>1
  <1>1. IsFiniteSet(S) /\ SumOver(recent, S) \in Nat
    BY PartsAreFinite
  <1>2. CASE 0 \notin S
    <2>1. \A x \in S : recent[x] = recent'[x]
      BY <1>0, <1>2
    <2> QED BY <1>1, <1>2, <2>1, SumOfEquals
  <1>3. CASE 0 \in S
    <2>1. recent'[0] = recent[0] + 1 /\ recent[0] \in Nat
      BY <1>3
    <2>2. IsFiniteSet(S \ {0}) /\ \A x \in S \ {0} : recent[x] = recent'[x]
      BY <1>0, <1>1, FS_Subset
    <2>3. SumOver(recent, S \ {0}) = SumOver(recent', S \ {0})
      BY <2>2, SumOfEquals
    <2>4. SumOver(recent, S \ {0}) \in Nat
      BY PartsAreFinite
    <2>5. SumOver(recent, S) = recent[0] + SumOver(recent, S \ {0})
      BY <1>1, <1>3, SumTakesAny
    <2>6. SumOver(recent', S) = recent'[0] + SumOver(recent', S \ {0})
      <3>1. \A x \in S : recent'[x] \in Nat
        BY <1>0
      <3> QED BY <1>1, <1>3, <3>1, SumTakesAny
    <2> QED BY <1>3, <2>1, <2>3, <2>4, <2>5, <2>6
  <1> QED BY <1>2, <1>3

\* A tick: what was admitted is one tick older, or too old to be counted.
LEMMA TickAgesRequests ==
    ASSUME LimiterAssumption, recent \in [Ages -> Nat],
           recent' = [age \in Ages |-> IF age = 0 THEN 0 ELSE recent[age - 1]],
           NEW S \in SUBSET Ages, NEW T \in SUBSET Ages,
           \A a \in T \ {0} : a - 1 \in S
    PROVE  SumOver(recent', T) <= SumOver(recent, S)
  <1> DEFINE R == {a - 1 : a \in T \ {0}}
  <1>0. Window \in Nat \ {0}
    BY WindowIsPositive
  <1>1. R \in SUBSET S /\ R \subseteq Nat /\ T \ {0} = {x + 1 : x \in R}
    <2>1. \A a \in T \ {0} : a - 1 \in Nat /\ (a - 1) + 1 = a
      BY <1>0 DEF Ages
    <2>2. R \in SUBSET S /\ R \subseteq Nat
      BY <2>1
    <2>3. T \ {0} = {x + 1 : x \in R}
      BY <2>1
    <2> QED BY <2>2, <2>3
  <1>2. IsFiniteSet(R) /\ SumOver(recent, R) \in Nat /\ SumOver(recent, R) <= SumOver(recent, S)
    <2> HIDE DEF R
    <2>1. R \in SUBSET Ages
      BY <1>1
    <2> QED BY <1>1, <2>1, PartsAreFinite
  <1>3. \A x \in R : recent[x] \in Nat /\ recent'[x + 1] = recent[x]
    BY <1>0, <1>1 DEF Ages
  <1>4. SumOver(recent', T \ {0}) = SumOver(recent, R)
    <2> HIDE DEF R
    <2>1. R \subseteq Nat /\ IsFiniteSet(R)
      BY <1>1, <1>2
    <2>2. T \ {0} \subseteq Nat \ {0}
      BY <1>0 DEF Ages
    <2>3. \A x \in Nat : x \in R <=> x + 1 \in T \ {0}
      <3>1. \A x, y \in Nat : x + 1 = y + 1 => x = y
        OBVIOUS
      <3> QED BY <1>1, <2>1, <3>1
    <2>4. (\A x \in R : recent[x] \in Nat) /\ (\A x \in R : recent'[x + 1] = recent[x])
      BY <1>3
    <2>5. IsShifted(recent, recent', R, T \ {0})
      BY <2>1, <2>2, <2>3, <2>4 DEF IsShifted
    <2> QED BY <2>1, <2>5, SumOfShifted
  <1>5. recent' \in [Ages -> Nat]
    BY <1>0 DEF Ages
  <1>6. IsFiniteSet(T)
    BY PartsAreFinite
  <1>7. SumOver(recent', T) = SumOver(recent', T \ {0})
    <2>1. CASE 0 \in T
      <3>1. recent'[0] = 0
        BY <2>1
      <3>2. \A x \in T : recent'[x] \in Nat
        BY <1>5
      <3>3. SumOver(recent', T) = recent'[0] + SumOver(recent', T \ {0})
        BY <1>6, <2>1, <3>2, SumTakesAny
      <3> QED BY <1>2, <1>4, <3>1, <3>3
    <2>2. CASE 0 \notin T
      <3>1. T \ {0} = T
        BY <2>2
      <3> QED BY <3>1, Zenon
    <2> QED BY <2>1, <2>2
  <1> HIDE DEF R
  <1> QED BY <1>2, <1>4, <1>7

\* A request that the counter lets through belongs to the present window.
LEMMA AdmissionKeepsSplit ==
    ASSUME LimiterAssumption, LimiterTypeOK, WindowsAreSplit, FailClosed,
           count' = Counted(count), Admit(count'),
           left' = left \/ (left = Forever /\ left' = Window)
    PROVE  \E e \in Nat \ {0} : SplitAt(e)'
  <1>1. PICK e \in Nat \ {0} : SplitAt(e)
    BY DEF WindowsAreSplit
  <1>0. /\ recent \in [Ages -> Nat] /\ Newer(e) \in SUBSET Ages /\ Older(e) \in SUBSET Ages
        /\ count \in 0..(Limit + 1) /\ Limit \in Nat \ {0} /\ Window \in Nat \ {0}
        /\ left \in {-1} \union 0..Window /\ Forever = -1
    BY WindowIsPositive DEF LimiterTypeOK, Ages, Newer, Older, LimiterAssumption, Forever
  <1>2. left' # Forever => e + left' >= Window + 1
    BY <1>0, <1>1 DEF SplitAt
  <1>3. SumOver(recent, Newer(e)) \in Nat /\ SumOver(recent, Older(e)) \in Nat
    BY <1>0, PartsAreFinite
  <1>4. CASE count' > Limit
    <2>1. recent' = recent
      BY <1>0, <1>4 DEF Admit, Counted
    <2>2. count' >= count
      BY <1>0 DEF Counted
    <2>3. Newer(e)' = Newer(e) /\ Older(e)' = Older(e)
      BY DEF Newer, Older, Ages
    <2> QED BY <1>0, <1>1, <1>2, <1>3, <2>1, <2>2, <2>3 DEF SplitAt, Counted
  <1>5. CASE count' <= Limit
    <2>1. recent' = [recent EXCEPT ![0] = @ + 1] /\ count' = count + 1
      BY <1>0, <1>5 DEF Admit, Counted
    <2>2. SumOver(recent', Newer(e)) = SumOver(recent, Newer(e)) + 1
      BY <1>0, <2>1, ZeroIsNew, AdmissionAddsOne
    <2>3. SumOver(recent', Older(e)) = SumOver(recent, Older(e))
      BY <1>0, <2>1, ZeroIsNew, AdmissionAddsOne
    <2> QED BY <1>0, <1>1, <1>2, <1>3, <1>5, <2>1, <2>2, <2>3 DEF SplitAt
  <1>6. count' \in Nat
    BY <1>0 DEF Counted
  <1> QED BY <1>0, <1>4, <1>5, <1>6

\* INCR
LEMMA IncrementKeepsInv ==
    ASSUME LimiterAssumption, LimiterInv, NEW h \in Hits, Increment(h)
    PROVE  LimiterInv'
  <1>0. /\ count \in 0..(Limit + 1) /\ Limit \in Nat \ {0} /\ Window \in Nat \ {0}
        /\ recent \in [Ages -> Nat] /\ left \in {Forever} \union 0..Window
        /\ hits \in [Hits -> [pc: HitPc, current: 0..(Limit + 1)]]
        /\ backend = "redis" /\ UNCHANGED <<backend, left, told, cut>>
    BY WindowIsPositive DEF LimiterInv, LimiterTypeOK, LimiterAssumption, Increment, Ages
  <1>1. count' \in 1..(Limit + 1) /\ (count' = 1 => count = 0)
    BY <1>0 DEF Increment, Counted
  <1>2. recent' \in [Ages -> Nat]
    <2>1. recent[0] + 1 \in Nat
      BY <1>0 DEF Ages
    <2> QED BY <1>0, <2>1 DEF Increment, Admit
  <1>3. /\ hits' \in [Hits -> [pc: HitPc, current: 0..(Limit + 1)]]
        /\ hits'[h].pc = "expiring" => count = 0
        /\ \A g \in Hits \ {h} : hits'[g] = hits[g]
    BY <1>0, <1>1 DEF Increment, HitPc
  <1>4. LimiterTypeOK'
    BY <1>0, <1>1, <1>2, <1>3 DEF LimiterInv, LimiterTypeOK, Ages
  <1>5. BucketIsConsistent'
    BY <1>0, <1>1, <1>3 DEF LimiterInv, BucketIsConsistent
  <1>6. WindowsAreSplit'
    <2>1. FailClosed => \E e \in Nat \ {0} : SplitAt(e)'
      BY <1>0, AdmissionKeepsSplit DEF LimiterInv, Increment
    <2> QED BY <2>1 DEF WindowsAreSplit
  <1> QED BY <1>0, <1>4, <1>5, <1>6 DEF LimiterInv, HonestAnswer

\* EXPIRE: the window begins to end.
LEMMA ExpireKeepsInv ==
    ASSUME LimiterAssumption, LimiterInv, NEW h \in Hits, Expire(h)
    PROVE  LimiterInv'
  <1>0. /\ Window \in Nat \ {0} /\ Forever = -1
        /\ hits \in [Hits -> [pc: HitPc, current: 0..(Limit + 1)]]
        /\ UNCHANGED <<backend, count, recent, told, cut>> /\ left' = Window
    BY WindowIsPositive DEF LimiterInv, LimiterTypeOK, LimiterAssumption, Expire, Forever
  <1>1. /\ hits' \in [Hits -> [pc: HitPc, current: 0..(Limit + 1)]]
        /\ hits'[h].pc = "reading"
        /\ \A g \in Hits \ {h} : hits'[g] = hits[g]
    BY <1>0 DEF Expire, HitPc
  <1>2. left = Forever /\ count # 0 /\ \A g \in Hits : hits[g].pc = "expiring" => g = h
    BY DEF LimiterInv, BucketIsConsistent, Expire
  <1>3. backend # "memory"
    BY DEF LimiterInv, BucketIsConsistent, Expire
  <1>4. LimiterTypeOK'
    BY <1>0, <1>1 DEF LimiterInv, LimiterTypeOK
  <1>5. BucketIsConsistent'
    BY <1>0, <1>1, <1>2, <1>3 DEF BucketIsConsistent
  <1>6. WindowsAreSplit'
    <2>1. ASSUME NEW e \in Nat \ {0}, SplitAt(e)
          PROVE  SplitAt(e)'
      BY <1>0, <2>1 DEF SplitAt, Newer, Older, Ages
    <2> QED BY <2>1 DEF LimiterInv, WindowsAreSplit
  <1> QED BY <1>0, <1>4, <1>5, <1>6 DEF LimiterInv

\* TTL, and the answer to a request that is refused.
LEMMA ReadTtlKeepsInv ==
    ASSUME LimiterAssumption, LimiterInv, NEW h \in Hits, ReadTtl(h)
    PROVE  LimiterInv'
  <1>0. /\ left \in {Forever} \union 0..Window
        /\ hits \in [Hits -> [pc: HitPc, current: 0..(Limit + 1)]]
        /\ UNCHANGED <<backend, count, left, recent, cut>>
    BY DEF LimiterInv, LimiterTypeOK, ReadTtl
  <1>1. /\ hits' \in [Hits -> [pc: HitPc, current: 0..(Limit + 1)]]
        /\ hits'[h].pc = "idle"
        /\ \A g \in Hits \ {h} : hits'[g] = hits[g]
    BY <1>0, LimiterAssumption DEF ReadTtl, HitPc, LimiterAssumption
  <1> DEFINE after == AtLeastOne(IF left # Forever /\ Ttl > 0 THEN Ttl ELSE WindowSeconds)
  <1>2. HonestAnswer(after, left)
    BY <1>0, AnswersAreHonest DEF Ttl
  <1>3. told' = told \/ told' = [after |-> after, left |-> left]
    BY DEF ReadTtl, Refuse
  <1>4. HonestAnswer(told'.after, told'.left) /\ told' \in [after: Nat, left: {Forever} \union 0..Window]
    <2> HIDE DEF after
    <2> QED BY <1>0, <1>2, <1>3 DEF LimiterInv, LimiterTypeOK, HonestAnswer
  <1>5. LimiterTypeOK'
    BY <1>0, <1>1, <1>4 DEF LimiterInv, LimiterTypeOK
  <1>6. BucketIsConsistent'
    BY <1>0, <1>1 DEF LimiterInv, BucketIsConsistent
  <1>7. WindowsAreSplit'
    BY <1>0 DEF LimiterInv, WindowsAreSplit, SplitAt, Newer, Older, Ages
  <1> QED BY <1>4, <1>5, <1>6, <1>7 DEF LimiterInv

\* What was counted stays counted, though nobody learns of it.
LEMMA StoreFailsKeepsInv ==
    ASSUME LimiterAssumption, LimiterInv, NEW h \in Hits, StoreFails(h)
    PROVE  LimiterInv'
  <1>0. /\ recent \in [Ages -> Nat] /\ Window \in Nat \ {0} /\ backend = "redis"
        /\ hits \in [Hits -> [pc: HitPc, current: 0..(Limit + 1)]]
        /\ UNCHANGED <<backend, count, left, told>>
    BY WindowIsPositive DEF LimiterInv, LimiterTypeOK, StoreFails, Ages
  <1>1. /\ hits' \in [Hits -> [pc: HitPc, current: 0..(Limit + 1)]]
        /\ hits'[h].pc = "idle"
        /\ \A g \in Hits \ {h} : hits'[g] = hits[g]
    BY <1>0, LimiterAssumption DEF StoreFails, HitPc, LimiterAssumption
  <1>2. recent' \in [Ages -> Nat] /\ (FailClosed => recent' = recent)
    <2>1. recent[0] + 1 \in Nat
      BY <1>0 DEF Ages
    <2> QED BY <1>0, <2>1 DEF StoreFails, Degrade
  <1>3. cut' \in BOOLEAN
    BY DEF StoreFails, LimiterInv, LimiterTypeOK
  <1>4. LimiterTypeOK'
    BY <1>0, <1>1, <1>2, <1>3 DEF LimiterInv, LimiterTypeOK, Ages
  <1>5. BucketIsConsistent'
    BY <1>0, <1>1 DEF LimiterInv, BucketIsConsistent
  <1>6. WindowsAreSplit'
    BY <1>0, <1>2 DEF LimiterInv, WindowsAreSplit, SplitAt, Newer, Older, Ages
  <1> QED BY <1>0, <1>4, <1>5, <1>6 DEF LimiterInv

\* The first hit after the window's end begins the next one.
LEMMA HitMemoryKeepsInv ==
    ASSUME LimiterAssumption, LimiterInv, NEW h \in Hits, HitMemory(h)
    PROVE  LimiterInv'
  <1> DEFINE over == left \in {Forever, 0}
  <1>0. /\ count \in 0..(Limit + 1) /\ Limit \in Nat \ {0} /\ Window \in Nat \ {0}
        /\ recent \in [Ages -> Nat] /\ left \in {Forever} \union 0..Window /\ Forever = -1
        /\ backend = "memory" /\ UNCHANGED <<backend, hits, cut>> /\ Admit(count')
        /\ count' = Counted(IF over THEN 0 ELSE count) /\ left' = IF over THEN Window ELSE left
    BY WindowIsPositive
    DEF LimiterInv, LimiterTypeOK, LimiterAssumption, HitMemory, Ages, Forever
  <1>1. count' \in 1..(Limit + 1) /\ left' \in 1..Window
    BY <1>0 DEF Counted
  <1>2. recent' \in [Ages -> Nat]
    <2>1. recent[0] + 1 \in Nat
      BY <1>0 DEF Ages
    <2> QED BY <1>0, <2>1 DEF Admit
  <1>3. HonestAnswer(told'.after, told'.left) /\ told' \in [after: Nat, left: {Forever} \union 0..Window]
    <2> DEFINE after == AtLeastOne(left' \div TicksPerSecond)
    <2>1. left' # Forever
      BY <1>0, <1>1
    <2>2. HonestAnswer(after, left')
      BY <1>1, <2>1, AnswersAreHonest
    <2>3. told' = told \/ told' = [after |-> after, left |-> left']
      BY DEF HitMemory
    <2> HIDE DEF after
    <2>4. CASE told' = told
      BY <2>4 DEF LimiterInv, LimiterTypeOK, HonestAnswer
    <2>5. CASE told' = [after |-> after, left |-> left']
      <3>1. after \in Nat /\ told'.after = after /\ told'.left = left'
        BY <2>2, <2>5 DEF HonestAnswer
      <3>2. told' \in [after: Nat, left: {Forever} \union 0..Window]
        BY <1>0, <1>1, <2>5, <3>1
      <3> QED BY <2>2, <3>1, <3>2
    <2> QED BY <2>3, <2>4, <2>5
  <1>4. LimiterTypeOK'
    BY <1>0, <1>1, <1>2, <1>3 DEF LimiterInv, LimiterTypeOK, Ages
  <1>5. BucketIsConsistent'
    BY <1>0, <1>1 DEF LimiterInv, BucketIsConsistent
  <1>6. ASSUME FailClosed
        PROVE  \E e \in Nat \ {0} : SplitAt(e)'
    <2>1. CASE left # 0
      <3>1. count' = Counted(count) /\ (left' = left \/ (left = Forever /\ left' = Window))
        BY <1>0, <2>1 DEF LimiterInv, BucketIsConsistent
      <3> QED BY <1>0, <1>6, <3>1, AdmissionKeepsSplit DEF LimiterInv
    <2>2. CASE left = 0
      <3>1. PICK e \in Nat \ {0} : SplitAt(e)
        BY <1>6 DEF LimiterInv, WindowsAreSplit
      <3>2. Newer(e) = Ages
        <4>1. e >= Window + 1
          BY <1>0, <2>2, <3>1 DEF SplitAt
        <4> QED BY <1>0, <4>1 DEF Newer, Ages
      <3>3. SumOver(recent, Ages) <= Limit /\ recent[0] = 0 /\ count' = 1 /\ left' = Window
        <4>1. SumOver(recent, Ages) <= Limit
          BY <3>1, <3>2, Zenon DEF SplitAt
        <4>2. recent[0] = 0
          BY <1>0, <2>2 DEF LimiterInv, BucketIsConsistent
        <4> QED BY <1>0, <2>2, <4>1, <4>2 DEF Counted
      <3>4. recent' = [recent EXCEPT ![0] = @ + 1]
        BY <1>0, <3>3 DEF Admit
      <3>5. /\ Newer(1) = {0} /\ Newer(1) \in SUBSET Ages /\ Older(1) \in SUBSET Ages
            /\ 0 \in Newer(1) /\ 0 \notin Older(1)
        BY <1>0 DEF Newer, Older, Ages
      <3>6. SumOver(recent, Newer(1)) = 0
        <4>0. IsFiniteSet({0})
          BY FS_Singleton
        <4>1. IsFiniteSet({0}) /\ \A x \in {0} : recent[x] \in Nat
          BY <3>3, <4>0
        <4>2. SumOver(recent, {0}) = recent[0] + SumOver(recent, {0} \ {0})
          BY <4>1, SumTakesAny
        <4>3. SumOver(recent, {}) = 0
          BY FS_EmptySet, SumSteps
        <4>4. {0} \ {0} = {}
          OBVIOUS
        <4>5. SumOver(recent, {0} \ {0}) = 0
          BY <4>3, <4>4, Zenon
        <4>6. SumOver(recent, {0}) = 0
          BY <3>3, <4>2, <4>5
        <4> QED BY <3>5, <4>6, Zenon
      <3>7. SumOver(recent, Older(1)) <= Limit
        <4>1. /\ SumOver(recent, Older(1)) \in Nat /\ SumOver(recent, Ages) \in Nat
              /\ SumOver(recent, Older(1)) <= SumOver(recent, Ages)
          BY <1>0, <3>5, PartsAreFinite
        <4> QED BY <1>0, <3>3, <4>1
      <3>8. SumOver(recent', Newer(1)) = 1
        <4>1. SumOver(recent', Newer(1)) = SumOver(recent, Newer(1)) + 1
          BY <1>0, <3>4, <3>5, AdmissionAddsOne
        <4> QED BY <3>6, <4>1
      <3>9. SumOver(recent', Older(1)) = SumOver(recent, Older(1))
        BY <1>0, <3>4, <3>5, AdmissionAddsOne
      <3>10. SplitAt(1)'
        BY <1>0, <3>3, <3>7, <3>8, <3>9 DEF SplitAt
      <3> QED BY <3>10
    <2> QED BY <2>1, <2>2
  <1>7. WindowsAreSplit'
    BY <1>6 DEF WindowsAreSplit
  <1> QED BY <1>3, <1>4, <1>5, <1>7 DEF LimiterInv

\* Time passes: the present window grows older, or ends when it is a window long.
LEMMA TickKeepsInv ==
    ASSUME LimiterAssumption, LimiterInv, Tick
    PROVE  LimiterInv'
  <1>0. /\ count \in 0..(Limit + 1) /\ Limit \in Nat \ {0} /\ Window \in Nat \ {0}
        /\ recent \in [Ages -> Nat] /\ left \in {Forever} \union 0..Window /\ Forever = -1
        /\ recent' = [age \in Ages |-> IF age = 0 THEN 0 ELSE recent[age - 1]]
        /\ UNCHANGED <<backend, hits, told, cut>>
    BY WindowIsPositive DEF LimiterInv, LimiterTypeOK, LimiterAssumption, Tick, Ages, Forever
  <1>1. \/ backend = "redis" /\ left = 1 /\ left' = Forever /\ count' = 0
        \/ left' = (IF left > 0 THEN left - 1 ELSE left) /\ count' = count
             /\ ~ (backend = "redis" /\ left = 1)
    BY DEF Tick
  <1>2. recent' \in [Ages -> Nat] /\ recent'[0] = 0
    BY <1>0 DEF Ages
  <1>3. LimiterTypeOK'
    BY <1>0, <1>1, <1>2 DEF LimiterInv, LimiterTypeOK, Ages
  <1>4. BucketIsConsistent'
    BY <1>0, <1>1, <1>2 DEF LimiterInv, BucketIsConsistent
  <1>5. ASSUME FailClosed
        PROVE  \E e \in Nat \ {0} : SplitAt(e)'
    <2>1. PICK e \in Nat \ {0} : SplitAt(e)
      BY <1>5 DEF LimiterInv, WindowsAreSplit
    <2>2. \A d \in Nat : Newer(d) \in SUBSET Ages /\ Older(d) \in SUBSET Ages
      BY DEF Newer, Older
    <2>3. \A d \in Nat : SumOver(recent', Newer(d)) \in Nat /\ SumOver(recent', Older(d)) \in Nat
                        /\ SumOver(recent, Newer(d)) \in Nat /\ SumOver(recent, Older(d)) \in Nat
      <3>1. \A S \in SUBSET Ages : IsFiniteSet(S)
        BY <1>0, PartsAreFinite
      <3>2. \A S \in SUBSET Ages : \A x \in S : recent'[x] \in Nat /\ recent[x] \in Nat
        BY <1>0, <1>2
      <3> QED BY <2>2, <3>1, <3>2, SumIsNatural
    <2>4. CASE left' = (IF left > 0 THEN left - 1 ELSE left) /\ count' = count
      <3>1. \A a \in Newer(e + 1) \ {0} : a - 1 \in Newer(e)
        BY <1>0 DEF Newer, Ages
      <3>2. \A a \in Older(e + 1) \ {0} : a - 1 \in Older(e)
        BY <1>0 DEF Older, Ages
      <3>3. SumOver(recent', Newer(e + 1)) <= SumOver(recent, Newer(e))
        BY <1>0, <2>2, <3>1, TickAgesRequests
      <3>4. SumOver(recent', Older(e + 1)) <= SumOver(recent, Older(e))
        BY <1>0, <2>2, <3>2, TickAgesRequests
      <3>5. e + 1 \in Nat \ {0} /\ (left' # Forever => (e + 1) + left' >= Window + 1)
        BY <1>0, <2>1, <2>4 DEF SplitAt
      <3>6. SplitAt(e + 1)'
        BY <1>0, <2>1, <2>3, <2>4, <3>3, <3>4, <3>5 DEF SplitAt
      <3> QED BY <3>5, <3>6
    <2>5. CASE left = 1 /\ left' = Forever /\ count' = 0
      <3>1. Newer(e) = Ages
        <4>1. e >= Window
          BY <1>0, <2>1, <2>5 DEF SplitAt
        <4> QED BY <1>0, <4>1 DEF Newer, Ages
      <3>2. SumOver(recent, Ages) <= Limit
        BY <2>1, <3>1, Zenon DEF SplitAt
      <3>3. \A a \in Newer(1) \ {0} : a - 1 \in {}
        BY <1>0 DEF Newer, Ages
      <3>4. SumOver(recent', Newer(1)) <= SumOver(recent, {})
        BY <1>0, <2>2, <3>3, TickAgesRequests
      <3>5. SumOver(recent, {}) = 0
        BY FS_EmptySet, SumSteps
      <3>6. \A a \in Older(1) \ {0} : a - 1 \in Ages
        BY <1>0 DEF Older, Ages
      <3>7. SumOver(recent', Older(1)) <= SumOver(recent, Ages)
        BY <1>0, <2>2, <3>6, TickAgesRequests
      <3>8. SumOver(recent, Ages) \in Nat
        BY <1>0, PartsAreFinite
      <3>9. SplitAt(1)'
        BY <1>0, <2>3, <2>5, <3>2, <3>4, <3>5, <3>7, <3>8 DEF SplitAt
      <3> QED BY <3>9
    <2> QED BY <1>1, <2>4, <2>5
  <1>6. WindowsAreSplit'
    BY <1>5 DEF WindowsAreSplit
  <1> QED BY <1>0, <1>3, <1>4, <1>6 DEF LimiterInv, HonestAnswer

\* The bucket keeps its invariant, in either store.
THEOREM BucketIsCorrect == LimiterSpec => []LimiterInv
  <1>1. LimiterInit => LimiterInv
    <2> SUFFICES ASSUME LimiterInit
                 PROVE  LimiterInv
      OBVIOUS
    <2>0. /\ Limit \in Nat \ {0} /\ Window \in Nat \ {0} /\ Forever = -1
          /\ WindowSeconds \in Nat \ {0} /\ TicksPerSecond \in Nat \ {0}
      BY WindowIsPositive, LimiterAssumption DEF LimiterAssumption, Forever
    <2>1. recent \in [Ages -> Nat] /\ recent[0] = 0
      BY <2>0 DEF LimiterInit, Ages
    <2>2. LimiterTypeOK
      <3>1. hits \in [Hits -> [pc: HitPc, current: 0..(Limit + 1)]]
        BY <2>0 DEF LimiterInit, HitPc
      <3>2. told \in [after: Nat, left: {Forever} \union 0..Window]
        BY <2>0 DEF LimiterInit
      <3>3. /\ backend \in {"redis", "memory"} /\ count \in 0..(Limit + 1)
            /\ left \in {Forever} \union 0..Window /\ cut \in BOOLEAN
        <4>1. /\ backend \in {"redis", "memory"} /\ count = 0 /\ left = Forever /\ cut = FALSE
          BY DEF LimiterInit
        <4>2. cut \in BOOLEAN
          BY <4>1, Zenon
        <4> QED BY <2>0, <4>1, <4>2
      <3> QED BY <2>1, <3>1, <3>2, <3>3 DEF LimiterTypeOK, Ages
    <2>3. HonestAnswer(told.after, told.left)
      BY <2>0 DEF LimiterInit, HonestAnswer
    <2>4. BucketIsConsistent
      BY <2>0, <2>1 DEF LimiterInit, BucketIsConsistent
    <2>5. SplitAt(1)
      <3>1. \A S \in SUBSET Ages : SumOver(recent, S) = 0
        <4> SUFFICES ASSUME NEW S \in SUBSET Ages
                     PROVE  SumOver(recent, S) = 0
          OBVIOUS
        <4>1. IsFiniteSet(S)
          BY <2>1, LimiterAssumption, PartsAreFinite
        <4>2. \A a \in S : recent[a] = 0
          BY DEF LimiterInit, Ages
        <4> QED BY <4>1, <4>2, SumOfZeros
      <3>2. Newer(1) \in SUBSET Ages /\ Older(1) \in SUBSET Ages
        BY DEF Newer, Older
      <3>3. SumOver(recent, Newer(1)) = 0 /\ SumOver(recent, Older(1)) = 0
        BY <3>1, <3>2
      <3> QED BY <2>0, <3>3 DEF SplitAt, LimiterInit
    <2> QED BY <2>2, <2>3, <2>4, <2>5 DEF LimiterInv, WindowsAreSplit
  <1>2. LimiterInv /\ [LimiterNext]_limiterVars => LimiterInv'
    <2> SUFFICES ASSUME LimiterInv, [LimiterNext]_limiterVars
                 PROVE  LimiterInv'
      OBVIOUS
    <2>1. CASE UNCHANGED limiterVars
      BY <2>1 DEF limiterVars, LimiterInv, LimiterTypeOK, HonestAnswer, BucketIsConsistent,
         WindowsAreSplit, SplitAt, Newer, Older, Ages
    <2> QED BY <2>1, LimiterAssumption, IncrementKeepsInv, ExpireKeepsInv, ReadTtlKeepsInv,
               StoreFailsKeepsInv, HitMemoryKeepsInv, TickKeepsInv DEF LimiterNext
  <1> QED BY <1>1, <1>2, PTL DEF LimiterSpec

\* For every limit, window and clock, and however the hits interleave: within any
\* window's time at most two windows' worth of requests pass, if the middleware
\* fails closed (RateLimitMiddleware, RedisRateLimitStore.hit).
THEOREM RateIsAlwaysBounded == LimiterSpec => []RateIsBounded
  <1>1. LimiterInv => RateIsBounded
    <2> SUFFICES ASSUME LimiterInv, FailClosed
                 PROVE  MapThenSumSet(LAMBDA age : recent[age], 0..(Window - 1)) <= 2 * Limit
      BY DEF RateIsBounded
    <2>1. PICK e \in Nat \ {0} : SplitAt(e)
      BY DEF LimiterInv, WindowsAreSplit
    <2>2. recent \in [Ages -> Nat] /\ Limit \in Nat
      BY LimiterAssumption DEF LimiterInv, LimiterTypeOK, Ages, LimiterAssumption
    <2>3. IsFiniteSet(Ages) /\ \A a \in Ages : recent[a] \in Nat
      BY <2>2, LimiterAssumption, PartsAreFinite
    <2>4. Newer(e) \in SUBSET Ages /\ Older(e) \in SUBSET Ages /\ Ages \ Newer(e) = Older(e)
      <3>1. \A a \in Ages : a \in Nat
        BY DEF Ages
      <3> QED BY <2>1, <3>1 DEF Newer, Older
    <2>5. SumOver(recent, Ages) = SumOver(recent, Newer(e)) + SumOver(recent, Ages \ Newer(e))
      BY <2>3, <2>4, SumOfParts
    <2>6. SumOver(recent, Ages \ Newer(e)) = SumOver(recent, Older(e))
      BY <2>4, Zenon
    <2>7. SumOver(recent, Newer(e)) \in Nat /\ SumOver(recent, Older(e)) \in Nat
      BY <2>2, <2>4, LimiterAssumption, PartsAreFinite
    <2>8. SumOver(recent, Ages) <= 2 * Limit
      BY <2>1, <2>2, <2>5, <2>6, <2>7 DEF SplitAt
    <2>9. SumOver(recent, Ages) = MapThenSumSet(LAMBDA age : recent[age], 0..(Window - 1))
      BY Zenon DEF SumOver, Ages
    <2> QED BY <2>8, <2>9
  <1> QED BY <1>1, BucketIsCorrect, PTL

\* Whoever is refused is told to wait no longer than a window, and comes back at
\* most a second too early, for every window and clock (RateLimitMiddleware).
THEOREM RefusalsAreAlwaysHonest == LimiterSpec => []RefusalsAreHonest
  <1>1. LimiterInv => RefusalsAreHonest
    BY DEF LimiterInv, HonestAnswer, RefusalsAreHonest
  <1> QED BY <1>1, BucketIsCorrect, PTL
-----------------------------------------------------------------------------
(* Singletons *)

InFlight == {"loading", "building", "using"}

\* The types, as far as the argument needs them: how many objects are built has
\* no bound here.
ObjectsTyped ==
    /\ app \in [phase: {"up", "closing", "disposing", "down"}, key: ModelNames, starts: Nat]
    /\ threads \in [Threads -> [need: Needs, key: ModelNames \union {"NONE"}, pc: ThreadPc,
                                got: Nat, name: ModelNames \union {"NONE"}]]
    /\ model \in [key: ModelNames \union {"NONE"}, lock: Threads \union {"NONE"}]
    /\ loads \in Seq(ModelNames)
    /\ client \in [object: Nat, built: Nat] /\ engine \in [object: Nat, built: Nat]
    /\ closed \subseteq {"client", "engine"} \X Nat

\* No request outlives the application that took it, nor its settings.
RequestsAreCurrent ==
    \A t \in Threads : threads[t].pc \in InFlight =>
        app.phase = "up" /\ threads[t].key = app.key

\* The lock is held by the thread that loads, and what it loads is not shared yet.
LockIsHeldToLoad ==
    \A t \in Threads : threads[t].pc = "loading" =>
        model.lock = t /\ model.key # threads[t].key

\* The shared model is the last that was loaded; the one before it was another.
SharedModelIsLast ==
    /\ model.key = IF loads = << >> THEN "NONE" ELSE loads[Len(loads)]
    /\ \A i \in 1..(Len(loads) - 1) : loads[i] # loads[i + 1]

\* What is closed was built earlier, and is no longer cached.
ClosedIsForgotten ==
    /\ client.object <= client.built /\ engine.object <= engine.built
    /\ \A n \in Nat : <<"client", n>> \in closed =>
          n # 0 /\ n <= client.built /\ n # client.object
    /\ \A n \in Nat : <<"engine", n>> \in closed =>
          n # 0 /\ n <= engine.built /\ n # engine.object

\* What a request uses.
UsersAreServed ==
    \A t \in Threads : threads[t].pc = "using" =>
        /\ <<threads[t].need, threads[t].got>> \notin closed
        /\ threads[t].need = "model" => threads[t].name = threads[t].key

ObjectsInv ==
    /\ ObjectsTyped
    /\ RequestsAreCurrent
    /\ LockIsHeldToLoad
    /\ SharedModelIsLast
    /\ ClosedIsForgotten
    /\ UsersAreServed

\* One thread moves on, the objects stay: the next state as a record.
ThreadMoves(t, new) ==
    /\ new \in [need: Needs, key: ModelNames \union {"NONE"}, pc: ThreadPc,
                got: Nat, name: ModelNames \union {"NONE"}]
    /\ threads' = [threads EXCEPT ![t] = new]

\* A thread that starts to use an object, or to build one, leaves the others alone.
LEMMA ThreadKeepsInv ==
    ASSUME ObjectsInv, NEW t \in Threads, NEW new, ThreadMoves(t, new),
           UNCHANGED <<app, model, loads, client, engine, closed>>,
           new.pc \in InFlight => app.phase = "up" /\ new.key = app.key,
           new.pc # "loading",
           new.pc = "using" => /\ <<new.need, new.got>> \notin closed
                               /\ new.need = "model" => new.name = new.key
    PROVE  ObjectsInv'
  <1>1. threads' \in [Threads -> [need: Needs, key: ModelNames \union {"NONE"}, pc: ThreadPc,
                                  got: Nat, name: ModelNames \union {"NONE"}]]
    BY DEF ObjectsInv, ObjectsTyped, ThreadMoves
  <1>2. threads'[t] = new /\ \A u \in Threads \ {t} : threads'[u] = threads[u]
    BY DEF ObjectsInv, ObjectsTyped, ThreadMoves
  <1>3. ObjectsTyped'
    BY <1>1 DEF ObjectsInv, ObjectsTyped
  <1>4. RequestsAreCurrent'
    BY <1>2 DEF ObjectsInv, RequestsAreCurrent
  <1>5. LockIsHeldToLoad'
    BY <1>2 DEF ObjectsInv, LockIsHeldToLoad
  <1>6. SharedModelIsLast' /\ ClosedIsForgotten'
    BY DEF ObjectsInv, SharedModelIsLast, ClosedIsForgotten
  <1>7. UsersAreServed'
    BY <1>2 DEF ObjectsInv, UsersAreServed
  <1> QED BY <1>3, <1>4, <1>5, <1>6, <1>7 DEF ObjectsInv

\* The shared model is used, or is loaded by the thread that has the lock.
LEMMA AcquireModelKeepsInv ==
    ASSUME ObjectsInv, SingletonsAssumption, NEW t \in Threads, AcquireModel(t)
    PROVE  ObjectsInv'
  <1>0. app.key \in ModelNames /\ app.phase = "up" /\ threads[t].pc = "new" /\ model.lock = "NONE"
    BY DEF AcquireModel, Enter, LockFree, ObjectsInv, ObjectsTyped
  <1>1. CASE model.key = app.key /\ UseModel(t, model.key) /\ UNCHANGED model
    <2> DEFINE new == [need |-> "model", key |-> app.key, pc |-> "using", got |-> 0,
                       name |-> model.key]
    <2>1. ThreadMoves(t, new)
      BY <1>0, <1>1 DEF ThreadMoves, UseModel, ThreadPc, Needs
    <2>2. <<"model", 0>> \notin closed
      BY DEF ObjectsInv, ObjectsTyped
    <2>3. UNCHANGED <<app, model, loads, client, engine, closed>>
      BY <1>1 DEF AcquireModel
    <2> QED BY <1>0, <1>1, <2>1, <2>2, <2>3, ThreadKeepsInv
  <1>2. CASE /\ model.key # app.key
             /\ model' = [model EXCEPT !.lock = t]
             /\ threads' = [threads EXCEPT ![t] =
                   [Idle EXCEPT !.key = app.key, !.pc = "loading"]]
    <2> DEFINE new == [Idle EXCEPT !.key = app.key, !.pc = "loading"]
    <2>1. ThreadMoves(t, new) /\ new.pc = "loading" /\ new.key = app.key
      BY <1>0, <1>2 DEF ThreadMoves, Idle, ThreadPc, Needs
    <2>2. UNCHANGED <<app, loads, client, engine, closed>>
      BY DEF AcquireModel
    <2> HIDE DEF new
    <2>3. threads'[t] = new /\ \A u \in Threads \ {t} : threads'[u] = threads[u]
      BY <2>1 DEF ObjectsInv, ObjectsTyped, ThreadMoves
    <2>4. /\ model' \in [key: ModelNames \union {"NONE"}, lock: Threads \union {"NONE"}]
          /\ model'.key = model.key /\ model'.lock = t
      BY <1>2 DEF ObjectsInv, ObjectsTyped
    <2>5. ObjectsTyped'
      <3>1. threads' \in [Threads -> [need: Needs, key: ModelNames \union {"NONE"}, pc: ThreadPc,
                                      got: Nat, name: ModelNames \union {"NONE"}]]
        BY <2>1 DEF ObjectsInv, ObjectsTyped, ThreadMoves
      <3> QED BY <2>2, <2>4, <3>1 DEF ObjectsInv, ObjectsTyped
    <2>6. RequestsAreCurrent'
      BY <1>0, <2>1, <2>2, <2>3 DEF ObjectsInv, RequestsAreCurrent
    <2>7. LockIsHeldToLoad'
      <3>1. \A u \in Threads : threads[u].pc # "loading"
        BY <1>0, SingletonsAssumption DEF ObjectsInv, LockIsHeldToLoad, SingletonsAssumption
      <3> QED BY <1>2, <2>1, <2>3, <2>4, <3>1 DEF LockIsHeldToLoad
    <2>8. SharedModelIsLast' /\ ClosedIsForgotten'
      BY <2>2, <2>4 DEF ObjectsInv, SharedModelIsLast, ClosedIsForgotten
    <2>9. UsersAreServed'
      BY <2>1, <2>2, <2>3 DEF ObjectsInv, UsersAreServed
    <2> QED BY <2>5, <2>6, <2>7, <2>8, <2>9 DEF ObjectsInv
  <1> QED BY <1>1, <1>2 DEF AcquireModel, CachedModelServes

\* The thread that loads is alone with the lock; what it loads differs from the
\* model that was shared.
LEMMA LoadModelKeepsInv ==
    ASSUME ObjectsInv, SingletonsAssumption, NEW t \in Threads, LoadModel(t)
    PROVE  ObjectsInv'
  <1> DEFINE new == [need |-> "model", key |-> app.key, pc |-> "using", got |-> 0,
                     name |-> threads[t].key]
  <1>1. /\ app.phase = "up" /\ threads[t].key = app.key /\ app.key \in ModelNames
        /\ model.lock = t /\ model.key # app.key
    BY DEF LoadModel, ObjectsInv, ObjectsTyped, RequestsAreCurrent, LockIsHeldToLoad, InFlight
  <1>2. ThreadMoves(t, new)
    BY <1>1 DEF LoadModel, ThreadMoves, UseModel, ThreadPc, Needs
  <1>3. new.pc = "using" /\ new.key = app.key /\ new.name = app.key /\ new.need = "model" /\ new.got = 0
    BY <1>1
  <1>4. UNCHANGED <<app, client, engine, closed>>
    BY DEF LoadModel
  <1>5. model' = [key |-> app.key, lock |-> "NONE"] /\ loads' = Append(loads, app.key)
    BY <1>1 DEF LoadModel
  <1> HIDE DEF new
  <1>6. threads'[t] = new /\ \A u \in Threads \ {t} : threads'[u] = threads[u]
    BY <1>2 DEF ObjectsInv, ObjectsTyped, ThreadMoves
  <1>7. ObjectsTyped'
    BY <1>1, <1>2, <1>4, <1>5 DEF ObjectsInv, ObjectsTyped, ThreadMoves
  <1>8. RequestsAreCurrent'
    BY <1>1, <1>3, <1>4, <1>6 DEF ObjectsInv, RequestsAreCurrent
  <1>9. LockIsHeldToLoad'
    <2>1. \A u \in Threads \ {t} : threads[u].pc # "loading"
      BY <1>1 DEF ObjectsInv, LockIsHeldToLoad
    <2> QED BY <1>3, <1>6, <2>1 DEF LockIsHeldToLoad
  <1>10. SharedModelIsLast'
    <2>1. loads \in Seq(ModelNames) /\ Len(loads) \in Nat
      BY DEF ObjectsInv, ObjectsTyped
    <2>2. /\ Len(loads') = Len(loads) + 1 /\ loads'[Len(loads) + 1] = app.key
          /\ \A i \in 1..Len(loads) : loads'[i] = loads[i]
          /\ loads' # << >>
      BY <1>1, <1>5, <2>1
    <2>3. ASSUME NEW i \in 1..(Len(loads') - 1)
          PROVE  loads'[i] # loads'[i + 1]
      <3>1. CASE i = Len(loads)
        <4>1. loads # << >> /\ loads'[i] = model.key
          BY <2>1, <2>2, <3>1 DEF ObjectsInv, SharedModelIsLast
        <4> QED BY <1>1, <2>2, <3>1, <4>1
      <3>2. CASE i # Len(loads)
        BY <2>1, <2>2, <2>3, <3>2 DEF ObjectsInv, SharedModelIsLast
      <3> QED BY <3>1, <3>2
    <2>4. model'.key = app.key
      BY <1>5
    <2> QED BY <2>2, <2>3, <2>4 DEF SharedModelIsLast
  <1>11. ClosedIsForgotten'
    BY <1>4 DEF ObjectsInv, ClosedIsForgotten
  <1>12. UsersAreServed'
    BY <1>3, <1>4, <1>6 DEF ObjectsInv, ObjectsTyped, UsersAreServed
  <1> QED BY <1>7, <1>8, <1>9, <1>10, <1>11, <1>12 DEF ObjectsInv

\* Whoever tries next loads again.
LEMMA LoadFailsKeepsInv ==
    ASSUME ObjectsInv, SingletonsAssumption, NEW t \in Threads, LoadFails(t)
    PROVE  ObjectsInv'
  <1> DEFINE new == [threads[t] EXCEPT !.pc = "over"]
  <1>1. ThreadMoves(t, new) /\ new.pc = "over"
    BY DEF LoadFails, ThreadMoves, ThreadPc, ObjectsInv, ObjectsTyped
  <1>2. /\ model' \in [key: ModelNames \union {"NONE"}, lock: Threads \union {"NONE"}]
        /\ model'.key = model.key
    BY DEF LoadFails, ObjectsInv, ObjectsTyped
  <1>3. UNCHANGED <<app, loads, client, engine, closed>>
    BY DEF LoadFails
  <1>4. model.lock = t
    BY DEF LoadFails, ObjectsInv, LockIsHeldToLoad
  <1> HIDE DEF new
  <1>5. threads'[t] = new /\ \A u \in Threads \ {t} : threads'[u] = threads[u]
    BY <1>1 DEF ObjectsInv, ObjectsTyped, ThreadMoves
  <1>6. ObjectsTyped'
    <2>1. threads' \in [Threads -> [need: Needs, key: ModelNames \union {"NONE"}, pc: ThreadPc,
                                    got: Nat, name: ModelNames \union {"NONE"}]]
      BY <1>1 DEF ObjectsInv, ObjectsTyped, ThreadMoves
    <2> QED BY <1>2, <1>3, <2>1 DEF ObjectsInv, ObjectsTyped
  <1>7. RequestsAreCurrent'
    BY <1>1, <1>3, <1>5 DEF ObjectsInv, RequestsAreCurrent, InFlight
  <1>8. LockIsHeldToLoad'
    <2>1. \A u \in Threads \ {t} : threads[u].pc # "loading"
      BY <1>4 DEF ObjectsInv, LockIsHeldToLoad
    <2> QED BY <1>1, <1>5, <2>1 DEF LockIsHeldToLoad
  <1>9. SharedModelIsLast' /\ ClosedIsForgotten'
    BY <1>2, <1>3 DEF ObjectsInv, SharedModelIsLast, ClosedIsForgotten
  <1>10. UsersAreServed'
    BY <1>1, <1>3, <1>5 DEF ObjectsInv, UsersAreServed
  <1> QED BY <1>6, <1>7, <1>8, <1>9, <1>10 DEF ObjectsInv

\* The cached client, which is not closed, or a thread that is to build one.
LEMMA LookUpClientKeepsInv ==
    ASSUME ObjectsInv, SingletonsAssumption, NEW t \in Threads, LookUpClient(t)
    PROVE  ObjectsInv'
  <1>0. /\ app.key \in ModelNames /\ app.phase = "up" /\ client.object \in Nat
        /\ UNCHANGED <<app, model, loads, client, engine, closed>>
    BY DEF LookUpClient, Enter, ObjectsInv, ObjectsTyped
  <1>1. CASE client.object # 0 /\ Use(t, "client", client.object)
    <2> DEFINE new == [need |-> "client", key |-> app.key, pc |-> "using",
                       got |-> client.object, name |-> "NONE"]
    <2>1. ThreadMoves(t, new)
      BY <1>0, <1>1 DEF ThreadMoves, Use, ThreadPc, Needs
    <2>2. <<"client", client.object>> \notin closed
      BY <1>0 DEF ObjectsInv, ClosedIsForgotten
    <2> QED BY <1>0, <2>1, <2>2, ThreadKeepsInv
  <1>2. CASE threads' = [threads EXCEPT ![t] =
                [Idle EXCEPT !.need = "client", !.key = app.key, !.pc = "building"]]
    <2> DEFINE new == [Idle EXCEPT !.need = "client", !.key = app.key, !.pc = "building"]
    <2>1. ThreadMoves(t, new) /\ new.pc = "building" /\ new.key = app.key
      BY <1>0, <1>2 DEF ThreadMoves, Idle, ThreadPc, Needs
    <2> HIDE DEF new
    <2> QED BY <1>0, <2>1, ThreadKeepsInv
  <1> QED BY <1>1, <1>2 DEF LookUpClient

\* A new client or engine has a number that no closed one has.
LEMMA NewObjectKeepsInv ==
    ASSUME ObjectsInv, NEW t \in Threads, NEW need \in {"client", "engine"}, NEW n \in Nat,
           Use(t, need, n), app.phase = "up",
           UNCHANGED <<app, model, loads, closed>>,
           need = "client" => /\ n = client.built + 1 /\ client'.built = n
                              /\ client'.object \in {client.object, n} /\ UNCHANGED engine,
           need = "engine" => /\ n = engine.built + 1 /\ engine'.built = n
                              /\ engine'.object \in {engine.object, n} /\ UNCHANGED client,
           client' \in [object: Nat, built: Nat], engine' \in [object: Nat, built: Nat]
    PROVE  ObjectsInv'
  <1> DEFINE new == [need |-> need, key |-> app.key, pc |-> "using", got |-> n, name |-> "NONE"]
  <1>1. ThreadMoves(t, new)
    BY DEF ThreadMoves, Use, ThreadPc, Needs, ObjectsInv, ObjectsTyped
  <1>2. new.pc = "using" /\ new.key = app.key /\ new.need = need /\ new.got = n
    OBVIOUS
  <1> HIDE DEF new
  <1>3. threads'[t] = new /\ \A u \in Threads \ {t} : threads'[u] = threads[u]
    BY <1>1 DEF ObjectsInv, ObjectsTyped, ThreadMoves
  <1>4. <<need, n>> \notin closed
    BY DEF ObjectsInv, ObjectsTyped, ClosedIsForgotten
  <1>5. ObjectsTyped'
    <2>1. threads' \in [Threads -> [need: Needs, key: ModelNames \union {"NONE"}, pc: ThreadPc,
                                    got: Nat, name: ModelNames \union {"NONE"}]]
      BY <1>1 DEF ObjectsInv, ObjectsTyped, ThreadMoves
    <2> QED BY <2>1 DEF ObjectsInv, ObjectsTyped
  <1>6. RequestsAreCurrent'
    BY <1>2, <1>3 DEF ObjectsInv, RequestsAreCurrent
  <1>7. LockIsHeldToLoad' /\ SharedModelIsLast'
    BY <1>2, <1>3 DEF ObjectsInv, LockIsHeldToLoad, SharedModelIsLast
  <1>8. ClosedIsForgotten'
    <2>1. client.object \in Nat /\ client.built \in Nat /\ engine.object \in Nat /\ engine.built \in Nat
      BY DEF ObjectsInv, ObjectsTyped
    <2>2. CASE need = "client"
      BY <2>1, <2>2 DEF ObjectsInv, ClosedIsForgotten
    <2>3. CASE need = "engine"
      BY <2>1, <2>3 DEF ObjectsInv, ClosedIsForgotten
    <2> QED BY <2>2, <2>3
  <1>9. UsersAreServed'
    BY <1>2, <1>3, <1>4 DEF ObjectsInv, UsersAreServed
  <1> QED BY <1>5, <1>6, <1>7, <1>8, <1>9 DEF ObjectsInv

\* Two threads may build a client each: both serve, one is kept.
LEMMA BuildClientKeepsInv ==
    ASSUME ObjectsInv, NEW t \in Threads, BuildClient(t)
    PROVE  ObjectsInv'
  <1> DEFINE n == client.built + 1
  <1>1. client.built \in Nat /\ client.object \in Nat /\ engine \in [object: Nat, built: Nat]
    BY DEF ObjectsInv, ObjectsTyped
  <1>2. app.phase = "up"
    BY DEF BuildClient, ObjectsInv, RequestsAreCurrent, InFlight
  <1>3. /\ client' = [object |-> IF client.object = 0 THEN n ELSE client.object, built |-> n]
        /\ Use(t, "client", n) /\ UNCHANGED <<app, model, loads, engine, closed>>
    BY DEF BuildClient
  <1>4. n \in Nat /\ client' \in [object: Nat, built: Nat] /\ client'.built = n
        /\ client'.object \in {client.object, n}
    BY <1>1, <1>3
  <1> QED BY <1>1, <1>2, <1>3, <1>4, NewObjectKeepsInv

\* The check and the assignment are one step, and nothing closed is cached.
LEMMA GetEngineKeepsInv ==
    ASSUME ObjectsInv, NEW t \in Threads, GetEngine(t)
    PROVE  ObjectsInv'
  <1> DEFINE n == engine.built + 1
  <1>1. /\ engine.built \in Nat /\ engine.object \in Nat /\ client \in [object: Nat, built: Nat]
        /\ app.phase = "up" /\ app.key \in ModelNames
    BY DEF ObjectsInv, ObjectsTyped, GetEngine, Enter
  <1>2. CASE engine.object # 0 /\ Use(t, "engine", engine.object) /\ UNCHANGED engine
    <2> DEFINE new == [need |-> "engine", key |-> app.key, pc |-> "using",
                       got |-> engine.object, name |-> "NONE"]
    <2>1. ThreadMoves(t, new)
      BY <1>1, <1>2 DEF ThreadMoves, Use, ThreadPc, Needs
    <2>2. <<"engine", engine.object>> \notin closed
      BY <1>1 DEF ObjectsInv, ClosedIsForgotten
    <2>3. UNCHANGED <<app, model, loads, client, engine, closed>>
      BY <1>2 DEF GetEngine
    <2> QED BY <1>1, <2>1, <2>2, <2>3, ThreadKeepsInv
  <1>3. CASE engine' = [object |-> n, built |-> n] /\ Use(t, "engine", n)
    <2>1. n \in Nat /\ engine' \in [object: Nat, built: Nat] /\ engine'.built = n
          /\ engine'.object = n
      BY <1>1, <1>3
    <2>2. UNCHANGED <<app, model, loads, client, closed>>
      BY DEF GetEngine
    <2> QED BY <1>1, <1>3, <2>1, <2>2, NewObjectKeepsInv
  <1> QED BY <1>2, <1>3 DEF GetEngine

\* The lifespan closes what is cached while no request is in flight.
LEMMA LifespanKeepsInv ==
    ASSUME ObjectsInv,
           \/ BeginShutdown \/ DisposeClient \/ DisposeEngine
           \/ \E key \in ModelNames : Restart(key)
    PROVE  ObjectsInv'
  <1>1. \A t \in Threads : threads[t].pc \notin InFlight
    BY DEF BeginShutdown, DisposeClient, DisposeEngine, Restart, ObjectsInv,
           RequestsAreCurrent, InFlight
  <1>2. UNCHANGED <<threads, model, loads>>
    BY DEF BeginShutdown, DisposeClient, DisposeEngine, Restart
  <1>3. RequestsAreCurrent' /\ LockIsHeldToLoad' /\ SharedModelIsLast' /\ UsersAreServed'
    BY <1>1, <1>2 DEF ObjectsInv, RequestsAreCurrent, LockIsHeldToLoad, SharedModelIsLast,
       UsersAreServed, InFlight
  <1>4. app' \in [phase: {"up", "closing", "disposing", "down"}, key: ModelNames, starts: Nat]
    <2>1. app \in [phase: {"up", "closing", "disposing", "down"}, key: ModelNames, starts: Nat]
      BY DEF ObjectsInv, ObjectsTyped
    <2>2. ASSUME NEW phase \in {"up", "closing", "disposing", "down"},
                 app' = [app EXCEPT !.phase = phase]
          PROVE  app' \in [phase: {"up", "closing", "disposing", "down"}, key: ModelNames, starts: Nat]
      BY <2>1, <2>2
    <2>3. CASE \E key \in ModelNames : Restart(key)
      BY <2>1, <2>3 DEF Restart
    <2> QED BY <2>2, <2>3 DEF BeginShutdown, DisposeClient, DisposeEngine
  <1>5. CASE UNCHANGED <<client, engine, closed>>
    BY <1>2, <1>3, <1>4, <1>5 DEF ObjectsInv, ObjectsTyped, ClosedIsForgotten
  <1>6. CASE DisposeClient
    <2>1. /\ client' \in [object: Nat, built: Nat] /\ client'.object = 0
          /\ client'.built = client.built /\ UNCHANGED engine
          /\ client.object \in Nat /\ client.built \in Nat
      BY <1>6 DEF DisposeClient, Cleared, ObjectsInv, ObjectsTyped
    <2>2. closed' = closed \union ({"client"} \X ({client.object} \ {0}))
      BY <1>6 DEF DisposeClient
    <2>3. ObjectsTyped'
      BY <1>2, <1>4, <2>1, <2>2 DEF ObjectsInv, ObjectsTyped
    <2>4. ClosedIsForgotten'
      BY <2>1, <2>2 DEF ObjectsInv, ClosedIsForgotten
    <2> QED BY <1>3, <2>3, <2>4 DEF ObjectsInv
  <1>7. CASE DisposeEngine
    <2>1. /\ engine' \in [object: Nat, built: Nat] /\ engine'.object = 0
          /\ engine'.built = engine.built /\ UNCHANGED client
          /\ engine.object \in Nat /\ engine.built \in Nat
      BY <1>7 DEF DisposeEngine, Cleared, ObjectsInv, ObjectsTyped
    <2>2. closed' = closed \union ({"engine"} \X ({engine.object} \ {0}))
      BY <1>7 DEF DisposeEngine
    <2>3. ObjectsTyped'
      BY <1>2, <1>4, <2>1, <2>2 DEF ObjectsInv, ObjectsTyped
    <2>4. ClosedIsForgotten'
      BY <2>1, <2>2 DEF ObjectsInv, ClosedIsForgotten
    <2> QED BY <1>3, <2>3, <2>4 DEF ObjectsInv
  <1> QED BY <1>5, <1>6, <1>7 DEF BeginShutdown, Restart

\* The objects stay consistent for every number of threads, models and restarts.
THEOREM ObjectsAreConsistent == SingletonsSpec => []ObjectsInv
  <1>1. SingletonsInit => ObjectsInv
    <2> SUFFICES ASSUME SingletonsInit
                 PROVE  ObjectsInv
      OBVIOUS
    <2>1. \A t \in Threads : threads[t] = [Idle EXCEPT !.pc = "new"] /\ threads[t].pc = "new"
      BY DEF SingletonsInit, Idle
    <2>2. ObjectsTyped
      BY DEF SingletonsInit, ObjectsTyped, Idle, ThreadPc, Needs
    <2>3. SharedModelIsLast
      BY DEF SingletonsInit, SharedModelIsLast
    <2>4. ClosedIsForgotten
      BY DEF SingletonsInit, ClosedIsForgotten
    <2> QED BY <2>1, <2>2, <2>3, <2>4 DEF ObjectsInv, RequestsAreCurrent, LockIsHeldToLoad,
              UsersAreServed, InFlight
  <1>2. ObjectsInv /\ [SingletonsNext]_singletonVars => ObjectsInv'
    <2> SUFFICES ASSUME ObjectsInv, [SingletonsNext]_singletonVars
                 PROVE  ObjectsInv'
      OBVIOUS
    <2>1. ASSUME NEW t \in Threads, LeaveThread(t)
          PROVE  ObjectsInv'
      <3> DEFINE new == [threads[t] EXCEPT !.pc = "over"]
      <3>1. ThreadMoves(t, new) /\ new.pc = "over"
        BY <2>1 DEF LeaveThread, ThreadMoves, ThreadPc, ObjectsInv, ObjectsTyped
      <3> HIDE DEF new
      <3> QED BY <2>1, <3>1, ThreadKeepsInv DEF LeaveThread, InFlight
    <2>2. CASE UNCHANGED singletonVars
      BY <2>2 DEF singletonVars, ObjectsInv, ObjectsTyped, RequestsAreCurrent, LockIsHeldToLoad,
         SharedModelIsLast, ClosedIsForgotten, UsersAreServed
    <2> QED BY <2>1, <2>2, SingletonsAssumption, AcquireModelKeepsInv, LoadModelKeepsInv,
               LoadFailsKeepsInv, LookUpClientKeepsInv, BuildClientKeepsInv, GetEngineKeepsInv,
               LifespanKeepsInv DEF SingletonsNext
  <1> QED BY <1>1, <1>2, PTL DEF SingletonsSpec

\* However many threads ask for the model, the client or the engine, and however
\* often the application stops and starts: nobody uses what has been closed or is
\* of other settings, and no model is loaded twice in a row (_get_or_load_model,
\* get_llm_provider, dispose_engine).
THEOREM ObjectsAlwaysServe == SingletonsSpec => []SharedObjectsServe
  <1>1. ObjectsInv => SharedObjectsServe
    BY DEF ObjectsInv, UsersAreServed, SharedModelIsLast, SharedObjectsServe
  <1> QED BY <1>1, ObjectsAreConsistent, PTL
-----------------------------------------------------------------------------
(* Singletons: how much is ever built *)

\* The threads that have got a client, or an engine, and may have built it.
Served(need) == {t \in Threads : threads[t].need = need /\ threads[t].pc \in {"using", "over"}}

\* What a thread has got was built, and is of the kind that it needs.
GotWhatIsBuilt(thread, clients, engines) ==
    /\ thread.pc \notin {"using", "over"} => thread.got = 0
    /\ thread.got = 0 \/ \/ thread.need = "client" /\ thread.got <= clients
                         \/ thread.need = "engine" /\ thread.got <= engines

\* A thread builds one object at most.
BuildersAreCounted ==
    /\ client.built <= Cardinality(Served("client"))
    /\ engine.built <= Cardinality(Served("engine"))
    /\ \A t \in Threads : GotWhatIsBuilt(threads[t], client.built, engine.built)
    /\ app.starts <= MaxStarts

\* Those who are served are at most all threads.
LEMMA ServedAreFew ==
    ASSUME IsFiniteSet(Threads), NEW need
    PROVE  /\ Cardinality(Served(need)) \in Nat /\ MaxBuilt \in Nat
           /\ Cardinality(Served(need)) <= MaxBuilt
  <1>1. Served(need) \subseteq Threads
    BY DEF Served
  <1> QED BY <1>1, FS_Subset, FS_CardinalityType DEF MaxBuilt

\* Who has been served stays so, and one more counts.
LEMMA ServedAreCounted ==
    ASSUME IsFiniteSet(Threads), NEW S \in SUBSET Threads, NEW T \in SUBSET Threads, S \subseteq T
    PROVE  /\ Cardinality(S) \in Nat /\ Cardinality(T) \in Nat
           /\ Cardinality(S) <= Cardinality(T)
           /\ S # T => Cardinality(S) + 1 <= Cardinality(T)
  <1>1. IsFiniteSet(S) /\ IsFiniteSet(T)
    BY FS_Subset
  <1>2. Cardinality(S) \in Nat /\ Cardinality(T) \in Nat
    BY <1>1, FS_CardinalityType
  <1>3. Cardinality(S) <= Cardinality(T) /\ (Cardinality(S) = Cardinality(T) => S = T)
    BY <1>1, FS_Subset
  <1> QED BY <1>2, <1>3

\* A thread is served once: what is counted is kept by a step of a thread that is not yet
\* served, or that leaves, if what is new was built for it.
LEMMA ThreadKeepsCount ==
    ASSUME IsFiniteSet(Threads), ObjectsInv, BuildersAreCounted, NEW t \in Threads, NEW new,
           threads' = [threads EXCEPT ![t] = new], app' = app,
           threads[t].pc \in {"using", "over"} =>
              new.pc \in {"using", "over"} /\ new.need = threads[t].need,
           GotWhatIsBuilt(new, client'.built, engine'.built),
           \/ client'.built = client.built
           \/ /\ client'.built = client.built + 1 /\ new.need = "client" /\ new.pc = "using"
              /\ threads[t].pc \notin {"using", "over"},
           \/ engine'.built = engine.built
           \/ /\ engine'.built = engine.built + 1 /\ new.need = "engine" /\ new.pc = "using"
              /\ threads[t].pc \notin {"using", "over"}
    PROVE  BuildersAreCounted'
  <1>1. /\ threads'[t] = new /\ \A u \in Threads \ {t} : threads'[u] = threads[u]
    BY DEF ObjectsInv, ObjectsTyped
  <1>2. client.built \in Nat /\ engine.built \in Nat
        /\ \A u \in Threads : threads[u].got \in Nat
    BY DEF ObjectsInv, ObjectsTyped
  <1>3. \A need : Served(need) \subseteq Threads /\ Served(need)' \subseteq Threads
                  /\ Served(need) \subseteq Served(need)'
    BY <1>1 DEF Served
  <1>4. \A need : /\ Cardinality(Served(need)) \in Nat /\ Cardinality(Served(need)') \in Nat
                  /\ Cardinality(Served(need)) <= Cardinality(Served(need)')
                  /\ Served(need) # Served(need)' =>
                        Cardinality(Served(need)) + 1 <= Cardinality(Served(need)')
    BY <1>3, ServedAreCounted
  <1>5. /\ client'.built # client.built => Served("client") # Served("client")'
        /\ engine'.built # engine.built => Served("engine") # Served("engine")'
    <2>1. ASSUME client'.built # client.built
          PROVE  t \in Served("client")' /\ t \notin Served("client")
      BY <1>1, <2>1 DEF Served
    <2>2. ASSUME engine'.built # engine.built
          PROVE  t \in Served("engine")' /\ t \notin Served("engine")
      BY <1>1, <2>2 DEF Served
    <2> QED BY <2>1, <2>2
  <1>6. client'.built <= Cardinality(Served("client")')
    BY <1>2, <1>4, <1>5 DEF BuildersAreCounted
  <1>7. engine'.built <= Cardinality(Served("engine")')
    BY <1>2, <1>4, <1>5 DEF BuildersAreCounted
  <1>8. ASSUME NEW u \in Threads
        PROVE  GotWhatIsBuilt(threads'[u], client'.built, engine'.built)
    BY <1>1, <1>2 DEF BuildersAreCounted, GotWhatIsBuilt
  <1> QED BY <1>6, <1>7, <1>8 DEF BuildersAreCounted

\* What is cached was built.
LEMMA CachedIsBuilt ==
    ASSUME ObjectsInv
    PROVE  /\ client.object \in Nat /\ client.built \in Nat /\ client.object <= client.built
           /\ engine.object \in Nat /\ engine.built \in Nat /\ engine.object <= engine.built
  BY DEF ObjectsInv, ObjectsTyped, ClosedIsForgotten

\* The model has no number, and a request that is over keeps its own.
LEMMA ModelKeepsCount ==
    ASSUME IsFiniteSet(Threads), ObjectsInv, BuildersAreCounted, NEW t \in Threads,
           AcquireModel(t) \/ LoadModel(t) \/ LoadFails(t) \/ LeaveThread(t)
    PROVE  BuildersAreCounted'
  <1>1. /\ app' = app /\ client' = client /\ engine' = engine
    BY DEF AcquireModel, LoadModel, LoadFails, LeaveThread
  <1>2. ASSUME NEW new, threads' = [threads EXCEPT ![t] = new], new.got = 0,
               threads[t].pc \notin {"using", "over"}
        PROVE  BuildersAreCounted'
    <2>1. GotWhatIsBuilt(new, client.built, engine.built)
      BY <1>2 DEF GotWhatIsBuilt
    <2> QED BY <1>1, <1>2, <2>1, ThreadKeepsCount
  <1>3. ASSUME NEW name, UseModel(t, name), threads[t].pc \notin {"using", "over"}
        PROVE  BuildersAreCounted'
    <2> DEFINE new == [need |-> "model", key |-> app.key, pc |-> "using", got |-> 0, name |-> name]
    <2>1. threads' = [threads EXCEPT ![t] = new] /\ new.got = 0
      BY <1>3 DEF UseModel
    <2> HIDE DEF new
    <2> QED BY <1>2, <1>3, <2>1
  <1>4. CASE AcquireModel(t)
    <2>1. threads[t].pc = "new"
      BY <1>4 DEF AcquireModel, Enter
    <2> DEFINE new == [Idle EXCEPT !.key = app.key, !.pc = "loading"]
    <2>2. new.got = 0
      BY DEF Idle
    <2>3. CASE threads' = [threads EXCEPT ![t] = new]
      <3> HIDE DEF new
      <3> QED BY <1>2, <2>1, <2>2, <2>3
    <2> QED BY <1>3, <1>4, <2>1, <2>3 DEF AcquireModel
  <1>5. CASE LoadModel(t)
    BY <1>3, <1>5 DEF LoadModel
  <1>6. CASE LoadFails(t) \/ LeaveThread(t)
    <2> DEFINE new == [threads[t] EXCEPT !.pc = "over"]
    <2>1. threads' = [threads EXCEPT ![t] = new]
      BY <1>6 DEF LoadFails, LeaveThread
    <2>2. new.pc = "over" /\ new.need = threads[t].need /\ new.got = threads[t].got
      BY DEF ObjectsInv, ObjectsTyped
    <2>3. GotWhatIsBuilt(threads[t], client.built, engine.built)
      BY DEF BuildersAreCounted
    <2> HIDE DEF new
    <2>4. GotWhatIsBuilt(new, client.built, engine.built)
      BY <2>2, <2>3 DEF GotWhatIsBuilt
    <2> QED BY <1>1, <2>1, <2>2, <2>4, ThreadKeepsCount
  <1> QED BY <1>4, <1>5, <1>6

\* A client or an engine that is cached was built, and one that is built is for this thread.
LEMMA ObjectKeepsCount ==
    ASSUME IsFiniteSet(Threads), ObjectsInv, BuildersAreCounted, NEW t \in Threads,
           LookUpClient(t) \/ BuildClient(t) \/ GetEngine(t)
    PROVE  BuildersAreCounted'
  <1>1. app' = app /\ threads[t].pc \notin {"using", "over"}
    BY DEF LookUpClient, BuildClient, GetEngine, Enter
  <1>2. CASE LookUpClient(t)
    <2>1. client' = client /\ engine' = engine
      BY <1>2 DEF LookUpClient
    <2>2. ASSUME NEW new, threads' = [threads EXCEPT ![t] = new],
                 GotWhatIsBuilt(new, client.built, engine.built)
          PROVE  BuildersAreCounted'
      BY <1>1, <2>1, <2>2, ThreadKeepsCount
    <2> DEFINE cached == [need |-> "client", key |-> app.key, pc |-> "using",
                          got |-> client.object, name |-> "NONE"]
               none == [Idle EXCEPT !.need = "client", !.key = app.key, !.pc = "building"]
    <2>3. GotWhatIsBuilt(cached, client.built, engine.built)
      BY CachedIsBuilt DEF GotWhatIsBuilt
    <2>4. GotWhatIsBuilt(none, client.built, engine.built)
      BY DEF Idle, GotWhatIsBuilt
    <2>5. threads' = [threads EXCEPT ![t] = cached] \/ threads' = [threads EXCEPT ![t] = none]
      BY <1>2 DEF LookUpClient, Use
    <2> HIDE DEF cached, none
    <2> QED BY <2>2, <2>3, <2>4, <2>5
  <1>3. CASE BuildClient(t)
    <2> DEFINE new == [need |-> "client", key |-> app.key, pc |-> "using",
                       got |-> client.built + 1, name |-> "NONE"]
    <2>1. /\ client'.built = client.built + 1 /\ engine' = engine
          /\ threads' = [threads EXCEPT ![t] = new]
      BY <1>3 DEF BuildClient, Use
    <2>2. GotWhatIsBuilt(new, client'.built, engine'.built)
      BY <2>1, CachedIsBuilt DEF GotWhatIsBuilt
    <2>3. new.pc = "using" /\ new.need = "client"
      OBVIOUS
    <2> HIDE DEF new
    <2> QED BY <1>1, <2>1, <2>2, <2>3, ThreadKeepsCount
  <1>4. CASE GetEngine(t)
    <2>1. PICK n \in {engine.object, engine.built + 1} :
             /\ Use(t, "engine", n)
             /\ \/ n = engine.object /\ engine' = engine
                \/ n = engine.built + 1 /\ engine'.built = n
      BY <1>4 DEF GetEngine
    <2> DEFINE new == [need |-> "engine", key |-> app.key, pc |-> "using",
                       got |-> n, name |-> "NONE"]
    <2>2. client' = client /\ threads' = [threads EXCEPT ![t] = new]
      BY <1>4, <2>1 DEF GetEngine, Use
    <2>3. GotWhatIsBuilt(new, client'.built, engine'.built)
      BY <2>1, CachedIsBuilt DEF GotWhatIsBuilt
    <2>4. new.pc = "using" /\ new.need = "engine"
      OBVIOUS
    <2> HIDE DEF new
    <2> QED BY <1>1, <2>1, <2>2, <2>3, <2>4, ThreadKeepsCount
  <1> QED BY <1>2, <1>3, <1>4

\* The lifespan of the application builds nothing.
LEMMA LifespanKeepsCount ==
    ASSUME IsFiniteSet(Threads), ObjectsInv, BuildersAreCounted,
           \/ BeginShutdown \/ DisposeClient \/ DisposeEngine
           \/ \E key \in ModelNames : Restart(key)
           \/ UNCHANGED singletonVars
    PROVE  BuildersAreCounted'
  <1>1. threads' = threads /\ client'.built = client.built /\ engine'.built = engine.built
    BY DEF BeginShutdown, DisposeClient, DisposeEngine, Restart, Cleared, singletonVars,
           ObjectsInv, ObjectsTyped
  <1>2. app'.starts <= MaxStarts
    BY SingletonsAssumption DEF BeginShutdown, DisposeClient, DisposeEngine, Restart,
           singletonVars, ObjectsInv, ObjectsTyped, BuildersAreCounted
  <1> QED BY <1>1, <1>2 DEF BuildersAreCounted, Served

\* The counts of what is built are kept by every step.
LEMMA NextKeepsCount ==
    ASSUME IsFiniteSet(Threads), ObjectsInv, BuildersAreCounted,
           [SingletonsNext]_singletonVars
    PROVE  BuildersAreCounted'
  BY ModelKeepsCount, ObjectKeepsCount, LifespanKeepsCount DEF SingletonsNext

\* SingletonsTypeOK: whatever the threads do at the same time, no more clients and no more
\* engines are built than there are requests (get_llm_provider, get_engine).
THEOREM ObjectsAreBounded == ASSUME IsFiniteSet(Threads) PROVE SingletonsSpec => []SingletonsTypeOK
  <1>1. SingletonsInit => BuildersAreCounted
    <2> SUFFICES ASSUME SingletonsInit PROVE BuildersAreCounted
      OBVIOUS
    <2>1. \A t \in Threads : threads[t].pc = "new" /\ threads[t].got = 0
      BY DEF SingletonsInit, Idle
    <2>2. client.built = 0 /\ engine.built = 0 /\ app.starts = 1
      BY DEF SingletonsInit
    <2> QED BY <2>1, <2>2, ServedAreFew, SingletonsAssumption
            DEF BuildersAreCounted, GotWhatIsBuilt
  <1>2. ObjectsInv /\ BuildersAreCounted => SingletonsTypeOK
    <2> SUFFICES ASSUME ObjectsInv, BuildersAreCounted PROVE SingletonsTypeOK
      OBVIOUS
    <2>1. MaxBuilt \in Nat /\ client.built <= MaxBuilt /\ engine.built <= MaxBuilt
      BY ServedAreFew, CachedIsBuilt DEF BuildersAreCounted
    <2>2. client \in Cached /\ engine \in Cached
      BY <2>1, CachedIsBuilt DEF Cached, ObjectsInv, ObjectsTyped
    <2>3. closed \subseteq {"client", "engine"} \X (1..MaxBuilt)
      <3>1. ASSUME NEW p \in closed
            PROVE  p \in {"client", "engine"} \X (1..MaxBuilt)
        <4>1. PICK kind \in {"client", "engine"}, n \in Nat : p = <<kind, n>>
          BY <3>1 DEF ObjectsInv, ObjectsTyped
        <4>2. n # 0 /\ (n <= client.built \/ n <= engine.built)
          BY <3>1, <4>1 DEF ObjectsInv, ClosedIsForgotten
        <4>3. n \in 1..MaxBuilt
          BY <2>1, <4>2, CachedIsBuilt
        <4> QED BY <4>1, <4>3
      <3> QED BY <3>1
    <2>4. ASSUME NEW t \in Threads
          PROVE  threads[t].got \in 0..MaxBuilt
      <3>1. threads[t].got \in Nat
        BY DEF ObjectsInv, ObjectsTyped
      <3>2. GotWhatIsBuilt(threads[t], client.built, engine.built)
        BY DEF BuildersAreCounted
      <3>3. threads[t].got = 0 \/ threads[t].got <= client.built \/ threads[t].got <= engine.built
        BY <3>2 DEF GotWhatIsBuilt
      <3> QED BY <2>1, <3>1, <3>3, CachedIsBuilt
    <2>5. threads \in [Threads -> [need: Needs, key: ModelNames \union {"NONE"}, pc: ThreadPc,
                                   got: 0..MaxBuilt, name: ModelNames \union {"NONE"}]]
      BY <2>4 DEF ObjectsInv, ObjectsTyped
    <2>6. app \in [phase: {"up", "closing", "disposing", "down"}, key: ModelNames,
                   starts: 0..MaxStarts]
      BY SingletonsAssumption DEF ObjectsInv, ObjectsTyped, BuildersAreCounted
    <2> QED BY <2>2, <2>3, <2>5, <2>6 DEF SingletonsTypeOK, ObjectsInv, ObjectsTyped
  <1>3. ObjectsInv /\ BuildersAreCounted /\ [SingletonsNext]_singletonVars => BuildersAreCounted'
    BY NextKeepsCount
  <1> QED BY <1>1, <1>2, <1>3, ObjectsAreConsistent, PTL DEF SingletonsSpec
-----------------------------------------------------------------------------
(* EvaluationGate: sums of scores *)

\* A sum whose terms are within a bound is within as many times the bound.
LEMMA SumIsBounded ==
    ASSUME NEW f, NEW S, IsFiniteSet(S), NEW u \in Nat, \A x \in S : f[x] \in 0..u
    PROVE  SumOver(f, S) <= u * Cardinality(S)
  <1> DEFINE Good(T) == SumOver(f, T) <= u * Cardinality(T)
             Bad == {T \in SUBSET S : ~ Good(T)}
  <1> SUFFICES ASSUME Bad # {} PROVE FALSE
    BY Zenon
  <1>1. PICK T \in Bad : \A U \in Bad : U \subseteq T => U = T
    <2> HIDE DEF Bad
    <2>1. Bad \in SUBSET SUBSET S
      BY DEF Bad
    <2> QED BY <2>1, SmallestSubset
  <1>2. IsFiniteSet(T) /\ T \subseteq S /\ ~ Good(T)
    BY FS_Subset
  <1>3. T # {}
    <2>1. SumOver(f, {}) = 0 /\ Cardinality({}) = 0 /\ u * 0 = 0
      <3>1. SumOver(f, {}) = 0
        BY FS_EmptySet, SumSteps
      <3> QED BY <3>1, FS_EmptySet
    <2>2. Good({})
      BY <2>1
    <2> QED BY Zenon, <1>2, <2>2
  <1> DEFINE p == Pick(T)
             rest == T \ {p}
             a == u * Cardinality(rest)
             b == SumOver(f, rest)
  <1>4. p \in T
    BY <1>3, PickIsElement
  <1>5. SumOver(f, T) = f[p] + b
    BY <1>2, <1>3, SumSteps
  <1>6. b <= a
    <2>1. rest \notin Bad /\ rest \in SUBSET S
      BY <1>1, <1>2, <1>4
    <2> QED BY <2>1
  <1>7. IsFiniteSet(rest) /\ Cardinality(rest) \in Nat /\ Cardinality(T) = Cardinality(rest) + 1
    BY <1>2, <1>4, FS_RemoveElement, FS_CardinalityType, FS_Subset
  <1>8. b \in Nat /\ f[p] \in 0..u
    <2>1. \A x \in rest : f[x] \in Nat
      BY <1>2
    <2> QED BY <1>2, <1>4, <1>7, <2>1, SumIsNatural
  <1> HIDE DEF p, rest, b
  <1>9. u * Cardinality(T) = a + u /\ a \in Nat
    BY <1>7
  <1> HIDE DEF a
  <1> QED BY <1>2, <1>5, <1>6, <1>8, <1>9

\* A term that is nothing is missing from the sum.
LEMMA MissesCount ==
    ASSUME NEW f, NEW S, IsFiniteSet(S), NEW u \in Nat, \A x \in S : f[x] \in 0..u,
           NEW y \in S, f[y] = 0
    PROVE  SumOver(f, S) + u <= u * Cardinality(S)
  <1> DEFINE rest == S \ {y}
  <1>1. IsFiniteSet(rest) /\ Cardinality(rest) \in Nat /\ Cardinality(S) = Cardinality(rest) + 1
    BY FS_RemoveElement, FS_CardinalityType, FS_Subset
  <1>2. SumOver(f, S) = f[y] + SumOver(f, rest)
    BY SumTakesAny
  <1>3. SumOver(f, rest) \in Nat
    BY <1>1, SumIsNatural
  <1>4. SumOver(f, rest) <= u * Cardinality(rest)
    BY <1>1, SumIsBounded
  <1> DEFINE a == u * Cardinality(rest)
  <1>5. u * Cardinality(S) = a + u /\ a \in Nat
    BY <1>1
  <1> HIDE DEF a, rest
  <1> QED BY <1>2, <1>3, <1>4, <1>5 DEF a

\* A mean of at most one is rounded to at most one, and a mean of few scores to one only
\* if less than one score is missing.
LEMMA MeanIsRounded ==
    ASSUME NEW t \in Nat, NEW u \in Nat \ {0}, NEW n \in Nat \ {0}
    PROVE  LET q == (2 * Precision * t + u * n) \div (2 * (u * n)) IN
           /\ q \in Nat
           /\ t <= u * n => q <= Precision
           /\ n < 2 * Precision /\ t + u <= u * n => q < Precision
  <1> DEFINE v == u * n
             a == 2 * Precision * t + v
             d == 2 * v
             q == a \div d
  <1>1. v \in Nat \ {0}
    OBVIOUS
  <1>2. n < 20000 => v < 20000 * u
    <2>1. ASSUME n < 20000
          PROVE  v < 20000 * u
      <3>1. n = 20000 - (20000 - n) /\ 20000 - n \in Nat \ {0}
        BY <2>1
      <3>2. v = 20000 * u - u * (20000 - n) /\ u * (20000 - n) \in Nat \ {0}
        BY <3>1
      <3> QED BY <3>2
    <2> QED BY <2>1
  <1> HIDE DEF v
  <1>3. a = 20000 * t + v /\ a \in Nat /\ d = 2 * v /\ d \in Nat \ {0}
    BY <1>1 DEF Precision
  <1> HIDE DEF a, d
  <1>4. q \in Nat /\ q * d <= a
    BY <1>3, Division
  <1> HIDE DEF q
  <1>5. ASSUME t <= v, q >= 10001
        PROVE  FALSE
    <2>1. q * d >= 10000 * d + d
      BY <1>3, <1>4, <1>5, ProductIsMonotone
    <2> QED BY <1>1, <1>3, <1>4, <1>5, <2>1
  <1>6. ASSUME n < 20000, t + u <= v, q >= 10000
        PROVE  FALSE
    <2>1. q * d >= 9999 * d + d
      BY <1>3, <1>4, <1>6, ProductIsMonotone
    <2>2. v < 20000 * u
      BY <1>2, <1>6
    <2> QED BY <1>1, <1>3, <1>4, <1>6, <2>1, <2>2
  <1>7. /\ q \in Nat
        /\ t <= v => q <= 10000
        /\ n < 20000 /\ t + u <= v => q < 10000
    BY <1>4, <1>5, <1>6
  <1>8. Precision = 10000 /\ 2 * Precision = 20000
    BY DEF Precision
  <1> QED BY <1>7, <1>8 DEF q, a, d, v

\* The total of a metric is the sum of its scores.
Scores(m) == [i \in DOMAIN gate.examples |-> Score(m, gate.examples[i])]

LEMMA TotalIsSum ==
    ASSUME NEW m, IsFiniteSet(DOMAIN gate.examples)
    PROVE  Total(m) = SumOver(Scores(m), DOMAIN gate.examples)
  <1> DEFINE S == DOMAIN gate.examples
             term(i) == Score(m, gate.examples[i])
             f == Scores(m)
             Adds(g) == g = [s \in SUBSET S |-> IF s = {} THEN 0
                                                ELSE term(Pick(s)) + g[s \ {Pick(s)}]]
             g == CHOOSE g : Adds(g)
  <1>1. Total(m) = g[S]
    BY Zenon DEF Total, MapThenSumSet, MapThenFoldSet, Pick
  <1>2. \A i \in S : term(i) = f[i]
    BY DEF Scores
  <1>0. IsFiniteSet(S) /\ S \subseteq S
    OBVIOUS
  <1> HIDE DEF S, term, f
  <1>3. \A s \in SUBSET S : s # {} => term(Pick(s)) = f[Pick(s)]
    BY <1>2, PickIsElement
  <1>4. ASSUME NEW h
        PROVE  Adds(h) <=> SumsUp(f, S, h)
    BY <1>3 DEF SumsUp
  <1>5. PICK h : SumsUp(f, S, h)
    BY <1>0, SumExists
  <1>6. SumsUp(f, S, g)
    <2>1. Adds(g)
      BY <1>4, <1>5
    <2> HIDE DEF g
    <2> QED BY <1>4, <2>1
  <1> DEFINE e == CHOOSE x : SumsUp(f, S, x)
  <1>7. SumsUp(f, S, e)
    BY <1>5
  <1>8. SumOver(f, S) = e[S]
    BY SumIsSumOf DEF SumOf
  <1> HIDE DEF g, e
  <1>9. g[S] = e[S]
    BY <1>0, <1>6, <1>7, SumsAgree
  <1> QED BY <1>1, <1>8, <1>9 DEF S, f
-----------------------------------------------------------------------------
(* EvaluationGate: no score exceeds one *)

\* The lesser of two numbers.
LEMMA MinOfTwo ==
    ASSUME NEW a \in Nat, NEW b \in Nat
    PROVE  Min({a, b}) = IF a <= b THEN a ELSE b
  BY DEF Min

\* The greater of two numbers.
LEMMA MaxOfTwo ==
    ASSUME NEW a \in Nat, NEW b \in Nat
    PROVE  Max({a, b}) = IF a >= b THEN a ELSE b
  BY DEF Max

\* A set of numbers has a least one.
LEMMA MinIsLeast ==
    ASSUME NEW S \in SUBSET Nat, S # {}
    PROVE  Min(S) \in S /\ \A x \in S : Min(S) <= x
  <1>1. PICK b \in S : TRUE
    OBVIOUS
  <1> DEFINE B == 0..b
             Starts == {T \in SUBSET B : \E m \in S : T = 0..m}
  <1>2. IsFiniteSet(B)
    BY FS_Interval
  <1>3. B \in Starts
    BY <1>1
  <1>4. PICK T \in Starts : \A U \in Starts : U \subseteq T => U = T
    <2>1. Starts \in SUBSET SUBSET B /\ Starts # {}
      BY <1>3
    <2> HIDE DEF Starts, B
    <2> QED BY <1>2, <2>1, SmallestSubset
  <1>5. PICK n \in S : T = 0..n
    BY <1>4
  <1>6. ASSUME NEW m \in S, m < n
        PROVE  FALSE
    <2>1. 0..m \subseteq T /\ 0..m # T
      <3>1. n \in 0..n /\ n \notin 0..m
        BY <1>6
      <3>2. \A i \in 0..m : i \in 0..n
        BY <1>6
      <3> QED BY <1>5, <3>1, <3>2
    <2>2. 0..m \in Starts
      BY <1>4, <2>1
    <2> QED BY <1>4, <2>1, <2>2
  <1>7. \A x \in S : n <= x
    BY <1>5, <1>6
  <1> QED BY <1>5, <1>7 DEF Min

\* A part of a whole, in parts of u.
LEMMA PartOfWhole ==
    ASSUME NEW u \in Nat, NEW p \in Nat, NEW w \in Nat \ {0}, p <= w
    PROVE  (u * p) \div w \in 0..u
  <1>1. u * p \in Nat /\ u * w \in Nat
    OBVIOUS
  <1>2. u * w = u * p + u * (w - p) /\ w - p \in Nat
    OBVIOUS
  <1>3. u * (w - p) \in Nat
    BY <1>2
  <1>4. u * p <= u * w
    BY <1>1, <1>2, <1>3
  <1> DEFINE q == (u * p) \div w
             a == u * p
  <1>5. q \in Nat /\ q * w <= a
    <2> HIDE DEF a
    <2> QED BY <1>1, Division DEF a
  <1>6. ASSUME q >= u + 1
        PROVE  FALSE
    <2> HIDE DEF q
    <2>1. q * w >= u * w + w
      BY <1>5, <1>6, ProductIsMonotone
    <2> QED BY <1>1, <1>4, <1>5, <2>1
  <1> QED BY <1>5, <1>6

\* What an example of the schema is.
LEMMA ExampleShape ==
    ASSUME NEW e \in Examples
    PROVE  /\ e.expected \subseteq Sources /\ e.expected # {} /\ IsFiniteSet(e.expected)
           /\ IsFiniteSet(e.cited)
           /\ e.words # {} /\ IsFiniteSet(e.words)
           /\ e.retrieved \in Seq(Sources)
  <1> DEFINE R == UNION {[1..n -> Sources] : n \in 0..MaxRetrieved}
             X == {x \in SUBSET Sources : Min(Sources) \in x}
  <1>1. IsFiniteSet(Sources) /\ MaxRetrieved \in Nat
    BY GateAssumption
  <1>2. \/ \E x \in X, r \in R : e = [expected |-> x, retrieved |-> r, cited |-> x, words |-> x]
        \/ \E x \in X, r \in R, c \in SUBSET Sources :
              e = [expected |-> x, retrieved |-> r, cited |-> c, words |-> {Min(Sources)}]
    BY DEF Examples
  <1>3. PICK x \in X, r \in R, c \in SUBSET Sources, w \in SUBSET Sources :
           /\ w \in {x, {Min(Sources)}}
           /\ e = [expected |-> x, retrieved |-> r, cited |-> c, words |-> w]
    BY <1>2
  <1>4. x \subseteq Sources /\ x # {} /\ IsFiniteSet(x) /\ IsFiniteSet(c)
    BY <1>1, FS_Subset
  <1>5. w # {} /\ IsFiniteSet(w)
    BY <1>1, <1>3, <1>4, FS_Subset
  <1>6. \A n \in Nat : \A s \in [1..n -> Sources] : s \in Seq(Sources)
    OBVIOUS
  <1>7. r \in Seq(Sources)
    BY <1>1, <1>6
  <1> QED BY <1>3, <1>4, <1>5, <1>7

\* The first k of a sequence, or all of it.
LEMMA FirstOnes ==
    ASSUME NEW T, NEW s \in Seq(T), NEW k \in Nat
    PROVE  LET n == Min({k, Len(s)})
               top == SubSeq(s, 1, n) IN
           /\ n \in Nat /\ n <= k /\ n <= Len(s)
           /\ top \in Seq(T) /\ Len(top) = n
           /\ \A i \in 1..n : top[i] = s[i]
  <1> DEFINE n == Min({k, Len(s)})
  <1>1. n \in Nat /\ n <= k /\ n <= Len(s)
    BY MinOfTwo
  <1> HIDE DEF n
  <1>2. SubSeq(s, 1, n) \in Seq(T) /\ Len(SubSeq(s, 1, n)) = n
    BY <1>1
  <1>3. \A i \in 1..n : SubSeq(s, 1, n)[i] = s[i]
    BY <1>1
  <1> QED BY <1>1, <1>2, <1>3 DEF n

\* A sequence has at most as many members as it is long.
LEMMA MembersAreFew ==
    ASSUME NEW T, NEW s \in Seq(T)
    PROVE  /\ IsFiniteSet(ToSet(s)) /\ ToSet(s) \subseteq T
           /\ Cardinality(ToSet(s)) \in Nat /\ Cardinality(ToSet(s)) <= Len(s)
  <1>1. DOMAIN s = 1..Len(s) /\ Len(s) \in Nat
    OBVIOUS
  <1>2. s \in Surjection(1..Len(s), ToSet(s))
    BY <1>1 DEF Surjection, ToSet
  <1>3. IsFiniteSet(1..Len(s)) /\ Cardinality(1..Len(s)) = Len(s)
    BY <1>1, FS_Interval
  <1>4. IsFiniteSet(ToSet(s)) /\ Cardinality(ToSet(s)) <= Len(s)
    BY <1>2, <1>3, FS_Surjection
  <1>5. ToSet(s) \subseteq T
    BY <1>1 DEF ToSet
  <1> QED BY <1>4, <1>5, FS_CardinalityType
-----------------------------------------------------------------------------
(* EvaluationGate: the nDCG *)

\* The last of a finite set of numbers.
LEMMA HasGreatest ==
    ASSUME NEW S \in SUBSET Nat, S # {}, NEW b \in Nat, \A x \in S : x <= b
    PROVE  \E m \in S : \A x \in S : x <= m
  <1> DEFINE Gaps == {b - x : x \in S}
  <1>1. Gaps \in SUBSET Nat /\ Gaps # {}
    <2>1. \A x \in S : b - x \in Nat
      OBVIOUS
    <2> QED BY <2>1
  <1>2. Min(Gaps) \in Gaps /\ \A g \in Gaps : Min(Gaps) <= g
    <2> HIDE DEF Gaps
    <2> QED BY <1>1, MinIsLeast
  <1>3. PICK m \in S : Min(Gaps) = b - m
    BY <1>2
  <1>4. \A x \in S : b - m <= b - x
    BY <1>2, <1>3
  <1>5. \A x \in S : x <= m
    BY <1>4
  <1> QED BY <1>5

\* Ranks are discounted most if they are the first ones.
LEMMA FirstRanksCountMost ==
    ASSUME NEW R \in SUBSET DOMAIN Discount, NEW n \in Nat, n <= Len(Discount),
           Cardinality(R) <= n
    PROVE  SumOver(Discount, R) <= SumOver(Discount, 1..n)
  <1> DEFINE D == DOMAIN Discount
             Tops(T) == SumOver(Discount, T) <= SumOver(Discount, 1..Cardinality(T))
             Bad == {T \in SUBSET D : ~ Tops(T)}
  <1>1. /\ Len(Discount) \in Nat /\ D = 1..Len(Discount) /\ IsFiniteSet(D)
        /\ \A i \in D : Discount[i] \in Nat
        /\ \A i, j \in D : i <= j => Discount[i] >= Discount[j]
    <2>1. Discount \in Seq(Nat \ {0})
      BY GateAssumption
    <2>2. Len(Discount) \in Nat /\ D = 1..Len(Discount) /\ \A i \in D : Discount[i] \in Nat
      BY <2>1
    <2>3. IsFiniteSet(1..Len(Discount))
      BY <2>2, FS_Interval
    <2>4. \A i, j \in D : i < j => Discount[i] >= Discount[j]
      BY GateAssumption
    <2>5. \A i, j \in D : i <= j => i < j \/ i = j
      BY <2>2
    <2>6. \A i, j \in D : i = j => Discount[i] >= Discount[j]
      BY <2>2
    <2> QED BY <2>2, <2>3, <2>4, <2>5, <2>6
  <1>2. \A T \in SUBSET D : /\ IsFiniteSet(T) /\ Cardinality(T) \in Nat
                            /\ SumOver(Discount, T) \in Nat
    BY <1>1, FS_Subset, FS_CardinalityType, SumIsNatural
  <1>3. ASSUME Bad # {}
        PROVE  FALSE
    <2>1. PICK T \in Bad : \A U \in Bad : U \subseteq T => U = T
      <3> HIDE DEF Bad
      <3>1. Bad \in SUBSET SUBSET D
        BY DEF Bad
      <3> QED BY <1>1, <1>3, <3>1, SmallestSubset
    <2>2. T \in SUBSET D /\ ~ Tops(T) /\ IsFiniteSet(T)
      BY <1>2, <2>1
    <2>3. T # {}
      <3>1. Cardinality({}) = 0 /\ 1..0 = {}
        BY FS_EmptySet
      <3>2. T = {} => SumOver(Discount, T) = SumOver(Discount, 1..Cardinality(T))
        BY <3>1
      <3> QED BY <1>2, <2>2, <3>2
    <2>4. PICK m \in T : \A x \in T : x <= m
      <3>1. T \in SUBSET Nat /\ \A x \in T : x <= Len(Discount)
        BY <1>1, <2>2
      <3> QED BY <1>1, <2>3, <3>1, HasGreatest
    <2> DEFINE rest == T \ {m}
               c == Cardinality(rest)
    <2>5. c \in Nat /\ Cardinality(T) = c + 1 /\ rest \in SUBSET D
      BY <1>2, <2>2, FS_RemoveElement
    <2>6. c + 1 <= m
      <3>1. T \subseteq 1..m
        BY <1>1, <2>2, <2>4
      <3>2. m \in Nat /\ IsFiniteSet(1..m) /\ Cardinality(1..m) = m
        <4>1. m \in Nat
          BY <1>1, <2>2
        <4>2. IsFiniteSet(1..m) /\ Cardinality(1..m) = IF 1 > m THEN 0 ELSE m - 1 + 1
          BY <4>1, FS_Interval
        <4> QED BY <4>1, <4>2
      <3>3. Cardinality(T) <= Cardinality(1..m)
        BY <3>1, <3>2, FS_Subset
      <3> QED BY <2>5, <3>2, <3>3
    <2>7. Tops(rest)
      <3>1. rest \notin Bad
        BY <2>1, <2>4
      <3> QED BY <2>5, <3>1
    <2>8. SumOver(Discount, T) = Discount[m] + SumOver(Discount, rest)
      BY <1>1, <2>2, SumTakesAny
    <2>9. SumOver(Discount, 1..(c + 1)) = Discount[c + 1] + SumOver(Discount, 1..c)
      <3>1. c + 1 \in 1..(c + 1) /\ 1..(c + 1) \subseteq D /\ (1..(c + 1)) \ {c + 1} = 1..c
        <4>1. m \in Nat /\ m <= Len(Discount)
          BY <1>1, <2>2
        <4> HIDE DEF c
        <4>2. (1..(c + 1)) \ {c + 1} = 1..c
          BY <2>5
        <4>3. c + 1 \in 1..(c + 1) /\ 1..(c + 1) \subseteq 1..Len(Discount)
          BY <1>1, <2>5, <2>6, <4>1
        <4> QED BY <1>1, <4>2, <4>3
      <3>2. IsFiniteSet(1..(c + 1)) /\ \A i \in 1..(c + 1) : Discount[i] \in Nat
        BY <1>1, <1>2, <3>1
      <3>3. SumOver(Discount, 1..(c + 1))
               = Discount[c + 1] + SumOver(Discount, (1..(c + 1)) \ {c + 1})
        <4> DEFINE S == 1..(c + 1)
                   p == c + 1
        <4>1. IsFiniteSet(S) /\ p \in S /\ \A i \in S : Discount[i] \in Nat
          BY <3>1, <3>2
        <4> HIDE DEF S, p
        <4>2. SumOver(Discount, S) = Discount[p] + SumOver(Discount, S \ {p})
          BY <4>1, SumTakesAny
        <4> QED BY <4>2 DEF S, p
      <3> QED BY <3>1, <3>3
    <2>10. Discount[c + 1] >= Discount[m] /\ Discount[c + 1] \in Nat /\ Discount[m] \in Nat
      BY <1>1, <2>2, <2>5, <2>6
    <2>11. SumOver(Discount, 1..c) \in Nat /\ SumOver(Discount, rest) \in Nat
      <3>1. 1..c \in SUBSET D
        BY <1>1, <2>2, <2>5, <2>6
      <3> QED BY <1>2, <2>5, <3>1
    <2> HIDE DEF c, rest
    <2>12. SumOver(Discount, rest) <= SumOver(Discount, 1..c)
      BY <2>7 DEF c
    <2>13. SumOver(Discount, T) <= SumOver(Discount, 1..(c + 1))
      BY <2>8, <2>9, <2>10, <2>11, <2>12
    <2> QED BY <2>2, <2>5, <2>13
  <1>4. Tops(R)
    BY <1>3
  <1> DEFINE d == Cardinality(R)
  <1>5. d \in Nat /\ d <= n
    BY <1>2
  <1>6. 1..d \in SUBSET (1..n) /\ 1..n \in SUBSET D
    BY <1>1, <1>5
  <1>7. SumOver(Discount, 1..n) = SumOver(Discount, 1..d) + SumOver(Discount, (1..n) \ (1..d))
    <2> DEFINE S == 1..n
               A == 1..d
    <2>1. IsFiniteSet(S) /\ (\A i \in S : Discount[i] \in Nat) /\ A \in SUBSET S
      BY <1>1, <1>2, <1>6
    <2> HIDE DEF S, A
    <2>2. SumOver(Discount, S) = SumOver(Discount, A) + SumOver(Discount, S \ A)
      BY <2>1, SumOfParts
    <2> QED BY <2>2 DEF S, A
  <1>8. /\ SumOver(Discount, R) \in Nat /\ SumOver(Discount, 1..d) \in Nat
        /\ SumOver(Discount, (1..n) \ (1..d)) \in Nat
    BY <1>2, <1>6
  <1> QED BY <1>4, <1>7, <1>8
-----------------------------------------------------------------------------
(* EvaluationGate: no score exceeds one, but the nDCG of sources found twice *)

\* What is scored of the sources that were retrieved: the first k.
LEMMA TopShape ==
    ASSUME NEW e \in Examples, gate.k \in TopKs
    PROVE  /\ gate.k \in Nat \ {0} /\ gate.k <= Len(Discount) /\ Len(Discount) \in Nat
           /\ TopRetrieved(e) \in Seq(Sources) /\ Len(TopRetrieved(e)) <= gate.k
           /\ DOMAIN TopRetrieved(e) \subseteq DOMAIN e.retrieved
           /\ \A i \in DOMAIN TopRetrieved(e) : TopRetrieved(e)[i] = e.retrieved[i]
           /\ RelevantCount(e) \in Nat /\ RelevantCount(e) <= Len(TopRetrieved(e))
           /\ RelevantCount(e) > 0 => e.expected \intersect ToSet(TopRetrieved(e)) # {}
  <1> DEFINE top == TopRetrieved(e)
  <1>1. gate.k \in Nat \ {0} /\ gate.k <= Len(Discount) /\ Len(Discount) \in Nat
    <2>1. Discount \in Seq(Nat \ {0}) /\ gate.k \in DOMAIN Discount
      BY GateAssumption
    <2> QED BY <2>1
  <1>2. e.retrieved \in Seq(Sources)
    BY ExampleShape
  <1>3. /\ top \in Seq(Sources) /\ Len(top) \in Nat
        /\ Len(top) <= gate.k /\ Len(top) <= Len(e.retrieved)
        /\ \A i \in 1..Len(top) : top[i] = e.retrieved[i]
    <2> DEFINE n == Min({gate.k, Len(e.retrieved)})
               first == SubSeq(e.retrieved, 1, n)
    <2>1. /\ n \in Nat /\ n <= gate.k /\ n <= Len(e.retrieved)
          /\ first \in Seq(Sources) /\ Len(first) = n
          /\ \A i \in 1..n : first[i] = e.retrieved[i]
      <3>1. gate.k \in Nat
        BY <1>1
      <3> QED BY Zenon, <1>2, <3>1, FirstOnes
    <2>2. top = first
      BY DEF TopRetrieved
    <2> HIDE DEF n, first, top
    <2> QED BY <2>1, <2>2
  <1>4. /\ IsFiniteSet(ToSet(top))
        /\ Cardinality(ToSet(top)) \in Nat /\ Cardinality(ToSet(top)) <= Len(top)
    BY <1>3, MembersAreFew
  <1>5. /\ IsFiniteSet(e.expected \intersect ToSet(top))
        /\ Cardinality(e.expected \intersect ToSet(top)) <= Cardinality(ToSet(top))
    BY <1>4, FS_Subset
  <1>6. RelevantCount(e) = Cardinality(e.expected \intersect ToSet(top))
    BY DEF RelevantCount
  <1>7. RelevantCount(e) \in Nat
    BY <1>5, <1>6, FS_CardinalityType
  <1>8. RelevantCount(e) > 0 => e.expected \intersect ToSet(top) # {}
    BY <1>6, FS_EmptySet
  <1>9. DOMAIN top = 1..Len(top) /\ DOMAIN e.retrieved = 1..Len(e.retrieved)
    BY <1>2, <1>3
  <1>10. DOMAIN top \subseteq DOMAIN e.retrieved
    <2>1. Len(e.retrieved) \in Nat
      BY <1>2
    <2> HIDE DEF top
    <2> QED BY <1>3, <1>9, <2>1
  <1>11. RelevantCount(e) <= Len(top)
    BY <1>3, <1>4, <1>5, <1>6, <1>7
  <1> QED BY <1>1, <1>3, <1>7, <1>8, <1>9, <1>10, <1>11

\* The ranks of what was found.
FoundAt(e) == {i \in DOMAIN TopRetrieved(e) : TopRetrieved(e)[i] \in e.expected}

\* An nDCG is a number, and at most one if no source was found twice: the sources
\* found are at most as many as the ideal ranking has, and its ranks are the first.
LEMMA NdcgIsBounded ==
    ASSUME NEW e \in Examples, gate.k \in TopKs
    PROVE  /\ Ndcg(e) \in Nat
           /\ IsInjective(e.retrieved) => Ndcg(e) \in 0..Unit
  <1> DEFINE top == TopRetrieved(e)
             n == Min({Cardinality(e.expected), gate.k})
             found == SumOver(Discount, FoundAt(e))
             most == SumOver(Discount, 1..n)
  <1>1. /\ gate.k \in Nat \ {0} /\ gate.k <= Len(Discount) /\ Len(Discount) \in Nat
        /\ top \in Seq(Sources) /\ Len(top) <= gate.k
        /\ DOMAIN top \subseteq DOMAIN e.retrieved
        /\ \A i \in DOMAIN top : top[i] = e.retrieved[i]
    BY TopShape
  <1>2. Ndcg(e) = (Unit * found) \div most
    BY Zenon DEF Ndcg, Discounted, SumOver, FoundAt
  <1>3. IsFiniteSet(e.expected) /\ Cardinality(e.expected) \in Nat \ {0}
    <2>1. IsFiniteSet(e.expected) /\ e.expected # {}
      BY ExampleShape
    <2> QED BY <2>1, FS_EmptySet, FS_CardinalityType
  <1>4. n \in Nat \ {0} /\ n <= gate.k /\ n <= Len(Discount)
        /\ (n = gate.k \/ n = Cardinality(e.expected))
    BY <1>1, <1>3, MinOfTwo
  <1>5. DOMAIN top = 1..Len(top) /\ Len(top) \in Nat /\ DOMAIN Discount = 1..Len(Discount)
    <2>1. Discount \in Seq(Nat \ {0})
      BY GateAssumption
    <2> QED BY <1>1, <2>1
  <1>6. /\ IsFiniteSet(DOMAIN top) /\ Cardinality(DOMAIN top) = Len(top)
        /\ IsFiniteSet(DOMAIN Discount)
    <2>1. \A j \in Nat : IsFiniteSet(1..j) /\ Cardinality(1..j) = j
      <3> TAKE j \in Nat
      <3>1. IsFiniteSet(1..j) /\ Cardinality(1..j) = IF 1 > j THEN 0 ELSE j - 1 + 1
        BY FS_Interval
      <3> QED BY <3>1
    <2> QED BY <1>1, <1>5, <2>1
  <1>7. \A i \in DOMAIN Discount : Discount[i] \in Nat \ {0}
    BY GateAssumption
  <1> HIDE DEF n
  <1>8. FoundAt(e) \subseteq DOMAIN top /\ DOMAIN top \subseteq DOMAIN Discount
    BY <1>1, <1>5 DEF FoundAt
  <1>9. /\ IsFiniteSet(FoundAt(e)) /\ Cardinality(FoundAt(e)) \in Nat
        /\ Cardinality(FoundAt(e)) <= Len(top)
    BY <1>6, <1>8, FS_Subset, FS_CardinalityType
  <1>10. found \in Nat
    <2>1. \A i \in FoundAt(e) : Discount[i] \in Nat
      BY <1>7, <1>8
    <2> QED BY <1>9, <2>1, SumIsNatural
  <1>11. most \in Nat \ {0}
    <2> DEFINE S == 1..n
    <2>1. S \subseteq DOMAIN Discount /\ 1 \in S
      BY <1>1, <1>4, <1>5
    <2>2. IsFiniteSet(S) /\ IsFiniteSet(S \ {1}) /\ \A i \in S : Discount[i] \in Nat \ {0}
      BY <1>6, <1>7, <2>1, FS_Subset
    <2> HIDE DEF S
    <2>3. SumOver(Discount, S) = Discount[1] + SumOver(Discount, S \ {1})
      BY <2>1, <2>2, SumTakesAny
    <2>4. SumOver(Discount, S \ {1}) \in Nat
      BY <2>2, SumIsNatural
    <2>5. SumOver(Discount, S) \in Nat \ {0}
      BY <2>1, <2>2, <2>3, <2>4
    <2> QED BY <2>5 DEF S
  <1>12. Unit \in Nat
    BY GateAssumption
  <1>13. Unit * found \in Nat
    BY <1>10, <1>12
  <1>14. Ndcg(e) \in Nat
    <2> DEFINE p == Unit * found
    <2> HIDE DEF p, most
    <2>1. p \div most \in Nat
      BY <1>11, <1>13, Division DEF p
    <2> QED BY <1>2, <2>1 DEF p
  <1>15. ASSUME IsInjective(e.retrieved)
         PROVE  Ndcg(e) \in 0..Unit
    <2>1. Cardinality(FoundAt(e)) <= Cardinality(e.expected)
      <3> DEFINE f == [i \in FoundAt(e) |-> top[i]]
      <3>1. \A i \in FoundAt(e) : top[i] \in e.expected /\ top[i] = e.retrieved[i]
                               /\ i \in DOMAIN e.retrieved
        BY <1>1, <1>8 DEF FoundAt
      <3>2. IsInjective(f) /\ f \in [FoundAt(e) -> e.expected]
        BY <1>15, <3>1 DEF IsInjective
      <3>3. f \in Injection(FoundAt(e), e.expected)
        BY <3>2 DEF Injection
      <3> HIDE DEF f
      <3> QED BY <1>3, <3>3, FS_Injection
    <2>2. Cardinality(FoundAt(e)) <= n
      BY <1>1, <1>4, <1>5, <1>9, <2>1
    <2>3. found <= most
      BY <1>4, <1>8, <2>2, FirstRanksCountMost
    <2> HIDE DEF found, most
    <2>4. (Unit * found) \div most \in 0..Unit
      BY <1>10, <1>11, <1>12, <2>3, PartOfWhole
    <2> QED BY <1>2, <2>4
  <1> QED BY <1>14, <1>15

\* A share of a whole that has something is between nothing and all of it.
LEMMA ShareIsBounded ==
    ASSUME NEW part, NEW whole, IsFiniteSet(whole), whole # {}
    PROVE  Share(part, whole) \in 0..Unit
  <1>1. Cardinality(whole) \in Nat \ {0}
    BY FS_EmptySet, FS_CardinalityType
  <1>2. /\ Cardinality(part \intersect whole) \in Nat
        /\ Cardinality(part \intersect whole) <= Cardinality(whole)
    BY FS_Subset, FS_CardinalityType
  <1>3. Unit \in Nat
    BY GateAssumption
  <1> QED BY <1>1, <1>2, <1>3, PartOfWhole DEF Share

\* The F1 of two sets of words is at most one.
LEMMA RelevanceIsBounded ==
    ASSUME NEW e \in Examples
    PROVE  AnswerRelevance(e) \in 0..Unit
  <1> DEFINE c == Cardinality(e.words \intersect e.expected)
             w == Cardinality(e.words)
             x == Cardinality(e.expected)
  <1>1. /\ IsFiniteSet(e.expected) /\ e.expected # {}
        /\ IsFiniteSet(e.words) /\ e.words # {}
    BY ExampleShape
  <1>2. w \in Nat \ {0} /\ x \in Nat \ {0}
    BY <1>1, FS_EmptySet, FS_CardinalityType
  <1>3. c \in Nat /\ c <= w /\ c <= x
    <2>1. IsFiniteSet(e.words \intersect e.expected)
      BY <1>1, FS_Subset
    <2> QED BY <1>1, <2>1, FS_Subset, FS_CardinalityType
  <1>4. Unit \in Nat
    BY GateAssumption
  <1>5. AnswerRelevance(e) = (Unit * 2 * c) \div (w + x)
    BY DEF AnswerRelevance
  <1> HIDE DEF c, w, x
  <1>6. Unit * 2 * c = Unit * (2 * c)
    BY <1>3, <1>4
  <1>7. 2 * c \in Nat /\ w + x \in Nat \ {0} /\ 2 * c <= w + x
    BY <1>2, <1>3
  <1>8. (Unit * (2 * c)) \div (w + x) \in 0..Unit
    BY <1>4, <1>7, PartOfWhole
  <1> QED BY <1>5, <1>6, <1>8

\* The reciprocal of the first rank, if there is one, is at most one.
LEMMA ReciprocalIsBounded ==
    ASSUME NEW e \in Examples, gate.k \in TopKs
    PROVE  ReciprocalRank(e) \in 0..Unit
  <1>1. Unit \in Nat
    BY GateAssumption
  <1>2. ReciprocalRank(e) = IF FoundAt(e) = {} THEN 0 ELSE Unit \div Min(FoundAt(e))
    BY Zenon DEF ReciprocalRank, FoundAt
  <1>3. ASSUME FoundAt(e) # {}
        PROVE  Unit \div Min(FoundAt(e)) \in 0..Unit
    <2>1. DOMAIN TopRetrieved(e) \subseteq Nat \ {0}
      <3>1. TopRetrieved(e) \in Seq(Sources)
        BY TopShape
      <3> QED BY <3>1
    <2>2. FoundAt(e) \subseteq Nat \ {0}
      BY <2>1 DEF FoundAt
    <2>3. Min(FoundAt(e)) \in Nat \ {0}
      BY <1>3, <2>2, MinIsLeast
    <2>4. (Unit * 1) \div Min(FoundAt(e)) \in 0..Unit
      BY <1>1, <2>3, PartOfWhole
    <2> QED BY <1>1, <2>4
  <1> QED BY <1>1, <1>2, <1>3

\* The relevant ones among the sources kept are at most all of them.
LEMMA ContextIsBounded ==
    ASSUME NEW e \in Examples, gate.k \in TopKs
    PROVE  ContextRelevance(e) \in 0..Unit
  <1> DEFINE n == Len(TopRetrieved(e))
             w == Max({1, n})
  <1>1. n \in Nat /\ RelevantCount(e) \in Nat /\ RelevantCount(e) <= n
    <2>1. TopRetrieved(e) \in Seq(Sources)
      BY TopShape
    <2> QED BY <2>1, TopShape
  <1>2. Unit \in Nat
    BY GateAssumption
  <1>3. ContextRelevance(e) = (Unit * RelevantCount(e)) \div w
    BY DEF ContextRelevance
  <1> HIDE DEF n
  <1>4. w \in Nat \ {0} /\ n <= w
    BY <1>1, MaxOfTwo
  <1> HIDE DEF w
  <1>5. (Unit * RelevantCount(e)) \div w \in 0..Unit
    BY <1>1, <1>2, <1>4, PartOfWhole
  <1> QED BY <1>3, <1>5

\* No score exceeds one, but for the nDCG of sources that were found twice.
LEMMA ScoresAreBounded ==
    ASSUME NEW e \in Examples, gate.k \in TopKs, NEW m \in Metrics,
           m # "ndcg_at_k" \/ IsInjective(e.retrieved)
    PROVE  Score(m, e) \in 0..Unit
  <1>1. Unit \in Nat
    BY GateAssumption
  <1>2. /\ IsFiniteSet(e.expected) /\ e.expected # {}
        /\ IsFiniteSet(e.words) /\ e.words # {}
    BY ExampleShape
  <1>3. AsScore(RelevantCount(e) > 0) \in 0..Unit
    BY <1>1 DEF AsScore
  <1>4. AsScore(CitationCorrect(e)) \in 0..Unit
    BY <1>1 DEF AsScore
  <1>5. /\ Share(ToSet(TopRetrieved(e)), e.expected) \in 0..Unit
        /\ Share(e.cited, e.expected) \in 0..Unit
        /\ Faithfulness(e) \in 0..Unit
    BY <1>2, ShareIsBounded DEF Faithfulness
  <1>6. /\ AnswerRelevance(e) \in 0..Unit
        /\ ReciprocalRank(e) \in 0..Unit
        /\ ContextRelevance(e) \in 0..Unit
    BY RelevanceIsBounded, ReciprocalIsBounded, ContextIsBounded
  <1>7. m = "ndcg_at_k" => Ndcg(e) \in 0..Unit
    BY NdcgIsBounded
  <1> QED BY <1>3, <1>4, <1>5, <1>6, <1>7 DEF Score, Metrics

\* The total of a metric is a number, at most that of as many ones, and short of it by
\* one for every example that has no score.
LEMMA TotalIsBounded ==
    ASSUME gate.examples \in Seq(Examples), gate.k \in TopKs, NEW m \in Metrics,
           m # "ndcg_at_k" \/ \A e \in ToSet(gate.examples) : IsInjective(e.retrieved)
    PROVE  /\ Total(m) \in Nat /\ Total(m) <= Unit * Len(gate.examples)
           /\ \A e \in ToSet(gate.examples) :
                 Score(m, e) = 0 => Total(m) + Unit <= Unit * Len(gate.examples)
  <1> DEFINE S == DOMAIN gate.examples
  <1>1. S = 1..Len(gate.examples) /\ Len(gate.examples) \in Nat
    OBVIOUS
  <1>2. IsFiniteSet(S) /\ Cardinality(S) = Len(gate.examples)
    <2>1. \A j \in Nat : IsFiniteSet(1..j) /\ Cardinality(1..j) = j
      <3> TAKE j \in Nat
      <3>1. IsFiniteSet(1..j) /\ Cardinality(1..j) = IF 1 > j THEN 0 ELSE j - 1 + 1
        BY FS_Interval
      <3> QED BY <3>1
    <2> QED BY <1>1, <2>1
  <1>3. \A i \in S : gate.examples[i] \in Examples /\ gate.examples[i] \in ToSet(gate.examples)
    BY DEF ToSet
  <1>4. Total(m) = SumOver(Scores(m), S)
    BY <1>2, TotalIsSum
  <1>5. Unit \in Nat
    BY GateAssumption
  <1>6. \A i \in S : Scores(m)[i] = Score(m, gate.examples[i])
    BY DEF Scores
  <1>7. \A i \in S : Scores(m)[i] \in 0..Unit
    BY <1>3, <1>6, ScoresAreBounded
  <1>8. \A e \in ToSet(gate.examples) : \E i \in S : gate.examples[i] = e
    BY DEF ToSet
  <1> HIDE DEF S
  <1>9. Total(m) \in Nat /\ Total(m) <= Unit * Len(gate.examples)
    <2>1. \A i \in S : Scores(m)[i] \in Nat
      BY <1>5, <1>7
    <2> QED BY <1>2, <1>4, <1>5, <1>7, <2>1, SumIsBounded, SumIsNatural
  <1>10. ASSUME NEW e \in ToSet(gate.examples), Score(m, e) = 0
         PROVE  Total(m) + Unit <= Unit * Len(gate.examples)
    <2>1. PICK i \in S : Scores(m)[i] = 0
      BY <1>6, <1>8, <1>10
    <2> QED BY <1>2, <1>4, <1>5, <1>7, <2>1, MissesCount
  <1> QED BY <1>9, <1>10

\* No mean exceeds one, but for that of the nDCG, and none of few scores is rounded to
\* one if an example has none.
LEMMA MeansAreAtMostOne ==
    ASSUME gate.examples \in Seq(Examples), gate.k \in TopKs, gate.examples # << >>,
           NEW m \in Metrics,
           m # "ndcg_at_k" \/ \A e \in ToSet(gate.examples) : IsInjective(e.retrieved)
    PROVE  /\ Mean(m) \in Nat /\ Mean(m) <= Precision
           /\ Len(gate.examples) < 2 * Precision /\ Mean(m) >= Precision =>
                 \A e \in ToSet(gate.examples) : Score(m, e) # 0
  <1> DEFINE n == Len(gate.examples)
  <1>1. n \in Nat \ {0}
    OBVIOUS
  <1>2. Unit \in Nat \ {0}
    BY GateAssumption
  <1>3. /\ Total(m) \in Nat /\ Total(m) <= Unit * n
        /\ \A e \in ToSet(gate.examples) : Score(m, e) = 0 => Total(m) + Unit <= Unit * n
    BY TotalIsBounded
  <1>4. Mean(m) = (2 * Precision * Total(m) + Unit * n) \div (2 * (Unit * n))
    BY DEF Mean
  <1> HIDE DEF n
  <1>5. /\ Mean(m) \in Nat /\ Mean(m) <= Precision
        /\ n < 2 * Precision /\ Total(m) + Unit <= Unit * n => Mean(m) < Precision
    BY <1>1, <1>2, <1>3, <1>4, MeanIsRounded
  <1>6. Precision \in Nat
    BY DEF Precision
  <1> QED BY <1>3, <1>5, <1>6 DEF n

\* The lines that are not blank are numbered one by one.
FilledIn(file, n) == Cardinality({i \in 1..n : file[i] # BlankLine})

LEMMA LinesAreCounted ==
    ASSUME NEW file, NEW n \in Nat
    PROVE  /\ FilledIn(file, n) \in Nat /\ FilledIn(file, n) <= n /\ FilledIn(file, 0) = 0
           /\ FilledIn(file, n + 1)
                 = IF file[n + 1] = BlankLine THEN FilledIn(file, n) ELSE FilledIn(file, n) + 1
  <1> DEFINE S(j) == {i \in 1..j : file[i] # BlankLine}
  <1>1. IsFiniteSet(S(n))
    <2>1. IsFiniteSet(1..n) /\ S(n) \subseteq 1..n
      BY FS_Interval
    <2> HIDE DEF S
    <2> QED BY <2>1, FS_Subset
  <1>2. FilledIn(file, n) = Cardinality(S(n)) /\ FilledIn(file, n + 1) = Cardinality(S(n + 1))
    BY DEF FilledIn
  <1>3. S(n + 1) = IF file[n + 1] = BlankLine THEN S(n) ELSE S(n) \union {n + 1}
    <2>1. 1..(n + 1) = (1..n) \union {n + 1}
      OBVIOUS
    <2> QED BY <2>1
  <1>4. n + 1 \notin S(n)
    OBVIOUS
  <1>5. FilledIn(file, 0) = 0
    <2>1. S(0) = {}
      OBVIOUS
    <2> QED BY <2>1, FS_EmptySet DEF FilledIn
  <1> HIDE DEF S
  <1>6. Cardinality(S(n)) \in Nat
    BY <1>1, FS_CardinalityType
  <1>7. Cardinality(S(n) \union {n + 1}) = Cardinality(S(n)) + 1
    BY <1>1, <1>4, FS_AddElement
  <1>8. Cardinality(S(n)) <= n
    <2>1. IsFiniteSet(1..n) /\ S(n) \subseteq 1..n
      BY FS_Interval DEF S
    <2>2. Cardinality(1..n) = IF 1 > n THEN 0 ELSE n - 1 + 1
      BY FS_Interval
    <2>3. Cardinality(S(n)) <= Cardinality(1..n)
      BY <2>1, FS_Subset
    <2> QED BY <2>2, <2>3
  <1> QED BY <1>2, <1>3, <1>5, <1>6, <1>7, <1>8
-----------------------------------------------------------------------------
(* EvaluationGate: the inductive invariant *)

GateTyped ==
    /\ gate \in [file : Seq(Lines), k : TopKs, pc : GatePc, read : Nat,
                 examples : Seq(Examples), status : {"none", "PASS", "FAIL"},
                 reports : SUBSET {"json", "markdown"}, path : {"none", "json"},
                 outcome : {"none", "SUCCEEDED", "FAILED"}]
    /\ gate.read <= Len(gate.file) /\ Len(gate.file) <= MaxLines

\* What was read is what is in the lines up to here, in their order.
LinesRead ==
    /\ Len(gate.examples) = FilledIn(gate.file, gate.read)
    /\ \A i \in 1..gate.read : gate.file[i] # BlankLine =>
          /\ FilledIn(gate.file, i) \in 1..Len(gate.examples)
          /\ gate.examples[FilledIn(gate.file, i)] = gate.file[i]

\* Only the whole dataset is scored, unless it is empty, and only then is there a status.
AllRead ==
    /\ gate.pc \in {"scoring", "reporting", "summarizing"} =>
          gate.read = Len(gate.file) /\ gate.examples # << >>
    /\ gate.pc \in {"reading", "scoring"} => gate.status = "none"

\* Whoever passes has done so question by question.
StatusIsEarned ==
    gate.status = "PASS" =>
       \A e \in ToSet(gate.examples) :
          /\ e.expected \intersect ToSet(TopRetrieved(e)) # {}
          /\ e.cited # {} /\ e.cited \subseteq ToSet(e.retrieved)

\* A run that has succeeded got through all that a run does.
OutcomeIsEarned ==
    /\ gate.pc = "summarizing" => gate.reports = {"json"}
    /\ gate.outcome # "none" <=> gate.pc = "over"
    /\ gate.outcome = "SUCCEEDED" =>
          /\ gate.read = Len(gate.file) /\ gate.status = "PASS"
          /\ gate.path = "json" /\ gate.reports = {"json", "markdown"}

GateInv == GateTyped /\ LinesRead /\ AllRead /\ StatusIsEarned /\ OutcomeIsEarned

\* Each question must be answered by what was found, and each answer cite it: the
\* thresholds of the hit rate and of the citations are one (EvaluationThresholds).
ThresholdsAreStrict ==
    \A m \in {"retrieval_hit_rate", "citation_correctness"} :
       m \in DOMAIN Thresholds /\ Thresholds[m] = Unit

\* With fewer examples than twice the precision, one miss is not lost by rounding.
DatasetIsSmall == MaxLines < 2 * Precision

\* A dataset none of whose means is below its threshold has passed every example.
LEMMA NoFailureIsEarned ==
    ASSUME ThresholdsAreStrict, DatasetIsSmall, GateTyped, LinesRead, gate.examples # << >>,
           Failures = {}, NEW e \in ToSet(gate.examples)
    PROVE  /\ e.expected \intersect ToSet(TopRetrieved(e)) # {}
           /\ e.cited # {} /\ e.cited \subseteq ToSet(e.retrieved)
  <1>1. gate.examples \in Seq(Examples) /\ gate.k \in TopKs
    BY DEF GateTyped
  <1>2. e \in Examples
    BY <1>1 DEF ToSet
  <1>3. Unit \in Nat \ {0} /\ Precision \in Nat
    BY GateAssumption DEF Precision
  <1>4. Len(gate.examples) < 2 * Precision
    <2>1. FilledIn(gate.file, gate.read) <= gate.read
      BY LinesAreCounted DEF GateTyped
    <2>2. /\ gate.read \in Nat /\ Len(gate.file) \in Nat /\ MaxLines \in Nat
          /\ gate.read <= Len(gate.file) /\ Len(gate.file) <= MaxLines
      BY GateAssumption DEF GateTyped
    <2>3. Len(gate.examples) \in Nat /\ Len(gate.examples) = FilledIn(gate.file, gate.read)
      BY <1>1 DEF LinesRead
    <2> QED BY <1>3, <2>1, <2>2, <2>3 DEF DatasetIsSmall
  <1>5. ASSUME NEW m \in {"retrieval_hit_rate", "citation_correctness"}
        PROVE  Score(m, e) # 0
    <2>1. m \in Metrics /\ m # "ndcg_at_k"
      BY DEF Metrics
    <2>2. /\ Mean(m) \in Nat
          /\ Len(gate.examples) < 2 * Precision /\ Mean(m) >= Precision => Score(m, e) # 0
      BY <1>1, <2>1, MeansAreAtMostOne
    <2>3. ~ (Mean(m) * Unit < Unit * Precision)
      BY DEF Failures, ThresholdsAreStrict
    <2>4. Mean(m) >= Precision
      <3>1. ASSUME Precision >= Mean(m) + 1
            PROVE  FALSE
        <4>1. Precision * Unit >= Mean(m) * Unit + Unit
          BY <1>3, <2>2, <3>1, ProductIsMonotone
        <4> DEFINE a == Precision * Unit
                   b == Mean(m) * Unit
        <4>2. a \in Nat /\ b \in Nat /\ Unit * Precision = a
          BY <1>3, <2>2
        <4> HIDE DEF a, b
        <4>3. ~ (b < a) /\ a >= b + Unit
          BY <2>3, <4>1, <4>2 DEF a, b
        <4> QED BY <1>3, <4>2, <4>3
      <3> QED BY <1>3, <2>2, <3>1
    <2> QED BY <1>4, <2>2, <2>4
  <1>6. AsScore(RelevantCount(e) > 0) # 0 /\ AsScore(CitationCorrect(e)) # 0
    BY <1>5 DEF Score
  <1>7. RelevantCount(e) > 0 /\ CitationCorrect(e)
    BY <1>6 DEF AsScore
  <1> QED BY <1>1, <1>2, <1>7, TopShape DEF CitationCorrect, Retrieved

\* What keeps the dataset, what was read of it and the status, keeps what they say.
LEMMA KeptDataset ==
    ASSUME GateInv, gate'.file = gate.file, gate'.k = gate.k, gate'.read = gate.read,
           gate'.examples = gate.examples, gate'.status \in {gate.status, "FAIL"}
    PROVE  LinesRead' /\ StatusIsEarned'
  <1>1. LinesRead'
    BY DEF GateInv, LinesRead
  <1>2. StatusIsEarned'
    BY DEF GateInv, StatusIsEarned, TopRetrieved
  <1> QED BY <1>1, <1>2

\* The run starts with nothing read, and nothing said.
LEMMA StartIsConsistent == GateInit => GateInv
  <1> SUFFICES ASSUME GateInit PROVE GateInv
    OBVIOUS
  <1>1. PICK n \in 0..MaxLines : \E file \in [1..n -> Lines], k \in TopKs :
           gate = [file |-> file, k |-> k, pc |-> "reading", read |-> 0, examples |-> << >>,
                   status |-> "none", reports |-> {}, path |-> "none", outcome |-> "none"]
    BY DEF GateInit
  <1>2. PICK file \in [1..n -> Lines], k \in TopKs :
           gate = [file |-> file, k |-> k, pc |-> "reading", read |-> 0, examples |-> << >>,
                   status |-> "none", reports |-> {}, path |-> "none", outcome |-> "none"]
    BY <1>1
  <1>3. n \in Nat /\ n <= MaxLines
    BY GateAssumption
  <1>4. file \in Seq(Lines) /\ Len(file) \in Nat /\ Len(file) <= MaxLines
    <2>1. \A j \in Nat : \A s \in [1..j -> Lines] : s \in Seq(Lines) /\ Len(s) = j
      OBVIOUS
    <2> QED BY <1>3, <2>1
  <1>5. GateTyped
    BY <1>2, <1>4 DEF GateTyped, GatePc
  <1>6. LinesRead
    BY <1>2, LinesAreCounted DEF LinesRead
  <1> QED BY <1>2, <1>5, <1>6 DEF GateInv, AllRead, StatusIsEarned, OutcomeIsEarned

\* A run may fail at any line of the dataset, and at both reports.
LEMMA FailRunKeepsInv == GateInv /\ FailRun => GateInv'
  <1> SUFFICES ASSUME GateInv, FailRun PROVE GateInv'
    OBVIOUS
  <1>1. GateTyped' /\ AllRead' /\ OutcomeIsEarned'
    BY DEF FailRun, GateInv, GateTyped, GatePc, AllRead, OutcomeIsEarned
  <1>2. LinesRead' /\ StatusIsEarned'
    <2>1. /\ gate'.file = gate.file /\ gate'.k = gate.k /\ gate'.read = gate.read
          /\ gate'.examples = gate.examples /\ gate'.status \in {gate.status, "FAIL"}
      BY DEF FailRun, GateInv, GateTyped
    <2> QED BY <2>1, KeptDataset
  <1> QED BY <1>1, <1>2 DEF GateInv

\* A line is taken in where its number says, or is no line.
LEMMA ReadLineKeepsInv == GateInv /\ ReadLine => GateInv'
  <1> SUFFICES ASSUME GateInv, ReadLine PROVE GateInv'
    OBVIOUS
  <1> DEFINE line == gate.file[gate.read + 1]
             file == gate.file
             more == IF line = BlankLine THEN gate.examples ELSE Append(gate.examples, line)
  <1>1. GateTyped /\ LinesRead /\ gate.pc = "reading" /\ gate.read < Len(file)
    BY DEF GateInv, ReadLine
  <1>2. CASE line = BadLine
    BY <1>2, FailRunKeepsInv DEF ReadLine
  <1>3. CASE line # BadLine
    <2>1. gate' = [gate EXCEPT !.read = @ + 1, !.examples = more]
      BY <1>3 DEF ReadLine
    <2>2. /\ file \in Seq(Lines) /\ gate.examples \in Seq(Examples)
          /\ gate.read \in Nat /\ Len(file) \in Nat /\ gate.read + 1 <= Len(file)
      BY <1>1 DEF GateTyped
    <2>3. line \in Lines
      BY <2>2
    <2>4. line # BlankLine => line \in Examples
      BY <1>3, <2>3 DEF Lines
    <2>5. more \in Seq(Examples)
      BY <2>2, <2>4
    <2> HIDE DEF line, more
    <2>6. /\ gate'.file = file /\ gate'.k = gate.k /\ gate'.read = gate.read + 1
          /\ gate'.examples = more /\ gate'.status = gate.status /\ gate'.pc = gate.pc
          /\ gate'.outcome = gate.outcome /\ gate'.reports = gate.reports
          /\ gate'.path = gate.path
      BY <1>1, <2>1 DEF GateTyped
    <2>7. GateTyped'
      <3>1. gate.read + 1 \in Nat
        BY <2>2
      <3> DEFINE next == gate.read + 1
      <3> HIDE DEF next
      <3>2. gate' = [gate EXCEPT !.read = next, !.examples = more]
        BY <2>1 DEF next
      <3>3. next \in Nat
        BY <3>1 DEF next
      <3>4. gate' \in [file : Seq(Lines), k : TopKs, pc : GatePc, read : Nat,
                      examples : Seq(Examples), status : {"none", "PASS", "FAIL"},
                      reports : SUBSET {"json", "markdown"}, path : {"none", "json"},
                      outcome : {"none", "SUCCEEDED", "FAILED"}]
        BY <1>1, <2>5, <3>2, <3>3 DEF GateTyped
      <3>5. gate'.read <= Len(gate'.file)
        BY <2>2, <2>6
      <3>6. Len(gate'.file) <= MaxLines
        BY <1>1, <2>6 DEF GateTyped
      <3> QED BY <3>4, <3>5, <3>6 DEF GateTyped
    <2>8. AllRead' /\ OutcomeIsEarned' /\ StatusIsEarned'
      BY <1>1, <2>6 DEF GateInv, AllRead, OutcomeIsEarned, StatusIsEarned
    <2>9. /\ FilledIn(file, gate.read) \in Nat
          /\ FilledIn(file, gate.read + 1)
                = IF line = BlankLine THEN FilledIn(file, gate.read)
                                      ELSE FilledIn(file, gate.read) + 1
      BY <2>2, LinesAreCounted DEF line
    <2>10. Len(gate.examples) = FilledIn(file, gate.read)
      BY <1>1 DEF LinesRead
    <2>11. Len(more) = FilledIn(file, gate.read + 1)
      BY <2>2, <2>9, <2>10 DEF more
    <2>12. ASSUME NEW i \in 1..(gate.read + 1), file[i] # BlankLine
           PROVE  FilledIn(file, i) \in 1..Len(more) /\ more[FilledIn(file, i)] = file[i]
      <3>1. CASE i \in 1..gate.read
        <4>1. /\ FilledIn(file, i) \in 1..Len(gate.examples)
              /\ gate.examples[FilledIn(file, i)] = file[i]
          BY <1>1, <2>12, <3>1 DEF LinesRead
        <4>2. \A j \in 1..Len(gate.examples) : j \in 1..Len(more) /\ more[j] = gate.examples[j]
          BY <2>2 DEF more
        <4> QED BY <4>1, <4>2
      <3>2. CASE i = gate.read + 1
        <4>1. line # BlankLine /\ file[i] = line
          BY <2>12, <3>2 DEF line
        <4>2. FilledIn(file, i) = Len(gate.examples) + 1 /\ FilledIn(file, i) = Len(more)
          BY <2>9, <2>10, <2>11, <3>2, <4>1
        <4>3. more[Len(gate.examples) + 1] = line /\ Len(gate.examples) \in Nat
          BY <2>2, <4>1 DEF more
        <4> QED BY <4>1, <4>2, <4>3
      <3> QED BY <2>2, <3>1, <3>2
    <2>13. LinesRead'
      BY <2>6, <2>11, <2>12 DEF LinesRead
    <2> QED BY <2>7, <2>8, <2>13 DEF GateInv
  <1> QED BY <1>2, <1>3

\* What is scored is the whole dataset.
LEMMA EndOfFileKeepsInv == GateInv /\ EndOfFile => GateInv'
  <1> SUFFICES ASSUME GateInv, EndOfFile PROVE GateInv'
    OBVIOUS
  <1>1. CASE gate.examples = << >>
    BY <1>1, FailRunKeepsInv DEF EndOfFile
  <1>2. CASE gate.examples # << >>
    <2>1. gate' = [gate EXCEPT !.pc = "scoring"] /\ gate.pc = "reading" /\ gate.read = Len(gate.file)
      BY <1>2 DEF EndOfFile
    <2>2. GateTyped' /\ AllRead' /\ OutcomeIsEarned'
      <3>1. GateTyped'
        BY <2>1 DEF GateInv, GateTyped, GatePc
      <3>2. AllRead' /\ OutcomeIsEarned'
        BY <1>2, <2>1 DEF GateInv, GateTyped, AllRead, OutcomeIsEarned
      <3> QED BY <3>1, <3>2
    <2>3. LinesRead' /\ StatusIsEarned'
      <3>1. /\ gate'.file = gate.file /\ gate'.k = gate.k /\ gate'.read = gate.read
            /\ gate'.examples = gate.examples /\ gate'.status \in {gate.status, "FAIL"}
        BY <2>1 DEF GateInv, GateTyped
      <3> QED BY <3>1, KeptDataset
    <2> QED BY <2>2, <2>3 DEF GateInv
  <1> QED BY <1>1, <1>2

\* The status is earned when it is given.
LEMMA CompareKeepsInv ==
    ASSUME ThresholdsAreStrict, DatasetIsSmall, GateInv, Compare
    PROVE  GateInv'
  <1>1. /\ gate' = [gate EXCEPT !.pc = "reporting",
                                !.status = IF Failures = {} THEN "PASS" ELSE "FAIL"]
        /\ gate.pc = "scoring" /\ GateTyped
    BY DEF Compare, GateInv
  <1>2. /\ gate'.file = gate.file /\ gate'.k = gate.k /\ gate'.read = gate.read
        /\ gate'.examples = gate.examples /\ gate'.pc = "reporting"
        /\ gate'.status = IF Failures = {} THEN "PASS" ELSE "FAIL"
        /\ gate'.outcome = gate.outcome /\ gate'.reports = gate.reports /\ gate'.path = gate.path
    BY <1>1 DEF GateTyped
  <1>3. GateTyped'
    BY <1>1, <1>2 DEF GateTyped, GatePc
  <1>4. AllRead' /\ OutcomeIsEarned'
    BY <1>1, <1>2 DEF GateInv, AllRead, OutcomeIsEarned
  <1>5. LinesRead'
    BY <1>2 DEF GateInv, LinesRead
  <1>6. StatusIsEarned'
    <2>1. CASE Failures = {}
      <3>1. \A e \in ToSet(gate.examples) :
               /\ e.expected \intersect ToSet(TopRetrieved(e)) # {}
               /\ e.cited # {} /\ e.cited \subseteq ToSet(e.retrieved)
        <4>1. GateTyped /\ LinesRead /\ gate.examples # << >>
          BY <1>1 DEF GateInv, AllRead
        <4> QED BY <2>1, <4>1, NoFailureIsEarned
      <3> QED BY <1>2, <3>1 DEF StatusIsEarned, TopRetrieved
    <2>2. CASE Failures # {}
      BY <1>2, <2>2 DEF StatusIsEarned
    <2> QED BY <2>1, <2>2
  <1> QED BY <1>3, <1>4, <1>5, <1>6 DEF GateInv

\* A run succeeds with both reports there, if it passed.
LEMMA ReportsKeepInv == GateInv /\ (WriteJson \/ WriteMarkdown) => GateInv'
  <1> SUFFICES ASSUME GateInv, WriteJson \/ WriteMarkdown PROVE GateInv'
    OBVIOUS
  <1>1. GateTyped
    BY DEF GateInv
  <1>2. /\ gate'.file = gate.file /\ gate'.k = gate.k /\ gate'.read = gate.read
        /\ gate'.examples = gate.examples /\ gate'.status = gate.status
    BY <1>1 DEF GateTyped, WriteJson, WriteMarkdown
  <1>3. LinesRead' /\ StatusIsEarned'
    BY <1>2, KeptDataset
  <1>4. CASE WriteJson
    <2>1. GateTyped' /\ AllRead' /\ OutcomeIsEarned'
      BY <1>4 DEF GateInv, GateTyped, GatePc, AllRead, OutcomeIsEarned, WriteJson
    <2> QED BY <1>3, <2>1 DEF GateInv
  <1>5. CASE WriteMarkdown
    <2>1. GateTyped' /\ AllRead'
      BY <1>5 DEF GateInv, GateTyped, GatePc, AllRead, WriteMarkdown
    <2>2. OutcomeIsEarned'
      BY <1>1, <1>5 DEF GateInv, GateTyped, AllRead, OutcomeIsEarned, WriteMarkdown
    <2> QED BY <1>3, <2>1, <2>2 DEF GateInv
  <1> QED BY <1>4, <1>5

\* The invariant of a run, whatever its dataset is: what has been read is the dataset
\* so far, and a status and an outcome are earned (run_evaluation).
THEOREM RunsAreConsistent == ASSUME ThresholdsAreStrict, DatasetIsSmall PROVE GateSpec => []GateInv
  <1>1. GateInit => GateInv
    BY StartIsConsistent
  <1>2. GateInv /\ [GateNext]_gateVars => GateInv'
    <2> SUFFICES ASSUME GateInv, [GateNext]_gateVars PROVE GateInv'
      OBVIOUS
    <2>1. CASE ReadLine
      BY <2>1, ReadLineKeepsInv
    <2>2. CASE EndOfFile
      BY <2>2, EndOfFileKeepsInv
    <2>3. CASE Compare
      BY <2>3, CompareKeepsInv
    <2>4. CASE WriteJson \/ WriteMarkdown
      BY <2>4, ReportsKeepInv
    <2>5. CASE WriteFails
      BY <2>5, FailRunKeepsInv DEF WriteFails
    <2>6. CASE UNCHANGED gateVars
      <3>1. GateTyped' /\ LinesRead' /\ AllRead' /\ OutcomeIsEarned'
        BY <2>6 DEF GateInv, GateTyped, LinesRead, AllRead, OutcomeIsEarned, gateVars
      <3>2. StatusIsEarned'
        BY <2>6 DEF GateInv, StatusIsEarned, TopRetrieved, gateVars
      <3> QED BY <3>1, <3>2 DEF GateInv
    <2> QED BY <2>1, <2>2, <2>3, <2>4, <2>5, <2>6 DEF GateNext
  <1> QED BY <1>1, <1>2, PTL DEF GateSpec

\* A run that succeeds has earned it question by question, for any sources, dataset, k
\* and discount, as long as the hit rate and the citations must be perfect and no miss is
\* lost by rounding; and no mean exceeds one, but for the nDCG of a source that was found
\* twice (run_evaluation, _mean).
THEOREM PassesAreEarned ==
    ASSUME ThresholdsAreStrict, DatasetIsSmall PROVE GateSpec => []PassIsEarned
  <1>1. GateInv => PassIsEarned
    <2> SUFFICES ASSUME GateInv PROVE PassIsEarned
      OBVIOUS
    <2>1. gate.examples \in Seq(Examples) /\ gate.k \in TopKs /\ gate.file \in Seq(Lines)
      BY DEF GateInv, GateTyped
    <2>2. \A n : Filled(n) = FilledIn(gate.file, n)
      BY Zenon DEF Filled, FilledIn
    <2>3. ASSUME gate.outcome = "SUCCEEDED"
          PROVE  /\ Len(gate.examples) = Filled(Len(gate.file))
                 /\ \A i \in DOMAIN gate.file :
                       gate.file[i] # BlankLine => gate.examples[Filled(i)] = gate.file[i]
                 /\ gate.path \in gate.reports /\ gate.reports = {"json", "markdown"}
                 /\ gate.status = "PASS"
      BY <2>1, <2>2, <2>3 DEF GateInv, LinesRead, OutcomeIsEarned
    <2>4. ASSUME gate.pc = "reporting", NEW m \in DOMAIN Thresholds
          PROVE  \/ Mean(m) <= Precision
                 \/ m = "ndcg_at_k"
                    /\ \E e \in ToSet(gate.examples) : ~ IsInjective(e.retrieved)
      <3>1. gate.examples # << >> /\ m \in Metrics
        BY <2>4, GateAssumption DEF GateInv, AllRead
      <3> QED BY <2>1, <3>1, MeansAreAtMostOne
    <2> QED BY <2>3, <2>4 DEF GateInv, StatusIsEarned, PassIsEarned
  <1> QED BY <1>1, RunsAreConsistent, PTL
-----------------------------------------------------------------------------
(* EvaluationGate: the types, whatever the thresholds *)

RunState == [file : Seq(Lines), k : Nat, pc : GatePc, read : Nat,
             examples : Seq(Examples), status : {"none", "PASS", "FAIL"},
             reports : SUBSET {"json", "markdown"}, path : {"none", "json"},
             outcome : {"none", "SUCCEEDED", "FAILED"}]
RunTyped ==
    /\ gate \in RunState
    /\ gate.read <= Len(gate.file) /\ Len(gate.file) <= MaxLines

\* A line that is neither blank nor bad is an example.
LEMMA ReadLineKeepsTypes ==
    ASSUME RunTyped, ReadLine, gate.file[gate.read + 1] # BadLine
    PROVE  RunTyped'
  <1> DEFINE line == gate.file[gate.read + 1]
             more == IF line = BlankLine THEN gate.examples ELSE Append(gate.examples, line)
             next == gate.read + 1
  <1>1. gate' = [gate EXCEPT !.read = @ + 1, !.examples = more] /\ gate.read < Len(gate.file)
    BY DEF ReadLine
  <1>2. /\ gate.file \in Seq(Lines) /\ gate.examples \in Seq(Examples)
        /\ gate.read \in Nat /\ Len(gate.file) \in Nat /\ gate.read + 1 <= Len(gate.file)
    BY <1>1 DEF RunTyped, RunState
  <1>3. line \in Lines
    BY <1>2
  <1>4. line # BlankLine => line \in Examples
    BY <1>3 DEF Lines
  <1>5. more \in Seq(Examples)
    BY <1>2, <1>4
  <1> HIDE DEF line, more
  <1>6. gate' = [gate EXCEPT !.read = next, !.examples = more] /\ next \in Nat
        /\ next <= Len(gate.file)
    BY <1>1, <1>2
  <1> HIDE DEF next
  <1>7. gate' \in RunState /\ gate'.read = next /\ gate'.file = gate.file
    BY <1>5, <1>6 DEF RunTyped, RunState
  <1> QED BY <1>6, <1>7 DEF RunTyped

\* What goes on, or fails, with the same dataset.
LEMMA StepKeepsTypes ==
    ASSUME RunTyped, FailRun \/ Compare \/ WriteJson \/ WriteMarkdown
                     \/ gate' = [gate EXCEPT !.pc = "scoring"]
    PROVE  RunTyped'
  <1>1. CASE FailRun
    BY <1>1 DEF FailRun, RunTyped, RunState, GatePc
  <1>2. CASE Compare
    <2> DEFINE status == IF Failures = {} THEN "PASS" ELSE "FAIL"
    <2>1. gate' = [gate EXCEPT !.pc = "reporting", !.status = status]
          /\ status \in {"PASS", "FAIL"}
      BY <1>2 DEF Compare
    <2> HIDE DEF status
    <2> QED BY <2>1 DEF RunTyped, RunState, GatePc
  <1>3. CASE WriteJson
    BY <1>3 DEF WriteJson, RunTyped, RunState, GatePc
  <1>4. CASE WriteMarkdown
    BY <1>4 DEF WriteMarkdown, RunTyped, RunState, GatePc
  <1>5. CASE gate' = [gate EXCEPT !.pc = "scoring"]
    BY <1>5 DEF RunTyped, RunState, GatePc
  <1> QED BY <1>1, <1>2, <1>3, <1>4, <1>5

\* Every step of a run keeps the types.
LEMMA GateKeepsTypes ==
    ASSUME RunTyped, [GateNext]_gateVars
    PROVE  RunTyped'
  <1>1. CASE ReadLine
    BY <1>1, ReadLineKeepsTypes, StepKeepsTypes DEF ReadLine
  <1>2. CASE EndOfFile
    BY <1>2, StepKeepsTypes DEF EndOfFile
  <1>3. CASE UNCHANGED gateVars
    BY <1>3 DEF gateVars, RunTyped
  <1> QED BY <1>1, <1>2, <1>3, StepKeepsTypes DEF GateNext, WriteFails

\* A run starts in its types, and they are those of GateTypeOK.
LEMMA RunIsTyped ==
    /\ GateInit => RunTyped
    /\ RunTyped => GateTypeOK
  <1>1. GateInit => RunTyped
    <2> SUFFICES ASSUME GateInit PROVE RunTyped
      OBVIOUS
    <2>1. GateTyped
      BY StartIsConsistent DEF GateInv
    <2>2. TopKs \subseteq Nat
      BY GateAssumption
    <2> QED BY <2>1, <2>2 DEF GateTyped, RunTyped, RunState
  <1>2. RunTyped => GateTypeOK
    <2> SUFFICES ASSUME RunTyped PROVE GateTypeOK
      OBVIOUS
    <2>1. gate.read \in 0..MaxLines
      <3>1. gate.read \in Nat /\ Len(gate.file) \in Nat /\ MaxLines \in Nat
        BY GateAssumption DEF RunTyped, RunState
      <3> QED BY <3>1 DEF RunTyped
    <2>2. ToSet(gate.examples) \subseteq Examples
      BY DEF RunTyped, RunState, ToSet
    <2> QED BY <2>1, <2>2 DEF RunTyped, RunState, GateTypeOK
  <1> QED BY <1>1, <1>2

\* GateTypeOK, for all thresholds and datasets (run_evaluation).
THEOREM GateTypeCorrect == GateSpec => []GateTypeOK
  <1>1. RunTyped /\ [GateNext]_gateVars => RunTyped'
    BY GateKeepsTypes
  <1> QED BY <1>1, RunIsTyped, PTL DEF GateSpec
-----------------------------------------------------------------------------
(* Chunking: texts, and how long they are *)

\* A bounded set of numbers has a greatest one.
LEMMA MaxIsGreatest ==
    ASSUME NEW S \in SUBSET Nat, S # {}, NEW b \in Nat, \A x \in S : x <= b
    PROVE  Max(S) \in S /\ \A x \in S : x <= Max(S)
  <1>1. \E m \in S : \A x \in S : m >= x
    BY HasGreatest
  <1> QED BY <1>1 DEF Max

\* What is left of a text that is stripped is from its first letter to its last one.
LEMMA StrippedText ==
    ASSUME NEW text, NEW from \in Nat, NEW to \in Nat, Solid(text, from, to) # {}
    PROVE  LET solid == Solid(text, from, to) IN
           /\ Stripped(text, from, to) = <<Min(solid), Max(solid)>>
           /\ Min(solid) \in solid /\ Max(solid) \in solid
           /\ Min(solid) \in from..to /\ Max(solid) \in from..to
           /\ \A i \in solid : Min(solid) <= i /\ i <= Max(solid)
  <1> DEFINE solid == Solid(text, from, to)
  <1>1. solid \in SUBSET Nat /\ solid \subseteq from..to /\ \A i \in solid : i <= to
    BY DEF Solid
  <1>2. Min(solid) \in solid /\ \A i \in solid : Min(solid) <= i
    BY <1>1, MinIsLeast
  <1>3. Max(solid) \in solid /\ \A i \in solid : i <= Max(solid)
    BY <1>1, MaxIsGreatest
  <1>4. Stripped(text, from, to) = <<Min(solid), Max(solid)>>
    BY DEF Stripped
  <1> QED BY <1>1, <1>2, <1>3, <1>4

\* Words are intervals of the text.
LEMMA WordsAreFinite ==
    ASSUME NEW text, NEW from \in Nat, NEW to \in Nat
    PROVE  /\ IsFiniteSet(Words(text, from, to))
           /\ \A w \in Words(text, from, to) : w[1] \in from..to /\ w[2] \in from..to /\ w[1] <= w[2]
  <1>1. IsFiniteSet(from..to)
    BY FS_Interval
  <1>2. IsFiniteSet((from..to) \X (from..to))
    BY <1>1, FS_Product
  <1>3. Words(text, from, to) \subseteq (from..to) \X (from..to)
    BY DEF Words
  <1>4. IsFiniteSet(Words(text, from, to))
    BY <1>2, <1>3, FS_Subset
  <1>5. \A w \in Words(text, from, to) : w[1] <= w[2]
    BY DEF Words
  <1> QED BY <1>3, <1>4, <1>5

\* The greatest of three numbers.
LEMMA MaxOfThree ==
    ASSUME NEW a \in Nat, NEW b \in Nat, NEW c \in Nat
    PROVE  Max({a, b, c}) \in {a, b, c}
  <1>1. PICK d \in Nat : a <= d /\ b <= d /\ c <= d
    <2>1. a <= a + b + c /\ b <= a + b + c /\ c <= a + b + c /\ a + b + c \in Nat
      OBVIOUS
    <2> QED BY <2>1
  <1>2. {a, b, c} \in SUBSET Nat /\ {a, b, c} # {} /\ \A x \in {a, b, c} : x <= d
    BY <1>1
  <1> QED BY <1>2, MaxIsGreatest

\* From the first letter of the first word to the last one of the last.
LEMMA SpanIsNatural ==
    ASSUME NEW text, NEW from \in Nat, NEW to \in Nat, Words(text, from, to) # {}
    PROVE  LET words == Words(text, from, to)
               ends == {w[2] : w \in words}
               starts == {w[1] : w \in words} IN
           /\ Max(ends) \in ends /\ Min(starts) \in starts
           /\ 1 + Max(ends) - Min(starts) \in Nat \ {0}
  <1> DEFINE words == Words(text, from, to)
             ends == {w[2] : w \in words}
             starts == {w[1] : w \in words}
  <1>1. \A w \in words : w[1] \in from..to /\ w[2] \in from..to /\ w[1] <= w[2]
    BY WordsAreFinite
  <1>2. PICK w \in words : TRUE
    OBVIOUS
  <1> HIDE DEF words
  <1>3. /\ ends \in SUBSET Nat /\ w[2] \in ends /\ \A x \in ends : x <= to
        /\ starts \in SUBSET Nat /\ w[1] \in starts
    BY <1>1, <1>2
  <1> HIDE DEF ends, starts
  <1>4. Max(ends) \in ends /\ w[2] <= Max(ends)
    BY <1>3, MaxIsGreatest
  <1>5. Min(starts) \in starts /\ Min(starts) <= w[1]
    BY <1>3, MinIsLeast
  <1>6. 1 + Max(ends) - Min(starts) \in Nat \ {0}
    <2>1. w[1] \in Nat /\ w[2] \in Nat /\ w[1] <= w[2]
      BY <1>1, <1>2
    <2>2. Max(ends) \in Nat /\ Min(starts) \in Nat
      BY <1>3, <1>4, <1>5
    <2> DEFINE m == Max(ends)
               n == Min(starts)
    <2>3. m \in Nat /\ n \in Nat /\ w[2] <= m /\ n <= w[1]
      BY <1>4, <1>5, <2>2
    <2> HIDE DEF m, n
    <2>4. 1 + m - n \in Nat \ {0}
      BY <2>1, <2>3
    <2> QED BY <2>4 DEF m, n
  <1> QED BY <1>4, <1>5, <1>6 DEF ends, starts, words

\* The parts that Estimate compares.
CjkTokens(text, from, to) == Cardinality({i \in from..to : text[i] = "cjk"})
WordTokens(words) == IF words = {} THEN 0 ELSE Max({1, (5 * Cardinality(words)) \div 4})
Span(words) == 1 + Max({w[2] : w \in words}) - Min({w[1] : w \in words})
CharTokens(words) ==
    IF \E w \in words : w[2] - w[1] + 1 > LongWord
    THEN (Span(words) + CharsPerToken - 1) \div CharsPerToken ELSE 0

\* The length of a text, by its parts.
LEMMA EstimateParts ==
    ASSUME NEW text, NEW from \in Nat, NEW to \in Nat
    PROVE  Estimate(text, from, to)
              = IF Solid(text, from, to) = {} THEN 0
                ELSE Max({1, CjkTokens(text, from, to) + WordTokens(Words(text, from, to)),
                          CharTokens(Words(text, from, to))})
  BY Zenon DEF Estimate, CjkTokens, WordTokens, CharTokens, Span

\* A length is a number, and that of a blank text is nothing.
LEMMA EstimateIsNatural ==
    ASSUME NEW text, NEW from \in Nat, NEW to \in Nat
    PROVE  /\ Estimate(text, from, to) \in Nat
           /\ Solid(text, from, to) = {} => Estimate(text, from, to) = 0
  <1> DEFINE words == Words(text, from, to)
             cjk == CjkTokens(text, from, to)
  <1>1. cjk \in Nat
    <2>1. IsFiniteSet(from..to) /\ {i \in from..to : text[i] = "cjk"} \subseteq from..to
      BY FS_Interval
    <2> QED BY <2>1, FS_Subset, FS_CardinalityType DEF CjkTokens
  <1>2. WordTokens(words) \in Nat
    <2>1. Cardinality(words) \in Nat
      BY WordsAreFinite, FS_CardinalityType
    <2>2. \A c \in Nat : (5 * c) \div 4 \in Nat
      BY Division
    <2>3. (5 * Cardinality(words)) \div 4 \in Nat
      BY <2>1, <2>2
    <2> QED BY <2>3, MaxOfTwo DEF WordTokens
  <1>3. CharTokens(words) \in Nat
    <2>1. ASSUME words # {}
          PROVE  (Span(words) + CharsPerToken - 1) \div CharsPerToken \in Nat
      <3>1. Span(words) \in Nat \ {0}
        BY <2>1, SpanIsNatural DEF Span
      <3>2. CharsPerToken \in Nat \ {0} /\ Span(words) + CharsPerToken - 1 \in Nat
        BY <3>1, ChunkingAssumption
      <3> QED BY <3>2, Division
    <2> QED BY <2>1 DEF CharTokens
  <1> DEFINE most == Max({1, cjk + WordTokens(words), CharTokens(words)})
  <1>4. most \in Nat
    <2>1. cjk + WordTokens(words) \in Nat
      BY <1>1, <1>2
    <2> QED BY <1>3, <2>1, MaxOfThree
  <1>5. Estimate(text, from, to) = IF Solid(text, from, to) = {} THEN 0 ELSE most
    BY EstimateParts
  <1> QED BY <1>4, <1>5

\* One character is never longer than one token.
LEMMA EstimateOfOne ==
    ASSUME NEW text \in Seq(Characters), NEW p \in DOMAIN text
    PROVE  Estimate(text, p, p) <= 1
  <1> DEFINE words == Words(text, p, p)
             cjk == CjkTokens(text, p, p)
  <1>1. p \in Nat /\ p..p = {p} /\ text[p] \in Characters
    OBVIOUS
  <1>2. \A w \in words : w = <<p, p>> /\ text[p] = "letter"
    BY <1>1 DEF Words
  <1>3. words \in {{}, {<<p, p>>}} /\ (words # {} => text[p] = "letter")
    BY <1>2
  <1>4. cjk = IF text[p] = "cjk" THEN 1 ELSE 0
    <2>1. {i \in p..p : text[i] = "cjk"} = IF text[p] = "cjk" THEN {p} ELSE {}
      BY <1>1
    <2>2. Cardinality({p}) = 1 /\ Cardinality({}) = 0
      BY FS_Singleton, FS_EmptySet
    <2> QED BY <2>1, <2>2 DEF CjkTokens
  <1>5. WordTokens(words) = IF words = {} THEN 0 ELSE 1
    <2>1. ASSUME words = {<<p, p>>}
          PROVE  Max({1, (5 * Cardinality(words)) \div 4}) = 1
      <3>1. Cardinality(words) = 1
        BY <2>1, FS_Singleton
      <3>2. (5 * Cardinality(words)) \div 4 = 1
        BY <3>1
      <3> QED BY <3>2, MaxOfTwo
    <2> QED BY <1>3, <2>1 DEF WordTokens
  <1>6. CharTokens(words) \in {0, 1}
    <2>1. ASSUME words = {<<p, p>>}
          PROVE  (Span(words) + CharsPerToken - 1) \div CharsPerToken = 1
      <3>1. {w[2] : w \in words} = {p} /\ {w[1] : w \in words} = {p}
        BY <2>1
      <3>2. Max({w[2] : w \in words}) = p /\ Min({w[1] : w \in words}) = p
        BY <2>1, <3>1, <1>1, SpanIsNatural
      <3>3. Span(words) = 1
        BY <1>1, <3>2 DEF Span
      <3>4. CharsPerToken \in Nat \ {0}
        BY ChunkingAssumption
      <3>5. \A c \in Nat \ {0} : c \div c = 1
        OBVIOUS
      <3>6. Span(words) + CharsPerToken - 1 = CharsPerToken
        BY <3>3, <3>4
      <3> QED BY <3>4, <3>5, <3>6
    <2> QED BY <1>3, <2>1 DEF CharTokens
  <1>7. cjk + WordTokens(words) \in {0, 1}
    BY <1>3, <1>4, <1>5
  <1> DEFINE most == Max({1, cjk + WordTokens(words), CharTokens(words)})
  <1>8. most \in {0, 1}
    <2>1. cjk + WordTokens(words) \in Nat /\ CharTokens(words) \in Nat
      BY <1>6, <1>7
    <2>2. most \in {1, cjk + WordTokens(words), CharTokens(words)}
      BY <2>1, MaxOfThree
    <2> QED BY <1>6, <1>7, <2>2
  <1>9. Estimate(text, p, p) = IF Solid(text, p, p) = {} THEN 0 ELSE most
    BY <1>1, EstimateParts
  <1> QED BY <1>8, <1>9
-----------------------------------------------------------------------------
(* Chunking: the inductive invariant *)

\* Pieces that follow one another, without a gap, from one position to another.
Tiles(q, from, to) ==
    /\ IF q = << >> THEN from = to + 1 ELSE q[1][1] = from /\ q[Len(q)][2] = to
    /\ \A i \in DOMAIN q : from <= q[i][1] /\ q[i][1] <= q[i][2] /\ q[i][2] <= to
    /\ \A i, j \in DOMAIN q : i < j => q[i][2] < q[j][1]
    /\ \A i \in DOMAIN q : i + 1 \in DOMAIN q => q[i + 1][1] = q[i][2] + 1

Letters == Solid(Text, 1, Len(Text))

\* What the calls that are still to be made will split.
Unsplit(stack) == [n \in DOMAIN stack |-> stack[n].at]

Piece == Nat \X Nat
SplitCall == [at : Piece, separator : 1..4]
ChunkRecord == [section : Nat, at : Piece, index : Nat]

ChunkerState ==
    [document : Seq(Seq(Characters)), section : Nat, stack : Seq(SplitCall),
     pieces : Seq(Piece), current : Seq(Piece), length : Nat,
     pc : {"section", "text", "splitting", "merging"}, chunks : Seq(ChunkRecord)]

ChunkTyped ==
    /\ chunker \in ChunkerState
    /\ chunker.section <= Len(chunker.document)
    /\ chunker.pc # "section" => chunker.section > 0
    /\ chunker.length <= ChunkSize

\* A chunk is of the text of a section that has been begun, its index is its number,
Numbered(chunks, document, section) ==
    \A k \in DOMAIN chunks :
       /\ chunks[k].index = k - 1
       /\ chunks[k].section \in 1..section
       /\ chunks[k].at[1] >= 1 /\ chunks[k].at[2] >= 1
       /\ chunks[k].at[1] <= Len(document[chunks[k].section])
       /\ chunks[k].at[2] <= Len(document[chunks[k].section])

\* and it ends after the chunks of the section that are before it.
InOrder(chunks) ==
    \A j, k \in DOMAIN chunks :
       j < k /\ chunks[j].section = chunks[k].section =>
          chunks[j].at[1] <= chunks[k].at[1] /\ chunks[j].at[2] < chunks[k].at[2]

\* No chunk is of a section.
NoneOf(chunks, section) == \A k \in DOMAIN chunks : chunks[k].section # section

ChunksAreCounted ==
    /\ Numbered(chunker.chunks, chunker.document, chunker.section)
    /\ InOrder(chunker.chunks)
    /\ chunker.pc \in {"text", "splitting"} => NoneOf(chunker.chunks, chunker.section)

Covers(chunks, s, i) ==
    \E k \in DOMAIN chunks :
       chunks[k].section = s /\ chunks[k].at[1] <= i /\ i <= chunks[k].at[2]

SectionsCovered ==
    \A s \in 1..chunker.section :
       s # chunker.section \/ chunker.pc = "section" =>
          \A i \in Solid(chunker.document[s], 1, Len(chunker.document[s])) :
             Covers(chunker.chunks, s, i)

\* Between texts nothing is left over.
NothingPending ==
    chunker.pc \in {"section", "text"} =>
       /\ chunker.stack = << >> /\ chunker.pieces = << >>
       /\ chunker.current = << >> /\ chunker.length = 0

PiecesFit == \A i \in DOMAIN chunker.pieces : PieceLength(chunker.pieces[i]) <= ChunkSize

\* The pieces and the calls are the whole text, in its order, and what is as fine as
\* can be is one character.
SplitsTile ==
    chunker.pc = "splitting" =>
       /\ chunker.current = << >> /\ chunker.length = 0
       /\ Letters # {}
       /\ \E m \in Nat : /\ Tiles(chunker.pieces, Min(Letters), m)
                         /\ Tiles(Unsplit(chunker.stack), m + 1, Max(Letters))
       /\ \A n \in DOMAIN chunker.stack :
             chunker.stack[n].separator = 4 => chunker.stack[n].at[1] = chunker.stack[n].at[2]

\* What is before an interval is covered, and the interval has text that is after every
\* chunk there is of the section.
Extends(chunks, section, text, first, last) ==
    /\ \A i \in Solid(text, 1, first - 1) : Covers(chunks, section, i)
    /\ \A k \in DOMAIN chunks : chunks[k].section = section =>
          /\ \E i \in Solid(text, first, last) : chunks[k].at[2] < i
          /\ \A i \in Solid(text, first, Len(text)) : chunks[k].at[1] <= i

\* The pieces of the current chunk and those that are left follow one another.
MergeTiles(first, last) ==
    /\ Min(Letters) <= first
    /\ Tiles(chunker.current, first, last)
    /\ Tiles(chunker.pieces, last + 1, Max(Letters))
    /\ Extends(chunker.chunks, chunker.section, Text, first, last)

ChunksGrow ==
    chunker.pc = "merging" =>
       /\ chunker.stack = << >>
       /\ Letters # {}
       /\ IF chunker.current = << >>
          THEN /\ chunker.length = 0
               /\ chunker.pieces # << >> /\ Tiles(chunker.pieces, Min(Letters), Max(Letters))
               /\ NoneOf(chunker.chunks, chunker.section)
          ELSE MergeTiles(Head(chunker.current)[1], chunker.current[Len(chunker.current)][2])

ChunkInv ==
    /\ ChunkTyped /\ ChunksAreCounted /\ SectionsCovered
    /\ NothingPending /\ PiecesFit /\ SplitsTile /\ ChunksGrow
-----------------------------------------------------------------------------
(* Chunking: pieces that follow one another *)

\* No pieces are what is between a position and the one before it.
LEMMA TilesNothing ==
    ASSUME NEW x \in Nat
    PROVE  Tiles(<< >>, x + 1, x)
  BY DEF Tiles

\* What is in the definition, about the pieces of a sequence.
LEMMA TilesAre ==
    ASSUME NEW q \in Seq(Piece), NEW x \in Nat, NEW y \in Nat, Tiles(q, x, y)
    PROVE  /\ Len(q) \in Nat /\ DOMAIN q = 1..Len(q)
           /\ \A i \in 1..Len(q) : /\ q[i][1] \in Nat /\ q[i][2] \in Nat
                                   /\ x <= q[i][1] /\ q[i][1] <= q[i][2] /\ q[i][2] <= y
           /\ \A i, j \in 1..Len(q) : i < j => q[i][2] < q[j][1]
           /\ \A i \in 1..Len(q) : i + 1 \in 1..Len(q) => q[i + 1][1] = q[i][2] + 1
           /\ q = << >> <=> Len(q) = 0
           /\ q = << >> => x = y + 1
           /\ q # << >> => q[1][1] = x /\ q[Len(q)][2] = y /\ x <= y
  <1>1. Len(q) \in Nat /\ DOMAIN q = 1..Len(q) /\ (q = << >> <=> Len(q) = 0)
    OBVIOUS
  <1>2. \A i \in 1..Len(q) : q[i] \in Piece
    BY <1>1
  <1>3. \A i \in 1..Len(q) : q[i][1] \in Nat /\ q[i][2] \in Nat
    BY <1>2 DEF Piece
  <1>4. \A i \in 1..Len(q) : x <= q[i][1] /\ q[i][1] <= q[i][2] /\ q[i][2] <= y
    BY <1>1 DEF Tiles
  <1>5. q # << >> => q[1][1] = x /\ q[Len(q)][2] = y
    BY DEF Tiles
  <1>6. q # << >> => x <= y
    <2>1. q # << >> => 1 \in 1..Len(q)
      BY <1>1
    <2> QED BY <1>3, <1>4, <2>1
  <1> QED BY <1>1, <1>3, <1>4, <1>5, <1>6 DEF Tiles

\* A sequence of pieces is a tiling if it is one piece by piece.
LEMMA TilesIf ==
    ASSUME NEW q \in Seq(Piece), NEW x, NEW y,
           \A i \in 1..Len(q) : x <= q[i][1] /\ q[i][1] <= q[i][2] /\ q[i][2] <= y,
           \A i, j \in 1..Len(q) : i < j => q[i][2] < q[j][1],
           \A i \in 1..Len(q) : i + 1 \in 1..Len(q) => q[i + 1][1] = q[i][2] + 1,
           Len(q) = 0 => x = y + 1,
           Len(q) # 0 => q[1][1] = x /\ q[Len(q)][2] = y
    PROVE  Tiles(q, x, y)
  <1>1. Len(q) \in Nat /\ DOMAIN q = 1..Len(q) /\ (q = << >> <=> Len(q) = 0)
    OBVIOUS
  <1> QED BY <1>1 DEF Tiles

\* Pieces that follow one another, and then others.
LEMMA TilesConcat ==
    ASSUME NEW q \in Seq(Piece), NEW r \in Seq(Piece), NEW x \in Nat, NEW m \in Nat, NEW y \in Nat,
           Tiles(q, x, m), Tiles(r, m + 1, y)
    PROVE  q \o r \in Seq(Piece) /\ Tiles(q \o r, x, y)
  <1> DEFINE s == q \o r
             a == Len(q)
             b == Len(r)
  <1>1. /\ s \in Seq(Piece) /\ a \in Nat /\ b \in Nat /\ Len(s) = a + b
        /\ \A i \in 1..a : s[i] = q[i]
        /\ \A i \in (a + 1)..(a + b) : s[i] = r[i - a]
    OBVIOUS
  <1>2. m + 1 \in Nat
    OBVIOUS
  <1>3. /\ \A i \in 1..a : /\ q[i][1] \in Nat /\ q[i][2] \in Nat
                           /\ x <= q[i][1] /\ q[i][1] <= q[i][2] /\ q[i][2] <= m
        /\ \A i, j \in 1..a : i < j => q[i][2] < q[j][1]
        /\ \A i \in 1..a : i + 1 \in 1..a => q[i + 1][1] = q[i][2] + 1
        /\ a = 0 => x = m + 1
        /\ a # 0 => q[1][1] = x /\ q[a][2] = m /\ x <= m
    BY TilesAre
  <1>4. /\ \A i \in 1..b : /\ r[i][1] \in Nat /\ r[i][2] \in Nat
                           /\ m + 1 <= r[i][1] /\ r[i][1] <= r[i][2] /\ r[i][2] <= y
        /\ \A i, j \in 1..b : i < j => r[i][2] < r[j][1]
        /\ \A i \in 1..b : i + 1 \in 1..b => r[i + 1][1] = r[i][2] + 1
        /\ b = 0 => m + 1 = y + 1
        /\ b # 0 => r[1][1] = m + 1 /\ r[b][2] = y /\ m + 1 <= y
    BY <1>2, TilesAre
  <1> HIDE DEF s, a, b
  <1>15. /\ a = 0 => x = m + 1
         /\ a # 0 => q[1][1] = x /\ q[a][2] = m /\ x <= m
    BY <1>3
  <1>16. /\ b = 0 => m + 1 = y + 1
         /\ b # 0 => r[1][1] = m + 1 /\ r[b][2] = y /\ m + 1 <= y
    BY <1>4
  <1>17. \A i \in 1..a : i + 1 \in 1..a => q[i + 1][1] = q[i][2] + 1
    BY <1>3
  <1>18. a \in Nat /\ b \in Nat
    BY <1>1
  <1>19. x <= m + 1 /\ m <= y
    BY <1>15, <1>16, <1>18
  <1>5. \A i \in 1..(a + b) : \/ i \in 1..a /\ s[i] = q[i]
                              \/ i \in (a + 1)..(a + b) /\ i - a \in 1..b /\ s[i] = r[i - a]
    BY <1>1
  <1>6. \A i \in 1..(a + b) : x <= s[i][1] /\ s[i][1] <= s[i][2] /\ s[i][2] <= y
    <2> TAKE i \in 1..(a + b)
    <2>1. CASE i \in 1..a /\ s[i] = q[i]
      <3>1. q[i][1] \in Nat /\ q[i][2] \in Nat /\ x <= q[i][1] /\ q[i][1] <= q[i][2] /\ q[i][2] <= m
        BY <1>3, <2>1
      <3> QED BY <1>19, <2>1, <3>1
    <2>2. CASE i \in (a + 1)..(a + b) /\ i - a \in 1..b /\ s[i] = r[i - a]
      <3> DEFINE k == i - a
      <3>1. k \in 1..b /\ s[i] = r[k]
        BY <2>2
      <3> HIDE DEF k
      <3>2. /\ r[k][1] \in Nat /\ r[k][2] \in Nat
            /\ m + 1 <= r[k][1] /\ r[k][1] <= r[k][2] /\ r[k][2] <= y
        BY <1>4, <3>1
      <3> QED BY <1>19, <3>1, <3>2
    <2> QED BY <1>5, <2>1, <2>2
  <1>7. \A i, j \in 1..(a + b) : i < j => s[i][2] < s[j][1]
    <2> TAKE i, j \in 1..(a + b)
    <2> SUFFICES ASSUME i < j PROVE s[i][2] < s[j][1]
      OBVIOUS
    <2>1. CASE i \in 1..a /\ j \in 1..a
      BY <1>1, <1>3, <2>1
    <2>2. CASE i \in 1..a /\ j \in (a + 1)..(a + b)
      <3> DEFINE k == j - a
      <3>1. k \in 1..b /\ s[j] = r[k] /\ s[i] = q[i]
        BY <1>1, <2>2
      <3> HIDE DEF k
      <3>2. q[i][2] \in Nat /\ q[i][2] <= m
        BY <1>3, <2>2
      <3>3. r[k][1] \in Nat /\ m + 1 <= r[k][1]
        BY <1>4, <3>1
      <3>4. q[i][2] < r[k][1]
        BY <3>2, <3>3
      <3> QED BY <3>1, <3>4
    <2>3. CASE i \in (a + 1)..(a + b) /\ j \in (a + 1)..(a + b)
      <3> DEFINE k == j - a
                 l == i - a
      <3>1. k \in 1..b /\ s[j] = r[k] /\ l \in 1..b /\ s[i] = r[l] /\ l < k
        BY <1>1, <2>3
      <3> HIDE DEF k, l
      <3> QED BY <1>4, <3>1
    <2> QED BY <1>1, <2>1, <2>2, <2>3
  <1>8. \A i \in 1..(a + b) : i + 1 \in 1..(a + b) => s[i + 1][1] = s[i][2] + 1
    <2> TAKE i \in 1..(a + b)
    <2> SUFFICES ASSUME i + 1 \in 1..(a + b) PROVE s[i + 1][1] = s[i][2] + 1
      OBVIOUS
    <2>1. CASE i < a
      <3>1. i \in 1..a /\ i + 1 \in 1..a /\ s[i] = q[i] /\ s[i + 1] = q[i + 1]
        BY <1>1, <2>1
      <3> QED BY <1>17, <3>1
    <2>2. CASE i = a
      <3>1. s[i] = q[a] /\ s[i + 1] = r[1] /\ a # 0 /\ b # 0
        <4>1. a \in 1..a /\ a + 1 \in (a + 1)..(a + b) /\ (a + 1) - a = 1
          BY <1>18, <2>2
        <4> QED BY <1>1, <2>2, <4>1
      <3> QED BY <1>15, <1>16, <3>1
    <2>3. CASE i > a
      <3> DEFINE l == i - a
      <3>1. l \in 1..b /\ s[i] = r[l] /\ l + 1 \in 1..b /\ s[i + 1] = r[l + 1]
        BY <1>1, <2>3
      <3> HIDE DEF l
      <3> QED BY <1>4, <3>1
    <2> QED BY <1>1, <2>1, <2>2, <2>3
  <1>9. a + b = 0 => x = y + 1
    BY <1>15, <1>16, <1>18
  <1>10. a + b # 0 => s[1][1] = x /\ s[a + b][2] = y
    <2>1. CASE a = 0 /\ b # 0
      <3>1. s[1] = r[1] /\ s[a + b] = r[b]
        BY <1>1, <2>1
      <3> QED BY <1>15, <1>16, <2>1, <3>1
    <2>2. CASE a # 0 /\ b = 0
      <3>1. s[1] = q[1] /\ s[a + b] = q[a]
        BY <1>1, <2>2
      <3> QED BY <1>15, <1>16, <2>2, <3>1
    <2>3. CASE a # 0 /\ b # 0
      <3>1. s[1] = q[1] /\ s[a + b] = r[b]
        <4>1. 1 \in 1..a /\ a + b \in (a + 1)..(a + b) /\ (a + b) - a = b
          BY <1>18, <2>3
        <4> QED BY <1>1, <4>1
      <3> QED BY <1>15, <1>16, <2>3, <3>1
    <2> QED BY <1>1, <2>1, <2>2, <2>3
  <1>11. Tiles(s, x, y)
    BY <1>1, <1>6, <1>7, <1>8, <1>9, <1>10, TilesIf
  <1> QED BY <1>1, <1>11 DEF s

\* The pieces from one on.
LEMMA TilesFrom ==
    ASSUME NEW q \in Seq(Piece), NEW x \in Nat, NEW y \in Nat, Tiles(q, x, y),
           NEW n \in 1..Len(q)
    PROVE  LET s == SubSeq(q, n, Len(q)) IN
           /\ s \in Seq(Piece) /\ s # << >> /\ Head(s) = q[n]
           /\ x <= q[n][1] /\ q[n][1] <= y
           /\ Tiles(s, q[n][1], y)
  <1> DEFINE s == SubSeq(q, n, Len(q))
             a == Len(q)
             l == a - n + 1
             z == q[n][1]
  <1>1. /\ a \in Nat /\ n \in 1..a /\ l \in Nat \ {0} /\ s \in Seq(Piece) /\ Len(s) = l
        /\ \A i \in 1..l : s[i] = q[i + (n - 1)]
    OBVIOUS
  <1>2. /\ \A i \in 1..a : /\ q[i][1] \in Nat /\ q[i][2] \in Nat
                           /\ x <= q[i][1] /\ q[i][1] <= q[i][2] /\ q[i][2] <= y
        /\ \A i, j \in 1..a : i < j => q[i][2] < q[j][1]
        /\ \A i \in 1..a : i + 1 \in 1..a => q[i + 1][1] = q[i][2] + 1
        /\ a # 0 => q[a][2] = y
    BY TilesAre
  <1>3. s # << >> /\ Head(s) = s[1] /\ s[1] = q[n]
    BY <1>1
  <1> HIDE DEF s, a
  <1>0. a \in Nat /\ n \in 1..a
    BY <1>1
  <1>4. \A i \in 1..l : i + (n - 1) \in n..a /\ i + (n - 1) \in 1..a
    BY <1>1
  <1>5. \A i \in 1..l : z <= s[i][1] /\ s[i][1] <= s[i][2] /\ s[i][2] <= y
    <2> TAKE i \in 1..l
    <2> DEFINE k == i + (n - 1)
    <2>1. k \in 1..a /\ k >= n /\ s[i] = q[k] /\ k \in Nat
      BY <1>1, <1>4
    <2> HIDE DEF k
    <2>2. CASE k = n
      BY <1>1, <1>2, <2>1, <2>2
    <2>3. CASE n < k
      <3>1. q[n][2] < q[k][1] /\ q[n][1] <= q[n][2]
        BY <1>1, <1>2, <2>1, <2>3
      <3>2. /\ q[n][1] \in Nat /\ q[n][2] \in Nat /\ q[k][1] \in Nat
            /\ q[k][1] <= q[k][2] /\ q[k][2] <= y
        BY <1>1, <1>2, <2>1
      <3> QED BY <2>1, <3>1, <3>2
    <2> QED BY <1>1, <2>1, <2>2, <2>3
  <1>6. \A i, j \in 1..l : i < j => s[i][2] < s[j][1]
    <2> TAKE i, j \in 1..l
    <2> DEFINE k == i + (n - 1)
               m == j + (n - 1)
    <2>1. k \in 1..a /\ m \in 1..a /\ s[i] = q[k] /\ s[j] = q[m] /\ (i < j => k < m)
      BY <1>1, <1>4
    <2> HIDE DEF k, m
    <2> QED BY <1>2, <2>1
  <1>7. \A i \in 1..l : i + 1 \in 1..l => s[i + 1][1] = s[i][2] + 1
    <2> TAKE i \in 1..l
    <2> DEFINE k == i + (n - 1)
    <2>1. ASSUME i + 1 \in 1..l
          PROVE  k \in 1..a /\ k + 1 \in 1..a /\ s[i] = q[k] /\ s[i + 1] = q[k + 1]
      <3>1. s[i + 1] = q[i + 1 + (n - 1)] /\ i + 1 + (n - 1) = k + 1
        BY <1>1, <2>1
      <3> QED BY <1>1, <1>4, <2>1, <3>1
    <2> HIDE DEF k
    <2> QED BY <1>2, <2>1
  <1>8. s[1][1] = z /\ s[l][2] = y
    <2>1. s[l] = q[a]
      <3>1. l \in 1..l /\ l + (n - 1) = a
        BY <1>0
      <3> HIDE DEF l
      <3> QED BY <1>1, <3>1
    <2>2. 1 \in 1..a /\ a # 0
      BY <1>0
    <2>3. q[a][2] = y
      BY <1>2, <2>2
    <2> QED BY <1>3, <2>1, <2>3
  <1>9. Tiles(s, z, y)
    <2>1. Len(s) = l /\ l # 0 /\ s \in Seq(Piece)
      BY <1>1
    <2> HIDE DEF z, l
    <2> QED BY <1>5, <1>6, <1>7, <1>8, <2>1, TilesIf
  <1>10. x <= z /\ z <= y
    <2>1. /\ q[n][1] \in Nat /\ q[n][2] \in Nat
          /\ x <= q[n][1] /\ q[n][1] <= q[n][2] /\ q[n][2] <= y
      BY <1>1, <1>2
    <2> QED BY <2>1
  <1> QED BY <1>1, <1>3, <1>9, <1>10 DEF s, a

\* What is left when the first piece is taken begins after it.
LEMMA TilesHead ==
    ASSUME NEW q \in Seq(Piece), q # << >>, NEW x \in Nat, NEW y \in Nat, Tiles(q, x, y)
    PROVE  /\ Head(q) \in Piece /\ Tail(q) \in Seq(Piece)
           /\ Head(q)[1] = x /\ x <= Head(q)[2] /\ Head(q)[2] <= y
           /\ Tiles(Tail(q), Head(q)[2] + 1, y)
  <1>1. /\ Head(q) = q[1] /\ q[1] \in Piece /\ Len(q) \in Nat \ {0}
        /\ Tail(q) \in Seq(Piece) /\ Len(Tail(q)) = Len(q) - 1
    OBVIOUS
  <1>2. q[1][1] = x /\ q[Len(q)][2] = y /\ x <= q[1][2] /\ q[1][2] <= y /\ q[1][2] \in Nat
    <2>1. 1 \in 1..Len(q)
      BY <1>1
    <2> QED BY <2>1, TilesAre
  <1>3. CASE Len(q) = 1
    <2>1. q[1][2] = y
      BY <1>2, <1>3
    <2>2. Tail(q) = << >>
      <3>1. \A t \in Seq(Piece) : Len(t) = 0 => t = << >>
        OBVIOUS
      <3>2. Tail(q) \in Seq(Piece) /\ Len(Tail(q)) = 0
        BY <1>1, <1>3
      <3> HIDE DEF Piece
      <3> QED BY <3>1, <3>2
    <2> QED BY <1>1, <1>2, <2>1, <2>2, TilesNothing
  <1>4. CASE Len(q) > 1
    <2>1. 2 \in 1..Len(q) /\ 1 \in 1..Len(q)
      BY <1>1, <1>4
    <2>2. Tiles(SubSeq(q, 2, Len(q)), q[2][1], y)
      BY <2>1, TilesFrom
    <2>3. q[2][1] = q[1][2] + 1
      <3>1. \A i \in 1..Len(q) : i + 1 \in 1..Len(q) => q[i + 1][1] = q[i][2] + 1
        BY TilesAre
      <3>2. q[1 + 1][1] = q[1][2] + 1
        BY <2>1, <3>1
      <3> QED BY <3>2
    <2>4. Tail(q) = SubSeq(q, 2, Len(q))
      OBVIOUS
    <2> QED BY <1>1, <1>2, <2>2, <2>3, <2>4
  <1> QED BY <1>1, <1>3, <1>4

\* One more piece at the end.
LEMMA TilesAppend ==
    ASSUME NEW q \in Seq(Piece), NEW x \in Nat, NEW m \in Nat, Tiles(q, x, m),
           NEW p \in Piece, p[1] = m + 1, p[1] <= p[2]
    PROVE  Append(q, p) \in Seq(Piece) /\ Tiles(Append(q, p), x, p[2])
  <1> DEFINE r == <<p>>
  <1>1. /\ r \in Seq(Piece) /\ Len(r) = 1 /\ r[1] = p /\ Append(q, p) = q \o r
        /\ p[1] \in Nat /\ p[2] \in Nat
    <2>1. p[1] \in Nat /\ p[2] \in Nat
      BY DEF Piece
    <2>2. Append(q, p) = q \o r
      BY AppendIsConcat
    <2> QED BY <2>1, <2>2
  <1> HIDE DEF r
  <1>2. Tiles(r, m + 1, p[2])
    BY <1>1, TilesIf
  <1> QED BY <1>1, <1>2, TilesConcat
-----------------------------------------------------------------------------
(* Chunking: what a piece is split into *)

\* The parts of an interval, by the positions where they end.
RankIn(E, e) == Cardinality({f \in E : f <= e})
EndIn(E, a, n) == IF n = 0 THEN a - 1 ELSE CHOOSE e \in E : RankIn(E, e) = n
PartsOf(E, a) == [n \in 1..Cardinality(E) |-> <<EndIn(E, a, n - 1) + 1, EndIn(E, a, n)>>]

\* Later ends rank higher.
LEMMA RanksAscend ==
    ASSUME NEW E \in SUBSET Nat, IsFiniteSet(E), NEW e \in E
    PROVE  /\ RankIn(E, e) \in 1..Cardinality(E) /\ Cardinality(E) \in Nat
           /\ \A f \in E : e < f => RankIn(E, e) < RankIn(E, f)
           /\ (\A f \in E : f <= e) => RankIn(E, e) = Cardinality(E)
  <1> DEFINE D == {f \in E : f <= e}
  <1>1. IsFiniteSet(D) /\ Cardinality(D) \in Nat /\ Cardinality(D) <= Cardinality(E)
    BY FS_Subset, FS_CardinalityType
  <1>2. Cardinality(E) \in Nat
    BY FS_CardinalityType
  <1>3. Cardinality(D) # 0
    <2>1. e \in D
      OBVIOUS
    <2> QED BY <1>1, <2>1, FS_EmptySet
  <1>4. ASSUME NEW f \in E, e < f
        PROVE  RankIn(E, e) < RankIn(E, f)
    <2> DEFINE F == {g \in E : g <= f}
    <2>1. IsFiniteSet(F) /\ Cardinality(F) \in Nat
      BY FS_Subset, FS_CardinalityType
    <2>2. D \in SUBSET F /\ D # F
      <3>1. f \in F /\ f \notin D
        BY <1>4
      <3>2. \A g \in D : g \in F
        BY <1>4
      <3> QED BY <3>1, <3>2
    <2>3. Cardinality(D) <= Cardinality(F) /\ Cardinality(F) # Cardinality(D)
      <3> HIDE DEF D, F
      <3> QED BY <2>1, <2>2, FS_Subset
    <2> HIDE DEF D, F
    <2>4. Cardinality(D) < Cardinality(F)
      BY <1>1, <2>1, <2>3
    <2> QED BY <2>4 DEF RankIn, D, F
  <1>5. (\A f \in E : f <= e) => D = E
    OBVIOUS
  <1>6. RankIn(E, e) = Cardinality(D)
    BY DEF RankIn
  <1> HIDE DEF D
  <1> QED BY <1>1, <1>2, <1>3, <1>4, <1>5, <1>6

\* Each number is the rank of one end.
LEMMA EndsAreRanked ==
    ASSUME NEW E \in SUBSET Nat, IsFiniteSet(E), NEW a, NEW n \in 1..Cardinality(E)
    PROVE  EndIn(E, a, n) \in E /\ EndIn(E, a, n) \in Nat /\ RankIn(E, EndIn(E, a, n)) = n
  <1> DEFINE N == Cardinality(E)
             rank == [e \in E |-> RankIn(E, e)]
  <1>1. N \in Nat
    BY FS_CardinalityType
  <1>2. \A e \in E : rank[e] \in 1..N
    BY RanksAscend
  <1>3. \A e, f \in E : e < f => rank[e] < rank[f]
    BY RanksAscend
  <1>4. \A e, f \in E : rank[e] = rank[f] => e = f
    <2> TAKE e, f \in E
    <2>1. e \in Nat /\ f \in Nat /\ rank[e] \in Nat /\ rank[f] \in Nat
      BY <1>2
    <2>2. (e < f => rank[e] < rank[f]) /\ (f < e => rank[f] < rank[e])
      BY <1>3
    <2> HIDE DEF rank
    <2> QED BY <2>1, <2>2
  <1>5. rank \in Injection(E, 1..N)
    BY <1>2, <1>4 DEF Injection, IsInjective
  <1>6. IsFiniteSet(1..N) /\ Cardinality(1..N) = N
    BY <1>1, FS_Interval
  <1>7. rank \in Surjection(E, 1..N)
    <2> HIDE DEF rank
    <2> QED BY <1>5, <1>6, FS_Injection
  <1>8. \E e \in E : RankIn(E, e) = n
    BY <1>7 DEF Surjection
  <1>9. n # 0
    BY <1>1
  <1> QED BY <1>8, <1>9 DEF EndIn

\* The ends are in their order, and there is none between two of them.
LEMMA EndsAscend ==
    ASSUME NEW E \in SUBSET Nat, IsFiniteSet(E), NEW a
    PROVE  /\ \A m, n \in 1..Cardinality(E) : m < n => EndIn(E, a, m) < EndIn(E, a, n)
           /\ \A n \in 1..Cardinality(E) : n + 1 \in 1..Cardinality(E) =>
                \A e \in E : ~ (EndIn(E, a, n) < e /\ e < EndIn(E, a, n + 1))
           /\ \A e \in E : 1 \in 1..Cardinality(E) => EndIn(E, a, 1) <= e
           /\ \A e \in E : (\A f \in E : f <= e) => EndIn(E, a, Cardinality(E)) = e
  <1> DEFINE N == Cardinality(E)
             end(n) == EndIn(E, a, n)
             rank(e) == RankIn(E, e)
  <1>1. N \in Nat
    BY FS_CardinalityType
  <1>2. \A n \in 1..N : end(n) \in E /\ end(n) \in Nat /\ rank(end(n)) = n
    BY EndsAreRanked
  <1>3. \A e \in E : rank(e) \in 1..N
    BY RanksAscend
  <1>4. \A e, f \in E : e < f => rank(e) < rank(f)
    BY RanksAscend
  <1>5. \A e \in E : (\A f \in E : f <= e) => rank(e) = N
    BY RanksAscend
  <1> HIDE DEF N, end, rank
  <1>6. \A e, f \in E : rank(e) < rank(f) => e < f
    <2> TAKE e, f \in E
    <2>1. e \in Nat /\ f \in Nat /\ rank(e) \in Nat /\ rank(f) \in Nat
      BY <1>3
    <2>2. f < e => rank(f) < rank(e)
      BY <1>4
    <2> QED BY <2>1, <2>2
  <1>7. \A e, f \in E : rank(e) = rank(f) => e = f
    <2> TAKE e, f \in E
    <2>1. e \in Nat /\ f \in Nat /\ rank(e) \in Nat /\ rank(f) \in Nat
      BY <1>3
    <2> QED BY <1>4, <2>1
  <1>8. \A m, n \in 1..N : m < n => end(m) < end(n)
    <2> TAKE m, n \in 1..N
    <2> QED BY <1>2, <1>6
  <1>9. ASSUME NEW n \in 1..N, n + 1 \in 1..N, NEW e \in E, end(n) < e, e < end(n + 1)
        PROVE  FALSE
    <2>1. rank(end(n)) < rank(e) /\ rank(e) < rank(end(n + 1))
      BY <1>2, <1>4, <1>9
    <2>2. n < rank(e) /\ rank(e) < n + 1
      BY <1>2, <1>9, <2>1
    <2> QED BY <1>1, <1>3, <2>2
  <1>10. ASSUME 1 \in 1..N, NEW e \in E
         PROVE  end(1) <= e
    <2>1. end(1) \in E /\ end(1) \in Nat /\ rank(end(1)) = 1 /\ e \in Nat /\ rank(e) \in 1..N
      BY <1>2, <1>3, <1>10
    <2>2. e < end(1) => rank(e) < 1
      BY <1>4, <2>1
    <2> QED BY <1>1, <2>1, <2>2
  <1>11. ASSUME NEW e \in E, \A f \in E : f <= e
         PROVE  end(N) = e
    <2>1. rank(e) = N /\ N \in 1..N
      BY <1>3, <1>5, <1>11
    <2> QED BY <1>2, <1>7, <2>1
  <1> QED BY <1>8, <1>9, <1>10, <1>11 DEF N, end

\* Parts that end at the ends, the last of which is the end of the piece, tile it; if
\* every position is an end, they are its characters.
LEMMA PartsTile ==
    ASSUME NEW a \in Nat, NEW b \in Nat, a <= b, NEW E \in SUBSET (a..b), b \in E
    PROVE  /\ PartsOf(E, a) \in Seq(Piece) /\ PartsOf(E, a) # << >>
           /\ Tiles(PartsOf(E, a), a, b)
           /\ E = a..b => \A n \in DOMAIN PartsOf(E, a) :
                             PartsOf(E, a)[n][1] = PartsOf(E, a)[n][2]
  <1> DEFINE N == Cardinality(E)
             end(n) == EndIn(E, a, n)
             q == PartsOf(E, a)
  <1>1. IsFiniteSet(a..b) /\ E \in SUBSET Nat
    BY FS_Interval
  <1>2. IsFiniteSet(E) /\ N \in Nat /\ N # 0
    BY <1>1, FS_Subset, FS_CardinalityType, FS_EmptySet
  <1>3. 1 \in 1..N /\ N \in 1..N
    BY <1>2
  <1>4. \A n \in 1..N : end(n) \in E
    BY <1>1, <1>2, EndsAreRanked
  <1>5. /\ \A m, n \in 1..N : m < n => end(m) < end(n)
        /\ \A n \in 1..N : n + 1 \in 1..N => \A e \in E : ~ (end(n) < e /\ e < end(n + 1))
        /\ \A e \in E : 1 \in 1..N => end(1) <= e
        /\ \A e \in E : (\A f \in E : f <= e) => end(N) = e
    BY <1>1, <1>2, EndsAscend
  <1>6. end(N) = b
    <2>1. \A f \in E : f <= b
      OBVIOUS
    <2> QED BY <1>5, <2>1
  <1>7. end(0) = a - 1
    BY DEF EndIn
  <1>8. q = [n \in 1..N |-> <<end(n - 1) + 1, end(n)>>]
    BY DEF PartsOf
  <1> HIDE DEF N, end, q
  <1>9. \A n \in 1..N : end(n) \in a..b
    BY <1>4
  <1>10. \A n \in 1..N : n - 1 \in 1..N \/ n = 1
    BY <1>2
  <1>11. \A n \in 1..N : end(n - 1) \in Int /\ a - 1 <= end(n - 1) /\ end(n - 1) < end(n)
    <2> TAKE n \in 1..N
    <2> DEFINE m == n - 1
    <2>1. CASE m \in 1..N
      <3>1. m < n
        OBVIOUS
      <3> HIDE DEF m
      <3>2. end(m) \in a..b /\ end(n) \in a..b /\ end(m) < end(n)
        BY <1>5, <1>9, <2>1, <3>1
      <3>3. end(m) \in Int /\ a - 1 <= end(m) /\ end(m) < end(n)
        BY <3>2
      <3> QED BY <3>3 DEF m
    <2>2. CASE n = 1
      <3>1. m = 0 /\ end(m) = a - 1
        BY <1>7, <2>2
      <3>2. end(n) \in a..b
        BY <1>9
      <3> HIDE DEF m
      <3>3. end(m) \in Int /\ a - 1 <= end(m) /\ end(m) < end(n)
        BY <3>1, <3>2
      <3> QED BY <3>3 DEF m
    <2> QED BY <1>10, <2>1, <2>2
  <1>12. \A n \in 1..N : q[n] = <<end(n - 1) + 1, end(n)>>
    BY <1>8
  <1>13. \A n \in 1..N : /\ q[n][1] = end(n - 1) + 1 /\ q[n][2] = end(n)
                         /\ q[n] = <<q[n][1], q[n][2]>>
    BY <1>12
  <1>14. \A n \in 1..N : a <= q[n][1] /\ q[n][1] <= q[n][2] /\ q[n][2] <= b /\ q[n] \in Piece
    <2> TAKE n \in 1..N
    <2> DEFINE m == n - 1
    <2>1. end(m) \in Int /\ a - 1 <= end(m) /\ end(m) < end(n) /\ end(n) \in a..b
      BY <1>9, <1>11
    <2>2. q[n][1] = end(m) + 1 /\ q[n][2] = end(n) /\ q[n] = <<q[n][1], q[n][2]>>
      BY <1>13
    <2> HIDE DEF m
    <2>3. a <= q[n][1] /\ q[n][1] <= q[n][2] /\ q[n][2] <= b /\ q[n][1] \in Nat /\ q[n][2] \in Nat
      BY <2>1, <2>2
    <2> QED BY <2>2, <2>3 DEF Piece
  <1>15. q \in Seq(Piece) /\ Len(q) = N
    <2>1. q \in [1..N -> Piece]
      BY <1>8, <1>14
    <2> QED BY <1>2, <2>1
  <1>16. \A n \in 1..N : n + 1 \in 1..N => q[n + 1][1] = q[n][2] + 1
    <2> TAKE n \in 1..N
    <2> SUFFICES ASSUME n + 1 \in 1..N PROVE q[n + 1][1] = q[n][2] + 1
      OBVIOUS
    <2>1. q[n + 1][1] = end((n + 1) - 1) + 1 /\ q[n][2] = end(n)
      BY <1>13
    <2>2. (n + 1) - 1 = n
      OBVIOUS
    <2> QED BY <2>1, <2>2
  <1>17. \A m, n \in 1..N : m < n => q[m][2] < q[n][1]
    <2> TAKE m, n \in 1..N
    <2> SUFFICES ASSUME m < n PROVE q[m][2] < q[n][1]
      OBVIOUS
    <2> DEFINE l == n - 1
    <2>1. q[m][2] = end(m) /\ q[n][1] = end(l) + 1
      BY <1>13
    <2>2. l \in 1..N /\ (m = l \/ m < l)
      BY <1>2
    <2> HIDE DEF l
    <2>3. end(m) \in a..b /\ end(l) \in a..b /\ (m = l \/ end(m) < end(l))
      BY <1>5, <1>9, <2>2
    <2> QED BY <2>1, <2>3
  <1>18. q[1][1] = a /\ q[N][2] = b
    <2>1. q[1][1] = end(1 - 1) + 1 /\ q[N][2] = end(N)
      BY <1>3, <1>13
    <2>2. 1 - 1 = 0 /\ (a - 1) + 1 = a
      OBVIOUS
    <2> QED BY <1>6, <1>7, <2>1, <2>2
  <1>19. Tiles(q, a, b)
    BY <1>2, <1>14, <1>15, <1>16, <1>17, <1>18, TilesIf
  <1>20. ASSUME E = a..b, NEW n \in 1..N
         PROVE  q[n][1] = q[n][2]
    <2>1. CASE n = 1
      <3>1. end(1) <= a /\ end(1) \in a..b
        BY <1>3, <1>5, <1>9, <1>20
      <3> QED BY <1>3, <1>13, <1>18, <2>1, <3>1
    <2>2. CASE n - 1 \in 1..N
      <3> DEFINE m == n - 1
      <3>1. m \in 1..N /\ m + 1 = n /\ m + 1 \in 1..N /\ m < n
        BY <2>2
      <3>2. q[n][1] = end(m) + 1 /\ q[n][2] = end(n)
        BY <1>13
      <3> HIDE DEF m
      <3>3. end(m) \in a..b /\ end(n) \in a..b /\ end(m) < end(n)
        BY <1>5, <1>9, <3>1
      <3>4. \A e \in E : ~ (end(m) < e /\ e < end(n))
        BY <1>5, <3>1
      <3>5. end(m) + 1 < end(n) => end(m) + 1 \in E
        BY <1>20, <3>3
      <3>6. end(m) < end(m) + 1
        BY <3>3
      <3>7. ~ (end(m) + 1 < end(n))
        BY <3>4, <3>5, <3>6
      <3> QED BY <3>2, <3>3, <3>7
    <2> QED BY <1>10, <2>1, <2>2
  <1> QED BY <1>2, <1>15, <1>19, <1>20 DEF q

\* SplitWithSep is that, with the ends after a separator.
LEMMA SplitTiles ==
    ASSUME NEW p \in Piece, p[1] <= p[2], NEW separator \in 1..3
    PROVE  LET parts == SplitWithSep(p, separator) IN
           /\ parts \in Seq(Piece) /\ parts # << >> /\ Tiles(parts, p[1], p[2])
           /\ separator = 3 => \A n \in DOMAIN parts : parts[n][1] = parts[n][2]
  <1> DEFINE E == {i \in p[1]..p[2] : \/ i = p[2] \/ Separators[separator] = "empty"
                                      \/ Text[i] = Separators[separator]}
  <1>1. SplitWithSep(p, separator) = PartsOf(E, p[1])
    BY Zenon DEF SplitWithSep, PartsOf, EndIn, RankIn
  <1>2. p[1] \in Nat /\ p[2] \in Nat
    BY DEF Piece
  <1>3. E \in SUBSET (p[1]..p[2]) /\ p[2] \in E
    BY <1>2
  <1>4. separator = 3 => E = p[1]..p[2]
    BY DEF Separators
  <1> HIDE DEF E
  <1> QED BY <1>1, <1>2, <1>3, <1>4, PartsTile
-----------------------------------------------------------------------------
(* Chunking: the separator that splits, and what a chunk repeats *)

\* A piece is a number of tokens long, and a piece of one character fits.
LEMMA PiecesHaveLength ==
    ASSUME NEW p \in Piece
    PROVE  /\ PieceLength(p) \in Nat
           /\ Solid(Text, p[1], p[2]) = {} => PieceLength(p) = 0
           /\ Text \in Seq(Characters) /\ p[1] = p[2] /\ p[1] \in DOMAIN Text
                => PieceLength(p) <= ChunkSize
  <1>1. p[1] \in Nat /\ p[2] \in Nat
    BY DEF Piece
  <1>2. ASSUME Text \in Seq(Characters), p[1] = p[2], p[1] \in DOMAIN Text
        PROVE  PieceLength(p) <= ChunkSize
    <2>1. PieceLength(p) <= 1 /\ PieceLength(p) \in Nat
      BY <1>1, <1>2, EstimateOfOne, EstimateIsNatural DEF PieceLength
    <2> QED BY <2>1, ChunkingAssumption
  <1> QED BY <1>1, <1>2, EstimateIsNatural DEF PieceLength

\* The empty separator occurs everywhere, so there is one to split at.
LEMMA SeparatorIsFound ==
    ASSUME NEW p, NEW s \in 1..3
    PROVE  LET sep == Min({t \in s..Len(Separators) : Occurs(t, p)}) IN
           sep \in s..3 /\ sep \in 1..3 /\ sep + 1 \in 1..4 /\ (sep + 1 = 4 => sep = 3)
  <1> DEFINE S == {t \in s..Len(Separators) : Occurs(t, p)}
  <1>1. Len(Separators) = 3 /\ Separators[3] = "empty"
    BY DEF Separators
  <1>2. S \in SUBSET Nat /\ S \subseteq s..3 /\ 3 \in S
    BY <1>1 DEF Occurs
  <1>3. Min(S) \in S
    <2> HIDE DEF S
    <2> QED BY <1>2, MinIsLeast
  <1>4. Min(S) \in s..3
    BY <1>2, <1>3
  <1> HIDE DEF S
  <1>5. Min(S) \in 1..3 /\ Min(S) + 1 \in 1..4 /\ (Min(S) + 1 = 4 => Min(S) = 3)
    BY <1>4
  <1> QED BY <1>4, <1>5 DEF S

\* The length of pieces is a number, and that of none nothing.
LEMMA TotalIsNatural ==
    ASSUME NEW q \in Seq(Piece)
    PROVE  TotalLength(q) \in Nat /\ (q = << >> => TotalLength(q) = 0)
  <1> DEFINE S == DOMAIN q
             term(i) == PieceLength(q[i])
             f == [i \in S |-> PieceLength(q[i])]
             Adds(g) == g = [s \in SUBSET S |-> IF s = {} THEN 0
                                                ELSE term(Pick(s)) + g[s \ {Pick(s)}]]
             g == CHOOSE g : Adds(g)
  <1>1. TotalLength(q) = g[S]
    BY Zenon DEF TotalLength, MapThenSumSet, MapThenFoldSet, Pick
  <1>2. \A i \in S : term(i) = f[i] /\ f[i] \in Nat
    <2> TAKE i \in S
    <2>1. q[i] \in Piece
      OBVIOUS
    <2> QED BY <2>1, PiecesHaveLength
  <1>0. IsFiniteSet(S) /\ S \subseteq S
    <2>1. S = 1..Len(q) /\ Len(q) \in Nat
      OBVIOUS
    <2> QED BY <2>1, FS_Interval
  <1>9. q = << >> => S = {}
    OBVIOUS
  <1> HIDE DEF S, term, f
  <1>3. \A s \in SUBSET S : s # {} => term(Pick(s)) = f[Pick(s)]
    BY <1>2, PickIsElement
  <1>4. ASSUME NEW h
        PROVE  Adds(h) <=> SumsUp(f, S, h)
    BY <1>3 DEF SumsUp
  <1>5. PICK h : SumsUp(f, S, h)
    BY <1>0, SumExists
  <1>6. SumsUp(f, S, g)
    <2>1. Adds(g)
      BY <1>4, <1>5
    <2> HIDE DEF g
    <2> QED BY <1>4, <2>1
  <1> DEFINE e == CHOOSE x : SumsUp(f, S, x)
  <1>7. SumsUp(f, S, e)
    BY <1>5
  <1>8. SumOver(f, S) = e[S]
    BY SumIsSumOf DEF SumOf
  <1> HIDE DEF g, e
  <1>10. g[S] = e[S]
    BY <1>0, <1>6, <1>7, SumsAgree
  <1>11. TotalLength(q) = SumOver(f, S)
    BY <1>1, <1>8, <1>10
  <1>12. SumOver(f, S) \in Nat
    BY <1>0, <1>2, SumIsNatural
  <1>13. SumOver(f, {}) = 0
    BY FS_EmptySet, SumSteps
  <1> QED BY <1>9, <1>11, <1>12, <1>13

\* What a chunk repeats is a tail of the one before it, or nothing, and leaves room for
\* the piece that comes next.
LEMMA OverlapIsTail ==
    ASSUME NEW q \in Seq(Piece), NEW next \in Nat, next <= ChunkSize
    PROVE  LET kept == Overlap(q, next) IN
           /\ kept = << >> \/ \E n \in 1..Len(q) : kept = SubSeq(q, n, Len(q))
           /\ TotalLength(kept) \in Nat /\ TotalLength(kept) + next <= ChunkSize
  <1> DEFINE from(i) == SubSeq(q, i, Len(q))
             fitting == {i \in 1..(Len(q) + 1) : \A j \in i..Len(q) : Fits(from(j), next)}
             n == Min(fitting)
             kept == from(n)
  <1>1. Overlap(q, next) = kept
    BY Zenon DEF Overlap
  <1>2. Len(q) \in Nat
    OBVIOUS
  <1>3. Len(q) + 1 \in fitting /\ fitting \in SUBSET Nat
    <2>1. (Len(q) + 1)..Len(q) = {}
      BY <1>2
    <2> QED BY <1>2, <2>1
  <1>4. n \in fitting
    <2> HIDE DEF fitting
    <2> QED BY <1>3, MinIsLeast
  <1>5. n \in 1..(Len(q) + 1) /\ \A j \in n..Len(q) : Fits(from(j), next)
    BY <1>4
  <1> HIDE DEF fitting, n
  <1>6. CASE n = Len(q) + 1
    <2>1. kept = << >>
      BY <1>2, <1>6
    <2>2. << >> \in Seq(Piece)
      OBVIOUS
    <2>3. TotalLength(kept) = 0
      BY <2>1, <2>2, TotalIsNatural
    <2>4. TotalLength(kept) + next <= ChunkSize
      BY <2>3, ChunkingAssumption
    <2> HIDE DEF kept
    <2> QED BY <1>1, <2>1, <2>3, <2>4
  <1>7. CASE n \in 1..Len(q)
    <2>1. Fits(kept, next)
      BY <1>2, <1>5, <1>7
    <2>2. kept \in Seq(Piece)
      BY <1>2, <1>7
    <2>3. TotalLength(kept) \in Nat
      <3> HIDE DEF kept
      <3> QED BY <2>2, TotalIsNatural
    <2>4. TotalLength(kept) + next <= ChunkSize
      BY <2>1 DEF Fits
    <2>5. kept = SubSeq(q, n, Len(q))
      OBVIOUS
    <2> HIDE DEF kept
    <2> QED BY <1>1, <1>7, <2>3, <2>4, <2>5
  <1> QED BY <1>2, <1>5, <1>6, <1>7
-----------------------------------------------------------------------------
(* Chunking: texts, calls and chunks of a state *)

\* The text at work, and the solid characters of it.
LEMMA TextIsThere ==
    ASSUME ChunkTyped, chunker.section > 0
    PROVE  /\ Text \in Seq(Characters) /\ Len(Text) \in Nat /\ DOMAIN Text = 1..Len(Text)
           /\ Letters \subseteq 1..Len(Text)
           /\ Letters # {} =>
                /\ Min(Letters) \in Letters /\ Max(Letters) \in Letters
                /\ 1 <= Min(Letters) /\ Min(Letters) <= Max(Letters) /\ Max(Letters) <= Len(Text)
                /\ Min(Letters) \in Nat /\ Max(Letters) \in Nat
                /\ \A i \in Letters : Min(Letters) <= i /\ i <= Max(Letters)
                /\ Stripped(Text, 1, Len(Text)) = <<Min(Letters), Max(Letters)>>
  <1>1. Text \in Seq(Characters)
    <2>1. chunker.document \in Seq(Seq(Characters)) /\ chunker.section \in 1..Len(chunker.document)
      BY DEF ChunkTyped, ChunkerState
    <2> QED BY <2>1 DEF Text
  <1> DEFINE t == Text
             S == Solid(t, 1, Len(t))
  <1>2. Len(t) \in Nat /\ DOMAIN t = 1..Len(t)
    BY <1>1
  <1>3. Letters = S /\ S \subseteq 1..Len(t)
    BY DEF Letters, Solid
  <1> HIDE DEF t
  <1>4. ASSUME S # {}
        PROVE  /\ Min(S) \in S /\ Max(S) \in S /\ Stripped(t, 1, Len(t)) = <<Min(S), Max(S)>>
               /\ Min(S) \in 1..Len(t) /\ Max(S) \in 1..Len(t)
               /\ \A i \in S : Min(S) <= i /\ i <= Max(S)
    BY <1>2, <1>4, StrippedText
  <1> HIDE DEF S
  <1>5. ASSUME S # {}
        PROVE  /\ 1 <= Min(S) /\ Min(S) <= Max(S) /\ Max(S) <= Len(t)
               /\ Min(S) \in Nat /\ Max(S) \in Nat
    BY <1>2, <1>4, <1>5
  <1> QED BY <1>1, <1>2, <1>3, <1>4, <1>5 DEF t

\* A step that leaves the document and the section alone leaves the text alone.
LEMMA SameText ==
    ASSUME chunker'.document = chunker.document, chunker'.section = chunker.section
    PROVE  /\ Text' = Text /\ Letters' = Letters
           /\ \A p : PieceLength(p)' = PieceLength(p)
  <1>1. Text' = Text
    BY DEF Text
  <1>2. Letters' = Letters
    BY <1>1 DEF Letters
  <1>3. \A p : PieceLength(p)' = PieceLength(p)
    BY <1>1 DEF PieceLength
  <1> QED BY <1>1, <1>2, <1>3

\* The pieces of the calls.
LEMMA UnsplitCalls ==
    ASSUME NEW stack \in Seq(SplitCall)
    PROVE  /\ Unsplit(stack) \in Seq(Piece)
           /\ Unsplit(<< >>) = << >>
           /\ stack # << >> =>
                /\ Unsplit(stack) # << >> /\ Head(stack) \in SplitCall
                /\ Tail(stack) \in Seq(SplitCall)
                /\ Head(Unsplit(stack)) = Head(stack).at
                /\ Tail(Unsplit(stack)) = Unsplit(Tail(stack))
  <1> DEFINE u == Unsplit(stack)
  <1>1. DOMAIN stack = 1..Len(stack) /\ Len(stack) \in Nat
    OBVIOUS
  <1>2. \A n \in 1..Len(stack) : stack[n] \in SplitCall /\ stack[n].at \in Piece
    <2>1. \A n \in 1..Len(stack) : stack[n] \in SplitCall
      BY <1>1
    <2> QED BY <2>1 DEF SplitCall
  <1>3. u = [n \in 1..Len(stack) |-> stack[n].at]
    BY <1>1 DEF Unsplit
  <1>4. u \in Seq(Piece) /\ Len(u) = Len(stack)
    <2>1. u \in [1..Len(stack) -> Piece]
      BY <1>2, <1>3
    <2> QED BY <1>1, <2>1
  <1>5. Unsplit(<< >>) = << >>
    BY DEF Unsplit
  <1> HIDE DEF u
  <1>6. ASSUME stack # << >>
        PROVE  /\ u # << >> /\ Head(stack) \in SplitCall /\ Tail(stack) \in Seq(SplitCall)
               /\ Head(u) = Head(stack).at /\ Tail(u) = Unsplit(Tail(stack))
    <2>1. Len(stack) # 0 /\ 1 \in 1..Len(stack) /\ Head(stack) = stack[1]
      BY <1>1, <1>6
    <2>2. u # << >> /\ Head(u) = u[1]
      BY <1>4, <2>1
    <2>3. u[1] = stack[1].at
      BY <1>3, <2>1
    <2>4. Tail(stack) \in Seq(SplitCall) /\ Len(Tail(stack)) = Len(stack) - 1
      BY <1>6
    <2> DEFINE N == Len(stack) - 1
    <2>5. N \in Nat /\ \A n \in 1..N : n + 1 \in 1..Len(stack)
      BY <1>1, <2>1
    <2>6. DOMAIN Tail(stack) = 1..N /\ \A n \in 1..N : Tail(stack)[n] = stack[n + 1]
      BY <1>6, <2>1, <2>4
    <2>7. /\ Tail(u) \in Seq(Piece) /\ Len(Tail(u)) = N
          /\ \A n \in 1..N : Tail(u)[n] = u[n + 1]
      BY <1>4, <2>1, <2>2
    <2> HIDE DEF N
    <2>8. Unsplit(Tail(stack)) = [n \in 1..N |-> stack[n + 1].at]
      BY <2>6 DEF Unsplit
    <2>9. \A n \in 1..N : u[n + 1] = stack[n + 1].at
      BY <1>3, <2>5
    <2> DEFINE w == [n \in 1..N |-> stack[n + 1].at]
    <2>11. w \in Seq(Piece) /\ Len(w) = N /\ \A n \in 1..N : w[n] = u[n + 1]
      <3>1. w \in [1..N -> Piece]
        BY <1>2, <2>5
      <3> QED BY <2>5, <2>9, <3>1
    <2>12. Tail(u) = w
      <3> HIDE DEF w
      <3> QED BY <2>7, <2>11, SeqEqual
    <2>10. Tail(u) = Unsplit(Tail(stack))
      BY <2>8, <2>12
    <2> QED BY <1>2, <2>1, <2>2, <2>3, <2>4, <2>10
  <1> QED BY <1>4, <1>5, <1>6 DEF u

\* The calls that a call makes.
CallsFor(parts, s) == [n \in DOMAIN parts |-> [at |-> parts[n], separator |-> s]]

\* Calls that are put before others are of the same pieces in the same order.
LEMMA UnsplitPushed ==
    ASSUME NEW parts \in Seq(Piece), NEW s \in 1..4, NEW rest \in Seq(SplitCall)
    PROVE  LET new == CallsFor(parts, s) \o rest IN
           /\ new \in Seq(SplitCall)
           /\ Unsplit(new) = parts \o Unsplit(rest)
           /\ (s = 4 => \A n \in DOMAIN parts : parts[n][1] = parts[n][2])
              /\ (\A n \in DOMAIN rest : rest[n].separator = 4 => rest[n].at[1] = rest[n].at[2])
                => \A n \in DOMAIN new : new[n].separator = 4 => new[n].at[1] = new[n].at[2]
  <1> DEFINE calls == CallsFor(parts, s)
             new == calls \o rest
             a == Len(parts)
             b == Len(rest)
  <1>1. a \in Nat /\ b \in Nat /\ DOMAIN parts = 1..a /\ DOMAIN rest = 1..b
    OBVIOUS
  <1>2. /\ \A n \in 1..a : parts[n] \in Piece
        /\ \A n \in 1..b : rest[n] \in SplitCall
    BY <1>1
  <1>3. calls = [n \in 1..a |-> [at |-> parts[n], separator |-> s]]
    BY <1>1 DEF CallsFor
  <1>4. calls \in Seq(SplitCall) /\ Len(calls) = a
    <2>1. calls \in [1..a -> SplitCall]
      BY <1>2, <1>3 DEF SplitCall
    <2> QED BY <1>1, <2>1
  <1> HIDE DEF calls
  <1>5. /\ new \in Seq(SplitCall) /\ Len(new) = a + b /\ DOMAIN new = 1..(a + b)
        /\ \A n \in 1..a : new[n] = calls[n]
        /\ \A n \in (a + 1)..(a + b) : new[n] = rest[n - a]
    BY <1>1, <1>4
  <1> HIDE DEF new
  <1>6. \A n \in 1..(a + b) : n \in 1..a \/ (n \in (a + 1)..(a + b) /\ n - a \in 1..b)
    BY <1>1
  <1>7. Unsplit(new) = [n \in 1..(a + b) |-> new[n].at]
    BY <1>5 DEF Unsplit
  <1>8. Unsplit(rest) = [n \in 1..b |-> rest[n].at] /\ Unsplit(rest) \in Seq(Piece)
    BY <1>1, UnsplitCalls DEF Unsplit
  <1> DEFINE u == Unsplit(rest)
  <1>9. Len(u) = b
    BY <1>1, <1>8
  <1>10. parts \o u = [n \in 1..(a + b) |-> IF n <= a THEN parts[n] ELSE u[n - a]]
    <2> HIDE DEF u
    <2>1. u \in Seq(Piece)
      BY <1>8 DEF u
    <2> DEFINE c == parts \o u
    <2>2. c \in Seq(Piece) /\ Len(c) = a + b
      BY <1>1, <1>9, <2>1
    <2>3. \A n \in 1..(a + b) : c[n] = IF n <= a THEN parts[n] ELSE u[n - a]
      BY <1>1, <1>9, <2>1
    <2> HIDE DEF c
    <2>4. c = [n \in 1..(a + b) |-> c[n]]
      BY <2>2
    <2>5. c = [n \in 1..(a + b) |-> IF n <= a THEN parts[n] ELSE u[n - a]]
      BY <2>3, <2>4
    <2> QED BY <2>5 DEF c
  <1>11. \A n \in 1..(a + b) : new[n].at = IF n <= a THEN parts[n] ELSE u[n - a]
    <2> TAKE n \in 1..(a + b)
    <2>1. CASE n \in 1..a
      BY <1>3, <1>5, <2>1
    <2>2. CASE n \in (a + 1)..(a + b) /\ n - a \in 1..b
      <3>1. new[n] = rest[n - a] /\ u[n - a] = rest[n - a].at /\ ~ (n <= a)
        BY <1>1, <1>5, <1>8, <2>2
      <3> QED BY <3>1
    <2> QED BY <1>6, <2>1, <2>2
  <1>12. Unsplit(new) = parts \o u
    BY <1>7, <1>10, <1>11
  <1>13. ASSUME s = 4 => \A n \in DOMAIN parts : parts[n][1] = parts[n][2],
                \A n \in DOMAIN rest : rest[n].separator = 4 => rest[n].at[1] = rest[n].at[2],
                NEW n \in DOMAIN new, new[n].separator = 4
         PROVE  new[n].at[1] = new[n].at[2]
    <2>1. CASE n \in 1..a
      BY <1>1, <1>3, <1>5, <1>13, <2>1
    <2>2. CASE n \in (a + 1)..(a + b) /\ n - a \in 1..b
      <3>1. new[n] = rest[n - a] /\ n - a \in DOMAIN rest
        BY <1>1, <1>5, <2>2
      <3> QED BY <1>13, <3>1
    <2> QED BY <1>5, <1>6, <1>13, <2>1, <2>2
  <1> QED BY <1>5, <1>12, <1>13 DEF new, calls
-----------------------------------------------------------------------------
(* Chunking: a chunk that is emitted *)

\* A chunk covers the solid characters it is made of; and if they go beyond the chunks
\* of the section that there are, the chunks stay in order.
LEMMA EmitCovers ==
    ASSUME ChunkTyped, ChunksAreCounted, chunker.section > 0,
           NEW h \in Nat, NEW m \in Nat, h >= 1, m <= Len(Text),
           \A k \in DOMAIN chunker.chunks : chunker.chunks[k].section = chunker.section =>
              /\ \E i \in Solid(Text, h, m) : chunker.chunks[k].at[2] < i
              /\ \A i \in Solid(Text, h, m) : chunker.chunks[k].at[1] <= i
    PROVE  LET r == Emit(chunker.chunks, h, m) IN
           /\ r \in Seq(ChunkRecord)
           /\ Numbered(r, chunker.document, chunker.section) /\ InOrder(r)
           /\ \A s, i : Covers(chunker.chunks, s, i) => Covers(r, s, i)
           /\ \A i \in Solid(Text, h, m) : Covers(r, chunker.section, i)
           /\ \A k \in DOMAIN r : r[k].section = chunker.section =>
                 \/ k \in DOMAIN chunker.chunks /\ r[k] = chunker.chunks[k]
                 \/ /\ r[k].at[1] \in h..m /\ r[k].at[2] \in h..m
                    /\ \A i \in Solid(Text, h, m) : r[k].at[1] <= i
  <1> DEFINE q == chunker.chunks
             S == Solid(Text, h, m)
             n == Len(q)
             sec == chunker.section
             c == [section |-> sec, at |-> Stripped(Text, h, m), index |-> n]
  <1>1. /\ q \in Seq(ChunkRecord) /\ n \in Nat /\ DOMAIN q = 1..n
        /\ sec \in Nat /\ sec \in 1..sec /\ Len(Text) \in Nat
    <2>1. q \in Seq(ChunkRecord) /\ sec \in Nat
      BY DEF ChunkTyped, ChunkerState
    <2> QED BY <2>1, TextIsThere
  <1>2. Numbered(q, chunker.document, sec) /\ InOrder(q)
    BY DEF ChunksAreCounted
  <1>3. S \subseteq h..m
    BY DEF Solid
  <1>4. Emit(q, h, m) = IF S = {} THEN q ELSE Append(q, c)
    BY DEF Emit
  <1>5. CASE S = {}
    <2>1. Emit(q, h, m) = q
      BY <1>4, <1>5
    <2> QED BY <1>1, <1>2, <1>5, <2>1
  <1>6. CASE S # {}
    <2> DEFINE lo == Min(S)
               hi == Max(S)
               r == Append(q, c)
    <2>1. /\ c.at = <<lo, hi>> /\ lo \in S /\ hi \in S /\ lo \in h..m /\ hi \in h..m
          /\ \A i \in S : lo <= i /\ i <= hi
      BY <1>6, StrippedText
    <2>2. Text = chunker.document[sec]
      BY DEF Text
    <2>3. lo \in Nat /\ hi \in Nat /\ lo >= 1 /\ hi >= 1 /\ lo <= Len(Text) /\ hi <= Len(Text)
      <3> HIDE DEF lo, hi, S
      <3> QED BY <1>1, <2>1
    <2>4. c.section = sec /\ c.index = n /\ c.at[1] = lo /\ c.at[2] = hi
      BY <2>1
    <2>5. c \in ChunkRecord
      <3>1. c.at \in Piece
        BY <2>1, <2>3 DEF Piece
      <3> QED BY <1>1, <3>1 DEF ChunkRecord
    <2>6. \A k \in 1..n : q[k].section = sec => q[k].at[2] < hi /\ q[k].at[1] <= lo
      <3> TAKE k \in 1..n
      <3> SUFFICES ASSUME q[k].section = sec PROVE q[k].at[2] < hi /\ q[k].at[1] <= lo
        OBVIOUS
      <3>1. (\E i \in S : q[k].at[2] < i) /\ \A i \in S : q[k].at[1] <= i
        BY <1>1
      <3>2. PICK i \in S : q[k].at[2] < i
        BY <3>1
      <3>3. q[k].at \in Piece
        <4>1. q[k] \in ChunkRecord
          BY <1>1
        <4> QED BY <4>1 DEF ChunkRecord
      <3>4. q[k].at[2] \in Nat /\ i \in Nat /\ i <= hi
        BY <1>3, <2>1, <3>3 DEF Piece
      <3> HIDE DEF S, lo, hi
      <3> QED BY <2>1, <2>3, <3>1, <3>2, <3>4
    <2>7. Emit(q, h, m) = r
      BY <1>4, <1>6
    <2> HIDE DEF c, lo, hi, q, n
    <2>8. /\ r \in Seq(ChunkRecord) /\ Len(r) = n + 1 /\ DOMAIN r = 1..(n + 1)
          /\ \A k \in 1..n : r[k] = q[k]
          /\ r[n + 1] = c
      BY <1>1, <2>5 DEF n
    <2> HIDE DEF r
    <2>9. \A k \in 1..(n + 1) : (k \in 1..n /\ r[k] = q[k]) \/ (k = n + 1 /\ r[k] = c)
      BY <1>1, <2>8
    <2>10. Numbered(r, chunker.document, sec)
      <3>0. /\ n \in Nat /\ c.index = n /\ c.section \in 1..sec
            /\ c.at[1] >= 1 /\ c.at[2] >= 1
            /\ c.at[1] <= Len(chunker.document[c.section])
            /\ c.at[2] <= Len(chunker.document[c.section])
        BY <1>1, <2>2, <2>3, <2>4
      <3> SUFFICES ASSUME NEW k \in 1..(n + 1)
                   PROVE  /\ r[k].index = k - 1
                          /\ r[k].section \in 1..sec
                          /\ r[k].at[1] >= 1 /\ r[k].at[2] >= 1
                          /\ r[k].at[1] <= Len(chunker.document[r[k].section])
                          /\ r[k].at[2] <= Len(chunker.document[r[k].section])
        BY <2>8 DEF Numbered
      <3>1. CASE k \in 1..n /\ r[k] = q[k]
        BY <1>1, <1>2, <3>1 DEF Numbered
      <3>2. CASE k = n + 1 /\ r[k] = c
        BY <3>0, <3>2
      <3> QED BY <2>9, <3>1, <3>2
    <2>11. InOrder(r)
      <3> SUFFICES ASSUME NEW j \in 1..(n + 1), NEW k \in 1..(n + 1), j < k,
                          r[j].section = r[k].section
                   PROVE  r[j].at[1] <= r[k].at[1] /\ r[j].at[2] < r[k].at[2]
        BY <2>8 DEF InOrder
      <3>1. j \in 1..n /\ r[j] = q[j]
        BY <1>1, <2>8
      <3>2. CASE k \in 1..n /\ r[k] = q[k]
        BY <1>1, <1>2, <3>1, <3>2 DEF InOrder
      <3>3. CASE k = n + 1 /\ r[k] = c
        BY <2>4, <2>6, <3>1, <3>3
      <3> QED BY <2>9, <3>2, <3>3
    <2>12. \A s, i : Covers(q, s, i) => Covers(r, s, i)
      <3> SUFFICES ASSUME NEW s, NEW i, Covers(q, s, i) PROVE Covers(r, s, i)
        OBVIOUS
      <3>1. PICK k \in 1..n : q[k].section = s /\ q[k].at[1] <= i /\ i <= q[k].at[2]
        BY <1>1 DEF Covers
      <3>2. k \in DOMAIN r /\ r[k] = q[k]
        BY <1>1, <2>8
      <3> QED BY <3>1, <3>2 DEF Covers
    <2>13. \A i \in S : Covers(r, sec, i)
      <3>1. n + 1 \in DOMAIN r
        BY <1>1, <2>8
      <3> QED BY <2>1, <2>4, <2>8, <3>1 DEF Covers
    <2>14. ASSUME NEW k \in DOMAIN r, r[k].section = sec
           PROVE  \/ k \in DOMAIN q /\ r[k] = q[k]
                  \/ /\ r[k].at[1] \in h..m /\ r[k].at[2] \in h..m
                     /\ \A i \in S : r[k].at[1] <= i
      <3>1. CASE k \in 1..n /\ r[k] = q[k]
        BY <1>1, <3>1
      <3>2. CASE k = n + 1 /\ r[k] = c
        BY <2>1, <2>4, <3>2
      <3> QED BY <2>8, <2>9, <2>14, <3>1, <3>2
    <2> QED BY <2>7, <2>8, <2>10, <2>11, <2>12, <2>13, <2>14 DEF q
  <1> QED BY <1>5, <1>6

\* What a chunk is made of covers all that comes before what follows it; and if what
\* follows has solid characters after the chunk, it goes beyond every chunk.
LEMMA ChunkIsExtended ==
    ASSUME ChunkTyped, ChunksAreCounted, chunker.section > 0,
           NEW h \in Nat, NEW m \in Nat, h >= 1, h <= m, m <= Len(Text),
           Extends(chunker.chunks, chunker.section, Text, h, m),
           NEW f \in Nat, NEW l \in Nat, h <= f, f <= m + 1, l <= Len(Text),
           Solid(Text, m + 1, l) # {}
    PROVE  LET r == Emit(chunker.chunks, h, m) IN
           /\ r \in Seq(ChunkRecord)
           /\ Numbered(r, chunker.document, chunker.section) /\ InOrder(r)
           /\ \A s, i : Covers(chunker.chunks, s, i) => Covers(r, s, i)
           /\ Extends(r, chunker.section, Text, f, l)
  <1> DEFINE q == chunker.chunks
             t == Text
             sec == chunker.section
             r == Emit(q, h, m)
  <1>1. Len(t) \in Nat /\ q \in Seq(ChunkRecord)
    BY TextIsThere DEF ChunkTyped, ChunkerState
  <1>2. \A a, b \in Nat : \A i : i \in Solid(t, a, b) <=> i \in a..b /\ t[i] \notin Blank
    BY DEF Solid
  <1>3. /\ \A i \in Solid(t, 1, h - 1) : Covers(q, sec, i)
        /\ \A k \in DOMAIN q : q[k].section = sec =>
             /\ \E i \in Solid(t, h, m) : q[k].at[2] < i
             /\ \A i \in Solid(t, h, Len(t)) : q[k].at[1] <= i
    BY DEF Extends
  <1>4. \A i \in Solid(t, h, m) : i \in Solid(t, h, Len(t))
    BY <1>1 DEF Solid
  <1>5. /\ r \in Seq(ChunkRecord)
        /\ Numbered(r, chunker.document, sec) /\ InOrder(r)
        /\ \A s, i : Covers(q, s, i) => Covers(r, s, i)
        /\ \A i \in Solid(t, h, m) : Covers(r, sec, i)
        /\ \A k \in DOMAIN r : r[k].section = sec =>
              \/ k \in DOMAIN q /\ r[k] = q[k]
              \/ /\ r[k].at[1] \in h..m /\ r[k].at[2] \in h..m
                 /\ \A i \in Solid(t, h, m) : r[k].at[1] <= i
    BY <1>3, <1>4, EmitCovers
  <1> HIDE DEF r, q, t, sec
  <1>6. \A k \in DOMAIN q : q[k].at[1] \in Nat /\ q[k].at[2] \in Nat
    <2> TAKE k \in DOMAIN q
    <2>1. q[k] \in ChunkRecord
      BY <1>1
    <2>2. q[k].at \in Piece
      BY <2>1 DEF ChunkRecord
    <2> QED BY <2>2 DEF Piece
  <1>7. ASSUME NEW i \in Solid(t, 1, f - 1)
        PROVE  Covers(r, sec, i)
    <2>1. i \in 1..(f - 1) /\ t[i] \notin Blank
      BY DEF Solid
    <2>2. i \in 1..(h - 1) \/ i \in h..m
      BY <2>1
    <2>3. i \in Solid(t, 1, h - 1) \/ i \in Solid(t, h, m)
      BY <2>1, <2>2 DEF Solid
    <2> QED BY <1>3, <1>5, <2>3
  <1>8. PICK j \in Solid(t, m + 1, l) : TRUE
    BY DEF t
  <1>9. j \in Solid(t, f, l) /\ j \in Nat /\ j > m
    <2>1. j \in (m + 1)..l /\ t[j] \notin Blank
      BY DEF Solid
    <2>2. j \in f..l /\ j \in Nat /\ j > m
      BY <2>1
    <2> QED BY <2>1, <2>2 DEF Solid
  <1>10. ASSUME NEW k \in DOMAIN r, r[k].section = sec
         PROVE  /\ \E i \in Solid(t, f, l) : r[k].at[2] < i
                /\ \A i \in Solid(t, f, Len(t)) : r[k].at[1] <= i
    <2>1. CASE k \in DOMAIN q /\ r[k] = q[k]
      <3>1. PICK i \in Solid(t, h, m) : q[k].at[2] < i
        BY <1>3, <1>10, <2>1
      <3>2. i \in h..m
        BY DEF Solid
      <3>3. r[k].at[2] < j
        BY <1>6, <1>9, <2>1, <3>1, <3>2
      <3>4. \A x \in Solid(t, f, Len(t)) : x \in Solid(t, h, Len(t))
        BY <1>1 DEF Solid
      <3>5. \A x \in Solid(t, f, Len(t)) : r[k].at[1] <= x
        BY <1>3, <1>10, <2>1, <3>4
      <3> QED BY <1>9, <3>3, <3>5
    <2>2. CASE /\ r[k].at[1] \in h..m /\ r[k].at[2] \in h..m
               /\ \A i \in Solid(t, h, m) : r[k].at[1] <= i
      <3>1. r[k].at[2] < j
        BY <1>9, <2>2
      <3>2. ASSUME NEW x \in Solid(t, f, Len(t))
            PROVE  r[k].at[1] <= x
        <4>1. x \in f..Len(t) /\ t[x] \notin Blank
          BY DEF Solid
        <4>2. x \in h..m \/ m < x
          BY <1>1, <4>1
        <4>3. x \in h..m => x \in Solid(t, h, m)
          BY <4>1 DEF Solid
        <4> QED BY <1>1, <2>2, <4>1, <4>2, <4>3
      <3> QED BY <1>9, <3>1, <3>2
    <2> QED BY <1>5, <1>10, <2>1, <2>2
  <1>11. Extends(r, sec, t, f, l)
    BY <1>7, <1>10 DEF Extends
  <1> QED BY <1>5, <1>11 DEF r, q, t, sec
-----------------------------------------------------------------------------
(* Chunking: the actions keep the invariant *)

\* A document that has not been begun.
LEMMA ChunkInitKeepsInv == ChunkInit => ChunkInv
  <1> SUFFICES ASSUME ChunkInit PROVE ChunkInv
    OBVIOUS
  <1>1. PICK d \in Documents :
           chunker = [document |-> d, section |-> 0, stack |-> << >>, pieces |-> << >>,
                      current |-> << >>, length |-> 0, pc |-> "section", chunks |-> << >>]
    BY DEF ChunkInit
  <1>2. \A n \in Nat : Texts(n) \subseteq Seq(Characters)
    BY DEF Texts
  <1>3. d \in Seq(Seq(Characters))
    <2>1. MaxText \in Nat /\ MaxSection \in Nat
      BY ChunkingAssumption
    <2>2. \/ \E t \in Seq(Characters) : d = <<t>>
          \/ \E t, u \in Seq(Characters) : d = <<t, u>>
      BY <1>2, <2>1 DEF Documents
    <2>3. \A T : \A t, u \in T : <<t>> \in Seq(T) /\ <<t, u>> \in Seq(T)
      OBVIOUS
    <2> HIDE DEF Characters
    <2> QED BY <2>2, <2>3
  <1>4. Len(d) \in Nat
    BY <1>3
  <1>5. ChunkTyped
    <2>1. chunker \in ChunkerState
      BY <1>1, <1>3 DEF ChunkerState
    <2> QED BY <1>1, <1>4, <2>1, ChunkingAssumption DEF ChunkTyped
  <1>6. ChunksAreCounted
    BY <1>1 DEF ChunksAreCounted, Numbered, InOrder
  <1>7. SectionsCovered /\ NothingPending /\ PiecesFit /\ SplitsTile /\ ChunksGrow
    BY <1>1 DEF SectionsCovered, NothingPending, PiecesFit, SplitsTile, ChunksGrow
  <1> QED BY <1>5, <1>6, <1>7 DEF ChunkInv

\* The next section has no chunks yet.
LEMMA NextSectionKeepsInv == ChunkInv /\ NextSection => ChunkInv'
  <1> SUFFICES ASSUME ChunkInv, NextSection PROVE ChunkInv'
    OBVIOUS
  <1>1. /\ ChunkTyped /\ ChunksAreCounted /\ SectionsCovered /\ NothingPending
    BY DEF ChunkInv
  <1>2. chunker \in ChunkerState /\ chunker.length <= ChunkSize
    BY <1>1 DEF ChunkTyped
  <1>3. /\ chunker.pc = "section" /\ chunker.section < Len(chunker.document)
        /\ chunker' = [chunker EXCEPT !.section = @ + 1, !.pc = "text"]
    BY DEF NextSection
  <1>4. /\ chunker.section \in Nat /\ Len(chunker.document) \in Nat
        /\ chunker'.section = chunker.section + 1 /\ chunker'.pc = "text"
        /\ chunker'.document = chunker.document /\ chunker'.chunks = chunker.chunks
        /\ chunker'.stack = chunker.stack /\ chunker'.pieces = chunker.pieces
        /\ chunker'.current = chunker.current /\ chunker'.length = chunker.length
    BY <1>2, <1>3 DEF ChunkerState
  <1>5. ChunkTyped'
    <2>1. chunker' \in ChunkerState
      <3> DEFINE n == chunker.section + 1
      <3>1. n \in Nat /\ chunker' = [chunker EXCEPT !.section = n, !.pc = "text"]
        BY <1>3, <1>4
      <3> HIDE DEF n
      <3> QED BY <1>2, <3>1 DEF ChunkerState
    <2>2. chunker'.section <= Len(chunker'.document) /\ chunker'.section > 0
      BY <1>3, <1>4
    <2> QED BY <1>2, <1>4, <2>1, <2>2 DEF ChunkTyped
  <1>6. ChunksAreCounted'
    <2> DEFINE q == chunker.chunks
               sec == chunker.section
    <2>1. Numbered(q, chunker.document, sec) /\ InOrder(q)
      BY <1>1 DEF ChunksAreCounted
    <2>2. \A x \in 1..sec : x \in 1..(sec + 1) /\ x # sec + 1
      BY <1>4
    <2> HIDE DEF q, sec
    <2>3. Numbered(q, chunker.document, sec + 1) /\ NoneOf(q, sec + 1)
      BY <2>1, <2>2 DEF Numbered, NoneOf
    <2> QED BY <1>4, <2>1, <2>3 DEF ChunksAreCounted, q, sec
  <1>7. SectionsCovered'
    <2> SUFFICES ASSUME NEW s \in 1..(chunker.section + 1), s # chunker.section + 1,
                        NEW i \in Solid(chunker.document[s], 1, Len(chunker.document[s]))
                 PROVE  Covers(chunker.chunks, s, i)
      BY <1>4 DEF SectionsCovered
    <2>1. s \in 1..chunker.section
      BY <1>4
    <2> QED BY <1>1, <1>3, <2>1 DEF SectionsCovered
  <1>8. NothingPending' /\ PiecesFit' /\ SplitsTile' /\ ChunksGrow'
    BY <1>1, <1>3, <1>4 DEF NothingPending, PiecesFit, SplitsTile, ChunksGrow
  <1> QED BY <1>5, <1>6, <1>7, <1>8 DEF ChunkInv

\* A text is blank, one chunk, or a single call.
LEMMA StartTextKeepsInv == ChunkInv /\ StartText => ChunkInv'
  <1> SUFFICES ASSUME ChunkInv, StartText PROVE ChunkInv'
    OBVIOUS
  <1>1. /\ ChunkTyped /\ ChunksAreCounted /\ SectionsCovered /\ NothingPending
    BY DEF ChunkInv
  <1> DEFINE whole == Stripped(Text, 1, Len(Text))
             q == chunker.chunks
             sec == chunker.section
             lo == Min(Letters)
             hi == Max(Letters)
  <1>2. /\ chunker \in ChunkerState /\ chunker.length <= ChunkSize /\ sec > 0
        /\ chunker.pc = "text" /\ sec <= Len(chunker.document)
    BY <1>1 DEF ChunkTyped, StartText
  <1>3. /\ chunker.stack = << >> /\ chunker.pieces = << >>
        /\ chunker.current = << >> /\ chunker.length = 0
    BY <1>1, <1>2 DEF NothingPending
  <1>4. sec \in Nat /\ q \in Seq(ChunkRecord) /\ sec \in 1..sec
    BY <1>2 DEF ChunkerState
  <1>5. Numbered(q, chunker.document, sec) /\ InOrder(q) /\ NoneOf(q, sec)
    BY <1>1, <1>2 DEF ChunksAreCounted
  <1>6. \A s \in 1..sec : s # sec =>
           \A i \in Solid(chunker.document[s], 1, Len(chunker.document[s])) : Covers(q, s, i)
    BY <1>1 DEF SectionsCovered
  <1>7. /\ Text \in Seq(Characters) /\ Len(Text) \in Nat /\ DOMAIN Text = 1..Len(Text)
        /\ Letters # {} =>
             /\ 1 <= lo /\ lo <= hi /\ hi <= Len(Text) /\ lo \in Nat /\ hi \in Nat
             /\ \A i \in Letters : lo <= i /\ i <= hi
             /\ whole = <<lo, hi>>
    BY <1>1, <1>2, TextIsThere
  <1>8. Letters = {} => whole = << >>
    BY DEF Letters, Stripped
  <1>9. ASSUME chunker'.document = chunker.document, chunker'.section = sec
        PROVE  Text' = Text /\ Letters' = Letters
    BY <1>9, SameText
  <1> HIDE DEF whole, lo, hi
  <1>10. chunker' = IF whole = << >> THEN [chunker EXCEPT !.pc = "section"]
                    ELSE IF PieceLength(whole) <= ChunkSize
                    THEN [chunker EXCEPT !.pc = "section", !.chunks = Emit(@, whole[1], whole[2])]
                    ELSE [chunker EXCEPT !.pc = "splitting",
                             !.stack = <<[at |-> whole, separator |-> 1]>>]
    BY DEF StartText, whole
  \* The text becomes chunks of its own, or has nothing to be covered.
  <1>11. ASSUME NEW r \in Seq(ChunkRecord),
                chunker' = [chunker EXCEPT !.pc = "section", !.chunks = r],
                Numbered(r, chunker.document, sec), InOrder(r),
                \A s, i : Covers(q, s, i) => Covers(r, s, i),
                \A i \in Letters : Covers(r, sec, i)
         PROVE  ChunkInv'
    <2>1. /\ chunker'.section = sec /\ chunker'.pc = "section"
          /\ chunker'.document = chunker.document /\ chunker'.chunks = r
          /\ chunker'.stack = << >> /\ chunker'.pieces = << >>
          /\ chunker'.current = << >> /\ chunker'.length = 0
      BY <1>2, <1>3, <1>11 DEF ChunkerState
    <2>2. ChunkTyped'
      <3>1. chunker' \in ChunkerState
        BY <1>2, <1>11 DEF ChunkerState
      <3> QED BY <1>2, <2>1, <3>1, ChunkingAssumption DEF ChunkTyped
    <2>3. ChunksAreCounted'
      BY <1>11, <2>1 DEF ChunksAreCounted
    <2>4. SectionsCovered'
      <3> SUFFICES ASSUME NEW s \in 1..sec,
                          NEW i \in Solid(chunker.document[s], 1, Len(chunker.document[s]))
                   PROVE  Covers(r, s, i)
        BY <2>1 DEF SectionsCovered
      <3>1. CASE s = sec
        <4>1. i \in Letters
          BY <3>1 DEF Letters, Text
        <4> QED BY <1>11, <3>1, <4>1
      <3>2. CASE s # sec
        BY <1>6, <1>11, <3>2
      <3> QED BY <3>1, <3>2
    <2>5. NothingPending' /\ PiecesFit' /\ SplitsTile' /\ ChunksGrow'
      BY <2>1 DEF NothingPending, PiecesFit, SplitsTile, ChunksGrow
    <2> QED BY <2>2, <2>3, <2>4, <2>5 DEF ChunkInv
  <1>12. CASE whole = << >>
    <2>1. Letters = {}
      <3> HIDE DEF q, sec
      <3>1. <<lo, hi>> # << >>
        OBVIOUS
      <3> QED BY <1>7, <1>12, <3>1
    <2>2. chunker' = [chunker EXCEPT !.pc = "section", !.chunks = q]
      BY <1>2, <1>10, <1>12 DEF ChunkerState
    <2> HIDE DEF q, sec
    <2> QED BY <1>4, <1>5, <1>11, <2>1, <2>2
  <1>13. CASE whole # << >> /\ PieceLength(whole) <= ChunkSize
    <2>1. Letters # {} /\ whole[1] = lo /\ whole[2] = hi
      BY <1>7, <1>8, <1>13
    <2> DEFINE r == Emit(q, lo, hi)
    <2>2. chunker' = [chunker EXCEPT !.pc = "section", !.chunks = r]
      BY <1>10, <1>13, <2>1
    <2>3. /\ r \in Seq(ChunkRecord)
          /\ Numbered(r, chunker.document, sec) /\ InOrder(r)
          /\ \A s, i : Covers(q, s, i) => Covers(r, s, i)
          /\ \A i \in Solid(Text, lo, hi) : Covers(r, sec, i)
      <3>1. lo \in Nat /\ hi \in Nat /\ lo >= 1 /\ hi <= Len(Text)
        BY <1>7, <2>1
      <3>2. \A k \in DOMAIN q : q[k].section # sec
        BY <1>5 DEF NoneOf
      <3> QED BY <1>1, <1>2, <3>1, <3>2, EmitCovers
    <2>4. \A i \in Letters : i \in Solid(Text, lo, hi)
      <3> SUFFICES ASSUME NEW i \in Letters PROVE i \in Solid(Text, lo, hi)
        OBVIOUS
      <3>1. i \in 1..Len(Text) /\ Text[i] \notin Blank
        BY DEF Letters, Solid
      <3>2. i \in lo..hi
        BY <1>7, <2>1, <3>1
      <3> QED BY <3>1, <3>2 DEF Solid
    <2> HIDE DEF r, q, sec
    <2> QED BY <1>11, <2>2, <2>3, <2>4
  <1>14. CASE whole # << >> /\ ~ (PieceLength(whole) <= ChunkSize)
    <2> DEFINE call == [at |-> whole, separator |-> 1]
               stack == <<call>>
    <2>1. Letters # {} /\ whole = <<lo, hi>>
      BY <1>7, <1>8, <1>14
    <2>2. 1 <= lo /\ lo <= hi /\ hi <= Len(Text) /\ lo \in Nat /\ hi \in Nat
      BY <1>7, <2>1
    <2>3. whole \in Piece /\ call \in SplitCall /\ stack \in Seq(SplitCall)
      <3>1. whole \in Piece
        BY <2>1, <2>2 DEF Piece
      <3>2. call \in SplitCall
        BY <3>1 DEF SplitCall
      <3> HIDE DEF call
      <3> QED BY <3>1, <3>2
    <2>4. chunker' = [chunker EXCEPT !.pc = "splitting", !.stack = stack]
      BY <1>10, <1>14
    <2>5. /\ chunker'.section = sec /\ chunker'.pc = "splitting"
          /\ chunker'.document = chunker.document /\ chunker'.chunks = q
          /\ chunker'.stack = stack /\ chunker'.pieces = << >>
          /\ chunker'.current = << >> /\ chunker'.length = 0
      BY <1>2, <1>3, <2>4 DEF ChunkerState
    <2>6. ChunkTyped'
      <3>1. chunker' \in ChunkerState
        <4> HIDE DEF stack
        <4> QED BY <1>2, <2>3, <2>4 DEF ChunkerState
      <3> QED BY <1>2, <2>5, <3>1, ChunkingAssumption DEF ChunkTyped
    <2>7. ChunksAreCounted'
      BY <1>5, <2>5 DEF ChunksAreCounted
    <2>8. SectionsCovered'
      BY <1>6, <2>5 DEF SectionsCovered
    <2>9. NothingPending' /\ PiecesFit' /\ ChunksGrow'
      BY <2>5 DEF NothingPending, PiecesFit, ChunksGrow
    <2>10. Letters' = Letters
      BY <1>9, <2>5
    <2> DEFINE m == lo - 1
    <2>11. m \in Nat /\ m + 1 = lo
      BY <2>2
    <2>12. Tiles(<< >>, lo, m)
      <3> HIDE DEF m
      <3> QED BY <2>11, TilesNothing
    <2>13. Unsplit(stack) = <<whole>>
      BY DEF Unsplit
    <2>14. Tiles(<<whole>>, lo, hi)
      <3> DEFINE w == <<whole>>
      <3>1. w \in Seq(Piece) /\ Len(w) = 1 /\ w[1] = whole
        BY <2>3
      <3>2. whole[1] = lo /\ whole[2] = hi
        BY <2>1
      <3> HIDE DEF w
      <3>3. Tiles(w, lo, hi)
        BY <2>2, <3>1, <3>2, TilesIf
      <3> QED BY <3>3 DEF w
    <2>15. \A n \in DOMAIN stack : stack[n].separator # 4
      BY DEF stack
    <2>16. SplitsTile'
      <3>1. \E n \in Nat : Tiles(<< >>, lo, n) /\ Tiles(<<whole>>, n + 1, hi)
        BY <2>11, <2>12, <2>14
      <3>2. Min(Letters') = lo /\ Max(Letters') = hi /\ Letters' # {}
        BY <2>1, <2>10 DEF lo, hi
      <3> HIDE DEF stack
      <3> QED BY <2>5, <2>13, <2>15, <3>1, <3>2 DEF SplitsTile
    <2> QED BY <2>6, <2>7, <2>8, <2>9, <2>16 DEF ChunkInv
  <1> QED BY <1>12, <1>13, <1>14

\* A call is replaced by its parts, or its piece by itself.
LEMMA SplitKeepsInv == ChunkInv /\ Split => ChunkInv'
  <1> SUFFICES ASSUME ChunkInv, Split PROVE ChunkInv'
    OBVIOUS
  <1>1. /\ ChunkTyped /\ ChunksAreCounted /\ SectionsCovered /\ PiecesFit /\ SplitsTile
    BY DEF ChunkInv
  <1> DEFINE q == chunker.chunks
             sec == chunker.section
             lo == Min(Letters)
             hi == Max(Letters)
             stack == chunker.stack
             pieces == chunker.pieces
             call == Head(stack)
             rest == Tail(stack)
             p == call.at
  <1>2. /\ chunker \in ChunkerState /\ chunker.length <= ChunkSize /\ sec > 0
        /\ chunker.pc = "splitting" /\ sec <= Len(chunker.document) /\ stack # << >>
    BY <1>1 DEF ChunkTyped, Split
  <1>3. stack \in Seq(SplitCall) /\ pieces \in Seq(Piece)
    BY <1>2 DEF ChunkerState
  <1>4. Numbered(q, chunker.document, sec) /\ InOrder(q) /\ NoneOf(q, sec)
    BY <1>1, <1>2 DEF ChunksAreCounted
  <1>5. /\ chunker.current = << >> /\ chunker.length = 0 /\ Letters # {}
        /\ \E m \in Nat : Tiles(pieces, lo, m) /\ Tiles(Unsplit(stack), m + 1, hi)
        /\ \A n \in DOMAIN stack : stack[n].separator = 4 => stack[n].at[1] = stack[n].at[2]
    BY <1>1, <1>2 DEF SplitsTile
  <1>6. /\ Text \in Seq(Characters) /\ Len(Text) \in Nat /\ DOMAIN Text = 1..Len(Text)
        /\ 1 <= lo /\ lo <= hi /\ hi <= Len(Text) /\ lo \in Nat /\ hi \in Nat
    BY <1>1, <1>2, <1>5, TextIsThere
  <1> HIDE DEF lo, hi, stack
  <1>7. PICK m \in Nat : Tiles(pieces, lo, m) /\ Tiles(Unsplit(stack), m + 1, hi)
    BY <1>5
  <1>8. /\ Unsplit(stack) \in Seq(Piece) /\ Unsplit(stack) # << >>
        /\ call \in SplitCall /\ rest \in Seq(SplitCall)
        /\ Head(Unsplit(stack)) = p /\ Tail(Unsplit(stack)) = Unsplit(rest)
    BY <1>2, <1>3, UnsplitCalls
  <1>9. /\ p \in Piece /\ p[1] = m + 1 /\ p[1] <= p[2] /\ p[2] <= hi
        /\ Tiles(Unsplit(rest), p[2] + 1, hi) /\ p[1] \in Nat /\ p[2] \in Nat
    <2>1. m + 1 \in Nat
      OBVIOUS
    <2>2. /\ p \in Piece /\ p[1] = m + 1 /\ m + 1 <= p[2] /\ p[2] <= hi
          /\ Tiles(Unsplit(rest), p[2] + 1, hi)
      <3> HIDE DEF p, rest
      <3> QED BY <1>6, <1>7, <1>8, <2>1, TilesHead
    <2> HIDE DEF p, rest
    <2> QED BY <2>2 DEF Piece
  <1>10. call = stack[1] /\ 1 \in DOMAIN stack /\ call.separator \in 1..4
    <2>1. call = stack[1] /\ 1 \in DOMAIN stack
      BY <1>2, <1>3
    <2> QED BY <1>8, <2>1 DEF SplitCall
  <1>11. call.separator = 4 => p[1] = p[2]
    BY <1>5, <1>10
  <1>12. \A n \in DOMAIN rest : rest[n].separator = 4 => rest[n].at[1] = rest[n].at[2]
    <2> SUFFICES ASSUME NEW n \in DOMAIN rest PROVE rest[n].separator = 4 => rest[n].at[1] = rest[n].at[2]
      OBVIOUS
    <2>1. rest[n] = stack[n + 1] /\ n + 1 \in DOMAIN stack
      BY <1>2, <1>3
    <2> QED BY <1>5, <2>1
  <1> HIDE DEF call, rest
  <1>13. lo <= m + 1
    <2>1. /\ pieces = << >> => lo = m + 1
          /\ pieces # << >> => lo <= m
      BY <1>3, <1>6, <1>7, TilesAre
    <2> QED BY <1>6, <2>1
  <1>14. chunker' = IF PieceLength(p) <= ChunkSize \/ call.separator > Len(Separators)
                    THEN [chunker EXCEPT !.stack = rest, !.pieces = Append(@, p)]
                    ELSE LET sep == Min({s \in call.separator..Len(Separators) : Occurs(s, p)})
                         IN [chunker EXCEPT !.stack = CallsFor(SplitWithSep(p, sep), sep + 1) \o rest]
    BY Zenon DEF Split, CallsFor, call, rest, stack
  <1> HIDE DEF p, q, sec, pieces
  \* What both outcomes have in common.
  <1>15. ASSUME NEW newStack \in Seq(SplitCall), NEW newPieces \in Seq(Piece), NEW n \in Nat,
                chunker' = [chunker EXCEPT !.stack = newStack, !.pieces = newPieces],
                \A i \in DOMAIN newPieces : PieceLength(newPieces[i]) <= ChunkSize,
                Tiles(newPieces, lo, n), Tiles(Unsplit(newStack), n + 1, hi),
                \A i \in DOMAIN newStack :
                   newStack[i].separator = 4 => newStack[i].at[1] = newStack[i].at[2]
         PROVE  ChunkInv'
    <2>1. /\ chunker'.section = sec /\ chunker'.pc = "splitting"
          /\ chunker'.document = chunker.document /\ chunker'.chunks = q
          /\ chunker'.stack = newStack /\ chunker'.pieces = newPieces
          /\ chunker'.current = << >> /\ chunker'.length = 0
      BY <1>2, <1>5, <1>15 DEF ChunkerState, sec, q
    <2>2. ChunkTyped'
      <3>1. chunker' \in ChunkerState
        BY <1>2, <1>15 DEF ChunkerState
      <3> QED BY <1>2, <2>1, <3>1, ChunkingAssumption DEF ChunkTyped
    <2>3. Letters' = Letters /\ \A x : PieceLength(x)' = PieceLength(x)
      BY <2>1, SameText DEF sec
    <2>4. ChunksAreCounted'
      BY <1>4, <2>1 DEF ChunksAreCounted
    <2>5. SectionsCovered'
      BY <1>1, <1>2, <2>1 DEF SectionsCovered, sec, q
    <2>6. PiecesFit'
      BY <1>15, <2>1, <2>3 DEF PiecesFit
    <2>7. SplitsTile'
      <3>1. Min(Letters') = lo /\ Max(Letters') = hi /\ Letters' # {}
        BY <1>5, <2>3 DEF lo, hi
      <3> QED BY <1>15, <2>1, <3>1 DEF SplitsTile
    <2>8. NothingPending' /\ ChunksGrow'
      BY <2>1 DEF NothingPending, ChunksGrow
    <2> QED BY <2>2, <2>4, <2>5, <2>6, <2>7, <2>8 DEF ChunkInv
  <1>16. CASE PieceLength(p) <= ChunkSize \/ call.separator > Len(Separators)
    <2> DEFINE newPieces == Append(pieces, p)
    <2>1. chunker' = [chunker EXCEPT !.stack = rest, !.pieces = newPieces]
      BY <1>2, <1>14, <1>16 DEF ChunkerState, pieces
    <2>2. PieceLength(p) <= ChunkSize
      <3>1. ASSUME call.separator > Len(Separators)
            PROVE  PieceLength(p) <= ChunkSize
        <4>1. call.separator = 4
          BY <1>10, <3>1 DEF Separators
        <4>2. p[1] = p[2] /\ p[1] \in DOMAIN Text
          BY <1>6, <1>9, <1>11, <1>13, <4>1
        <4> QED BY <1>6, <1>9, <4>2, PiecesHaveLength
      <3> QED BY <1>16, <3>1
    <2>3. newPieces \in Seq(Piece) /\ Tiles(newPieces, lo, p[2])
      BY <1>3, <1>6, <1>7, <1>9, TilesAppend
    <2>4. \A i \in DOMAIN newPieces : PieceLength(newPieces[i]) <= ChunkSize
      <3> SUFFICES ASSUME NEW i \in DOMAIN newPieces
                   PROVE  PieceLength(newPieces[i]) <= ChunkSize
        OBVIOUS
      <3>1. (i \in DOMAIN pieces /\ newPieces[i] = pieces[i]) \/ newPieces[i] = p
        BY <1>3, <1>9
      <3> HIDE DEF newPieces
      <3>2. \A j \in DOMAIN pieces : PieceLength(pieces[j]) <= ChunkSize
        BY <1>1 DEF PiecesFit, pieces
      <3> QED BY <2>2, <3>1, <3>2
    <2> HIDE DEF newPieces
    <2> QED BY <1>8, <1>9, <1>12, <1>15, <2>1, <2>3, <2>4
  <1>17. CASE ~ (PieceLength(p) <= ChunkSize \/ call.separator > Len(Separators))
    <2> DEFINE sep == Min({s \in call.separator..Len(Separators) : Occurs(s, p)})
               parts == SplitWithSep(p, sep)
               calls == CallsFor(parts, sep + 1) \o rest
    <2>1. call.separator \in 1..3
      BY <1>10, <1>17 DEF Separators
    <2>2. sep \in 1..3 /\ sep + 1 \in 1..4 /\ (sep + 1 = 4 => sep = 3)
      BY <2>1, SeparatorIsFound
    <2>3. chunker' = [chunker EXCEPT !.stack = calls]
      BY <1>14, <1>17
    <2> HIDE DEF sep
    <2>4. /\ parts \in Seq(Piece) /\ Tiles(parts, p[1], p[2])
          /\ sep = 3 => \A n \in DOMAIN parts : parts[n][1] = parts[n][2]
      BY <1>9, <2>2, SplitTiles
    <2> HIDE DEF parts
    <2>5. /\ calls \in Seq(SplitCall)
          /\ Unsplit(calls) = parts \o Unsplit(rest)
          /\ \A n \in DOMAIN calls : calls[n].separator = 4 => calls[n].at[1] = calls[n].at[2]
      <3>1. sep + 1 = 4 => \A n \in DOMAIN parts : parts[n][1] = parts[n][2]
        BY <2>2, <2>4
      <3> QED BY <1>8, <1>12, <2>2, <2>4, <3>1, UnsplitPushed
    <2>6. Tiles(Unsplit(calls), m + 1, hi)
      <3>1. Unsplit(rest) \in Seq(Piece)
        BY <1>8, UnsplitCalls
      <3>2. Tiles(parts \o Unsplit(rest), p[1], hi)
        BY <1>6, <1>9, <2>4, <3>1, TilesConcat
      <3> QED BY <1>9, <2>5, <3>2
    <2> HIDE DEF calls
    <2>7. chunker' = [chunker EXCEPT !.stack = calls, !.pieces = pieces]
      BY <1>2, <2>3 DEF ChunkerState, pieces
    <2>8. \A j \in DOMAIN pieces : PieceLength(pieces[j]) <= ChunkSize
      BY <1>1 DEF PiecesFit, pieces
    <2>9. pieces \in Seq(Piece)
      BY <1>3 DEF pieces
    <2> QED BY <1>7, <1>15, <2>5, <2>6, <2>7, <2>8, <2>9
  <1> QED BY <1>16, <1>17

\* The pieces are the whole text.
LEMMA SplitDoneKeepsInv == ChunkInv /\ SplitDone => ChunkInv'
  <1> SUFFICES ASSUME ChunkInv, SplitDone PROVE ChunkInv'
    OBVIOUS
  <1>1. /\ ChunkTyped /\ ChunksAreCounted /\ SectionsCovered /\ PiecesFit /\ SplitsTile
    BY DEF ChunkInv
  <1> DEFINE sec == chunker.section
             lo == Min(Letters)
             hi == Max(Letters)
             pieces == chunker.pieces
  <1>2. /\ chunker \in ChunkerState /\ chunker.length <= ChunkSize /\ sec > 0
        /\ chunker.pc = "splitting" /\ sec <= Len(chunker.document) /\ chunker.stack = << >>
        /\ chunker' = [chunker EXCEPT !.pc = "merging"]
    BY <1>1 DEF ChunkTyped, SplitDone
  <1>3. pieces \in Seq(Piece)
    BY <1>2 DEF ChunkerState
  <1>4. ChunksAreCounted' /\ NoneOf(chunker.chunks, sec)
    BY <1>1, <1>2 DEF ChunksAreCounted, ChunkerState
  <1>5. /\ chunker.current = << >> /\ chunker.length = 0 /\ Letters # {}
        /\ \E m \in Nat : Tiles(pieces, lo, m) /\ Tiles(Unsplit(<< >>), m + 1, hi)
    BY <1>1, <1>2 DEF SplitsTile
  <1>6. lo \in Nat /\ hi \in Nat /\ lo <= hi
    BY <1>1, <1>2, <1>5, TextIsThere
  <1>7. PICK m \in Nat : Tiles(pieces, lo, m) /\ Tiles(<< >>, m + 1, hi)
    <2>1. Unsplit(<< >>) = << >>
      BY DEF Unsplit
    <2> HIDE DEF lo, hi, pieces
    <2> QED BY <1>5, <2>1
  <1>8. pieces # << >> /\ Tiles(pieces, lo, hi)
    <2>1. m + 1 = hi + 1
      BY <1>7 DEF Tiles
    <2>2. m = hi
      BY <1>6, <2>1
    <2>3. pieces = << >> => lo = m + 1
      BY <1>7 DEF Tiles
    <2> HIDE DEF lo, hi, pieces
    <2> QED BY <1>6, <1>7, <2>2, <2>3
  <1>9. /\ chunker'.section = sec /\ chunker'.pc = "merging"
        /\ chunker'.document = chunker.document /\ chunker'.chunks = chunker.chunks
        /\ chunker'.stack = << >> /\ chunker'.pieces = pieces
        /\ chunker'.current = << >> /\ chunker'.length = 0
    BY <1>2, <1>5 DEF ChunkerState
  <1>10. Letters' = Letters /\ \A x : PieceLength(x)' = PieceLength(x)
    BY <1>9, SameText
  <1>11. ChunkTyped'
    <2>1. chunker' \in ChunkerState
      BY <1>2 DEF ChunkerState
    <2> QED BY <1>2, <1>9, <2>1, ChunkingAssumption DEF ChunkTyped
  <1>12. SectionsCovered'
    BY <1>1, <1>2, <1>9 DEF SectionsCovered
  <1>13. PiecesFit'
    BY <1>1, <1>9, <1>10 DEF PiecesFit
  <1>14. NothingPending' /\ SplitsTile'
    BY <1>9 DEF NothingPending, SplitsTile
  <1>15. ChunksGrow'
    <2>1. Min(Letters') = lo /\ Max(Letters') = hi /\ Letters' # {}
      BY <1>5, <1>10
    <2> HIDE DEF lo, hi, pieces, sec
    <2> QED BY <1>4, <1>8, <1>9, <2>1 DEF ChunksGrow
  <1> QED BY <1>4, <1>11, <1>12, <1>13, <1>14, <1>15 DEF ChunkInv

\* What the merging of pieces needs of a state.
LEMMA MergingState ==
    ASSUME ChunkInv, chunker.pc = "merging"
    PROVE  /\ ChunkTyped /\ ChunksAreCounted /\ chunker \in ChunkerState
           /\ chunker.section > 0 /\ chunker.section <= Len(chunker.document)
           /\ chunker.section \in Nat /\ chunker.length \in Nat /\ chunker.length <= ChunkSize
           /\ chunker.stack = << >> /\ Letters # {}
           /\ chunker.pieces \in Seq(Piece) /\ chunker.current \in Seq(Piece)
           /\ Numbered(chunker.chunks, chunker.document, chunker.section)
           /\ InOrder(chunker.chunks) /\ chunker.chunks \in Seq(ChunkRecord)
           /\ Text \in Seq(Characters) /\ Len(Text) \in Nat
           /\ Min(Letters) \in Nat /\ Max(Letters) \in Nat
           /\ 1 <= Min(Letters) /\ Min(Letters) <= Max(Letters) /\ Max(Letters) <= Len(Text)
           /\ \A i \in Letters : Min(Letters) <= i /\ i <= Max(Letters)
           /\ \A i \in DOMAIN chunker.pieces : PieceLength(chunker.pieces[i]) <= ChunkSize
           /\ \A s \in 1..chunker.section : s # chunker.section =>
                \A i \in Solid(chunker.document[s], 1, Len(chunker.document[s])) :
                   Covers(chunker.chunks, s, i)
  <1>1. /\ ChunkTyped /\ ChunksAreCounted /\ SectionsCovered /\ PiecesFit /\ ChunksGrow
    BY DEF ChunkInv
  <1>2. chunker \in ChunkerState /\ chunker.length <= ChunkSize /\ chunker.section > 0
        /\ chunker.section <= Len(chunker.document)
    BY <1>1 DEF ChunkTyped
  <1>3. /\ chunker.section \in Nat /\ chunker.length \in Nat
        /\ chunker.pieces \in Seq(Piece) /\ chunker.current \in Seq(Piece)
        /\ chunker.chunks \in Seq(ChunkRecord)
    BY <1>2 DEF ChunkerState
  <1>4. chunker.stack = << >> /\ Letters # {}
    BY <1>1 DEF ChunksGrow
  <1>5. Numbered(chunker.chunks, chunker.document, chunker.section) /\ InOrder(chunker.chunks)
    BY <1>1 DEF ChunksAreCounted
  <1>6. \A i \in DOMAIN chunker.pieces : PieceLength(chunker.pieces[i]) <= ChunkSize
    BY <1>1 DEF PiecesFit
  <1>7. \A s \in 1..chunker.section : s # chunker.section =>
           \A i \in Solid(chunker.document[s], 1, Len(chunker.document[s])) :
              Covers(chunker.chunks, s, i)
    BY <1>1 DEF SectionsCovered
  <1>8. /\ Text \in Seq(Characters) /\ Len(Text) \in Nat
        /\ Min(Letters) \in Nat /\ Max(Letters) \in Nat
        /\ 1 <= Min(Letters) /\ Min(Letters) <= Max(Letters) /\ Max(Letters) <= Len(Text)
        /\ \A i \in Letters : Min(Letters) <= i /\ i <= Max(Letters)
    BY <1>1, <1>2, <1>4, TextIsThere
  <1> QED BY <1>1, <1>2, <1>3, <1>4, <1>5, <1>6, <1>7, <1>8

\* What a state of merging has to be for the invariant.
LEMMA MergedState ==
    ASSUME ChunkInv, chunker.pc = "merging",
           NEW rest \in Seq(Piece), NEW now \in Seq(Piece), NEW n \in Nat, n <= ChunkSize,
           NEW r \in Seq(ChunkRecord),
           chunker' = [chunker EXCEPT !.pieces = rest, !.current = now, !.length = n, !.chunks = r],
           \A i \in DOMAIN rest : PieceLength(rest[i]) <= ChunkSize,
           Numbered(r, chunker.document, chunker.section), InOrder(r),
           \A s, i : Covers(chunker.chunks, s, i) => Covers(r, s, i),
           now # << >>, NEW f \in Nat, NEW l \in Nat,
           f = now[1][1], l = now[Len(now)][2], Min(Letters) <= f,
           Tiles(now, f, l), Tiles(rest, l + 1, Max(Letters)),
           Extends(r, chunker.section, Text, f, l)
    PROVE  ChunkInv'
  <1> DEFINE sec == chunker.section
  <1>1. /\ chunker \in ChunkerState /\ sec > 0 /\ sec <= Len(chunker.document)
        /\ chunker.stack = << >> /\ Letters # {}
        /\ \A s \in 1..sec : s # sec =>
             \A i \in Solid(chunker.document[s], 1, Len(chunker.document[s])) :
                Covers(chunker.chunks, s, i)
    BY MergingState
  <1>2. /\ chunker'.section = sec /\ chunker'.pc = "merging"
        /\ chunker'.document = chunker.document /\ chunker'.chunks = r
        /\ chunker'.stack = << >> /\ chunker'.pieces = rest
        /\ chunker'.current = now /\ chunker'.length = n
    BY <1>1 DEF ChunkerState
  <1>3. Letters' = Letters /\ Text' = Text /\ \A x : PieceLength(x)' = PieceLength(x)
    BY <1>2, SameText
  <1>4. ChunkTyped'
    <2>1. chunker' \in ChunkerState
      BY <1>1 DEF ChunkerState
    <2> QED BY <1>1, <1>2, <2>1 DEF ChunkTyped
  <1>5. ChunksAreCounted'
    BY <1>2 DEF ChunksAreCounted
  <1>6. SectionsCovered'
    BY <1>1, <1>2 DEF SectionsCovered
  <1>7. PiecesFit'
    BY <1>2, <1>3 DEF PiecesFit
  <1>8. NothingPending' /\ SplitsTile'
    BY <1>2 DEF NothingPending, SplitsTile
  <1>9. Head(now) = now[1]
    OBVIOUS
  <1>10. MergeTiles(f, l)'
    BY <1>2, <1>3 DEF MergeTiles
  <1>11. ChunksGrow'
    <2>1. Head(chunker'.current)[1] = f /\ chunker'.current[Len(chunker'.current)][2] = l
      BY <1>2, <1>9
    <2>2. MergeTiles(Head(chunker.current)[1], chunker.current[Len(chunker.current)][2])'
      BY <1>10, <2>1
    <2> QED BY <1>1, <1>2, <1>3, <2>2 DEF ChunksGrow
  <1> QED BY <1>4, <1>5, <1>6, <1>7, <1>8, <1>11 DEF ChunkInv

\* The chunk that is being made.
LEMMA CurrentChunk ==
    ASSUME ChunkInv, chunker.pc = "merging", chunker.current # << >>
    PROVE  \E h, m \in Nat :
              /\ h = Head(chunker.current)[1] /\ m = chunker.current[Len(chunker.current)][2]
              /\ Min(Letters) <= h /\ 1 <= h /\ h <= m /\ m <= Max(Letters) /\ m <= Len(Text)
              /\ Tiles(chunker.current, h, m) /\ Tiles(chunker.pieces, m + 1, Max(Letters))
              /\ Extends(chunker.chunks, chunker.section, Text, h, m)
  <1> DEFINE q == chunker.current
             h == Head(q)[1]
             m == q[Len(q)][2]
             lo == Min(Letters)
             hi == Max(Letters)
  <1>1. /\ q \in Seq(Piece) /\ chunker.pieces \in Seq(Piece)
        /\ lo \in Nat /\ hi \in Nat /\ 1 <= lo /\ hi <= Len(Text) /\ Len(Text) \in Nat
    BY MergingState
  <1>2. MergeTiles(h, m)
    BY DEF ChunkInv, ChunksGrow
  <1>3. /\ lo <= h /\ Tiles(q, h, m) /\ Tiles(chunker.pieces, m + 1, hi)
        /\ Extends(chunker.chunks, chunker.section, Text, h, m)
    BY <1>2 DEF MergeTiles
  <1> HIDE DEF lo, hi
  <1>4. h \in Nat /\ m \in Nat
    <2>1. Head(q) \in Piece /\ q[Len(q)] \in Piece
      BY <1>1
    <2> QED BY <2>1 DEF Piece
  <1> HIDE DEF h, m
  <1>5. h <= m
    BY <1>1, <1>3, <1>4, TilesAre DEF q
  <1>6. m <= hi
    <2>1. m + 1 \in Nat
      BY <1>4
    <2>2. m + 1 = hi + 1 \/ m + 1 <= hi
      BY <1>1, <1>3, <2>1, TilesAre
    <2> QED BY <1>1, <1>4, <2>2
  <1>7. 1 <= h /\ m <= Len(Text)
    BY <1>1, <1>3, <1>4, <1>6
  <1> QED BY <1>3, <1>4, <1>5, <1>6, <1>7 DEF h, m, lo, hi

\* The next piece starts a chunk, goes to the chunk, or ends it and starts the next.
LEMMA MergeKeepsInv == ChunkInv /\ Merge => ChunkInv'
  <1> SUFFICES ASSUME ChunkInv, Merge PROVE ChunkInv'
    OBVIOUS
  <1> DEFINE q == chunker.chunks
             sec == chunker.section
             lo == Min(Letters)
             hi == Max(Letters)
             pieces == chunker.pieces
             current == chunker.current
             p == Head(pieces)
             rest == Tail(pieces)
             next == PieceLength(p)
             full == chunker.length + next > ChunkSize /\ current # << >>
             kept == IF full THEN Overlap(current, next) ELSE current
  <1>1. chunker.pc = "merging" /\ pieces # << >>
    BY DEF Merge
  <1>2. /\ ChunkTyped /\ ChunksAreCounted /\ chunker \in ChunkerState
        /\ sec > 0 /\ sec \in Nat /\ chunker.length \in Nat /\ chunker.length <= ChunkSize
        /\ pieces \in Seq(Piece) /\ current \in Seq(Piece)
        /\ Numbered(q, chunker.document, sec) /\ InOrder(q) /\ q \in Seq(ChunkRecord)
        /\ Text \in Seq(Characters) /\ Len(Text) \in Nat
        /\ lo \in Nat /\ hi \in Nat /\ 1 <= lo /\ lo <= hi /\ hi <= Len(Text)
        /\ \A i \in Letters : lo <= i /\ i <= hi
    BY <1>1, MergingState
  <1>3. \A i \in DOMAIN pieces : PieceLength(pieces[i]) <= ChunkSize
    BY <1>1, MergingState
  <1>4. /\ p \in Piece /\ p = pieces[1] /\ 1 \in DOMAIN pieces /\ rest \in Seq(Piece)
        /\ \A i \in DOMAIN rest : i + 1 \in DOMAIN pieces /\ rest[i] = pieces[i + 1]
    BY <1>1, <1>2
  <1>5. next \in Nat /\ next <= ChunkSize /\ p[1] \in Nat /\ p[2] \in Nat
    BY <1>3, <1>4, PiecesHaveLength DEF Piece
  <1>6. \A i \in DOMAIN rest : PieceLength(rest[i]) <= ChunkSize
    BY <1>3, <1>4
  <1>7. chunker' = [chunker EXCEPT
            !.pieces = rest, !.current = Append(kept, p),
            !.length = (IF full THEN TotalLength(kept) ELSE @) + next,
            !.chunks = IF full THEN Emit(@, Head(current)[1], current[Len(current)][2]) ELSE @]
    BY Zenon DEF Merge
  <1>8. \A s, i : Covers(q, s, i) => Covers(q, s, i)
    OBVIOUS
  <1>12. lo \in Nat /\ hi \in Nat /\ Len(Text) \in Nat /\ hi <= Len(Text) /\ lo <= hi
    BY <1>2
  <1>13. \A T : \A s \in Seq(T), x \in T : Append(s, x) # << >> /\ Append(<< >>, x) = <<x>>
    <2> SUFFICES ASSUME NEW T, NEW s \in Seq(T), NEW x \in T
                 PROVE  Append(s, x) # << >> /\ Append(<< >>, x) = <<x>>
      OBVIOUS
    <2>1. Append(s, x) # << >>
      BY AppendProperties
    <2>2. Append(<< >>, x) = <<x>>
      OBVIOUS
    <2> QED BY <2>1, <2>2
  <1> HIDE DEF q, sec, lo, hi, pieces, current, p, rest, next
  \* What the cases have in common.
  <1>9. ASSUME NEW now \in Seq(Piece), NEW n \in Nat, n <= ChunkSize, NEW r \in Seq(ChunkRecord),
               chunker' = [chunker EXCEPT !.pieces = rest, !.current = now, !.length = n,
                                          !.chunks = r],
               Numbered(r, chunker.document, sec), InOrder(r),
               \A s, i : Covers(q, s, i) => Covers(r, s, i),
               now # << >>, NEW f \in Nat, lo <= f, f <= p[2],
               Tiles(now, f, p[2]), Tiles(rest, p[2] + 1, hi), Extends(r, sec, Text, f, p[2])
        PROVE  ChunkInv'
    <2>1. f = now[1][1] /\ p[2] = now[Len(now)][2]
      BY <1>5, <1>9, TilesAre
    <2> QED BY <1>1, <1>4, <1>5, <1>6, <1>9, <2>1, MergedState DEF q, sec, lo, hi
  <1>10. CASE current = << >>
    <2>1. /\ chunker.length = 0 /\ Tiles(pieces, lo, hi) /\ NoneOf(q, sec)
      BY <1>1, <1>10 DEF ChunkInv, ChunksGrow, lo, hi, q, sec, pieces, current
    <2>2. p[1] = lo /\ lo <= p[2] /\ p[2] <= hi /\ Tiles(rest, p[2] + 1, hi)
      BY <1>1, <1>2, <2>1, TilesHead DEF p, rest
    <2> DEFINE now == <<p>>
    <2>3. now \in Seq(Piece) /\ Len(now) = 1 /\ now[1] = p /\ now # << >>
      BY <1>4
    <2>4. chunker' = [chunker EXCEPT !.pieces = rest, !.current = now, !.length = next, !.chunks = q]
      <3>1. ~ full /\ kept = << >>
        BY <1>10
      <3>2. Append(kept, p) = now
        <4>1. Append(<< >>, p) = <<p>>
          BY <1>2, <1>4, <1>13
        <4> QED BY <3>1, <4>1
      <3>3. chunker' = [chunker EXCEPT !.pieces = rest, !.current = now,
                                       !.length = @ + next, !.chunks = @]
        BY <1>7, <3>1, <3>2
      <3>4. chunker.length + next = next
        BY <1>5, <2>1
      <3> QED BY <1>2, <3>3, <3>4 DEF ChunkerState, q
    <2> HIDE DEF now
    <2>5. Tiles(now, lo, p[2])
      <3>1. now[1][1] = lo /\ now[1][2] = p[2] /\ Len(now) = 1
        BY <2>2, <2>3
      <3>2. lo <= lo /\ p[2] <= p[2] /\ lo <= p[2]
        BY <1>5, <1>12, <2>2
      <3>3. \A i \in 1..Len(now) : i = 1
        BY <3>1
      <3>4. ~ (1 < 1) /\ 1 + 1 \notin 1..Len(now)
        BY <3>1
      <3> QED BY <2>3, <3>1, <3>2, <3>3, <3>4, TilesIf
    <2>6. Extends(q, sec, Text, lo, p[2])
      <3>1. \A i \in Solid(Text, 1, lo - 1) : FALSE
        <4> SUFFICES ASSUME NEW i \in Solid(Text, 1, lo - 1) PROVE FALSE
          OBVIOUS
        <4>1. i \in 1..(lo - 1) /\ Text[i] \notin Blank
          BY DEF Solid
        <4>2. i \in 1..Len(Text) /\ i < lo
          BY <1>2, <4>1
        <4>3. i \in Letters
          BY <4>1, <4>2 DEF Letters, Solid
        <4> QED BY <1>2, <4>2, <4>3
      <3> QED BY <2>1, <3>1 DEF Extends, NoneOf
    <2>7. lo <= lo
      BY <1>2
    <2> QED BY <1>2, <1>5, <1>8, <1>9, <2>2, <2>3, <2>4, <2>5, <2>6, <2>7
  <1>11. CASE current # << >>
    <2>1. PICK h, m \in Nat :
             /\ h = Head(current)[1] /\ m = current[Len(current)][2]
             /\ lo <= h /\ 1 <= h /\ h <= m /\ m <= hi /\ m <= Len(Text)
             /\ Tiles(current, h, m) /\ Tiles(pieces, m + 1, hi)
             /\ Extends(q, sec, Text, h, m)
      BY <1>1, <1>11, CurrentChunk DEF current, pieces, q, sec, lo, hi
    <2>2. p[1] = m + 1 /\ m + 1 <= p[2] /\ p[2] <= hi /\ Tiles(rest, p[2] + 1, hi)
      <3>1. m + 1 \in Nat
        OBVIOUS
      <3> QED BY <1>1, <1>2, <2>1, <3>1, TilesHead DEF p, rest
    <2>3. CASE ~ full
      <3> DEFINE now == Append(current, p)
                 n == chunker.length + next
      <3>1. n \in Nat /\ n <= ChunkSize
        BY <1>2, <1>5, <1>11, <2>3, ChunkingAssumption
      <3>2. chunker' = [chunker EXCEPT !.pieces = rest, !.current = now, !.length = n, !.chunks = q]
        <4>1. chunker' = [chunker EXCEPT !.pieces = rest, !.current = now,
                                         !.length = @ + next, !.chunks = @]
          BY <1>7, <2>3
        <4> QED BY <1>2, <4>1 DEF ChunkerState, q
      <3>3. now \in Seq(Piece) /\ Tiles(now, h, p[2])
        BY <1>2, <1>4, <1>5, <2>1, <2>2, TilesAppend
      <3>4. now # << >>
        BY <1>2, <1>4, <1>13
      <3> HIDE DEF now, n
      <3>5. Extends(q, sec, Text, h, p[2])
        <4>1. \A i \in Solid(Text, h, m) : i \in Solid(Text, h, p[2])
          BY <1>5, <2>1, <2>2 DEF Solid
        <4> QED BY <2>1, <4>1 DEF Extends
      <3>6. h <= p[2]
        BY <1>5, <2>1, <2>2
      <3> QED BY <1>2, <1>8, <1>9, <2>1, <2>2, <3>1, <3>2, <3>3, <3>4, <3>5, <3>6
    <2>4. CASE full
      <3> DEFINE over == Overlap(current, next)
                 now == Append(over, p)
                 n == TotalLength(over) + next
                 r == Emit(q, h, m)
      <3>1. /\ over = << >> \/ \E k \in 1..Len(current) : over = SubSeq(current, k, Len(current))
            /\ n \in Nat /\ n <= ChunkSize
        <4>1. /\ over = << >> \/ \E k \in 1..Len(current) : over = SubSeq(current, k, Len(current))
              /\ TotalLength(over) \in Nat /\ TotalLength(over) + next <= ChunkSize
          BY <1>2, <1>5, OverlapIsTail
        <4> HIDE DEF over
        <4> QED BY <1>5, <4>1
      <3>2. chunker' = [chunker EXCEPT !.pieces = rest, !.current = now, !.length = n, !.chunks = r]
        <4>1. chunker' = [chunker EXCEPT !.pieces = rest, !.current = now,
                                         !.length = n,
                                         !.chunks = Emit(@, Head(current)[1], current[Len(current)][2])]
          BY <1>7, <2>4
        <4> QED BY <1>2, <2>1, <4>1 DEF ChunkerState, q
      \* The piece does not fit, so there is text in it.
      <3>3. Solid(Text, m + 1, p[2]) # {}
        <4>1. next # 0
          BY <1>2, <1>5, <2>4, ChunkingAssumption
        <4> QED BY <1>4, <2>2, <4>1, PiecesHaveLength DEF next
      <3>4. PICK f \in Nat : h <= f /\ f <= m + 1 /\ over \in Seq(Piece) /\ Tiles(over, f, m)
        <4>1. CASE over = << >>
          <5>1. h <= m + 1 /\ m + 1 \in Nat
            BY <2>1
          <5>2. Tiles(<< >>, m + 1, m) /\ << >> \in Seq(Piece)
            BY TilesNothing
          <5> HIDE DEF over
          <5> QED BY <2>1, <4>1, <5>1, <5>2
        <4>2. CASE \E k \in 1..Len(current) : over = SubSeq(current, k, Len(current))
          <5>1. PICK k \in 1..Len(current) : over = SubSeq(current, k, Len(current))
            BY <4>2
          <5> DEFINE f == current[k][1]
          <5>2. over \in Seq(Piece) /\ h <= f /\ f <= m /\ Tiles(over, f, m)
            <6> HIDE DEF over
            <6> QED BY <1>2, <2>1, <5>1, TilesFrom
          <5>3. f \in Nat
            <6>1. current[k] \in Piece
              BY <1>2
            <6> QED BY <6>1 DEF Piece
          <5> HIDE DEF f, over
          <5>4. f <= m + 1
            BY <2>1, <5>2, <5>3
          <5> QED BY <5>2, <5>3, <5>4
        <4> QED BY <3>1, <4>1, <4>2
      <3> HIDE DEF over, n
      <3>5. now \in Seq(Piece) /\ Tiles(now, f, p[2])
        BY <1>4, <1>5, <2>1, <2>2, <3>4, TilesAppend
      <3>6. now # << >>
        BY <1>4, <1>13, <3>4
      <3> HIDE DEF now
      <3>7. p[2] <= Len(Text) /\ lo <= f /\ f <= p[2]
        <4>1. p[2] <= Len(Text)
          BY <1>5, <1>12, <2>2
        <4>2. lo <= f
          BY <1>12, <2>1, <3>4
        <4>3. f <= p[2]
          BY <1>5, <2>2, <3>4
        <4> QED BY <4>1, <4>2, <4>3
      <3>8. /\ r \in Seq(ChunkRecord)
            /\ Numbered(r, chunker.document, sec) /\ InOrder(r)
            /\ \A s, i : Covers(q, s, i) => Covers(r, s, i)
            /\ Extends(r, sec, Text, f, p[2])
        BY <1>2, <1>5, <2>1, <3>3, <3>4, <3>7, ChunkIsExtended DEF q, sec
      <3> HIDE DEF r
      <3> QED BY <1>9, <2>2, <3>1, <3>2, <3>4, <3>5, <3>6, <3>7, <3>8
    <2> QED BY <2>3, <2>4
  <1> QED BY <1>10, <1>11

\* The last chunk of a section covers what is left of it.
LEMMA MergeDoneKeepsInv == ChunkInv /\ MergeDone => ChunkInv'
  <1> SUFFICES ASSUME ChunkInv, MergeDone PROVE ChunkInv'
    OBVIOUS
  <1> DEFINE q == chunker.chunks
             sec == chunker.section
             lo == Min(Letters)
             hi == Max(Letters)
             current == chunker.current
  <1>1. chunker.pc = "merging" /\ chunker.pieces = << >>
    BY DEF MergeDone
  <1>2. /\ ChunkTyped /\ ChunksAreCounted /\ chunker \in ChunkerState
        /\ sec > 0 /\ sec \in Nat /\ sec <= Len(chunker.document) /\ chunker.stack = << >>
        /\ Text \in Seq(Characters) /\ Len(Text) \in Nat
        /\ lo \in Nat /\ hi \in Nat /\ hi <= Len(Text)
        /\ \A i \in Letters : lo <= i /\ i <= hi
        /\ \A s \in 1..sec : s # sec =>
             \A i \in Solid(chunker.document[s], 1, Len(chunker.document[s])) : Covers(q, s, i)
    BY <1>1, MergingState
  <1>3. current # << >>
    BY <1>1 DEF ChunkInv, ChunksGrow
  <1>4. chunker' = [chunker EXCEPT !.pc = "section", !.current = << >>, !.length = 0,
                       !.chunks = Emit(@, Head(current)[1], current[Len(current)][2])]
    BY DEF MergeDone
  <1> HIDE DEF q, sec, lo, hi, current
  <1>5. PICK h, m \in Nat :
           /\ h = Head(current)[1] /\ m = current[Len(current)][2]
           /\ lo <= h /\ 1 <= h /\ h <= m /\ m <= hi /\ m <= Len(Text)
           /\ Tiles(<< >>, m + 1, hi) /\ Extends(q, sec, Text, h, m)
    BY <1>1, <1>3, CurrentChunk DEF current, q, sec, lo, hi
  <1>6. m = hi
    <2>1. m + 1 = hi + 1
      BY <1>5 DEF Tiles
    <2> QED BY <1>2, <1>5, <2>1
  <1> DEFINE r == Emit(q, h, m)
  <1>7. chunker' = [chunker EXCEPT !.pc = "section", !.current = << >>, !.length = 0, !.chunks = r]
    BY <1>2, <1>4, <1>5 DEF ChunkerState, q
  <1>8. /\ r \in Seq(ChunkRecord)
        /\ Numbered(r, chunker.document, sec) /\ InOrder(r)
        /\ \A s, i : Covers(q, s, i) => Covers(r, s, i)
        /\ \A i \in Solid(Text, h, m) : Covers(r, sec, i)
    <2>1. \A i \in Solid(Text, h, m) : i \in Solid(Text, h, Len(Text))
      BY <1>2, <1>5 DEF Solid
    <2>2. \A k \in DOMAIN q : q[k].section = sec =>
             /\ \E i \in Solid(Text, h, m) : q[k].at[2] < i
             /\ \A i \in Solid(Text, h, m) : q[k].at[1] <= i
      BY <1>5, <2>1 DEF Extends
    <2>3. h >= 1 /\ m <= Len(Text)
      BY <1>5
    <2> QED BY <1>2, <2>2, <2>3, EmitCovers DEF q, sec
  <1>9. \A i \in Letters : Covers(r, sec, i)
    <2> SUFFICES ASSUME NEW i \in Letters PROVE Covers(r, sec, i)
      OBVIOUS
    <2>1. i \in 1..Len(Text) /\ Text[i] \notin Blank /\ i <= hi
      BY <1>2 DEF Letters, Solid
    <2>2. i \in 1..(h - 1) \/ i \in h..m
      BY <1>2, <1>5, <1>6, <2>1
    <2>3. i \in Solid(Text, 1, h - 1) \/ i \in Solid(Text, h, m)
      BY <2>1, <2>2 DEF Solid
    <2>4. i \in Solid(Text, 1, h - 1) => Covers(q, sec, i)
      BY <1>5 DEF Extends
    <2> HIDE DEF r
    <2> QED BY <1>8, <2>3, <2>4
  <1> HIDE DEF r
  <1>10. /\ chunker'.section = sec /\ chunker'.pc = "section"
         /\ chunker'.document = chunker.document /\ chunker'.chunks = r
         /\ chunker'.stack = << >> /\ chunker'.pieces = << >>
         /\ chunker'.current = << >> /\ chunker'.length = 0
    BY <1>1, <1>2, <1>7 DEF ChunkerState, sec
  <1>11. ChunkTyped'
    <2>1. chunker' \in ChunkerState
      <3>1. << >> \in Seq(Piece)
        OBVIOUS
      <3> QED BY <1>2, <1>7, <1>8, <3>1 DEF ChunkerState
    <2> QED BY <1>2, <1>10, <2>1, ChunkingAssumption DEF ChunkTyped
  <1>12. ChunksAreCounted'
    BY <1>8, <1>10 DEF ChunksAreCounted
  <1>13. SectionsCovered'
    <2> SUFFICES ASSUME NEW s \in 1..sec,
                        NEW i \in Solid(chunker.document[s], 1, Len(chunker.document[s]))
                 PROVE  Covers(r, s, i)
      BY <1>10 DEF SectionsCovered
    <2>1. CASE s = sec
      <3>1. i \in Letters
        BY <2>1 DEF Letters, Text, sec
      <3> QED BY <1>9, <2>1, <3>1
    <2>2. CASE s # sec
      BY <1>2, <1>8, <2>2
    <2> QED BY <2>1, <2>2
  <1>14. NothingPending' /\ PiecesFit' /\ SplitsTile' /\ ChunksGrow'
    BY <1>10 DEF NothingPending, PiecesFit, SplitsTile, ChunksGrow
  <1> QED BY <1>11, <1>12, <1>13, <1>14 DEF ChunkInv

\* The chunker always has the whole text: what is not yet in a chunk is in the pieces and the
\* calls, in its order.
THEOREM ChunkingKeepsTheText == ChunkSpec => []ChunkInv
  <1>1. ChunkInit => ChunkInv
    BY ChunkInitKeepsInv
  <1>2. ChunkInv /\ [ChunkNext]_chunkVars => ChunkInv'
    <2>1. ChunkInv /\ UNCHANGED chunkVars => ChunkInv'
      <3> SUFFICES ASSUME ChunkInv, UNCHANGED chunkVars PROVE ChunkInv'
        OBVIOUS
      <3>1. chunker' = chunker
        BY DEF chunkVars
      <3>2. Text' = Text /\ Letters' = Letters /\ \A x : PieceLength(x)' = PieceLength(x)
        BY <3>1, SameText
      <3>3. ChunkTyped /\ ChunksAreCounted /\ SectionsCovered /\ NothingPending
        BY DEF ChunkInv
      <3>4. (ChunkTyped /\ ChunksAreCounted /\ SectionsCovered /\ NothingPending)'
        BY <3>1, <3>3 DEF ChunkTyped, ChunksAreCounted, SectionsCovered, NothingPending
      <3>5. PiecesFit'
        BY <3>1, <3>2 DEF ChunkInv, PiecesFit
      <3>6. SplitsTile'
        <4>1. SplitsTile
          BY DEF ChunkInv
        <4> QED BY <3>1, <3>2, <4>1 DEF SplitsTile
      <3>7. ChunksGrow'
        <4>1. ChunksGrow
          BY DEF ChunkInv
        <4> QED BY <3>1, <3>2, <4>1 DEF ChunksGrow, MergeTiles
      <3> QED BY <3>4, <3>5, <3>6, <3>7 DEF ChunkInv
    <2> QED BY <2>1, NextSectionKeepsInv, StartTextKeepsInv, SplitKeepsInv, SplitDoneKeepsInv,
               MergeKeepsInv, MergeDoneKeepsInv DEF ChunkNext
  <1> QED BY <1>1, <1>2, PTL DEF ChunkSpec

\* The indexes of chunks that are numbered count them.
LEMMA IndexesCount ==
    ASSUME NEW q \in Seq(ChunkRecord), NEW document, NEW section, Numbered(q, document, section)
    PROVE  LET chunks == {q[k] : k \in DOMAIN q} IN
           {c.index : c \in chunks} = 0..(Cardinality(chunks) - 1)
  <1> DEFINE n == Len(q)
             chunks == {q[k] : k \in DOMAIN q}
  <1>1. n \in Nat /\ DOMAIN q = 1..n
    OBVIOUS
  <1>2. \A k \in 1..n : q[k].index = k - 1
    BY <1>1 DEF Numbered
  <1>3. q \in Surjection(1..n, chunks)
    BY <1>1 DEF Surjection
  <1>4. q \in Injection(1..n, chunks)
    <2>1. \A j, k \in 1..n : q[j] = q[k] => j = k
      <3> TAKE j, k \in 1..n
      <3> QED BY <1>2
    <2> QED BY <1>3, <2>1 DEF Injection, IsInjective, Surjection
  <1>5. IsFiniteSet(1..n) /\ Cardinality(1..n) = n
    BY <1>1, FS_Interval
  <1> HIDE DEF n
  <1>6. Cardinality(chunks) = n
    <2> HIDE DEF chunks
    <2> QED BY <1>3, <1>4, <1>5, FS_Surjection
  <1>7. {c.index : c \in chunks} = {q[k].index : k \in 1..n}
    BY <1>1
  <1>8. {q[k].index : k \in 1..n} = {k - 1 : k \in 1..n}
    BY <1>2
  <1>9. {k - 1 : k \in 1..n} = 0..(n - 1)
    <2>1. \A x \in 0..(n - 1) : x + 1 \in 1..n /\ x = (x + 1) - 1
      BY <1>1
    <2>2. \A k \in 1..n : k - 1 \in 0..(n - 1)
      BY <1>1
    <2> QED BY <2>1, <2>2
  <1> QED BY <1>6, <1>7, <1>8, <1>9

\* TextIsCovered, whatever the document, the sizes and the overlap: no solid character is lost,
\* every chunk ends with text that the ones before it do not have, the indexes count the chunks
\* of all sections, and no chunk is made of more than fits.
THEOREM TextIsAlwaysCovered == ChunkSpec => []TextIsCovered
  <1>1. ChunkInv => TextIsCovered
    <2> SUFFICES ASSUME ChunkInv PROVE TextIsCovered
      OBVIOUS
    <2> DEFINE q == chunker.chunks
               chunks == {q[i] : i \in DOMAIN q}
    <2>1. ChunkTyped /\ ChunksAreCounted /\ SectionsCovered
      BY DEF ChunkInv
    <2>2. /\ chunker.length <= ChunkSize /\ q \in Seq(ChunkRecord)
          /\ chunker.document \in Seq(Seq(Characters))
          /\ Numbered(q, chunker.document, chunker.section) /\ InOrder(q)
      BY <2>1 DEF ChunkTyped, ChunkerState, ChunksAreCounted
    <2>3. ASSUME chunker.pc = "section", chunker.section = Len(chunker.document)
          PROVE  \A s \in DOMAIN chunker.document :
                    \A i \in Solid(chunker.document[s], 1, Len(chunker.document[s])) :
                       \E c \in chunks : c.section = s /\ c.at[1] <= i /\ i <= c.at[2]
      <3>1. DOMAIN chunker.document = 1..chunker.section
        BY <2>2, <2>3
      <3>2. ASSUME NEW s \in 1..chunker.section,
                   NEW i \in Solid(chunker.document[s], 1, Len(chunker.document[s]))
            PROVE  \E c \in chunks : c.section = s /\ c.at[1] <= i /\ i <= c.at[2]
        <4>1. Covers(q, s, i)
          BY <2>1, <2>3 DEF SectionsCovered
        <4>2. PICK k \in DOMAIN q : q[k].section = s /\ q[k].at[1] <= i /\ i <= q[k].at[2]
          BY <4>1 DEF Covers
        <4>3. q[k] \in chunks
          OBVIOUS
        <4> QED BY <4>2, <4>3
      <3> QED BY <3>1, <3>2
    <2>4. \A c, e \in chunks : c.section = e.section /\ c.index < e.index
                                 => c.at[1] <= e.at[1] /\ c.at[2] < e.at[2]
      <3> SUFFICES ASSUME NEW j \in DOMAIN q, NEW k \in DOMAIN q,
                          q[j].section = q[k].section, q[j].index < q[k].index
                   PROVE  q[j].at[1] <= q[k].at[1] /\ q[j].at[2] < q[k].at[2]
        OBVIOUS
      <3>1. q[j].index = j - 1 /\ q[k].index = k - 1 /\ j \in Nat /\ k \in Nat
        BY <2>2 DEF Numbered
      <3>2. j < k
        BY <3>1
      <3> QED BY <2>2, <3>2 DEF InOrder
    <2>5. {c.index : c \in chunks} = 0..(Cardinality(chunks) - 1)
      BY <2>2, IndexesCount
    <2> HIDE DEF q
    <2>6. chunks = {chunker.chunks[i] : i \in DOMAIN chunker.chunks}
      BY DEF q
    <2> HIDE DEF chunks
    <2> QED BY <2>2, <2>3, <2>4, <2>5, <2>6 DEF TextIsCovered
  <1> QED BY <1>1, ChunkingKeepsTheText, PTL

\* ChunkTypeOK: what a chunk is of is in the text of its section.
THEOREM ChunksAreInTheText == ChunkSpec => []ChunkTypeOK
  <1>1. ChunkInv => ChunkTypeOK
    <2> SUFFICES ASSUME ChunkInv PROVE ChunkTypeOK
      OBVIOUS
    <2> DEFINE q == chunker.chunks
               d == chunker.document
               sec == chunker.section
    <2>1. /\ chunker \in ChunkerState /\ sec <= Len(d)
          /\ Numbered(q, d, sec)
      BY DEF ChunkInv, ChunkTyped, ChunksAreCounted
    <2>2. /\ chunker.pc \in {"section", "text", "splitting", "merging"}
          /\ sec \in Nat /\ d \in Seq(Seq(Characters)) /\ q \in Seq(ChunkRecord)
      BY <2>1 DEF ChunkerState
    <2>3. sec \in 0..Len(d) /\ Len(d) \in Nat
      BY <2>1, <2>2
    <2>4. ASSUME NEW c \in DOMAIN q
          PROVE  /\ q[c].section \in 1..sec
                 /\ q[c].at \in (1..Len(d[q[c].section])) \X (1..Len(d[q[c].section]))
      <3> DEFINE s == q[c].section
                 at == q[c].at
      <3>1. /\ s \in 1..sec /\ at[1] >= 1 /\ at[2] >= 1
            /\ at[1] <= Len(d[s]) /\ at[2] <= Len(d[s])
        BY <2>1 DEF Numbered
      <3>2. at \in Piece
        <4>1. q[c] \in ChunkRecord
          BY <2>2
        <4> QED BY <4>1 DEF ChunkRecord
      <3>3. Len(d[s]) \in Nat
        <4>1. d[s] \in Seq(Characters)
          <5>1. s \in 1..Len(d)
            BY <2>1, <2>3, <3>1
          <5> HIDE DEF s
          <5> QED BY <2>2, <5>1
        <4> QED BY <4>1
      <3> HIDE DEF s, at
      <3>4. at \in (1..Len(d[s])) \X (1..Len(d[s]))
        <4>1. at[1] \in 1..Len(d[s]) /\ at[2] \in 1..Len(d[s]) /\ at = <<at[1], at[2]>>
          BY <3>1, <3>2, <3>3 DEF Piece
        <4> HIDE DEF d
        <4> QED BY <4>1
      <3> QED BY <3>1, <3>4 DEF s, at
    <2> HIDE DEF q, d, sec
    <2> QED BY <2>2, <2>3, <2>4 DEF ChunkTypeOK, q, d, sec
  <1> QED BY <1>1, ChunkingKeepsTheText, PTL
=============================================================================
