---------------------- MODULE QuantizedExchangeProofs ----------------------
(***************************************************************************)
(* Proofs about QuantizedExchange: the threads agree on their packets,      *)
(* buffers and scaling factors; what they send never overflows; what they   *)
(* return is the sum up to rounding; a retransmission is the same packet.   *)
(*                                                                          *)
(* What a packet carries and what its result is are functions of the        *)
(* tensors (Element, ElementSum, Factor).  ExchangeInv says of every packet *)
(* where it is, that its buffer carries or returns what it should, and of   *)
(* every element and factor that it is final exactly when its packet was    *)
(* processed.  Sums over sets are reasoned about through the recursion that *)
(* the folds of the community modules choose a solution of.                 *)
(***************************************************************************)
EXTENDS QuantizedExchange, FiniteSetTheorems, SequenceTheorems, WellFoundedInduction, TLAPS

-----------------------------------------------------------------------------
(* Induction over natural numbers, for the sets of counterexamples below.   *)

\* A set of natural numbers that has an element has a least one.
LEMMA LeastNat ==
  ASSUME NEW T \in SUBSET Nat, T # {}
  PROVE  \E x \in T : \A y \in T : x <= y
<1> DEFINE R == {ss \in Nat \X Nat : ss[1] < ss[2]}
<1>1. IsWellFoundedOn(R, Nat)
  BY NatLessThanWellFounded DEF OpToRel
<1>2. PICK x \in T : \A y \in T : ~(<<y, x>> \in R)
  <2> HIDE DEF R
  <2> QED BY <1>1, WFMin
<1>3. \A y \in T : ~(y < x)
  BY <1>2
<1> QED BY <1>3

\* A bounded one has a greatest one.
LEMMA GreatestNat ==
  ASSUME NEW T \in SUBSET Nat, T # {}, NEW n \in Nat, \A x \in T : x <= n
  PROVE  \E x \in T : \A y \in T : x >= y
<1> DEFINE D == {n - x : x \in T}
<1>1. D \in SUBSET Nat /\ D # {}
  <2>1. \A x \in T : n - x \in Nat
    OBVIOUS
  <2>2. PICK x \in T : TRUE
    OBVIOUS
  <2> QED BY <2>1, <2>2
<1>2. PICK d \in D : \A y \in D : d <= y
  BY <1>1, LeastNat
<1>3. PICK x \in T : d = n - x
  BY <1>2
<1>4. ASSUME NEW y \in T PROVE x >= y
  <2>1. n - x <= n - y
    BY <1>2, <1>3
  <2> QED BY <2>1
<1> QED BY <1>4

-----------------------------------------------------------------------------
(* Sums over finite sets, for functions instead of operators.               *)

\* The order in which a fold takes the elements, and its recursion.
First(s) == CHOOSE x \in s : TRUE

Sums(g, f, S) ==
  g = [s \in SUBSET S |-> IF s = {} THEN 0
                          ELSE f[First(s)] + g[s \ {First(s)}]]

\* The sum of f over S.
SumOf(f, S) == (CHOOSE g : Sums(g, f, S))[S]

\* The element that a fold takes first is one of the set.
LEMMA FirstIn ==
  ASSUME NEW s, s # {}
  PROVE  First(s) \in s
BY DEF First

\* The recursion has one solution.
LEMMA SumsAgree ==
  ASSUME NEW S, NEW T, NEW f, NEW g, NEW h, IsFiniteSet(S),
         Sums(g, f, S), Sums(h, f, T), NEW s \in SUBSET S, s \in SUBSET T
  PROVE  g[s] = h[s]
<1> DEFINE Bad == {n \in Nat : \E t \in SUBSET S : /\ t \in SUBSET T
                                                   /\ Cardinality(t) = n /\ g[t] # h[t]}
<1>1. ASSUME g[s] # h[s] PROVE FALSE
  <2>1. Cardinality(s) \in Nat
    BY FS_Subset, FS_CardinalityType
  <2>2. Bad \in SUBSET Nat /\ Bad # {}
    BY <1>1, <2>1
  <2>3. PICK n \in Bad : \A m \in Bad : n <= m
    BY <2>2, LeastNat
  <2>4. PICK t \in SUBSET S : t \in SUBSET T /\ Cardinality(t) = n /\ g[t] # h[t]
    BY <2>3
  <2>5. t # {}
    BY <2>4 DEF Sums
  <2>6. /\ g[t] = f[First(t)] + g[t \ {First(t)}]
        /\ h[t] = f[First(t)] + h[t \ {First(t)}]
    BY <2>4, <2>5 DEF Sums
  <2>7. g[t \ {First(t)}] # h[t \ {First(t)}]
    BY <2>4, <2>6
  <2>8. IsFiniteSet(t)
    BY FS_Subset
  <2>9. Cardinality(t \ {First(t)}) = n - 1 /\ Cardinality(t \ {First(t)}) \in Nat
    BY <2>4, <2>5, <2>8, FirstIn, FS_RemoveElement, FS_CardinalityType
  <2>10. n - 1 \in Bad
    BY <2>4, <2>7, <2>9
  <2> QED BY <2>2, <2>3, <2>10
<1> QED BY <1>1

\* It has a solution.
LEMMA SumsExist ==
  ASSUME NEW S, NEW f, IsFiniteSet(S)
  PROVE  \E g : Sums(g, f, S)
<1> DEFINE Bad == {n \in Nat : \E T \in SUBSET S : Cardinality(T) = n /\ ~ \E g : Sums(g, f, T)}
<1>1. ASSUME ~ \E g : Sums(g, f, S) PROVE FALSE
  <2>1. Cardinality(S) \in Nat
    BY FS_CardinalityType
  <2>2. Bad \in SUBSET Nat /\ Bad # {}
    BY <1>1, <2>1
  <2>3. PICK n \in Bad : \A m \in Bad : n <= m
    BY <2>2, LeastNat
  <2>4. PICK T \in SUBSET S : Cardinality(T) = n /\ ~ \E g : Sums(g, f, T)
    BY <2>3
  <2>5. IsFiniteSet(T)
    BY FS_Subset
  <2> DEFINE G(U) == CHOOSE g : Sums(g, f, U)
             h == [s \in SUBSET T |-> IF s = {} THEN 0
                      ELSE f[First(s)] + G(s \ {First(s)})[s \ {First(s)}]]
  <2>6. ASSUME NEW U \in SUBSET T, U # T PROVE Sums(G(U), f, U)
    <3>1. IsFiniteSet(U) /\ Cardinality(U) <= Cardinality(T) /\ Cardinality(U) # Cardinality(T)
      BY <2>5, <2>6, FS_Subset
    <3>2. Cardinality(U) \in Nat /\ Cardinality(U) < n
      BY <2>4, <3>1, FS_CardinalityType
    <3>3. Cardinality(U) \notin Bad
      BY <2>2, <2>3, <3>2
    <3>4. \E g : Sums(g, f, U)
      BY <3>2, <3>3
    <3> QED BY <3>4
  <2>7. ASSUME NEW s \in SUBSET T, s # {}
        PROVE  h[s \ {First(s)}] = G(s \ {First(s)})[s \ {First(s)}]
    <3> DEFINE U == s \ {First(s)}
    <3>1. U \in SUBSET T /\ U # T
      BY <2>7, FirstIn
    <3>2. Sums(G(U), f, U)
      BY <2>6, <3>1
    <3>3. CASE U = {}
      <4>1. h[U] = 0
        BY <3>1, <3>3
      <4>2. G(U)[U] = 0
        <5> HIDE DEF G, U
        <5> QED BY <3>2, <3>3 DEF Sums
      <4> QED BY <4>1, <4>2
    <3>4. CASE U # {}
      <4> DEFINE V == U \ {First(U)}
      <4>1. h[U] = f[First(U)] + G(V)[V]
        BY <3>1, <3>4
      <4>2. G(U)[U] = f[First(U)] + G(U)[V]
        <5> HIDE DEF G
        <5> QED BY <3>2, <3>4 DEF Sums
      <4>3. V \in SUBSET T /\ V # T /\ V \in SUBSET U
        BY <3>1, <3>4, FirstIn
      <4>4. Sums(G(V), f, V)
        BY <2>6, <4>3
      <4>5. IsFiniteSet(U)
        BY <2>5, <3>1, FS_Subset
      <4>6. G(U)[V] = G(V)[V]
        <5> HIDE DEF G, U, V
        <5> QED BY <3>2, <4>3, <4>4, <4>5, SumsAgree
      <4> QED BY <4>1, <4>2, <4>6
    <3> QED BY <3>3, <3>4
  <2>8. Sums(h, f, T)
    <3>1. h = [s \in SUBSET T |-> IF s = {} THEN 0
                                 ELSE f[First(s)] + h[s \ {First(s)}]]
      <4> HIDE DEF G
      <4> DEFINE k == [s \in SUBSET T |-> IF s = {} THEN 0
                                 ELSE f[First(s)] + h[s \ {First(s)}]]
      <4>1. ASSUME NEW s \in SUBSET T PROVE h[s] = k[s]
        <5>1. CASE s = {}
          BY <5>1
        <5>2. CASE s # {}
          <6>1. h[s] = f[First(s)] + G(s \ {First(s)})[s \ {First(s)}]
            BY <5>2
          <6>2. k[s] = f[First(s)] + h[s \ {First(s)}]
            <7> HIDE DEF h
            <7> QED BY <5>2
          <6> HIDE DEF h, k
          <6> QED BY <2>7, <5>2, <6>1, <6>2
        <5> QED BY <5>1, <5>2
      <4>2. DOMAIN h = SUBSET T /\ DOMAIN k = SUBSET T
            /\ h = [s \in SUBSET T |-> h[s]] /\ k = [s \in SUBSET T |-> k[s]]
        OBVIOUS
      <4>3. h = k
        <5> HIDE DEF h, k
        <5> QED BY <4>1, <4>2
      <4> QED BY <4>3
    <3> HIDE DEF h
    <3> QED BY <3>1 DEF Sums
  <2> QED BY <2>4, <2>8
<1> QED BY <1>1

\* The recursion that SumOf chooses a solution of has one.
LEMMA SumSolution ==
  ASSUME NEW S, NEW f, IsFiniteSet(S)
  PROVE  Sums(CHOOSE g : Sums(g, f, S), f, S)
<1>1. PICK g : Sums(g, f, S)
  BY SumsExist
<1> QED BY <1>1

\* Nothing adds up to 0.
LEMMA SumEmpty ==
  ASSUME NEW f
  PROVE  SumOf(f, {}) = 0
<1> DEFINE g == CHOOSE g : Sums(g, f, {})
<1>1. Sums(g, f, {})
  BY SumSolution, FS_EmptySet
<1>2. g[{}] = 0
  <2> HIDE DEF g
  <2> QED BY <1>1 DEF Sums
<1> QED BY <1>2 DEF SumOf

\* One step of the recursion.
LEMMA SumFirst ==
  ASSUME NEW S, NEW f, IsFiniteSet(S), S # {}
  PROVE  SumOf(f, S) = f[First(S)] + SumOf(f, S \ {First(S)})
<1> DEFINE R == S \ {First(S)}
           G(U) == CHOOSE g : Sums(g, f, U)
<1>1. IsFiniteSet(R) /\ R \in SUBSET S
  BY FS_Subset
<1>2. Sums(G(S), f, S) /\ Sums(G(R), f, R)
  BY <1>1, SumSolution
<1>3. G(S)[S] = f[First(S)] + G(S)[R]
  <2> HIDE DEF G
  <2> QED BY <1>2 DEF Sums
<1>4. G(S)[R] = G(R)[R]
  <2> HIDE DEF G, R
  <2> QED BY <1>1, <1>2, SumsAgree
<1> QED BY <1>3, <1>4 DEF SumOf

\* A sum of integers is an integer, and x may be added last.
LEMMA SumAny ==
  ASSUME NEW S, NEW f, IsFiniteSet(S), \A x \in S : f[x] \in Int
  PROVE  /\ SumOf(f, S) \in Int
         /\ \A x \in S : SumOf(f, S) = f[x] + SumOf(f, S \ {x})
<1> DEFINE Good(T) == /\ SumOf(f, T) \in Int
                      /\ \A x \in T : SumOf(f, T) = f[x] + SumOf(f, T \ {x})
           Bad == {n \in Nat : \E T \in SUBSET S : Cardinality(T) = n /\ ~Good(T)}
<1>1. ASSUME ~Good(S) PROVE FALSE
  <2>1. Cardinality(S) \in Nat
    BY FS_CardinalityType
  <2>2. Bad \in SUBSET Nat /\ Bad # {}
    BY <1>1, <2>1
  <2>3. PICK n \in Bad : \A m \in Bad : n <= m
    BY <2>2, LeastNat
  <2>4. PICK T \in SUBSET S : Cardinality(T) = n /\ ~Good(T)
    BY <2>3
  <2>5. IsFiniteSet(T)
    BY FS_Subset
  <2>6. ASSUME NEW U \in SUBSET T, U # T PROVE Good(U)
    <3>1. IsFiniteSet(U) /\ Cardinality(U) <= Cardinality(T) /\ Cardinality(U) # Cardinality(T)
      BY <2>5, <2>6, FS_Subset
    <3>2. Cardinality(U) \in Nat /\ Cardinality(U) < n
      BY <2>4, <3>1, FS_CardinalityType
    <3>3. Cardinality(U) \notin Bad
      BY <2>2, <2>3, <3>2
    <3> QED BY <3>2, <3>3
  <2>7. T # {}
    <3>1. T = {} => SumOf(f, T) = 0
      BY SumEmpty
    <3> QED BY <2>4, <3>1
  <2> DEFINE y == First(T)
  <2>8. y \in T
    BY <2>7, FirstIn
  <2>9. SumOf(f, T) = f[y] + SumOf(f, T \ {y})
    BY <2>5, <2>7, SumFirst
  <2> HIDE DEF y
  <2>10. T \ {y} \in SUBSET T /\ T \ {y} # T
    BY <2>8
  <2> HIDE DEF Good
  <2>11. Good(T \ {y})
    BY <2>6, <2>10
  <2>12. SumOf(f, T) \in Int
    BY <2>8, <2>9, <2>11 DEF Good
  <2>13. ASSUME NEW x \in T PROVE SumOf(f, T) = f[x] + SumOf(f, T \ {x})
    <3>1. CASE x = y
      BY <2>9, <3>1
    <3>2. CASE x # y
      <4> DEFINE V == (T \ {y}) \ {x}
      <4>1. x \in T \ {y} /\ y \in T \ {x} /\ V = (T \ {x}) \ {y}
        BY <2>8, <3>2
      <4>2. Good(T \ {x}) /\ Good(V)
        <5>1. T \ {x} \in SUBSET T /\ T \ {x} # T /\ V \in SUBSET T /\ V # T
          OBVIOUS
        <5> QED BY <2>6, <5>1
      <4>3. SumOf(f, T \ {y}) = f[x] + SumOf(f, V)
        BY <2>11, <4>1 DEF Good
      <4>4. SumOf(f, T \ {x}) = f[y] + SumOf(f, V)
        BY <4>1, <4>2 DEF Good
      <4>5. SumOf(f, V) \in Int
        BY <4>2 DEF Good
      <4>6. f[x] \in Int /\ f[y] \in Int
        BY <2>8
      <4> HIDE DEF V
      <4> QED BY <2>9, <4>3, <4>4, <4>5, <4>6
    <3> QED BY <3>1, <3>2
  <2>14. Good(T)
    BY <2>12, <2>13 DEF Good
  <2> QED BY <2>4, <2>14 DEF Good
<1> QED BY <1>1

\* The distance of D times a sum and M times another grows with every element
\* by the distance of D times and M times its values.
LEMMA SumsClose ==
  ASSUME NEW S, IsFiniteSet(S), NEW f, NEW g, NEW D \in Int, NEW M \in Int, NEW E \in Int,
         \A x \in S : f[x] \in Int /\ g[x] \in Int,
         \A x \in S : -E <= D * f[x] - M * g[x] /\ D * f[x] - M * g[x] <= E
  PROVE  /\ -(Cardinality(S) * E) <= D * SumOf(f, S) - M * SumOf(g, S)
         /\ D * SumOf(f, S) - M * SumOf(g, S) <= Cardinality(S) * E
<1> DEFINE Close(T) == /\ -(Cardinality(T) * E) <= D * SumOf(f, T) - M * SumOf(g, T)
                       /\ D * SumOf(f, T) - M * SumOf(g, T) <= Cardinality(T) * E
           Bad == {n \in Nat : \E T \in SUBSET S : Cardinality(T) = n /\ ~Close(T)}
<1>1. ASSUME ~Close(S) PROVE FALSE
  <2>1. Cardinality(S) \in Nat
    BY FS_CardinalityType
  <2>2. Bad \in SUBSET Nat /\ Bad # {}
    BY <1>1, <2>1
  <2>3. PICK n \in Bad : \A m \in Bad : n <= m
    BY <2>2, LeastNat
  <2>4. PICK T \in SUBSET S : Cardinality(T) = n /\ ~Close(T)
    BY <2>3
  <2>5. IsFiniteSet(T)
    BY FS_Subset
  <2>6. T # {}
    <3>1. ASSUME T = {} PROVE SumOf(f, T) = 0 /\ SumOf(g, T) = 0 /\ Cardinality(T) = 0
      BY <3>1, SumEmpty, FS_EmptySet
    <3>2. T = {} => Close(T)
      BY <3>1
    <3> QED BY <2>4, <3>2
  <2>7. PICK x \in T : TRUE
    BY <2>6
  <2> DEFINE U == T \ {x}
  <2>8. IsFiniteSet(U) /\ Cardinality(U) = n - 1 /\ n - 1 \in Nat
    <3>1. IsFiniteSet(U) /\ Cardinality(U) = Cardinality(T) - 1
      BY <2>5, <2>7, FS_RemoveElement
    <3>2. Cardinality(U) \in Nat
      BY <3>1, FS_CardinalityType
    <3> QED BY <2>4, <3>1, <3>2
  <2>9. Close(U)
    <3>1. n - 1 \notin Bad
      BY <2>2, <2>3, <2>8
    <3>2. U \in SUBSET S
      OBVIOUS
    <3> HIDE DEF Close
    <3> QED BY <2>8, <3>1, <3>2
  <2>10. SumOf(f, T) = f[x] + SumOf(f, U) /\ SumOf(g, T) = g[x] + SumOf(g, U)
    BY <2>5, SumAny
  <2>11. SumOf(f, U) \in Int /\ SumOf(g, U) \in Int
    BY <2>8, SumAny
  <2> HIDE DEF U
  <2>12. /\ D * (f[x] + SumOf(f, U)) = D * f[x] + D * SumOf(f, U)
         /\ M * (g[x] + SumOf(g, U)) = M * g[x] + M * SumOf(g, U)
         /\ n * E = (n - 1) * E + E
    BY <2>11
  <2>13. /\ D * f[x] \in Int /\ D * SumOf(f, U) \in Int
         /\ M * g[x] \in Int /\ M * SumOf(g, U) \in Int /\ (n - 1) * E \in Int
    BY <2>11
  <2>14. /\ -((n - 1) * E) <= D * SumOf(f, U) - M * SumOf(g, U)
         /\ D * SumOf(f, U) - M * SumOf(g, U) <= (n - 1) * E
    BY <2>8, <2>9
  <2>15. -E <= D * f[x] - M * g[x] /\ D * f[x] - M * g[x] <= E
    OBVIOUS
  <2> DEFINE a == D * f[x]
             b == D * SumOf(f, U)
             c == M * g[x]
             d == M * SumOf(g, U)
             k == (n - 1) * E
  <2>16. D * SumOf(f, T) = a + b /\ M * SumOf(g, T) = c + d /\ n * E = k + E
    BY <2>10, <2>12
  <2>17. -(k + E) <= (a + b) - (c + d) /\ (a + b) - (c + d) <= k + E
    <3>1. a \in Int /\ b \in Int /\ c \in Int /\ d \in Int /\ k \in Int
      BY <2>13
    <3>2. -k <= b - d /\ b - d <= k /\ -E <= a - c /\ a - c <= E
      BY <2>14, <2>15
    <3> HIDE DEF a, b, c, d, k
    <3> QED BY <3>1, <3>2
  <2> HIDE DEF a, b, c, d, k
  <2>18. Close(T)
    BY <2>4, <2>16, <2>17
  <2> QED BY <2>4, <2>18
<1> QED BY <1>1

\* A sum may be taken over the image of an injective function.
LEMMA SumOverImage ==
  ASSUME NEW S, NEW T, IsFiniteSet(S), IsFiniteSet(T), NEW f, NEW g, NEW h \in [S -> T],
         \A x \in S : f[x] \in Int /\ f[x] = g[h[x]],
         \A x, y \in S : h[x] = h[y] => x = y
  PROVE  SumOf(f, S) = SumOf(g, {h[x] : x \in S})
<1> DEFINE Im(U) == {h[x] : x \in U}
           Same(U) == SumOf(f, U) = SumOf(g, Im(U))
           Bad == {n \in Nat : \E U \in SUBSET S : Cardinality(U) = n /\ ~Same(U)}
<1>1. ASSUME ~Same(S) PROVE FALSE
  <2>1. Cardinality(S) \in Nat
    BY FS_CardinalityType
  <2>2. Bad \in SUBSET Nat /\ Bad # {}
    BY <1>1, <2>1
  <2>3. PICK n \in Bad : \A m \in Bad : n <= m
    BY <2>2, LeastNat
  <2>4. PICK U \in SUBSET S : Cardinality(U) = n /\ ~Same(U)
    BY <2>3
  <2>5. IsFiniteSet(U)
    BY FS_Subset
  <2>6. U # {}
    <3>1. ASSUME U = {} PROVE SumOf(f, U) = 0 /\ SumOf(g, Im(U)) = 0
      <4>1. Im(U) = {}
        BY <3>1
      <4> QED BY <3>1, <4>1, SumEmpty
    <3>2. U = {} => Same(U)
      BY <3>1
    <3> QED BY <2>4, <3>2
  <2>7. PICK x \in U : TRUE
    BY <2>6
  <2> DEFINE V == U \ {x}
  <2>8. IsFiniteSet(V) /\ Cardinality(V) = n - 1 /\ n - 1 \in Nat
    <3>1. IsFiniteSet(V) /\ Cardinality(V) = Cardinality(U) - 1
      BY <2>5, <2>7, FS_RemoveElement
    <3>2. Cardinality(V) \in Nat
      BY <3>1, FS_CardinalityType
    <3> QED BY <2>4, <3>1, <3>2
  <2>9. Same(V)
    <3>1. n - 1 \notin Bad
      <4> HIDE DEF Bad
      <4> QED BY <2>2, <2>3, <2>8
    <3>2. V \in SUBSET S
      OBVIOUS
    <3> HIDE DEF Same
    <3> QED BY <2>8, <3>1, <3>2
  <2>10. Im(V) = Im(U) \ {h[x]} /\ h[x] \in Im(U)
    OBVIOUS
  <2>11. IsFiniteSet(Im(U)) /\ \A y \in Im(U) : g[y] \in Int
    <3>1. Im(U) \in SUBSET T
      OBVIOUS
    <3> QED BY <3>1, FS_Subset
  <2>12. SumOf(f, U) = f[x] + SumOf(f, V)
    BY <2>5, SumAny
  <2>13. SumOf(g, Im(U)) = g[h[x]] + SumOf(g, Im(V))
    <3>1. \A y \in Im(U) : SumOf(g, Im(U)) = g[y] + SumOf(g, Im(U) \ {y})
      <4> HIDE DEF Im
      <4> QED BY <2>11, SumAny
    <3> QED BY <2>10, <3>1
  <2>14. Same(U)
    BY <2>9, <2>12, <2>13
  <2> QED BY <2>4, <2>14
<1> QED BY <1>1

\* The sum depends on the values in the set only.
LEMMA SumSame ==
  ASSUME NEW S, IsFiniteSet(S), NEW f, NEW g,
         \A x \in S : f[x] \in Int /\ f[x] = g[x]
  PROVE  SumOf(f, S) = SumOf(g, S)
<1> DEFINE h == [x \in S |-> x]
<1>1. h \in [S -> S] /\ \A x \in S : h[x] = x
  OBVIOUS
<1>2. {h[x] : x \in S} = S
  BY <1>1
<1> HIDE DEF h
<1>3. SumOf(f, S) = SumOf(g, {h[x] : x \in S})
  BY <1>1, SumOverImage
<1> QED BY <1>2, <1>3

-----------------------------------------------------------------------------
(* The constants.                                                           *)

\* The jobs and the workers, from JobsAssumption.
LEMMA JobFacts ==
  /\ Len(Jobs) \in Nat /\ DOMAIN Jobs = 1 .. Len(Jobs)
  /\ NumWorkers \in Nat \ {0}
  /\ \A j \in 1 .. Len(Jobs) :
       /\ Jobs[j].type \in {"FLOAT32", "INT32"} /\ Numel(j) \in Nat
       /\ \A w \in Workers :
            Jobs[j].tensor[w] \in [0 .. Numel(j) - 1 ->
                                    IF Jobs[j].type = "FLOAT32" THEN Floats ELSE Int32]
<1>1. Len(Jobs) \in Nat /\ DOMAIN Jobs = 1 .. Len(Jobs)
  BY JobsAssumption
<1>2. NumWorkers \in Nat \ {0}
  BY JobsAssumption, FS_CardinalityType, FS_EmptySet DEF NumWorkers
<1> QED BY <1>1, <1>2, JobsAssumption

\* Powers of two that occur.
LEMMA Powers ==
  /\ \A e \in Exponents : 2^e \in Nat \ {0}
  /\ \A e, f \in Exponents : e <= f => 2^e <= 2^f
  /\ 2^8 = 256 /\ 8 \in Exponents
<1> DEFINE two(e) == 2^e
<1>1. /\ two(0) = 1 /\ two(1) = 2 /\ two(2) = 4 /\ two(3) = 8 /\ two(4) = 16 /\ two(5) = 32
      /\ two(6) = 64 /\ two(7) = 128 /\ two(8) = 256
  OBVIOUS
<1>2. \A e \in Exponents : two(e) = 2^e
  OBVIOUS
<1> HIDE DEF two
<1>3. \A e \in Exponents : e = 0 \/ e = 1 \/ e = 2 \/ e = 3 \/ e = 4 \/ e = 5 \/ e = 6
                           \/ e = 7 \/ e = 8
  BY DEF Exponents
<1>4. \A e \in Exponents : two(e) \in Nat \ {0}
  BY <1>1, <1>3
<1>5. \A e, f \in Exponents : e <= f => two(e) <= two(f)
  BY <1>1, <1>3
<1>6. 8 \in Exponents
  BY DEF Exponents
<1> QED BY <1>1, <1>2, <1>4, <1>5, <1>6

\* Floats are integers below 2^8.
LEMMA FloatRange ==
  \A v \in Floats : v \in Int /\ Abs(v) \in Nat /\ Abs(v) < 2^8
BY Powers DEF Floats, Abs

\* What fits in 32 bits.
LEMMA Int32Range ==
  /\ \A v \in Int32 : v \in Int
  /\ \A v \in Int : Abs(v) <= MaxInt => v \in Int32
  /\ MaxInt \in Int32
BY ExchangeAssumption DEF Int32, Abs

\* Values that fit do not wrap around.
LEMMA WrapFacts ==
  ASSUME NEW x \in Int
  PROVE  /\ Wrap(x) \in Int32
         /\ x \in Int32 => Wrap(x) = x
<1> DEFINE m == MaxInt + 1
<1>1. m \in Nat \ {0}
  BY ExchangeAssumption
<1>2. (x + m) % (2 * m) \in 0 .. 2 * m - 1
  BY <1>1
<1>3. x + m \in 0 .. 2 * m - 1 => (x + m) % (2 * m) = x + m
  BY <1>1
<1>4. Wrap(x) = ((x + m) % (2 * m)) - m
  <2>1. x + MaxInt + 1 = x + m
    BY ExchangeAssumption
  <2> QED BY <2>1 DEF Wrap
<1>5. Int32 = -m .. m - 1
  BY ExchangeAssumption DEF Int32
<1> HIDE DEF m
<1> QED BY <1>1, <1>2, <1>3, <1>4, <1>5

\* Quotients and remainders.
LEMMA Division ==
  ASSUME NEW n \in Nat \ {0}, NEW x \in Nat
  PROVE  /\ x \div n \in Nat /\ x % n \in 0 .. n - 1
         /\ x = (x \div n) * n + (x % n)
OBVIOUS

\* Quotient and remainder of l * n + i.
LEMMA DivisionUnique ==
  ASSUME NEW n \in Nat \ {0}, NEW l \in Nat, NEW i \in 0 .. n - 1
  PROVE  (l * n + i) \div n = l /\ (l * n + i) % n = i
<1> DEFINE x == l * n + i
           q == x \div n
           r == x % n
<1>1. x \in Nat /\ l * n \in Nat
  OBVIOUS
<1>2. q \in Nat /\ r \in 0 .. n - 1 /\ x = q * n + r
  <2> HIDE DEF x
  <2> QED BY <1>1, Division
<1>3. ASSUME q < l PROVE FALSE
  <2>1. PICK d \in Nat : l = q + 1 + d
    <3>1. l - q - 1 \in Nat
      BY <1>2, <1>3
    <3> QED BY <1>2, <3>1
  <2>2. l * n = q * n + n + d * n /\ d * n \in Nat /\ q * n \in Nat
    BY <1>2, <2>1
  <2>3. q * n + n + d * n + i = q * n + r
    BY <1>2, <2>2
  <2> HIDE DEF q, r, x
  <2> QED BY <1>2, <2>2, <2>3
<1>4. ASSUME q > l PROVE FALSE
  <2>1. PICK d \in Nat : q = l + 1 + d
    <3>1. q - l - 1 \in Nat
      BY <1>2, <1>4
    <3> QED BY <1>2, <3>1
  <2>2. q * n = l * n + n + d * n /\ d * n \in Nat
    <3> HIDE DEF q
    <3> QED BY <1>2, <2>1
  <2>3. l * n + i = l * n + n + d * n + r
    BY <1>2, <2>2
  <2> HIDE DEF q, r, x
  <2> QED BY <1>1, <1>2, <2>2, <2>3
<1>5. q = l
  <2> HIDE DEF q, r, x
  <2> QED BY <1>2, <1>3, <1>4
<1>6. r = i
  <2>1. l * n + i = l * n + r
    BY <1>2, <1>5
  <2> HIDE DEF q, r, x
  <2> QED BY <1>1, <1>2, <2>1
<1> QED BY <1>5, <1>6

\* Numbers with the same remainder are n apart.
LEMMA Remainders ==
  ASSUME NEW n \in Nat \ {0}, NEW p \in Nat
  PROVE  /\ p % n \in 0 .. n - 1 /\ p % n <= p /\ (p % n) % n = p % n
         /\ (p + n) % n = p % n
         /\ p < n => p % n = p
         /\ \A q \in Nat : p < q /\ p % n = q % n => p + n <= q
<1> DEFINE l == p \div n
           i == p % n
<1>1. l \in Nat /\ i \in 0 .. n - 1 /\ p = l * n + i /\ l * n \in Nat
  <2>1. l \in Nat /\ i \in 0 .. n - 1 /\ p = l * n + i
    BY Division
  <2> HIDE DEF l, i
  <2> QED BY <2>1
<1>2. i <= p
  <2> HIDE DEF l, i
  <2> QED BY <1>1
<1>3. i % n = i
  <2> HIDE DEF l, i
  <2> QED BY <1>1
<1>4. (p + n) % n = i
  <2>1. p + n = (l + 1) * n + i
    <3> HIDE DEF l, i
    <3> QED BY <1>1
  <2>2. ((l + 1) * n + i) % n = i
    <3>1. l + 1 \in Nat
      BY <1>1
    <3> HIDE DEF l, i
    <3> QED BY <1>1, <3>1, DivisionUnique
  <2> QED BY <2>1, <2>2
<1>5. p < n => p % n = p
  OBVIOUS
<1>6. ASSUME NEW q \in Nat, p < q, i = q % n PROVE p + n <= q
  <2> DEFINE k == q \div n
  <2>1. k \in Nat /\ q = k * n + i /\ k * n \in Nat
    <3>1. k \in Nat /\ q = k * n + (q % n)
      BY Division
    <3> HIDE DEF k, i
    <3> QED BY <1>6, <3>1
  <2> HIDE DEF k, l, i
  <2>2. l < k
    <3>1. ASSUME k <= l PROVE FALSE
      <4>1. PICK d \in Nat : l = k + d
        <5>1. l - k \in Nat
          BY <1>1, <2>1, <3>1
        <5> QED BY <1>1, <2>1, <5>1
      <4>2. l * n = k * n + d * n /\ d * n \in Nat
        BY <2>1, <4>1
      <4> QED BY <1>1, <1>6, <2>1, <4>2
    <3> QED BY <1>1, <2>1, <3>1
  <2>3. PICK d \in Nat : k = l + 1 + d
    <3>1. k - l - 1 \in Nat
      BY <1>1, <2>1, <2>2
    <3> QED BY <1>1, <2>1, <3>1
  <2>4. k * n = l * n + n + d * n /\ d * n \in Nat
    BY <1>1, <2>3
  <2> QED BY <1>1, <2>1, <2>4
<1> QED BY <1>1, <1>2, <1>3, <1>4, <1>5, <1>6
-----------------------------------------------------------------------------
(* What the packets of a job carry and what comes back, as functions of the *)
(* tensors of the workers.                                                  *)

Contents == [entries : [Elements -> Int32], extra : Exponents]

\* The exponent a factor of LTU l is computed from at w.
Factor(bk, j, w, l) == IF bk = "dummy" THEN Exponent(Jobs[j].tensor[w], j, l)
                   ELSE Max({Exponent(Jobs[j].tensor[v], j, l) : v \in Workers})

\* The LTU whose values packet p carries, the packet with the values of LTU l,
\* and what else it carries.
LtuOf(j, p)        == IF Jobs[j].type = "INT32" THEN p ELSE p - Batch(j)
PacketOf(j, l)     == IF Jobs[j].type = "INT32" THEN l ELSE l + Batch(j)
HasElement(j, p, i) == LtuOf(j, p) >= 0 /\ i \in InLtu(j, LtuOf(j, p))
HasExponent(j, p)  == Jobs[j].type = "FLOAT32" /\ p < NumLtus(j)

\* Packets of a slice, with the extra batch of the quantizer.
Pkts(pp, j) == NumLtus(j) + (IF pp = "quantizer" /\ Jobs[j].type = "FLOAT32"
                             THEN Batch(j) ELSE 0)

\* Element i of packet p from w, and of its result.
Element(bk, j, w, p, i) ==
  LET v == Jobs[j].tensor[w][Offset(LtuOf(j, p), i)]
  IN  IF Jobs[j].type = "INT32" THEN v ELSE Quantize(v, Factor(bk, j, w, LtuOf(j, p)))
ElementSum(bk, j, w, p, i) ==
  IF bk = "dummy" THEN NumWorkers * Element(bk, j, w, p, i)
  ELSE SumOf([v \in Workers |-> Element(bk, j, v, p, i)], Workers)

Carries(bk, b, j, w, p) ==
  /\ \A i \in Elements : HasElement(j, p, i) => b.entries[i] = Element(bk, j, w, p, i)
  /\ HasExponent(j, p) => b.extra = Exponent(Jobs[j].tensor[w], j, p)
Returns(bk, b, j, w, p) ==
  /\ \A i \in Elements : HasElement(j, p, i) => b.entries[i] = Wrap(ElementSum(bk, j, w, p, i))
  /\ HasExponent(j, p) => b.extra = Factor(bk, j, w, p)

\* Element x of the tensor of w before and after its LTU was processed.
Before(j, w, x) == IF InPlace THEN Jobs[j].tensor[w][x] ELSE 0
Final(bk, j, w, x) ==
  LET l == x \div PacketNumel
      q == Wrap(ElementSum(bk, j, w, PacketOf(j, l), x % PacketNumel))
  IN  IF Jobs[j].type = "INT32" THEN q ELSE Dequantize(q, Factor(bk, j, w, l))

-----------------------------------------------------------------------------
(* The invariant.                                                           *)

\* In the buffers of a batch of B packets, p is not processed yet: it or an
\* earlier packet of its buffer is one of O.
Behind(O, B, p)  == \E q \in O : q <= p /\ q % B = p % B
Unprocessed(w)   == {p \in 0 .. Pkts(ppp, job[w]) - 1 :
                       Behind(Outstanding(w), Batch(job[w]), p)}
Processed(w, p)  == ~Behind(Outstanding(w), Batch(job[w]), p)

\* The variables of a thread.
Shapes ==
  /\ backend \in Backends /\ ppp \in PPPs
  /\ running \in [Workers -> BOOLEAN] /\ busy \in [Workers -> BOOLEAN]
  /\ job \in [Workers -> 0 .. Len(Jobs)] /\ got \in [Workers -> Nat]
  /\ buffer \in [Workers -> [0 .. MaxOutstanding - 1 -> Contents]]
  /\ pending \in [Workers -> SUBSET Nat] /\ toSend \in [Workers -> SUBSET Nat]
  /\ burst \in [Workers -> Seq(Nat)]
  /\ DOMAIN output = Workers /\ DOMAIN scale = Workers

\* The packets of w: one per buffer, in one place.
PacketsOk(w) ==
  LET j == job[w] IN
  /\ burst[w] = <<>> => toSend[w] = {}
  /\ ~busy[w] => burst[w] = <<>> /\ (running[w] => pending[w] = {})
  /\ busy[w] =>
       /\ j # 0 /\ Numel(j) # 0
       /\ Outstanding(w) \subseteq 0 .. Pkts(ppp, j) - 1
       /\ pending[w] \cap toSend[w] = {}
       /\ Range(burst[w]) \cap (pending[w] \cup toSend[w]) = {}
       /\ IsInjective(burst[w])
       /\ \A p, q \in Outstanding(w) : BufferOf(j, p) = BufferOf(j, q) => p = q
       /\ Cardinality(Unprocessed(w) \ Range(burst[w])) = Pkts(ppp, j) - got[w]

\* The data of w.
DataOk(w) ==
  LET j == job[w] IN
  busy[w] /\ ppp = "quantizer" =>
    /\ \A p \in pending[w] \cup toSend[w] : Carries(backend, buffer[w][BufferOf(j, p)], j, w, p)
    /\ \A p \in Range(burst[w]) : Returns(backend, buffer[w][BufferOf(j, p)], j, w, p)
    /\ scale[w] = [l \in 0 .. NumLtus(j) - 1 |->
                     IF Jobs[j].type = "FLOAT32" /\ Processed(w, l)
                     THEN Factor(backend, j, w, l) ELSE Unset]
    /\ output[w] = [x \in 0 .. Numel(j) - 1 |->
                      IF Processed(w, PacketOf(j, x \div PacketNumel))
                      THEN Final(backend, j, w, x) ELSE Before(j, w, x)]

\* The packets that reached the switch: one of each worker, none ahead of the
\* packets outstanding.
SentOk ==
  /\ \A c \in sent :
       /\ c.w \in Workers /\ c.job \in 1 .. job[c.w] /\ c.content \in Contents
       /\ c.pkt \in 0 .. Pkts(ppp, c.job) - 1
       /\ ppp = "quantizer" => Carries(backend, c.content, c.job, c.w, c.pkt)
       /\ busy[c.w] /\ c.job = job[c.w] =>
            /\ c.pkt \notin toSend[c.w]
            /\ \A q \in Outstanding(c.w) :
                 BufferOf(c.job, q) = BufferOf(c.job, c.pkt) => c.pkt <= q
  /\ \A c, d \in sent : c.w = d.w /\ c.job = d.job /\ c.pkt = d.pkt => c = d

ExchangeInv == /\ Shapes
               /\ \A w \in Workers : PacketsOk(w) /\ DataOk(w)
               /\ SentOk

\* The maximum of a bounded set of naturals is in it.
LEMMA MaxNat ==
  ASSUME NEW T \in SUBSET Nat, T # {}, NEW n \in Nat, \A x \in T : x <= n
  PROVE  Max(T) \in T /\ \A y \in T : y <= Max(T)
<1>1. PICK x \in T : \A y \in T : x >= y
  BY GreatestNat
<1>2. Max(T) \in T /\ \A y \in T : Max(T) >= y
  BY <1>1 DEF Max
<1> QED BY <1>2

\* The minimum of a set of naturals is in it.
LEMMA MinNat ==
  ASSUME NEW T \in SUBSET Nat, T # {}
  PROVE  Min(T) \in T
<1>1. PICK x \in T : \A y \in T : x <= y
  BY LeastNat
<1> QED BY <1>1 DEF Min

\* Multiplication is monotonic.
LEMMA Products ==
  ASSUME NEW a \in Nat, NEW b \in Nat, NEW n \in Nat, a <= b
  PROVE  a * n <= b * n /\ a * n \in Nat /\ b * n \in Nat
<1>1. PICK d \in Nat : b = a + d
  <2>1. b - a \in Nat
    OBVIOUS
  <2> QED BY <2>1
<1>2. b * n = a * n + d * n /\ d * n \in Nat /\ a * n \in Nat
  BY <1>1
<1> QED BY <1>2

-----------------------------------------------------------------------------
(* The packets of a slice and the elements of its LTUs.                     *)

\* A slice with elements has LTUs for all of them, a batch and packets.
LEMMA SliceFacts ==
  ASSUME NEW j \in 1 .. Len(Jobs), Numel(j) # 0
  PROVE  /\ Numel(j) \in Nat \ {0}
         /\ NumLtus(j) \in Nat \ {0} /\ Numel(j) <= NumLtus(j) * PacketNumel
         /\ Batch(j) \in 1 .. MaxOutstanding /\ Batch(j) <= NumLtus(j)
         /\ Batch(j) \in Nat \ {0}
         /\ \A pp : Pkts(pp, j) \in Nat /\ NumLtus(j) <= Pkts(pp, j)
         /\ \A pp : Pkts(pp, j) # NumLtus(j) =>
              pp = "quantizer" /\ Jobs[j].type = "FLOAT32" /\ Pkts(pp, j) = NumLtus(j) + Batch(j)
         /\ Jobs[j].type = "FLOAT32" => Pkts("quantizer", j) = NumLtus(j) + Batch(j)
<1> DEFINE n == Numel(j)
           P == PacketNumel
<1>1. n \in Nat \ {0} /\ P \in Nat \ {0} /\ MaxOutstanding \in Nat \ {0}
  BY JobFacts, ExchangeAssumption
<1> HIDE DEF n, P
<1> DEFINE q == (n + P - 1) \div P
<1>2. q \in Nat /\ n + P - 1 = q * P + ((n + P - 1) % P) /\ (n + P - 1) % P \in 0 .. P - 1
  <2>1. n + P - 1 \in Nat
    BY <1>1
  <2> QED BY <1>1, <2>1, Division
<1>3. q * P \in Nat
  <2> HIDE DEF q
  <2> QED BY <1>1, <1>2
<1>4. n <= q * P
  <2> HIDE DEF q
  <2> QED BY <1>1, <1>2, <1>3
<1>5. q # 0
  <2> HIDE DEF q
  <2>1. q = 0 => q * P = 0
    BY <1>1
  <2> QED BY <1>1, <1>4, <2>1
<1>6. NumLtus(j) = q
  BY DEF NumLtus, n, P
<1> HIDE DEF q
<1>7. Batch(j) \in 1 .. MaxOutstanding /\ Batch(j) <= NumLtus(j)
  BY <1>1, <1>2, <1>5, <1>6 DEF Batch
<1>8. Batch(j) \in Nat \ {0} /\ NumLtus(j) \in Nat
  BY <1>1, <1>2, <1>6, <1>7
<1>9. \A pp : /\ Pkts(pp, j) \in Nat /\ NumLtus(j) <= Pkts(pp, j)
              /\ Pkts(pp, j) # NumLtus(j) =>
                   pp = "quantizer" /\ Jobs[j].type = "FLOAT32" /\ Pkts(pp, j) = NumLtus(j) + Batch(j)
  BY <1>8 DEF Pkts
<1>10. Jobs[j].type = "FLOAT32" => Pkts("quantizer", j) = NumLtus(j) + Batch(j)
  BY DEF Pkts
<1> QED BY <1>1, <1>2, <1>4, <1>5, <1>6, <1>7, <1>8, <1>9, <1>10 DEF n, P

\* Pkts is TotalPkts without the state.
LEMMA PktsFact ==
  \A j : TotalPkts(j) = Pkts(ppp, j)
BY DEF TotalPkts, Pkts, NeedsExtraBatch

\* An element of an LTU is in the tensor.
LEMMA ElementOfLtu ==
  ASSUME NEW j \in 1 .. Len(Jobs), Numel(j) # 0, NEW l \in Nat, NEW i \in InLtu(j, l)
  PROVE  /\ Offset(l, i) \in 0 .. Numel(j) - 1 /\ l < NumLtus(j) /\ i \in Elements
         /\ Offset(l, i) \div PacketNumel = l /\ Offset(l, i) % PacketNumel = i
<1>1. i \in 0 .. PacketNumel - 1 /\ l * PacketNumel + i < Numel(j)
  BY DEF InLtu, Elements, Offset
<1>2. PacketNumel \in Nat \ {0} /\ Numel(j) \in Nat /\ NumLtus(j) \in Nat
      /\ Numel(j) <= NumLtus(j) * PacketNumel
  BY SliceFacts, ExchangeAssumption
<1>3. l * PacketNumel \in Nat /\ NumLtus(j) * PacketNumel \in Nat
  BY <1>2
<1>4. l < NumLtus(j)
  <2>1. ASSUME NumLtus(j) <= l PROVE FALSE
    <3>1. NumLtus(j) * PacketNumel <= l * PacketNumel
      BY <1>2, <2>1, Products
    <3> QED BY <1>1, <1>2, <1>3, <3>1
  <2> QED BY <1>2, <2>1
<1>5. (l * PacketNumel + i) \div PacketNumel = l /\ (l * PacketNumel + i) % PacketNumel = i
  <2> DEFINE n == PacketNumel
  <2>1. n \in Nat \ {0} /\ l \in Nat /\ i \in 0 .. n - 1
    BY <1>1, <1>2
  <2> HIDE DEF n
  <2>2. (l * n + i) \div n = l /\ (l * n + i) % n = i
    BY <2>1, DivisionUnique
  <2> QED BY <2>2 DEF n
<1> QED BY <1>1, <1>2, <1>3, <1>4, <1>5 DEF Offset, Elements

\* An element of the tensor is in an LTU.
LEMMA LtuOfElement ==
  ASSUME NEW j \in 1 .. Len(Jobs), NEW x \in 0 .. Numel(j) - 1
  PROVE  /\ Numel(j) # 0 /\ x \in Nat
         /\ x \div PacketNumel \in 0 .. NumLtus(j) - 1
         /\ x % PacketNumel \in InLtu(j, x \div PacketNumel)
         /\ Offset(x \div PacketNumel, x % PacketNumel) = x
<1>1. PacketNumel \in Nat \ {0} /\ Numel(j) \in Nat
  BY JobFacts, ExchangeAssumption
<1>2. Numel(j) # 0 /\ x \in Nat /\ x < Numel(j)
  BY <1>1
<1> DEFINE l == x \div PacketNumel
           i == x % PacketNumel
<1>3. l \in Nat /\ i \in 0 .. PacketNumel - 1 /\ x = l * PacketNumel + i
  BY <1>1, <1>2, Division
<1> HIDE DEF l, i
<1>4. Offset(l, i) = x /\ i \in InLtu(j, l)
  BY <1>2, <1>3 DEF Offset, InLtu, Elements
<1>5. l < NumLtus(j) /\ NumLtus(j) \in Nat
  BY <1>2, <1>3, <1>4, ElementOfLtu, SliceFacts
<1> QED BY <1>2, <1>3, <1>4, <1>5 DEF l, i

\* The type of the elements of a tensor.
LEMMA TensorFacts ==
  ASSUME NEW j \in 1 .. Len(Jobs), NEW w \in Workers, NEW x \in 0 .. Numel(j) - 1
  PROVE  /\ Jobs[j].type = "FLOAT32" => Jobs[j].tensor[w][x] \in Floats
         /\ Jobs[j].type = "INT32" => Jobs[j].tensor[w][x] \in Int32
         /\ Jobs[j].tensor[w][x] \in Int
<1>1. Jobs[j].type = "FLOAT32" => Jobs[j].tensor[w][x] \in Floats
  BY JobFacts
<1>2. Jobs[j].type = "INT32" => Jobs[j].tensor[w][x] \in Int32
  BY JobFacts
<1> QED BY <1>1, <1>2, JobFacts, FloatRange, Int32Range

-----------------------------------------------------------------------------
(* The quantizer.                                                           *)

\* The exponent of an LTU is above its values.
LEMMA ExponentFacts ==
  ASSUME NEW j, NEW l, NEW t, \A i \in InLtu(j, l) : t[Offset(l, i)] \in Floats
  PROVE  /\ Exponent(t, j, l) \in Exponents
         /\ \A i \in InLtu(j, l) : Abs(t[Offset(l, i)]) < 2^Exponent(t, j, l)
<1> DEFINE A == {0} \cup {Abs(t[Offset(l, i)]) : i \in InLtu(j, l)}
           top == Max(A)
           E == {e \in Exponents : 2^e > top}
<1>1. A \in SUBSET Nat /\ A # {} /\ \A x \in A : x <= 255
  BY FloatRange, Powers
<1>2. top \in A /\ \A x \in A : x <= top
  <2> DEFINE n == 255
  <2>1. n \in Nat /\ A \in SUBSET Nat /\ A # {} /\ \A x \in A : x <= n
    BY <1>1
  <2> HIDE DEF A, n
  <2>2. Max(A) \in A /\ \A x \in A : x <= Max(A)
    BY <2>1, MaxNat
  <2> QED BY <2>2
<1>3. \A i \in InLtu(j, l) : Abs(t[Offset(l, i)]) \in A
  OBVIOUS
<1>4. top \in Nat /\ top <= 255
  BY <1>1, <1>2
<1> HIDE DEF A, top
<1>5. E \in SUBSET Nat /\ 8 \in E
  BY <1>4, Powers DEF Exponents
<1>6. Min(E) \in E
  <2> HIDE DEF E
  <2> QED BY <1>5, MinNat
<1>7. Exponent(t, j, l) = Min(E)
  BY DEF Exponent, top, A
<1>8. \A i \in InLtu(j, l) : Abs(t[Offset(l, i)]) < 2^Min(E)
  <2>1. Min(E) \in Exponents /\ 2^Min(E) > top /\ 2^Min(E) \in Nat
    BY <1>6, Powers
  <2>2. \A i \in InLtu(j, l) : Abs(t[Offset(l, i)]) <= top /\ Abs(t[Offset(l, i)]) \in Nat
    BY <1>1, <1>2, <1>3
  <2> QED BY <1>4, <2>1, <2>2
<1> QED BY <1>6, <1>7, <1>8

\* It depends on the values of the LTU only.
LEMMA ExponentSame ==
  ASSUME NEW j, NEW l, NEW t, NEW u, \A i \in InLtu(j, l) : t[Offset(l, i)] = u[Offset(l, i)]
  PROVE  Exponent(t, j, l) = Exponent(u, j, l)
<1>1. {Abs(t[Offset(l, i)]) : i \in InLtu(j, l)} = {Abs(u[Offset(l, i)]) : i \in InLtu(j, l)}
  OBVIOUS
<1> QED BY <1>1 DEF Exponent

\* A number below 2^e is sent as a 32-bit integer, no larger than that of the
\* largest number below 2^e, and half a unit off at most.
LEMMA QuantizeFacts ==
  ASSUME NEW v \in Int, NEW e \in Exponents, Abs(v) < 2^e
  PROVE  /\ Quantize(v, e) \in Int32
         /\ Abs(Quantize(v, e)) <= Quantize(2^e - 1, e) /\ Quantize(2^e - 1, e) \in Nat
         /\ LET d == NumWorkers * 2^e
            IN  /\ -d <= (2 * d) * Quantize(v, e) - (2 * MaxInt) * v
                /\ (2 * d) * Quantize(v, e) - (2 * MaxInt) * v <= d
<1> DEFINE b == 2^e
           d == NumWorkers * b
           a == Abs(v)
           top == b - 1
           q == (2 * a * MaxInt + d) \div (2 * d)
           k == (2 * top * MaxInt + d) \div (2 * d)
<1>1. b \in Nat \ {0} /\ e # Unset
  <2>1. b \in Nat \ {0}
    BY Powers
  <2>2. \A f \in 0 .. 8 : f # -1
    OBVIOUS
  <2> HIDE DEF b
  <2> QED BY <2>1, <2>2 DEF Exponents, Unset
<1>2. MaxInt \in Nat \ {0} /\ NumWorkers \in Nat \ {0}
  BY ExchangeAssumption, JobFacts
<1>3. a \in Nat /\ a <= top /\ top \in Nat /\ Abs(top) = top
  BY <1>1 DEF Abs
<1>4. Quantize(v, e) = (IF v < 0 THEN -q ELSE q) /\ Quantize(top, e) = k
  BY <1>1, <1>3 DEF Quantize
<1>5. a = (IF v < 0 THEN -v ELSE v)
  BY DEF Abs
<1> HIDE DEF a, b, top
<1>6. d \in Nat \ {0} /\ b <= d
  <2>1. 1 * b <= NumWorkers * b
    BY <1>1, <1>2, Products
  <2> QED BY <1>1, <1>2, <2>1
<1> HIDE DEF d
<1> DEFINE am == a * MaxInt
           tm == top * MaxInt
<1>7. am \in Nat /\ tm \in Nat /\ am <= tm /\ 2 * a * MaxInt = 2 * am /\ 2 * top * MaxInt = 2 * tm
  BY <1>2, <1>3, Products
<1>8. q \in Nat /\ 2 * am + d = q * (2 * d) + ((2 * am + d) % (2 * d))
      /\ (2 * am + d) % (2 * d) \in 0 .. 2 * d - 1
  <2>1. 2 * d \in Nat \ {0} /\ 2 * am + d \in Nat
    BY <1>6, <1>7
  <2>2. q = (2 * am + d) \div (2 * d)
    BY <1>7
  <2> HIDE DEF am, tm, q, k
  <2> QED BY <2>1, <2>2, Division
<1>9. k \in Nat /\ 2 * tm + d = k * (2 * d) + ((2 * tm + d) % (2 * d))
      /\ (2 * tm + d) % (2 * d) \in 0 .. 2 * d - 1
  <2>1. 2 * d \in Nat \ {0} /\ 2 * tm + d \in Nat
    BY <1>6, <1>7
  <2>2. k = (2 * tm + d) \div (2 * d)
    BY <1>7
  <2> HIDE DEF am, tm, q, k
  <2> QED BY <2>1, <2>2, Division
<1> HIDE DEF q, k
<1>10. q * (2 * d) \in Nat /\ k * (2 * d) \in Nat /\ q * (2 * d) = (2 * d) * q
  BY <1>6, <1>8, <1>9
<1>11. q <= k
  <2>1. ASSUME k + 1 <= q PROVE FALSE
    <3>1. (k + 1) * (2 * d) <= q * (2 * d)
      BY <1>6, <1>8, <1>9, <2>1, Products
    <3>2. (k + 1) * (2 * d) = k * (2 * d) + 2 * d
      BY <1>6, <1>9
    <3> HIDE DEF am, tm
    <3> QED BY <1>6, <1>7, <1>8, <1>9, <1>10, <3>1, <3>2
  <2> QED BY <1>8, <1>9, <2>1
<1>12. q <= MaxInt
  <2>1. ASSUME MaxInt + 1 <= q PROVE FALSE
    <3>1. (MaxInt + 1) * (2 * d) <= q * (2 * d)
      BY <1>2, <1>6, <1>8, <2>1, Products
    <3>2. (MaxInt + 1) * (2 * d) = 2 * (d * MaxInt) + 2 * d /\ d * MaxInt \in Nat
      BY <1>2, <1>6
    <3>3. am <= d * MaxInt
      <4>1. a <= d
        BY <1>1, <1>3, <1>6 DEF top
      <4> QED BY <1>2, <1>3, <1>6, <4>1, Products
    <3> HIDE DEF am, tm
    <3> QED BY <1>6, <1>7, <1>8, <1>10, <3>1, <3>2, <3>3
  <2> QED BY <1>2, <1>8, <2>1
<1>13. -d <= (2 * d) * q - 2 * am /\ (2 * d) * q - 2 * am <= d
  <2> HIDE DEF am, tm
  <2> QED BY <1>6, <1>7, <1>8, <1>10
<1>14. CASE v < 0
  <2>1. Quantize(v, e) = -q /\ v = -a
    BY <1>4, <1>5, <1>14, <1>3
  <2>2. (2 * d) * (-q) = -((2 * d) * q) /\ (2 * MaxInt) * (-a) = -(2 * am)
    BY <1>2, <1>3, <1>6, <1>8
  <2>3. -q \in Int32 /\ Abs(-q) = q
    BY <1>2, <1>8, <1>12 DEF Int32, Abs
  <2>4. -d <= (2 * d) * Quantize(v, e) - (2 * MaxInt) * v
        /\ (2 * d) * Quantize(v, e) - (2 * MaxInt) * v <= d
    <3> HIDE DEF am, tm
    <3> QED BY <1>6, <1>7, <1>10, <1>13, <2>1, <2>2
  <2> QED BY <1>4, <1>9, <1>11, <2>1, <2>3, <2>4 DEF d, b, top
<1>15. CASE ~(v < 0)
  <2>1. Quantize(v, e) = q /\ v = a
    BY <1>4, <1>5, <1>15, <1>3
  <2>2. (2 * MaxInt) * a = 2 * am
    BY <1>2, <1>3
  <2>3. q \in Int32 /\ Abs(q) = q
    BY <1>2, <1>8, <1>12 DEF Int32, Abs
  <2>4. -d <= (2 * d) * Quantize(v, e) - (2 * MaxInt) * v
        /\ (2 * d) * Quantize(v, e) - (2 * MaxInt) * v <= d
    <3> HIDE DEF am, tm
    <3> QED BY <1>6, <1>7, <1>10, <1>13, <2>1, <2>2
  <2> QED BY <1>4, <1>9, <1>11, <2>1, <2>3, <2>4 DEF d, b, top
<1> QED BY <1>14, <1>15

-----------------------------------------------------------------------------
(* Facts about what packets carry.                                          *)

\* The exponent of a factor is above the values of the LTU, at every worker when
\* the switch returns the maximum.
LEMMA FactorFacts ==
  ASSUME NEW bk, NEW j \in 1 .. Len(Jobs), Numel(j) # 0, Jobs[j].type = "FLOAT32",
         NEW l \in Nat, NEW w \in Workers
  PROVE  /\ Factor(bk, j, w, l) \in Exponents
         /\ Exponent(Jobs[j].tensor[w], j, l) \in Exponents
         /\ \A i \in InLtu(j, l) : Abs(Jobs[j].tensor[w][Offset(l, i)]) < 2^Factor(bk, j, w, l)
         /\ bk # "dummy" => \A v \in Workers : Factor(bk, j, v, l) = Factor(bk, j, w, l)
<1> DEFINE T(v) == Jobs[j].tensor[v]
           X(v) == Exponent(T(v), j, l)
           S == {X(v) : v \in Workers}
<1>1. ASSUME NEW v \in Workers
      PROVE /\ \A i \in InLtu(j, l) : T(v)[Offset(l, i)] \in Floats
            /\ X(v) \in Exponents
            /\ \A i \in InLtu(j, l) : Abs(T(v)[Offset(l, i)]) < 2^X(v)
  <2>1. \A i \in InLtu(j, l) : T(v)[Offset(l, i)] \in Floats
    BY ElementOfLtu, TensorFacts
  <2> HIDE DEF T
  <2>2. /\ X(v) \in Exponents
        /\ \A i \in InLtu(j, l) : Abs(T(v)[Offset(l, i)]) < 2^X(v)
    BY <2>1, ExponentFacts
  <2> QED BY <2>1, <2>2
<1>2. Factor(bk, j, w, l) = IF bk = "dummy" THEN X(w) ELSE Max(S)
  BY DEF Factor
<1>3. S \in SUBSET Nat /\ S # {} /\ \A x \in S : x <= 8 /\ S \subseteq Exponents
  <2>1. \A v \in Workers : X(v) \in Exponents
    BY <1>1
  <2> HIDE DEF X
  <2> QED BY <2>1 DEF Exponents
<1>4. Max(S) \in S /\ X(w) <= Max(S)
  <2>1. X(w) \in S
    OBVIOUS
  <2> HIDE DEF S, X
  <2> QED BY <1>3, <2>1, MaxNat
<1>5. Factor(bk, j, w, l) \in Exponents /\ X(w) <= Factor(bk, j, w, l) /\ X(w) \in Exponents
  <2>1. X(w) \in Exponents
    BY <1>1
  <2>2. Max(S) \in Exponents
    <3> HIDE DEF S
    <3> QED BY <1>3, <1>4
  <2>3. X(w) <= X(w)
    <3> HIDE DEF X
    <3> QED BY <2>1 DEF Exponents
  <2> DEFINE m == Max(S)
  <2>4. Factor(bk, j, w, l) = IF bk = "dummy" THEN X(w) ELSE m
    BY <1>2
  <2>5. m \in Exponents /\ X(w) <= m
    BY <1>4, <2>2
  <2> HIDE DEF m, X
  <2> QED BY <2>1, <2>3, <2>4, <2>5
<1>6. 2^X(w) <= 2^Factor(bk, j, w, l) /\ 2^X(w) \in Nat /\ 2^Factor(bk, j, w, l) \in Nat
  <2> HIDE DEF X
  <2> QED BY <1>5, Powers
<1>7. ASSUME NEW i \in InLtu(j, l) PROVE Abs(T(w)[Offset(l, i)]) < 2^Factor(bk, j, w, l)
  <2>1. Abs(T(w)[Offset(l, i)]) < 2^X(w) /\ T(w)[Offset(l, i)] \in Floats
    BY <1>1
  <2>2. Abs(T(w)[Offset(l, i)]) \in Nat
    BY <2>1, FloatRange
  <2> HIDE DEF T, X
  <2> QED BY <1>6, <2>1, <2>2
<1>8. bk # "dummy" => \A v \in Workers : Factor(bk, j, v, l) = Factor(bk, j, w, l)
  BY DEF Factor
<1> QED BY <1>5, <1>7, <1>8

\* The elements that travel are 32-bit integers; those of a float are not more
\* than the largest.
LEMMA ElementFacts ==
  ASSUME NEW bk, NEW j \in 1 .. Len(Jobs), Numel(j) # 0, NEW p \in Nat, NEW i, HasElement(j, p, i),
         NEW w \in Workers
  PROVE  /\ LtuOf(j, p) \in 0 .. NumLtus(j) - 1 /\ i \in InLtu(j, LtuOf(j, p)) /\ i \in Elements
         /\ Offset(LtuOf(j, p), i) \in 0 .. Numel(j) - 1
         /\ Element(bk, j, w, p, i) \in Int32 /\ Element(bk, j, w, p, i) \in Int
         /\ Jobs[j].type = "FLOAT32" =>
              LET l == LtuOf(j, p)
                  e == Factor(bk, j, w, l)
                  v == Jobs[j].tensor[w][Offset(l, i)]
              IN  /\ e \in Exponents /\ Element(bk, j, w, p, i) = Quantize(v, e)
                  /\ v \in Int /\ Abs(v) < 2^e
<1> DEFINE l == LtuOf(j, p)
           e == Factor(bk, j, w, l)
           v == Jobs[j].tensor[w][Offset(l, i)]
<1>1. /\ NumLtus(j) \in Nat /\ Batch(j) \in Nat
      /\ Jobs[j].type = "FLOAT32" \/ Jobs[j].type = "INT32"
  BY SliceFacts, JobFacts
<1>2. l \in Nat /\ i \in InLtu(j, l)
  BY <1>1 DEF HasElement, LtuOf
<1>3. l < NumLtus(j) /\ i \in Elements /\ Offset(l, i) \in 0 .. Numel(j) - 1
  BY <1>2, ElementOfLtu
<1>4. CASE Jobs[j].type = "INT32"
  <2>1. v \in Int32
    BY <1>3, <1>4, TensorFacts
  <2>2. Element(bk, j, w, p, i) = v
    BY <1>4 DEF Element
  <2> QED BY <1>1, <1>2, <1>3, <1>4, <2>1, <2>2, Int32Range
<1>5. CASE Jobs[j].type = "FLOAT32"
  <2>1. e \in Exponents /\ Abs(v) < 2^e
    BY <1>2, <1>5, FactorFacts
  <2>2. v \in Int
    BY <1>3, TensorFacts
  <2>3. Element(bk, j, w, p, i) = Quantize(v, e)
    BY <1>5 DEF Element
  <2>4. Quantize(v, e) \in Int32
    <3> HIDE DEF v, e
    <3> QED BY <2>1, <2>2, QuantizeFacts
  <2> QED BY <1>1, <1>2, <1>3, <2>1, <2>2, <2>3, <2>4, Int32Range
<1> QED BY <1>1, <1>4, <1>5

\* The sum of an element is an integer.
LEMMA ElementSumFacts ==
  ASSUME NEW bk, NEW j \in 1 .. Len(Jobs), Numel(j) # 0, NEW p \in Nat, NEW i, HasElement(j, p, i),
         NEW w \in Workers
  PROVE  ElementSum(bk, j, w, p, i) \in Int
<1>1. CASE bk = "dummy"
  BY <1>1, ElementFacts, JobFacts DEF ElementSum
<1>2. CASE bk # "dummy"
  <2> DEFINE f == [v \in Workers |-> Element(bk, j, v, p, i)]
  <2>1. \A v \in Workers : f[v] \in Int
    BY ElementFacts
  <2>2. SumOf(f, Workers) \in Int
    <3> HIDE DEF f
    <3> QED BY <2>1, SumAny, JobsAssumption
  <2> QED BY <1>2, <2>2 DEF ElementSum
<1> QED BY <1>1, <1>2

\* The tensor and factors that packet p of w is built from.
SourceOk(bk, in, factors, j, w, p) ==
  /\ \A i \in Elements : HasElement(j, p, i) =>
       in[Offset(LtuOf(j, p), i)] = Jobs[j].tensor[w][Offset(LtuOf(j, p), i)]
  /\ Jobs[j].type = "FLOAT32" /\ LtuOf(j, p) >= 0 =>
       factors[LtuOf(j, p)] = Factor(bk, j, w, LtuOf(j, p))
  /\ HasExponent(j, p) => \A i \in InLtu(j, p) :
       in[Offset(p, i)] = Jobs[j].tensor[w][Offset(p, i)]

\* Elements of a packet for a 32-bit integer tensor and for a float tensor.
LEMMA PreprocessInt ==
  ASSUME NEW j, NEW in, NEW factors, NEW p, NEW old \in Contents, ppp = "quantizer",
         Jobs[j].type = "INT32"
  PROVE  PreprocessSingle(j, in, factors, p, old) =
           [entries |-> [i \in Elements |-> IF i \in InLtu(j, p) THEN in[Offset(p, i)]
                                            ELSE old.entries[i]],
            extra   |-> old.extra]
BY DEF PreprocessSingle, Contents

\* The packet of a float tensor: values of one LTU, exponent of another.
LEMMA PreprocessFloat ==
  ASSUME NEW j, NEW in, NEW factors, NEW p, NEW old \in Contents, ppp = "quantizer",
         Jobs[j].type = "FLOAT32"
  PROVE  PreprocessSingle(j, in, factors, p, old) =
           [entries |-> [i \in Elements |->
                           IF HasElement(j, p, i)
                           THEN Quantize(in[Offset(LtuOf(j, p), i)], factors[LtuOf(j, p)])
                           ELSE old.entries[i]],
            extra   |-> IF HasExponent(j, p) THEN Exponent(in, j, p) ELSE old.extra]
BY DEF PreprocessSingle, HasElement, HasExponent, LtuOf

\* The entries and the exponent that PreprocessSingle writes.
LEMMA PreprocessFields ==
  ASSUME NEW bk, NEW j \in 1 .. Len(Jobs), Numel(j) # 0, NEW p \in Nat, NEW w \in Workers,
         NEW in, NEW factors, NEW old \in Contents, ppp = "quantizer",
         SourceOk(bk, in, factors, j, w, p)
  PROVE  PreprocessSingle(j, in, factors, p, old) =
           [entries |-> [i \in Elements |-> IF HasElement(j, p, i) THEN Element(bk, j, w, p, i)
                                            ELSE old.entries[i]],
            extra   |-> IF HasExponent(j, p) THEN Exponent(Jobs[j].tensor[w], j, p)
                        ELSE old.extra]
<1>1. CASE Jobs[j].type = "INT32"
  <2>1. \A i \in Elements : HasElement(j, p, i) <=> i \in InLtu(j, p)
    BY <1>1 DEF HasElement, LtuOf
  <2>2. ~HasExponent(j, p)
    BY <1>1 DEF HasExponent
  <2>3. \A i \in Elements : HasElement(j, p, i) => in[Offset(p, i)] = Element(bk, j, w, p, i)
    BY <1>1 DEF SourceOk, Element, LtuOf
  <2> QED BY <1>1, <2>1, <2>2, <2>3, PreprocessInt
<1>2. CASE Jobs[j].type = "FLOAT32"
  <2>1. ASSUME NEW i \in Elements, HasElement(j, p, i)
        PROVE Quantize(in[Offset(LtuOf(j, p), i)], factors[LtuOf(j, p)]) = Element(bk, j, w, p, i)
    <3>1. LtuOf(j, p) >= 0
      BY <2>1 DEF HasElement
    <3> QED BY <1>2, <2>1, <3>1 DEF SourceOk, Element
  <2>2. HasExponent(j, p) => Exponent(in, j, p) = Exponent(Jobs[j].tensor[w], j, p)
    BY ExponentSame DEF SourceOk
  <2> QED BY <1>2, <2>1, <2>2, PreprocessFloat
<1> QED BY <1>1, <1>2, JobFacts

\* It is what the packet should carry, whatever the buffer held, and the same
\* again when the buffer carries it already.
LEMMA PreprocessFacts ==
  ASSUME NEW bk, NEW j \in 1 .. Len(Jobs), Numel(j) # 0, NEW p \in Nat, NEW w \in Workers,
         NEW in, NEW factors, NEW old \in Contents, ppp = "quantizer",
         SourceOk(bk, in, factors, j, w, p)
  PROVE  /\ PreprocessSingle(j, in, factors, p, old) \in Contents
         /\ Carries(bk, PreprocessSingle(j, in, factors, p, old), j, w, p)
         /\ Carries(bk, old, j, w, p) => PreprocessSingle(j, in, factors, p, old) = old
<1> DEFINE b == [entries |-> [i \in Elements |-> IF HasElement(j, p, i) THEN Element(bk, j, w, p, i)
                                            ELSE old.entries[i]],
            extra   |-> IF HasExponent(j, p) THEN Exponent(Jobs[j].tensor[w], j, p)
                        ELSE old.extra]
<1>1. PreprocessSingle(j, in, factors, p, old) = b
  BY PreprocessFields
<1>2. \A i \in Elements : HasElement(j, p, i) => Element(bk, j, w, p, i) \in Int32
  BY ElementFacts
<1>3. HasExponent(j, p) => Exponent(Jobs[j].tensor[w], j, p) \in Exponents
  BY FactorFacts DEF HasExponent
<1>4. b \in Contents
  BY <1>2, <1>3 DEF Contents
<1>5. Carries(bk, b, j, w, p)
  BY DEF Carries
<1>6. ASSUME Carries(bk, old, j, w, p) PROVE b = old
  BY <1>6 DEF Carries, Contents
<1> QED BY <1>1, <1>4, <1>5, <1>6

\* The packet that a thread does not touch: bypass.
LEMMA BypassFacts ==
  ASSUME ppp # "quantizer", ppp \in PPPs, NEW j, NEW in, NEW factors, NEW p, NEW old, NEW t, NEW b
  PROVE  /\ PreprocessSingle(j, in, factors, p, old) = old
         /\ PostprocessSingle(j, t, p, b) = t
BY ExchangeAssumption DEF PreprocessSingle, PostprocessSingle

-----------------------------------------------------------------------------
(* Packets and buffers.                                                     *)

\* At the start nothing is processed.
LEMMA BehindStart ==
  ASSUME NEW B \in Nat \ {0}, NEW p \in Nat
  PROVE  Behind(0 .. B - 1, B, p)
BY Remainders DEF Behind

\* An outstanding packet is not processed.
LEMMA BehindSelf ==
  ASSUME NEW O \in SUBSET Nat, NEW B, NEW p \in O
  PROVE  Behind(O, B, p)
BY DEF Behind

\* The packet a batch before an outstanding one is processed.
LEMMA BehindBefore ==
  ASSUME NEW O \in SUBSET Nat, NEW B \in Nat \ {0}, NEW p \in Nat, p + B \in O,
         \A q, r \in O : q % B = r % B => q = r
  PROVE  ~Behind(O, B, p)
<1>1. ASSUME NEW q \in O, q <= p, q % B = p % B PROVE FALSE
  <2>1. (p + B) % B = p % B
    BY Remainders
  <2>2. q = p + B
    BY <1>1, <2>1
  <2> QED BY <1>1, <2>2
<1> QED BY <1>1 DEF Behind

\* When p is processed and the next packet of its buffer takes its place, p is
\* the only one that changes.
OnlyThisChanges(O, B, p, n) ==
  LET O2 == (O \ {p}) \cup (IF p + B < n THEN {p + B} ELSE {})
  IN  /\ O2 \in SUBSET Nat
      /\ \A x \in 0 .. n - 1 : Behind(O2, B, x) <=> Behind(O, B, x) /\ x # p
      /\ \A q, r \in O2 : q % B = r % B => q = r
      /\ p + B \notin O

LEMMA BehindStep ==
  ASSUME NEW O \in SUBSET Nat, NEW B \in Nat \ {0}, NEW p \in O, NEW n \in Nat,
         \A q, r \in O : q % B = r % B => q = r
  PROVE  OnlyThisChanges(O, B, p, n)
<1> DEFINE O2 == (O \ {p}) \cup (IF p + B < n THEN {p + B} ELSE {})
<1>1. (p + B) % B = p % B /\ p + B \in Nat
  <2>1. p \in Nat
    OBVIOUS
  <2>2. (p + B) % B = p % B
    BY <2>1, Remainders
  <2> QED BY <2>1, <2>2
<1>2. p + B \notin O
  BY <1>1
<1>3. O2 \in SUBSET Nat
  BY <1>1
<1>4. \A q, r \in O2 : q % B = r % B => q = r
  BY <1>1
<1>5. ASSUME NEW x \in 0 .. n - 1, Behind(O2, B, x) PROVE Behind(O, B, x) /\ x # p
  <2>1. PICK q \in O2 : q <= x /\ q % B = x % B
    BY <1>5 DEF Behind
  <2>2. CASE q \in O
    <3>1. q # p
      BY <1>2, <2>2
    <3>2. x # p
      BY <2>1, <2>2, <3>1
    <3> QED BY <2>1, <2>2, <3>2 DEF Behind
  <2>3. CASE q = p + B
    <3>1. p <= x /\ x # p
      BY <2>1, <2>3
    <3> QED BY <1>1, <2>1, <2>3, <3>1 DEF Behind
  <2> QED BY <2>2, <2>3
<1>6. ASSUME NEW x \in 0 .. n - 1, Behind(O, B, x), x # p PROVE Behind(O2, B, x)
  <2>1. PICK q \in O : q <= x /\ q % B = x % B
    BY <1>6 DEF Behind
  <2>2. CASE q # p
    BY <2>1, <2>2 DEF Behind
  <2>3. CASE q = p
    <3>1. p + B <= x
      <4>1. p < x /\ x \in Nat /\ p \in Nat /\ p % B = x % B
        BY <1>6, <2>1, <2>3
      <4> QED BY <4>1, Remainders
    <3>2. p + B \in O2
      BY <3>1
    <3> QED BY <1>1, <2>1, <2>3, <3>1, <3>2 DEF Behind
  <2> QED BY <2>2, <2>3
<1> HIDE DEF O2
<1>7. OnlyThisChanges(O, B, p, n) <=>
        /\ O2 \in SUBSET Nat
        /\ \A x \in 0 .. n - 1 : Behind(O2, B, x) <=> Behind(O, B, x) /\ x # p
        /\ \A q, r \in O2 : q % B = r % B => q = r
        /\ p + B \notin O
  BY DEF OnlyThisChanges, O2
<1> QED BY <1>2, <1>3, <1>4, <1>5, <1>6, <1>7

\* Bursts of distinct packets.
LEMMA RangeFacts ==
  ASSUME NEW s \in Seq(Nat)
  PROVE  /\ Range(s) = {s[i] : i \in 1 .. Len(s)} /\ Range(s) \in SUBSET Nat
         /\ s = <<>> <=> Range(s) = {}
BY DEF Range

\* The first packet of a burst and the others.
LEMMA HeadOfBurst ==
  ASSUME NEW s \in Seq(Nat), s # <<>>, IsInjective(s)
  PROVE  /\ Head(s) \in Range(s) /\ Head(s) \in Nat
         /\ Tail(s) \in Seq(Nat) /\ IsInjective(Tail(s))
         /\ Range(Tail(s)) = Range(s) \ {Head(s)}
         /\ Tail(s) = <<>> <=> Len(s) = 1
<1>1. Len(s) \in Nat \ {0} /\ DOMAIN s = 1 .. Len(s) /\ Head(s) = s[1] /\ Head(s) \in Nat
  OBVIOUS
<1>2. /\ Tail(s) \in Seq(Nat) /\ Len(Tail(s)) = Len(s) - 1
      /\ \A i \in 1 .. Len(s) - 1 : Tail(s)[i] = s[i + 1]
  OBVIOUS
<1>3. DOMAIN Tail(s) = 1 .. Len(s) - 1
  BY <1>2
<1>4. \A i, k \in 1 .. Len(s) : s[i] = s[k] => i = k
  BY <1>1 DEF IsInjective
<1>5. IsInjective(Tail(s))
  <2>1. \A i, k \in 1 .. Len(s) - 1 : Tail(s)[i] = Tail(s)[k] => i = k
    <3>1. ASSUME NEW i \in 1 .. Len(s) - 1, NEW k \in 1 .. Len(s) - 1, Tail(s)[i] = Tail(s)[k]
          PROVE i = k
      <4>1. i + 1 \in 1 .. Len(s) /\ k + 1 \in 1 .. Len(s) /\ s[i + 1] = s[k + 1]
        BY <1>1, <1>2, <3>1
      <4>2. i + 1 = k + 1
        BY <1>4, <4>1
      <4> QED BY <4>2
    <3> QED BY <3>1
  <2> QED BY <1>3, <2>1 DEF IsInjective
<1>6. Range(s) = {s[i] : i \in 1 .. Len(s)} /\ Range(Tail(s)) = {s[i + 1] : i \in 1 .. Len(s) - 1}
  BY <1>1, <1>2, <1>3 DEF Range
<1>7. Range(Tail(s)) = Range(s) \ {Head(s)}
  <2>1. ASSUME NEW x \in Range(Tail(s)) PROVE x \in Range(s) \ {Head(s)}
    <3>1. PICK i \in 1 .. Len(s) - 1 : x = s[i + 1]
      BY <1>6, <2>1
    <3>2. i + 1 \in 1 .. Len(s) /\ i + 1 # 1 /\ 1 \in 1 .. Len(s)
      BY <1>1
    <3>3. s[i + 1] # s[1]
      BY <1>4, <3>2
    <3> QED BY <1>1, <1>6, <3>1, <3>2, <3>3
  <2>2. ASSUME NEW x \in Range(s) \ {Head(s)} PROVE x \in Range(Tail(s))
    <3>1. PICK i \in 1 .. Len(s) : x = s[i] /\ i # 1
      BY <1>1, <1>6, <2>2
    <3>2. i - 1 \in 1 .. Len(s) - 1 /\ (i - 1) + 1 = i
      BY <1>1, <3>1
    <3> QED BY <1>6, <3>1, <3>2
  <2> QED BY <2>1, <2>2
<1>8. Tail(s) = <<>> <=> Len(s) = 1
  BY <1>1, <1>2
<1>9. Head(s) \in Range(s)
  BY <1>1, <1>6
<1> QED BY <1>1, <1>2, <1>5, <1>7, <1>8, <1>9

\* A burst is as long as the set of its packets is large.
LEMMA BurstSize ==
  ASSUME NEW s \in Seq(Nat), IsInjective(s)
  PROVE  IsFiniteSet(Range(s)) /\ Cardinality(Range(s)) = Len(s)
<1>1. Len(s) \in Nat /\ DOMAIN s = 1 .. Len(s)
  OBVIOUS
<1>2. IsFiniteSet(1 .. Len(s)) /\ Cardinality(1 .. Len(s)) = Len(s)
  <2> DEFINE n == Len(s)
  <2>1. n \in Nat /\ n \in Int /\ 1 \in Int
    BY <1>1
  <2> HIDE DEF n
  <2>2. IsFiniteSet(1 .. n) /\ Cardinality(1 .. n) = IF 1 > n THEN 0 ELSE n - 1 + 1
    BY <2>1, FS_Interval
  <2>3. Cardinality(1 .. n) = n
    BY <2>1, <2>2
  <2> QED BY <2>2, <2>3 DEF n
<1>3. s \in Surjection(1 .. Len(s), Range(s)) /\ s \in Injection(1 .. Len(s), Range(s))
  <2>1. s \in [1 .. Len(s) -> Range(s)]
    BY RangeFacts
  <2>2. \A y \in Range(s) : \E x \in 1 .. Len(s) : s[x] = y
    BY RangeFacts
  <2>3. \A x, y \in 1 .. Len(s) : s[x] = s[y] => x = y
    BY <1>1 DEF IsInjective
  <2> QED BY <2>1, <2>2, <2>3 DEF Surjection, Injection, IsInjective
<1> QED BY <1>2, <1>3, FS_Surjection

-----------------------------------------------------------------------------
(* What comes back.                                                         *)

\* The sum of the entries of packets is the sum of a function.
LEMMA EntrySums ==
  ASSUME NEW cs, IsFiniteSet(cs), NEW i
  PROVE  EntrySum(cs, i) = SumOf([c \in cs |-> c.content.entries[i]], cs)
<1> DEFINE f == [c \in cs |-> c.content.entries[i]]
           Rec(g) == g = [s \in SUBSET cs |->
                            IF s = {} THEN 0
                            ELSE LET c == CHOOSE c \in s : TRUE
                                 IN  c.content.entries[i] + g[s \ {c}]]
           it == CHOOSE g : Rec(g)
<1>1. EntrySum(cs, i) = it[cs]
  BY DEF EntrySum, MapThenSumSet, MapThenFoldSet
<1>2. ASSUME NEW g PROVE Rec(g) <=> Sums(g, f, cs)
  <2>1. \A s \in SUBSET cs : s # {} =>
          First(s) \in cs /\ f[First(s)] = First(s).content.entries[i]
    BY FirstIn
  <2> HIDE DEF f
  <2> QED BY <2>1 DEF Sums, First
<1>3. PICK g : Sums(g, f, cs)
  BY SumsExist
<1>4. Rec(g)
  BY <1>2, <1>3
<1> HIDE DEF f, Rec
<1>5. Rec(it)
  BY <1>4
<1>6. Sums(it, f, cs)
  BY <1>2, <1>5
<1> DEFINE so == CHOOSE h : Sums(h, f, cs)
<1>7. Sums(so, f, cs)
  BY SumSolution
<1>8. it[cs] = so[cs]
  <2> HIDE DEF it, so
  <2> QED BY <1>6, <1>7, SumsAgree
<1> QED BY <1>1, <1>8 DEF SumOf, f

\* So is the exact result of a job.
LEMMA ExactSums ==
  ASSUME NEW j, NEW x
  PROVE  ExactSum(j, x) = SumOf([v \in Workers |-> Jobs[j].tensor[v][x]], Workers)
<1> DEFINE f == [v \in Workers |-> Jobs[j].tensor[v][x]]
           Rec(g) == g = [s \in SUBSET Workers |->
                            IF s = {} THEN 0
                            ELSE LET v == CHOOSE v \in s : TRUE
                                 IN  Jobs[j].tensor[v][x] + g[s \ {v}]]
           it == CHOOSE g : Rec(g)
<1>1. ExactSum(j, x) = it[Workers]
  BY DEF ExactSum, MapThenSumSet, MapThenFoldSet
<1>2. ASSUME NEW g PROVE Rec(g) <=> Sums(g, f, Workers)
  <2>1. \A s \in SUBSET Workers : s # {} =>
          First(s) \in Workers /\ f[First(s)] = Jobs[j].tensor[First(s)][x]
    BY FirstIn
  <2> HIDE DEF f
  <2> QED BY <2>1 DEF Sums, First
<1>3. PICK g : Sums(g, f, Workers)
  BY SumsExist, JobsAssumption
<1>4. Rec(g)
  BY <1>2, <1>3
<1> HIDE DEF f, Rec
<1>5. Rec(it)
  BY <1>4
<1>6. Sums(it, f, Workers)
  BY <1>2, <1>5
<1> DEFINE so == CHOOSE h : Sums(h, f, Workers)
<1>7. Sums(so, f, Workers)
  BY SumSolution, JobsAssumption
<1>8. it[Workers] = so[Workers]
  <2> HIDE DEF it, so
  <2> QED BY <1>6, <1>7, SumsAgree, JobsAssumption
<1> QED BY <1>1, <1>8 DEF SumOf, f

\* The contributions to a packet come from different workers.
LEMMA ContributionFacts ==
  ASSUME SentOk, NEW j, NEW p
  PROVE  LET cs == Contributions(j, p)
         IN  /\ IsFiniteSet(cs) /\ Cardinality(cs) \in Nat /\ Cardinality(cs) <= NumWorkers
             /\ \A c \in cs : /\ c.w \in Workers /\ c.content \in Contents /\ c \in sent
                              /\ j \in 1 .. job[c.w] /\ p \in 0 .. Pkts(ppp, j) - 1
                              /\ ppp = "quantizer" => Carries(backend, c.content, j, c.w, p)
             /\ \A c, d \in cs : c.w = d.w => c = d
             /\ Cardinality(cs) = NumWorkers => {c.w : c \in cs} = Workers /\ cs # {}
<1> DEFINE cs == Contributions(j, p)
           h == [c \in cs |-> c.w]
<1>1. \A c \in cs : c \in sent /\ c.job = j /\ c.pkt = p
  BY DEF Contributions
<1>2. \A c \in cs : /\ c.w \in Workers /\ c.content \in Contents
                    /\ j \in 1 .. job[c.w] /\ p \in 0 .. Pkts(ppp, j) - 1
                    /\ ppp = "quantizer" => Carries(backend, c.content, j, c.w, p)
  BY <1>1 DEF SentOk
<1>3. \A c, d \in cs : c.w = d.w => c = d
  BY <1>1 DEF SentOk
<1> HIDE DEF cs
<1>4. h \in [cs -> Workers] /\ \A c \in cs : h[c] = c.w
  BY <1>2
<1>5. h \in Injection(cs, Workers)
  BY <1>3, <1>4 DEF Injection, IsInjective
<1>6. /\ IsFiniteSet(cs) /\ Cardinality(cs) <= NumWorkers
      /\ Cardinality(cs) = NumWorkers <=> h \in Surjection(cs, Workers)
  <2> HIDE DEF h
  <2> QED BY <1>5, FS_Injection, JobsAssumption DEF NumWorkers
<1>7. ASSUME Cardinality(cs) = NumWorkers PROVE {c.w : c \in cs} = Workers /\ cs # {}
  <2>1. \A v \in Workers : \E c \in cs : h[c] = v
    <3>1. h \in Surjection(cs, Workers)
      BY <1>6, <1>7
    <3> HIDE DEF h
    <3> QED BY <3>1 DEF Surjection
  <2>2. cs # {}
    BY <2>1, JobsAssumption
  <2> QED BY <1>2, <1>4, <2>1, <2>2
<1> QED BY <1>1, <1>2, <1>3, <1>6, <1>7, FS_CardinalityType DEF cs

\* The switch returns a packet, and when everything that arrived is right the
\* sum over the workers and the largest exponent.
LEMMA ReducedFacts ==
  ASSUME SentOk, NEW j \in 1 .. Len(Jobs), Numel(j) # 0, NEW p \in Nat, NEW w \in Workers,
         Cardinality(Contributions(j, p)) = NumWorkers
  PROVE  /\ Reduced(j, p) \in Contents
         /\ ppp = "quantizer" /\ backend # "dummy" => Returns(backend, Reduced(j, p), j, w, p)
<1> DEFINE cs == Contributions(j, p)
           S == {c.content.extra : c \in cs}
           r == Reduced(j, p)
<1>1. /\ IsFiniteSet(cs) /\ cs # {} /\ {c.w : c \in cs} = Workers
      /\ \A c \in cs : /\ c.w \in Workers /\ c.content \in Contents
                       /\ ppp = "quantizer" => Carries(backend, c.content, j, c.w, p)
      /\ \A c, d \in cs : c.w = d.w => c = d
  BY ContributionFacts
<1>2. r = [entries |-> [i \in Elements |-> Wrap(EntrySum(cs, i))], extra |-> Max(S)]
  BY DEF Reduced
<1> HIDE DEF cs, r
<1>3. \A c \in cs : c.content.extra \in Exponents
                    /\ \A i \in Elements : c.content.entries[i] \in Int
  BY <1>1, Int32Range DEF Contents
<1>4. Max(S) \in Exponents
  <2>1. S \in SUBSET Nat /\ S # {} /\ \A x \in S : x <= 8 /\ S \subseteq Exponents
    BY <1>1, <1>3 DEF Exponents
  <2>2. Max(S) \in S
    <3> HIDE DEF S
    <3> QED BY <2>1, MaxNat
  <2> HIDE DEF S
  <2> QED BY <2>1, <2>2
<1>5. ASSUME NEW i \in Elements
      PROVE  EntrySum(cs, i) = SumOf([c \in cs |-> c.content.entries[i]], cs)
             /\ EntrySum(cs, i) \in Int
  <2> DEFINE f == [c \in cs |-> c.content.entries[i]]
  <2>1. \A c \in cs : f[c] \in Int
    BY <1>3
  <2>2. SumOf(f, cs) \in Int
    <3> HIDE DEF f
    <3> QED BY <1>1, <2>1, SumAny
  <2> QED BY <1>1, <2>2, EntrySums
<1>6. r \in Contents
  <2>1. \A i \in Elements : Wrap(EntrySum(cs, i)) \in Int32
    BY <1>5, WrapFacts
  <2> QED BY <1>2, <1>4, <2>1 DEF Contents
<1>7. ASSUME ppp = "quantizer", backend # "dummy" PROVE Returns(backend, r, j, w, p)
  <2>1. ASSUME NEW i \in Elements, HasElement(j, p, i)
        PROVE  r.entries[i] = Wrap(ElementSum(backend, j, w, p, i))
    <3> DEFINE f == [c \in cs |-> c.content.entries[i]]
               g == [v \in Workers |-> Element(backend, j, v, p, i)]
               h == [c \in cs |-> c.w]
    <3>1. h \in [cs -> Workers] /\ \A c \in cs : h[c] = c.w
      BY <1>1
    <3>2. \A c \in cs : f[c] \in Int /\ f[c] = g[h[c]]
      <4>1. \A c \in cs : c.content.entries[i] = Element(backend, j, c.w, p, i)
        BY <1>1, <1>7, <2>1 DEF Carries
      <4> QED BY <1>1, <1>3, <3>1, <4>1
    <3>3. \A c, d \in cs : h[c] = h[d] => c = d
      BY <1>1, <3>1
    <3>4. {h[c] : c \in cs} = Workers
      BY <1>1, <3>1
    <3>5. SumOf(f, cs) = SumOf(g, Workers)
      <4> HIDE DEF f, g, h
      <4>1. SumOf(f, cs) = SumOf(g, {h[c] : c \in cs})
        BY <1>1, <3>1, <3>2, <3>3, SumOverImage, JobsAssumption
      <4> QED BY <3>4, <4>1
    <3>6. EntrySum(cs, i) = SumOf(f, cs)
      BY <1>5
    <3>7. ElementSum(backend, j, w, p, i) = SumOf(g, Workers)
      BY <1>7 DEF ElementSum
    <3> QED BY <1>2, <3>5, <3>6, <3>7
  <2>2. ASSUME HasExponent(j, p) PROVE r.extra = Factor(backend, j, w, p)
    <3>1. \A c \in cs : c.content.extra = Exponent(Jobs[j].tensor[c.w], j, p)
      BY <1>1, <1>7, <2>2 DEF Carries
    <3>2. S = {Exponent(Jobs[j].tensor[v], j, p) : v \in Workers}
      BY <1>1, <3>1
    <3> QED BY <1>2, <1>7, <3>2 DEF Factor
  <2> QED BY <2>1, <2>2 DEF Returns
<1> QED BY <1>6, <1>7 DEF r

\* The dummy backend multiplies the entries.
LEMMA MultipliedFacts ==
  ASSUME NEW j \in 1 .. Len(Jobs), Numel(j) # 0, NEW p \in Nat, NEW w \in Workers,
         NEW b \in Contents, NEW bk
  PROVE  /\ Multiplied(b) \in Contents
         /\ bk = "dummy" /\ Carries(bk, b, j, w, p) => Returns(bk, Multiplied(b), j, w, p)
<1>1. Multiplied(b) = [entries |-> [i \in Elements |-> Wrap(NumWorkers * b.entries[i])],
                       extra   |-> b.extra]
  BY DEF Multiplied, Contents
<1>2. \A i \in Elements : b.entries[i] \in Int /\ NumWorkers * b.entries[i] \in Int
  BY Int32Range, JobFacts DEF Contents
<1>3. Multiplied(b) \in Contents
  <2>1. \A i \in Elements : Wrap(NumWorkers * b.entries[i]) \in Int32
    BY <1>2, WrapFacts
  <2> QED BY <1>1, <2>1 DEF Contents
<1>4. ASSUME bk = "dummy", Carries(bk, b, j, w, p)
      PROVE  Returns(bk, Multiplied(b), j, w, p)
  <2>1. \A i \in Elements : HasElement(j, p, i) =>
          NumWorkers * b.entries[i] = ElementSum(bk, j, w, p, i)
    BY <1>4 DEF Carries, ElementSum
  <2>2. HasExponent(j, p) => b.extra = Factor(bk, j, w, p)
    BY <1>4 DEF Carries, Factor
  <2> QED BY <1>1, <2>1, <2>2 DEF Returns
<1> QED BY <1>3, <1>4

\* What PostprocessSingle writes for a result that is right.
LEMMA PostprocessFacts ==
  ASSUME NEW j \in 1 .. Len(Jobs), Numel(j) # 0, NEW p \in Nat, NEW w \in Workers,
         NEW bk, NEW b, NEW t, ppp = "quantizer", Returns(bk, b, j, w, p),
         DOMAIN t.output = 0 .. Numel(j) - 1, DOMAIN t.scale = 0 .. NumLtus(j) - 1,
         Jobs[j].type = "FLOAT32" /\ LtuOf(j, p) >= 0 =>
           t.scale[LtuOf(j, p)] = Factor(bk, j, w, LtuOf(j, p))
  PROVE  PostprocessSingle(j, t, p, b) =
           [output |-> [x \in 0 .. Numel(j) - 1 |->
                          IF PacketOf(j, x \div PacketNumel) = p THEN Final(bk, j, w, x)
                          ELSE t.output[x]],
            scale  |-> [l \in 0 .. NumLtus(j) - 1 |->
                          IF Jobs[j].type = "FLOAT32" /\ l = p THEN Factor(bk, j, w, l)
                          ELSE t.scale[l]]]
<1> DEFINE m == LtuOf(j, p)
           Value(i) == IF Jobs[j].type = "INT32" THEN b.entries[i]
                       ELSE Dequantize(b.entries[i], t.scale[m])
<1>1. /\ Jobs[j].type = "FLOAT32" \/ Jobs[j].type = "INT32"
      /\ Batch(j) \in Nat /\ NumLtus(j) \in Nat
  BY JobFacts, SliceFacts
<1>2. PostprocessSingle(j, t, p, b) =
        [output |-> [x \in 0 .. Numel(j) - 1 |->
                       IF m >= 0 /\ x \div PacketNumel = m THEN Value(x % PacketNumel)
                       ELSE t.output[x]],
         scale  |-> [l \in 0 .. NumLtus(j) - 1 |->
                       IF Jobs[j].type = "FLOAT32" /\ l = p THEN b.extra ELSE t.scale[l]]]
  BY DEF PostprocessSingle, LtuOf
<1>3. ASSUME NEW x \in 0 .. Numel(j) - 1
      PROVE  /\ m >= 0 /\ x \div PacketNumel = m <=> PacketOf(j, x \div PacketNumel) = p
             /\ PacketOf(j, x \div PacketNumel) = p => Value(x % PacketNumel) = Final(bk, j, w, x)
  <2> DEFINE l == x \div PacketNumel
             i == x % PacketNumel
  <2>1. l \in Nat /\ i \in InLtu(j, l) /\ i \in Elements
    <3>1. l \in 0 .. NumLtus(j) - 1 /\ i \in InLtu(j, l)
      BY LtuOfElement
    <3> QED BY <1>1, <3>1 DEF InLtu
  <2> HIDE DEF l, i
  <2>2. m >= 0 /\ l = m <=> PacketOf(j, l) = p
    BY <1>1, <2>1 DEF PacketOf, LtuOf
  <2>3. ASSUME PacketOf(j, l) = p PROVE Value(i) = Final(bk, j, w, x)
    <3>1. m >= 0 /\ l = m /\ HasElement(j, p, i)
      BY <2>1, <2>2, <2>3 DEF HasElement
    <3>2. b.entries[i] = Wrap(ElementSum(bk, j, w, p, i))
      BY <2>1, <3>1 DEF Returns
    <3>3. Jobs[j].type # "INT32" => t.scale[m] = Factor(bk, j, w, l)
      BY <1>1, <3>1
    <3> QED BY <2>3, <3>2, <3>3 DEF Final, l, i
  <2> QED BY <2>2, <2>3 DEF l, i
<1>4. \A l \in 0 .. NumLtus(j) - 1 : Jobs[j].type = "FLOAT32" /\ l = p =>
        b.extra = Factor(bk, j, w, l)
  BY <1>1 DEF Returns, HasExponent
<1> HIDE DEF Value, m
<1> QED BY <1>2, <1>3, <1>4

-----------------------------------------------------------------------------
(* The steps.                                                               *)

\* A thread whose variables do not change.
LEMMA Frame ==
  ASSUME NEW v \in Workers, UNCHANGED config,
         running'[v] = running[v], busy'[v] = busy[v], job'[v] = job[v],
         output'[v] = output[v], scale'[v] = scale[v], buffer'[v] = buffer[v],
         pending'[v] = pending[v], burst'[v] = burst[v], toSend'[v] = toSend[v],
         got'[v] = got[v], PacketsOk(v), DataOk(v)
  PROVE  PacketsOk(v)' /\ DataOk(v)'
<1>1. backend' = backend /\ ppp' = ppp
  BY DEF config
<1>2. PacketsOk(v)'
  BY <1>1 DEF PacketsOk, Outstanding, Unprocessed
<1>3. DataOk(v)'
  BY <1>1 DEF DataOk, Outstanding, Processed
<1> QED BY <1>2, <1>3

\* The buffers of a thread.
LEMMA BufferFacts ==
  ASSUME Shapes, NEW w \in Workers
  PROVE  /\ buffer[w] \in [0 .. MaxOutstanding - 1 -> Contents]
         /\ \A b \in 0 .. MaxOutstanding - 1 : buffer[w][b] \in Contents
<1>1. buffer \in [Workers -> [0 .. MaxOutstanding - 1 -> Contents]]
  BY DEF Shapes
<1>2. buffer[w] \in [0 .. MaxOutstanding - 1 -> Contents]
  BY <1>1
<1> QED BY <1>2

\* What the steps use of a busy thread.
LEMMA BusyFacts ==
  ASSUME Shapes, NEW w \in Workers, PacketsOk(w), busy[w]
  PROVE  LET j == job[w]
         IN  /\ j \in 1 .. Len(Jobs) /\ Numel(j) # 0
             /\ Batch(j) \in Nat \ {0} /\ Batch(j) <= MaxOutstanding
             /\ NumLtus(j) \in Nat /\ Batch(j) <= NumLtus(j)
             /\ Pkts(ppp, j) \in Nat /\ NumLtus(j) <= Pkts(ppp, j)
             /\ Outstanding(w) \in SUBSET Nat
             /\ Outstanding(w) \subseteq 0 .. Pkts(ppp, j) - 1
             /\ \A p, q \in Outstanding(w) : p % Batch(j) = q % Batch(j) => p = q
             /\ \A p \in Nat : BufferOf(j, p) = p % Batch(j)
                               /\ BufferOf(j, p) \in 0 .. MaxOutstanding - 1
<1>1. job[w] \in 1 .. Len(Jobs) /\ Numel(job[w]) # 0
  BY JobFacts DEF Shapes, PacketsOk
<1> DEFINE j == job[w]
<1> HIDE DEF j
<1>2. j \in 1 .. Len(Jobs) /\ Numel(j) # 0
  BY <1>1 DEF j
<1>3. /\ Batch(j) \in Nat \ {0} /\ Batch(j) <= MaxOutstanding
      /\ NumLtus(j) \in Nat /\ Batch(j) <= NumLtus(j)
      /\ Pkts(ppp, j) \in Nat /\ NumLtus(j) <= Pkts(ppp, j)
  BY <1>2, SliceFacts
<1>4. \A p \in Nat : BufferOf(j, p) = p % Batch(j) /\ BufferOf(j, p) \in 0 .. MaxOutstanding - 1
  <2>1. ASSUME NEW p \in Nat PROVE p % Batch(j) \in 0 .. MaxOutstanding - 1
    <3>1. p % Batch(j) \in 0 .. Batch(j) - 1
      BY <1>3, Remainders
    <3> QED BY <1>3, <3>1, ExchangeAssumption
  <2> QED BY <2>1 DEF BufferOf
<1>5. Outstanding(w) \subseteq 0 .. Pkts(ppp, j) - 1
  BY DEF PacketsOk, j
<1>6. \A p, q \in Outstanding(w) : p % Batch(j) = q % Batch(j) => p = q
  BY DEF PacketsOk, BufferOf, j
<1>7. Outstanding(w) \in SUBSET Nat
  BY <1>3, <1>5
<1> QED BY <1>2, <1>3, <1>4, <1>5, <1>6, <1>7 DEF j

\* At the start nothing is outstanding.
LEMMA InitInv == Init => ExchangeInv
<1> SUFFICES ASSUME Init PROVE ExchangeInv
  OBVIOUS
<1>1. Garbage \in Contents
  BY Int32Range DEF Garbage, Contents, Exponents
<1>2. Shapes
  BY <1>1, JobFacts DEF Init, Shapes
<1>3. \A w \in Workers : PacketsOk(w)
  BY DEF Init, PacketsOk
<1>4. \A w \in Workers : DataOk(w)
  BY DEF Init, DataOk
<1>5. SentOk
  BY DEF Init, SentOk
<1> QED BY <1>2, <1>3, <1>4, <1>5 DEF ExchangeInv

\* The context of a worker is stopped.
LEMMA StopStep ==
  ASSUME ExchangeInv, NEW w \in Workers, Stop(w)
  PROVE  ExchangeInv'
<1>1. Shapes'
  BY DEF ExchangeInv, Shapes, Stop, config, slice
<1>2. running' = [running EXCEPT ![w] = FALSE] /\ running \in [Workers -> BOOLEAN]
  BY DEF ExchangeInv, Shapes, Stop
<1>3. /\ UNCHANGED <<config, job, busy, output, scale, buffer, pending, burst, toSend, got, sent>>
      /\ backend' = backend /\ ppp' = ppp
  BY DEF Stop, config, slice
<1>4. ASSUME NEW v \in Workers PROVE PacketsOk(v)' /\ DataOk(v)'
  <2>1. PacketsOk(v) /\ DataOk(v)
    BY DEF ExchangeInv
  <2>2. running'[v] => running[v]
    BY <1>2
  <2>3. PacketsOk(v)'
    BY <1>3, <2>1, <2>2 DEF PacketsOk, Outstanding, Unprocessed
  <2>4. DataOk(v)'
    BY <1>3, <2>1 DEF DataOk, Outstanding, Processed
  <2> QED BY <2>3, <2>4
<1>5. SentOk'
  BY <1>3 DEF ExchangeInv, SentOk, Outstanding
<1> QED BY <1>1, <1>4, <1>5 DEF ExchangeInv

\* The thread leaves the loop.
LEMMA FinishStep ==
  ASSUME ExchangeInv, NEW w \in Workers, FinishSlice(w)
  PROVE  ExchangeInv'
<1> DEFINE j == job[w]
<1>1. /\ UNCHANGED <<config, running, job, output, buffer, pending, burst, toSend, got, sent>>
      /\ backend' = backend /\ ppp' = ppp
      /\ busy' = [busy EXCEPT ![w] = FALSE] /\ scale' = [scale EXCEPT ![w] = <<>>]
      /\ busy[w] /\ burst[w] = <<>> /\ ~InLoop(w)
  BY DEF FinishSlice, config
<1>2. Shapes /\ PacketsOk(w) /\ DataOk(w) /\ SentOk
  BY DEF ExchangeInv
<1>3. Shapes'
  BY <1>1, <1>2 DEF Shapes
<1>4. busy' \in [Workers -> BOOLEAN] /\ ~busy'[w] /\ \A v \in Workers : busy'[v] => busy[v]
  BY <1>1, <1>2 DEF Shapes
<1>5. ASSUME running[w] PROVE pending[w] = {}
  <2>1. got[w] \in Nat /\ ~(got[w] < Pkts(ppp, j))
    BY <1>1, <1>2, <1>5, PktsFact DEF Shapes, InLoop
  <2>2. /\ Pkts(ppp, j) \in Nat /\ Outstanding(w) \in SUBSET Nat
        /\ Outstanding(w) \subseteq 0 .. Pkts(ppp, j) - 1
    BY <1>1, <1>2, BusyFacts
  <2> DEFINE U == Unprocessed(w) \ Range(burst[w])
  <2>3. U \subseteq 0 .. Pkts(ppp, j) - 1
    BY DEF Unprocessed
  <2>4. IsFiniteSet(U)
    <3>1. IsFiniteSet(0 .. Pkts(ppp, j) - 1)
      BY <2>2, FS_Interval
    <3> HIDE DEF U
    <3> QED BY <2>3, <3>1, FS_Subset
  <2>5. Cardinality(U) = Pkts(ppp, j) - got[w]
    BY <1>1, <1>2 DEF PacketsOk
  <2>6. Cardinality(U) = 0
    BY <2>1, <2>2, <2>4, <2>5, FS_CardinalityType
  <2>7. U = {}
    BY <2>4, <2>6, FS_EmptySet
  <2>8. Range(burst[w]) = {}
    BY <1>1, <1>2, RangeFacts DEF Shapes
  <2>9. ASSUME NEW p \in pending[w] PROVE FALSE
    <3>1. p \in Outstanding(w)
      BY DEF Outstanding
    <3>2. Behind(Outstanding(w), Batch(j), p)
      BY <2>2, <3>1, BehindSelf
    <3>3. p \in Unprocessed(w)
      BY <2>2, <3>1, <3>2 DEF Unprocessed
    <3> QED BY <2>7, <2>8, <3>3
  <2> QED BY <2>9
<1>6. ASSUME NEW v \in Workers PROVE PacketsOk(v)' /\ DataOk(v)'
  <2>1. PacketsOk(v) /\ DataOk(v)
    BY DEF ExchangeInv
  <2>2. CASE v = w
    <3>1. PacketsOk(w)'
      BY <1>1, <1>2, <1>4, <1>5 DEF PacketsOk
    <3>2. DataOk(w)'
      BY <1>4 DEF DataOk
    <3> QED BY <2>2, <3>1, <3>2
  <2>3. CASE v # w
    <3>1. busy'[v] = busy[v] /\ scale'[v] = scale[v]
      BY <1>1, <1>2, <2>3 DEF Shapes
    <3> QED BY <1>1, <2>1, <3>1, Frame
  <2> QED BY <2>2, <2>3
<1>7. SentOk'
  BY <1>1, <1>2, <1>4 DEF SentOk, Outstanding
<1> QED BY <1>3, <1>6, <1>7 DEF ExchangeInv

\* The thread takes a slice.
LEMMA StartStep ==
  ASSUME ExchangeInv, NEW w \in Workers, StartSlice(w)
  PROVE  ExchangeInv'
<1> DEFINE j == job[w] + 1
           T == Jobs[j].tensor[w]
           B == Batch(j)
           out == IF InPlace THEN T ELSE [x \in DOMAIN T |-> 0]
           unset == [l \in 0 .. NumLtus(j) - 1 |-> Unset]
           bs == [b \in DOMAIN buffer[w] |->
                    IF b \in 0 .. B - 1
                    THEN PreprocessSingle(j, T, unset, b, buffer[w][b])
                    ELSE buffer[w][b]]
<1>1. /\ running[w] /\ ~busy[w] /\ job[w] < Len(Jobs)
      /\ job' = [job EXCEPT ![w] = j] /\ output' = [output EXCEPT ![w] = out]
      /\ UNCHANGED <<config, running, burst, toSend>>
      /\ backend' = backend /\ ppp' = ppp
  BY DEF StartSlice, config
<1>2. \/ Numel(j) = 0 /\ UNCHANGED <<busy, scale, buffer, pending, got, sent>>
      \/ /\ Numel(j) # 0
         /\ busy' = [busy EXCEPT ![w] = TRUE] /\ scale' = [scale EXCEPT ![w] = unset]
         /\ got' = [got EXCEPT ![w] = 0] /\ buffer' = [buffer EXCEPT ![w] = bs]
         /\ SendBurst(w, j, 0 .. B - 1, bs)
  BY DEF StartSlice
<1>3. Shapes /\ PacketsOk(w) /\ DataOk(w) /\ SentOk
  BY DEF ExchangeInv
<1>4. /\ j \in 1 .. Len(Jobs) /\ job[w] \in Nat
      /\ job' \in [Workers -> 0 .. Len(Jobs)] /\ job'[w] = j
      /\ \A v \in Workers : v # w => job'[v] = job[v]
  BY <1>1, <1>3, JobFacts DEF Shapes
<1>5. burst[w] = <<>> /\ toSend[w] = {} /\ pending[w] = {} /\ Range(burst[w]) = {}
  BY <1>1, <1>3, RangeFacts DEF PacketsOk, Shapes
<1>6. DOMAIN output' = Workers /\ output'[w] = out /\ \A v \in Workers : v # w => output'[v] = output[v]
  BY <1>1, <1>3 DEF Shapes
<1> HIDE DEF j, out, bs, unset
<1>7. CASE Numel(j) = 0
  <2>1. UNCHANGED <<busy, scale, buffer, pending, got, sent>>
    BY <1>2, <1>7
  <2>2. Shapes'
    BY <1>1, <1>3, <1>4, <1>6, <2>1 DEF Shapes
  <2>3. ASSUME NEW v \in Workers PROVE PacketsOk(v)' /\ DataOk(v)'
    <3>1. PacketsOk(v) /\ DataOk(v)
      BY DEF ExchangeInv
    <3>2. CASE v = w
      <4>1. PacketsOk(w)'
        BY <1>1, <1>5, <2>1 DEF PacketsOk
      <4>2. DataOk(w)'
        BY <1>1, <2>1 DEF DataOk
      <4> QED BY <3>2, <4>1, <4>2
    <3>3. CASE v # w
      BY <1>1, <1>4, <1>6, <2>1, <3>1, <3>3, Frame
    <3> QED BY <3>2, <3>3
  <2>4. SentOk'
    <3>1. ASSUME NEW c \in sent
          PROVE /\ c.job \in 1 .. job'[c.w]
                /\ busy'[c.w] /\ c.job = job'[c.w] => busy[c.w] /\ c.job = job[c.w]
      <4>1. c.w \in Workers /\ c.job \in 1 .. job[c.w]
        BY <1>3 DEF SentOk
      <4>2. CASE c.w = w
        BY <1>1, <1>4, <2>1, <4>1, <4>2 DEF j
      <4>3. CASE c.w # w
        BY <1>4, <2>1, <4>1, <4>3
      <4> QED BY <4>2, <4>3
    <3> QED BY <1>1, <1>3, <2>1, <3>1 DEF SentOk, Outstanding
  <2> QED BY <2>2, <2>3, <2>4 DEF ExchangeInv
<1>8. CASE Numel(j) # 0
  <2> DEFINE n == Pkts(ppp, j)
  <2>1. /\ busy' = [busy EXCEPT ![w] = TRUE] /\ scale' = [scale EXCEPT ![w] = unset]
        /\ got' = [got EXCEPT ![w] = 0] /\ buffer' = [buffer EXCEPT ![w] = bs]
        /\ SendBurst(w, j, 0 .. B - 1, bs)
    BY <1>2, <1>8
  <2>2. /\ B \in Nat \ {0} /\ B <= MaxOutstanding /\ NumLtus(j) \in Nat /\ B <= NumLtus(j)
        /\ n \in Nat /\ NumLtus(j) <= n /\ B \in 1 .. MaxOutstanding
    BY <1>4, <1>8, SliceFacts
  <2>3. pending' = [pending EXCEPT ![w] = pending[w] \cup (0 .. B - 1)]
    BY <2>1 DEF SendBurst
  <2> HIDE DEF B, n
  <2>4. /\ busy'[w] /\ scale'[w] = unset /\ got'[w] = 0 /\ buffer'[w] = bs
        /\ pending'[w] = 0 .. B - 1 /\ 0 .. B - 1 \in SUBSET Nat
        /\ \A v \in Workers : v # w =>
             /\ busy'[v] = busy[v] /\ scale'[v] = scale[v] /\ got'[v] = got[v]
             /\ buffer'[v] = buffer[v] /\ pending'[v] = pending[v]
    BY <1>3, <1>5, <2>1, <2>2, <2>3 DEF Shapes
  <2>5. \A b \in 0 .. MaxOutstanding - 1 : buffer[w][b] \in Contents
    BY <1>3, BufferFacts
  <2>6. ASSUME ppp = "quantizer", NEW p \in 0 .. B - 1
        PROVE  SourceOk(backend, T, unset, j, w, p)
    <3>1. p \in Nat /\ p < B
      BY <2>2
    <3>2. Jobs[j].type = "FLOAT32" => ~(LtuOf(j, p) >= 0)
      <4>1. Jobs[j].type = "FLOAT32" => LtuOf(j, p) = p - B
        BY DEF LtuOf, B
      <4> QED BY <2>2, <3>1, <4>1
    <3> QED BY <3>2 DEF SourceOk
  <2>7. ASSUME NEW p \in 0 .. B - 1
        PROVE  /\ p \in 0 .. MaxOutstanding - 1
               /\ PreprocessSingle(j, T, unset, p, buffer[w][p]) \in Contents
               /\ ppp = "quantizer" =>
                    Carries(backend, PreprocessSingle(j, T, unset, p, buffer[w][p]), j, w, p)
    <3>1. p \in Nat /\ p \in 0 .. MaxOutstanding - 1
      BY <2>2, ExchangeAssumption
    <3>2. buffer[w][p] \in Contents
      BY <2>5, <3>1
    <3>3. CASE ppp = "quantizer"
      <4>1. SourceOk(backend, T, unset, j, w, p)
        BY <2>6, <3>3
      <4> QED BY <1>4, <1>8, <3>1, <3>2, <3>3, <4>1, PreprocessFacts
    <3>4. CASE ppp # "quantizer"
      <4>1. ppp \in PPPs
        BY <1>3 DEF Shapes
      <4> QED BY <3>1, <3>2, <3>4, <4>1, BypassFacts
    <3> QED BY <3>3, <3>4
  <2>8. /\ bs \in [0 .. MaxOutstanding - 1 -> Contents]
        /\ \A p \in 0 .. B - 1 :
             /\ bs[p] \in Contents
             /\ ppp = "quantizer" => Carries(backend, bs[p], j, w, p)
    <3>1. DOMAIN buffer[w] = 0 .. MaxOutstanding - 1
      BY <1>3 DEF Shapes
    <3>2. /\ \A p \in 0 .. B - 1 : bs[p] = PreprocessSingle(j, T, unset, p, buffer[w][p])
          /\ \A b \in 0 .. MaxOutstanding - 1 : b \notin 0 .. B - 1 => bs[b] = buffer[w][b]
      BY <2>7, <3>1 DEF bs
    <3>3. bs = [b \in 0 .. MaxOutstanding - 1 |-> bs[b]]
      BY <3>1 DEF bs
    <3> HIDE DEF T
    <3>4. \A b \in 0 .. MaxOutstanding - 1 : bs[b] \in Contents
      BY <2>5, <2>7, <3>2
    <3> QED BY <2>7, <3>2, <3>3, <3>4
  <2>9. Shapes'
    <3>1. busy' \in [Workers -> BOOLEAN] /\ got' \in [Workers -> Nat] /\ DOMAIN scale' = Workers
      BY <1>3, <2>1 DEF Shapes
    <3>2. buffer' \in [Workers -> [0 .. MaxOutstanding - 1 -> Contents]]
      BY <1>3, <2>1, <2>8 DEF Shapes
    <3>3. pending' \in [Workers -> SUBSET Nat]
      BY <1>3, <2>3, <2>4 DEF Shapes
    <3> QED BY <1>1, <1>3, <1>4, <1>6, <3>1, <3>2, <3>3 DEF Shapes
  <2>10. \A p \in 0 .. B - 1 : BufferOf(j, p) = p /\ p \in Nat
    <3>1. ASSUME NEW p \in 0 .. B - 1 PROVE p \in Nat /\ p % B = p
      <4>1. p \in Nat /\ p < B
        BY <2>2
      <4> QED BY <2>2, <4>1, Remainders
    <3> QED BY <3>1 DEF BufferOf, B
  <2>11. /\ Outstanding(w)' = 0 .. B - 1 /\ toSend'[w] = {} /\ burst'[w] = <<>>
         /\ Range(burst'[w]) = {}
    BY <1>1, <1>5, <2>4 DEF Outstanding
  <2>12. \A p \in Nat : Behind(0 .. B - 1, B, p)
    BY <2>2, BehindStart
  <2>13. PacketsOk(w)'
    <3>1. Unprocessed(w)' = 0 .. n - 1
      <4>1. Unprocessed(w)' = {p \in 0 .. n - 1 : Behind(0 .. B - 1, B, p)}
        BY <1>1, <1>4, <2>11 DEF Unprocessed, n, B
      <4> QED BY <2>2, <2>12, <4>1
    <3>2. Cardinality((0 .. n - 1) \ {}) = n - 0
      <4>1. Cardinality(0 .. n - 1) = n
        BY <2>2, FS_Interval
      <4>2. (0 .. n - 1) \ {} = 0 .. n - 1
        OBVIOUS
      <4> QED BY <2>2, <4>1, <4>2
    <3>3. IsInjective(burst'[w])
      BY <2>11 DEF IsInjective
    <3>4. 0 .. B - 1 \subseteq 0 .. n - 1 /\ j # 0
      BY <1>4, <2>2
    <3>5. Pkts(ppp', job'[w]) = n
      BY <1>1, <1>4 DEF n
    <3>6. /\ Outstanding(w)' \subseteq 0 .. Pkts(ppp', job'[w]) - 1
          /\ Cardinality(Unprocessed(w)' \ Range(burst'[w])) = Pkts(ppp', job'[w]) - got'[w]
          /\ \A p, q \in Outstanding(w)' :
               BufferOf(job'[w], p) = BufferOf(job'[w], q) => p = q
      <4>1. \A p, q \in 0 .. B - 1 : BufferOf(j, p) = BufferOf(j, q) => p = q
        BY <2>10
      <4>2. got'[w] = 0 /\ job'[w] = j
        BY <1>4, <2>4
      <4> QED BY <2>11, <3>1, <3>2, <3>4, <3>5, <4>1, <4>2
    <3>7. /\ job'[w] # 0 /\ Numel(job'[w]) # 0 /\ busy'[w]
          /\ pending'[w] \cap toSend'[w] = {}
          /\ Range(burst'[w]) \cap (pending'[w] \cup toSend'[w]) = {}
      BY <1>4, <1>8, <2>4, <2>11
    <3> QED BY <2>11, <3>3, <3>6, <3>7 DEF PacketsOk
  <2>14. DataOk(w)'
    <3>1. ASSUME ppp = "quantizer"
          PROVE /\ scale'[w] = [l \in 0 .. NumLtus(j) - 1 |->
                     IF Jobs[j].type = "FLOAT32" /\ ~Behind(0 .. B - 1, B, l)
                     THEN Factor(backend, j, w, l) ELSE Unset]
                /\ output'[w] = [x \in 0 .. Numel(j) - 1 |->
                      IF ~Behind(0 .. B - 1, B, PacketOf(j, x \div PacketNumel))
                      THEN Final(backend, j, w, x) ELSE Before(j, w, x)]
                /\ \A p \in 0 .. B - 1 : Carries(backend, buffer'[w][BufferOf(j, p)], j, w, p)
      <4>1. \A l \in 0 .. NumLtus(j) - 1 : Behind(0 .. B - 1, B, l)
        BY <2>2, <2>12
      <4>2. \A x \in 0 .. Numel(j) - 1 : Behind(0 .. B - 1, B, PacketOf(j, x \div PacketNumel))
        <5>1. ASSUME NEW x \in 0 .. Numel(j) - 1 PROVE PacketOf(j, x \div PacketNumel) \in Nat
          <6>1. x \div PacketNumel \in 0 .. NumLtus(j) - 1
            BY <1>4, LtuOfElement
          <6> QED BY <2>2, <6>1 DEF PacketOf, B
        <5> QED BY <2>12, <5>1
      <4>3. out = [x \in 0 .. Numel(j) - 1 |-> Before(j, w, x)]
        <5>1. DOMAIN T = 0 .. Numel(j) - 1 /\ T = [x \in 0 .. Numel(j) - 1 |-> T[x]]
          BY <1>4, JobFacts
        <5>2. CASE InPlace
          BY <5>1, <5>2 DEF out, Before
        <5>3. CASE ~InPlace
          <6>1. out = [x \in 0 .. Numel(j) - 1 |-> 0]
            BY <5>1, <5>3 DEF out
          <6> QED BY <5>3, <6>1 DEF Before
        <5> QED BY <5>2, <5>3
      <4>4. output'[w] = [x \in 0 .. Numel(j) - 1 |->
                      IF ~Behind(0 .. B - 1, B, PacketOf(j, x \div PacketNumel))
                      THEN Final(backend, j, w, x) ELSE Before(j, w, x)]
        BY <1>6, <4>2, <4>3
      <4>5. scale'[w] = [l \in 0 .. NumLtus(j) - 1 |->
                     IF Jobs[j].type = "FLOAT32" /\ ~Behind(0 .. B - 1, B, l)
                     THEN Factor(backend, j, w, l) ELSE Unset]
        BY <2>4, <4>1 DEF unset
      <4>6. \A p \in 0 .. B - 1 : Carries(backend, buffer'[w][BufferOf(j, p)], j, w, p)
        <5>1. ASSUME NEW p \in 0 .. B - 1
              PROVE  Carries(backend, buffer'[w][BufferOf(j, p)], j, w, p)
          <6>1. buffer'[w][BufferOf(j, p)] = bs[p]
            BY <2>4, <2>10
          <6>2. Carries(backend, bs[p], j, w, p)
            BY <2>8, <3>1
          <6> QED BY <6>1, <6>2
        <5> QED BY <5>1
      <4> QED BY <4>4, <4>5, <4>6
    <3>2. pending'[w] \cup toSend'[w] = 0 .. B - 1
      BY <2>4, <2>11
    <3>3. \A x : Processed(w, x)' <=> ~Behind(0 .. B - 1, B, x)
      BY <1>4, <2>11 DEF Processed, B
    <3> QED BY <1>1, <1>4, <2>11, <3>1, <3>2, <3>3 DEF DataOk, Processed, B
  <2>15. ASSUME NEW v \in Workers PROVE PacketsOk(v)' /\ DataOk(v)'
    <3>1. PacketsOk(v) /\ DataOk(v)
      BY DEF ExchangeInv
    <3>2. CASE v = w
      BY <2>13, <2>14, <3>2
    <3>3. CASE v # w
      BY <1>1, <1>4, <1>6, <2>4, <3>1, <3>3, Frame
    <3> QED BY <3>2, <3>3
  <2>16. SentOk'
    <3> DEFINE new == {[w |-> w, job |-> j, pkt |-> p, content |-> bs[BufferOf(j, p)]] : p \in 0 .. B - 1}
    <3>1. sent' = sent \/ sent' = sent \cup new
      BY <2>1 DEF SendBurst
    <3>2. ASSUME NEW c \in sent
          PROVE /\ c.w \in Workers /\ c.job \in 1 .. job'[c.w] /\ c.content \in Contents
                /\ c.pkt \in 0 .. Pkts(ppp, c.job) - 1
                /\ ppp = "quantizer" => Carries(backend, c.content, c.job, c.w, c.pkt)
                /\ busy'[c.w] /\ c.job = job'[c.w] =>
                     /\ c.pkt \notin toSend'[c.w]
                     /\ \A q \in Outstanding(c.w)' :
                          BufferOf(c.job, q) = BufferOf(c.job, c.pkt) => c.pkt <= q
                /\ c.w = w => c.job # j
      <4>1. /\ c.w \in Workers /\ c.job \in 1 .. job[c.w] /\ c.content \in Contents
            /\ c.pkt \in 0 .. Pkts(ppp, c.job) - 1
            /\ ppp = "quantizer" => Carries(backend, c.content, c.job, c.w, c.pkt)
            /\ busy[c.w] /\ c.job = job[c.w] =>
                 /\ c.pkt \notin toSend[c.w]
                 /\ \A q \in Outstanding(c.w) :
                      BufferOf(c.job, q) = BufferOf(c.job, c.pkt) => c.pkt <= q
        BY <1>3 DEF SentOk
      <4>2. CASE c.w = w
        <5>1. c.job \in 1 .. job'[c.w] /\ c.job # j
          BY <1>4, <4>1, <4>2 DEF j
        <5> QED BY <1>4, <4>1, <4>2, <5>1
      <4>3. CASE c.w # w
        <5>1. Outstanding(c.w)' = Outstanding(c.w)
          BY <1>1, <2>4, <4>1, <4>3 DEF Outstanding
        <5> QED BY <1>1, <1>4, <2>4, <4>1, <4>3, <5>1
      <4> QED BY <4>2, <4>3
    <3>3. ASSUME NEW c \in new
          PROVE /\ c.w = w /\ c.job = j /\ c.pkt \in 0 .. B - 1 /\ c.content = bs[c.pkt]
                /\ c.job \in 1 .. job'[c.w] /\ c.content \in Contents
                /\ c.pkt \in 0 .. Pkts(ppp, c.job) - 1
                /\ ppp = "quantizer" => Carries(backend, c.content, c.job, c.w, c.pkt)
                /\ c.pkt \notin toSend'[c.w]
                /\ \A q \in Outstanding(c.w)' :
                     BufferOf(c.job, q) = BufferOf(c.job, c.pkt) => c.pkt <= q
      <4>1. PICK p \in 0 .. B - 1 : c = [w |-> w, job |-> j, pkt |-> p, content |-> bs[BufferOf(j, p)]]
        BY <3>3
      <4>2. c.w = w /\ c.job = j /\ c.pkt = p /\ c.content = bs[p]
        BY <2>10, <4>1
      <4>3. \A q \in 0 .. B - 1 : BufferOf(j, q) = BufferOf(j, p) => p <= q
        BY <2>10
      <4>4. p \in 0 .. n - 1
        BY <2>2
      <4>5. Outstanding(c.w)' = 0 .. B - 1 /\ toSend'[c.w] = {}
        BY <2>11, <4>2 DEF Outstanding
      <4>6. \A q \in Outstanding(c.w)' :
              BufferOf(c.job, q) = BufferOf(c.job, c.pkt) => c.pkt <= q
        BY <4>2, <4>3, <4>5
      <4>7. c.pkt \in 0 .. Pkts(ppp, c.job) - 1 /\ c.job \in 1 .. job'[c.w]
        BY <1>4, <4>2, <4>4 DEF n
      <4>8. bs[p] \in Contents /\ (ppp = "quantizer" => Carries(backend, bs[p], j, w, p))
        BY <2>8
      <4>9. c.content \in Contents
            /\ (ppp = "quantizer" => Carries(backend, c.content, c.job, c.w, c.pkt))
        BY <4>2, <4>8
      <4> QED BY <4>2, <4>5, <4>6, <4>7, <4>9
    <3>4. \A c, d \in sent' : c.w = d.w /\ c.job = d.job /\ c.pkt = d.pkt => c = d
      <4>1. \A c, d \in sent : c.w = d.w /\ c.job = d.job /\ c.pkt = d.pkt => c = d
        BY <1>3 DEF SentOk
      <4>2. \A c, d \in new : c.pkt = d.pkt => c = d
        OBVIOUS
      <4>3. \A c \in sent, d \in new : ~(c.w = d.w /\ c.job = d.job)
        BY <3>2, <3>3
      <4> HIDE DEF new
      <4> QED BY <3>1, <4>1, <4>2, <4>3
    <3> HIDE DEF new
    <3> QED BY <1>1, <3>1, <3>2, <3>3, <3>4 DEF SentOk
  <2> QED BY <2>9, <2>15, <2>16 DEF ExchangeInv
<1> QED BY <1>7, <1>8

\* Packets come back.
LEMMA ReceiveStep ==
  ASSUME ExchangeInv, NEW w \in Workers, ReceiveBurst(w)
  PROVE  ExchangeInv'
<1> DEFINE j == job[w]
           B == Batch(j)
           n == Pkts(ppp, j)
           O == Outstanding(w)
           S == {p \in pending[w] : Receivable(w, p)}
<1>1. /\ InLoop(w) /\ burst[w] = <<>>
      /\ UNCHANGED <<config, running, slice, toSend, sent>>
      /\ UNCHANGED <<running, job, busy, output, scale, toSend, sent>>
      /\ backend' = backend /\ ppp' = ppp /\ busy[w]
  BY DEF ReceiveBurst, config, slice, InLoop
<1>2. PICK ps \in Bursts(S) :
        /\ burst' = [burst EXCEPT ![w] = ps]
        /\ buffer' = [buffer EXCEPT ![w] = [b \in DOMAIN @ |->
             IF \A p \in Range(ps) : BufferOf(j, p) # b THEN @[b]
             ELSE IF backend = "dummy" THEN Multiplied(@[b])
             ELSE Reduced(j, CHOOSE p \in Range(ps) : BufferOf(j, p) = b)]]
        /\ got' = [got EXCEPT ![w] = @ + Len(ps)]
        /\ pending' = [pending EXCEPT ![w] = @ \ Range(ps)]
  BY DEF ReceiveBurst
<1>3. Shapes /\ PacketsOk(w) /\ DataOk(w) /\ SentOk
  BY DEF ExchangeInv
<1>4. /\ j \in 1 .. Len(Jobs) /\ Numel(j) # 0
      /\ B \in Nat \ {0} /\ n \in Nat /\ O \in SUBSET Nat /\ O \subseteq 0 .. n - 1
      /\ \A p, q \in O : p % B = q % B => p = q
      /\ \A p \in Nat : BufferOf(j, p) = p % B /\ BufferOf(j, p) \in 0 .. MaxOutstanding - 1
  BY <1>1, <1>3, BusyFacts
<1>5. /\ toSend[w] = {} /\ Range(burst[w]) = {} /\ O = pending[w]
      /\ Cardinality(Unprocessed(w) \ Range(burst[w])) = n - got[w]
  BY <1>1, <1>3, RangeFacts DEF PacketsOk, Shapes, Outstanding
<1> HIDE DEF j, B, n, O, S
<1>6. S \subseteq O /\ \A p \in S : Receivable(w, p)
  BY <1>5 DEF S
<1>7. ps \in Seq(Nat) /\ Range(ps) \subseteq S /\ IsInjective(ps) /\ ps # <<>>
  <2>1. Cardinality(S) \in Nat
    <3>1. IsFiniteSet(0 .. n - 1)
      BY <1>4, FS_Interval
    <3>2. S \in SUBSET (0 .. n - 1)
      BY <1>4, <1>6
    <3> QED BY <3>1, <3>2, FS_Subset, FS_CardinalityType
  <2>2. PICK k \in 1 .. Cardinality(S) : ps \in [1 .. k -> S] /\ IsInjective(ps)
    BY <1>2 DEF Bursts
  <2>3. k \in Nat \ {0}
    BY <2>1, <2>2
  <2>4. ps \in Seq(S) /\ Len(ps) = k
    BY <2>2, <2>3
  <2>5. ps \in Seq(Nat)
    <3>1. S \subseteq Nat
      BY <1>4, <1>6
    <3>2. ps \in [1 .. k -> Nat]
      BY <2>2, <3>1
    <3> QED BY <2>3, <3>2
  <2>6. Range(ps) \subseteq S
    BY <2>2 DEF Range
  <2> QED BY <2>2, <2>3, <2>4, <2>5, <2>6
<1>8. Range(ps) \subseteq O /\ Range(ps) \in SUBSET Nat /\ Len(ps) \in Nat
  <2>1. Range(ps) \subseteq O /\ Range(ps) \in SUBSET Nat
    BY <1>4, <1>6, <1>7
  <2>2. Len(ps) \in Nat
    BY <1>7
  <2> QED BY <2>1, <2>2
<1>9. IsFiniteSet(Range(ps)) /\ Cardinality(Range(ps)) = Len(ps)
  BY <1>7, BurstSize
<1>10. /\ burst'[w] = ps /\ got'[w] = got[w] + Len(ps) /\ pending'[w] = pending[w] \ Range(ps)
       /\ got[w] \in Nat
       /\ \A v \in Workers : v # w =>
            /\ burst'[v] = burst[v] /\ got'[v] = got[v] /\ pending'[v] = pending[v]
            /\ buffer'[v] = buffer[v]
  BY <1>2, <1>3 DEF Shapes
<1>11. Outstanding(w)' = O
  BY <1>1, <1>5, <1>8, <1>10 DEF Outstanding
\* The buffers.
<1>12. \A b \in 0 .. MaxOutstanding - 1 : buffer[w][b] \in Contents
  BY <1>3, BufferFacts
<1> DEFINE new(b) == IF \A p \in Range(ps) : BufferOf(j, p) # b THEN buffer[w][b]
                     ELSE IF backend = "dummy" THEN Multiplied(buffer[w][b])
                     ELSE Reduced(j, CHOOSE p \in Range(ps) : BufferOf(j, p) = b)
<1>13. buffer'[w] = [b \in 0 .. MaxOutstanding - 1 |-> new(b)]
  <2>1. DOMAIN buffer[w] = 0 .. MaxOutstanding - 1 /\ w \in DOMAIN buffer
    BY <1>3 DEF Shapes
  <2> QED BY <1>2, <2>1
<1>14. ASSUME NEW p \in Range(ps)
       PROVE  LET b == BufferOf(j, p)
              IN  /\ b \in 0 .. MaxOutstanding - 1 /\ p \in Nat
                  /\ new(b) = IF backend = "dummy" THEN Multiplied(buffer[w][b])
                              ELSE Reduced(j, p)
                  /\ new(b) \in Contents
                  /\ ppp = "quantizer" => Returns(backend, new(b), j, w, p)
  <2> DEFINE b == BufferOf(j, p)
  <2>1. p \in Nat /\ p \in O /\ p \in pending[w] /\ Receivable(w, p)
    BY <1>4, <1>5, <1>6, <1>7, <1>8
  <2>2. b \in 0 .. MaxOutstanding - 1
    BY <1>4, <2>1
  <2>3. \A q \in Range(ps) : BufferOf(j, q) = b => q = p
    BY <1>4, <1>8, <2>1
  <2>4. (CHOOSE q \in Range(ps) : BufferOf(j, q) = b) = p
    <3> HIDE DEF b
    <3>1. BufferOf(j, p) = b
      BY DEF b
    <3> QED BY <2>3, <3>1
  <2>5. new(b) = IF backend = "dummy" THEN Multiplied(buffer[w][b]) ELSE Reduced(j, p)
    BY <2>4
  <2> HIDE DEF new
  <2>6. buffer[w][b] \in Contents
    BY <1>12, <2>2
  <2>7. CASE backend = "dummy"
    <3>1. ppp = "quantizer" => Carries(backend, buffer[w][b], j, w, p)
      BY <1>1, <1>3, <2>1 DEF DataOk, j
    <3>2. /\ Multiplied(buffer[w][b]) \in Contents
          /\ backend = "dummy" /\ Carries(backend, buffer[w][b], j, w, p) =>
               Returns(backend, Multiplied(buffer[w][b]), j, w, p)
      <4> HIDE DEF b
      <4> QED BY <1>4, <2>1, <2>6, MultipliedFacts
    <3> QED BY <2>1, <2>2, <2>5, <2>7, <3>1, <3>2
  <2>8. CASE backend # "dummy"
    <3>1. Cardinality(Contributions(j, p)) = NumWorkers
      BY <2>1, <2>8 DEF Receivable, j
    <3>2. Reduced(j, p) \in Contents
          /\ (ppp = "quantizer" => Returns(backend, Reduced(j, p), j, w, p))
      BY <1>3, <1>4, <2>1, <2>8, <3>1, ReducedFacts
    <3> QED BY <2>1, <2>2, <2>5, <2>8, <3>2
  <2> QED BY <2>7, <2>8
<1>15. \A b \in 0 .. MaxOutstanding - 1 :
         /\ (\A p \in Range(ps) : BufferOf(j, p) # b) => new(b) = buffer[w][b]
         /\ new(b) \in Contents
  <2> SUFFICES ASSUME NEW b \in 0 .. MaxOutstanding - 1
               PROVE  /\ (\A p \in Range(ps) : BufferOf(j, p) # b) => new(b) = buffer[w][b]
                      /\ new(b) \in Contents
    OBVIOUS
  <2>1. CASE \A p \in Range(ps) : BufferOf(j, p) # b
    BY <1>12, <2>1
  <2>2. CASE \E p \in Range(ps) : BufferOf(j, p) = b
    <3>1. PICK p \in Range(ps) : BufferOf(j, p) = b
      BY <2>2
    <3>2. new(BufferOf(j, p)) \in Contents
      <4> HIDE DEF new
      <4> QED BY <1>14
    <3> QED BY <2>2, <3>1, <3>2
  <2> QED BY <2>1, <2>2
<1> HIDE DEF new
<1>16. Shapes'
  <2>1. buffer'[w] \in [0 .. MaxOutstanding - 1 -> Contents]
    BY <1>13, <1>15
  <2>2. buffer' \in [Workers -> [0 .. MaxOutstanding - 1 -> Contents]]
    <3>1. buffer \in [Workers -> [0 .. MaxOutstanding - 1 -> Contents]]
      BY <1>3 DEF Shapes
    <3>2. DOMAIN buffer' = Workers /\ buffer' = [v \in Workers |-> buffer'[v]]
      BY <1>2, <3>1
    <3>3. \A v \in Workers : buffer'[v] \in [0 .. MaxOutstanding - 1 -> Contents]
      BY <1>10, <2>1, <3>1
    <3> QED BY <3>2, <3>3
  <2>3. burst' \in [Workers -> Seq(Nat)]
    BY <1>2, <1>3, <1>7 DEF Shapes
  <2>4. got' \in [Workers -> Nat]
    BY <1>2, <1>3, <1>8, <1>10 DEF Shapes
  <2>5. pending' \in [Workers -> SUBSET Nat]
    BY <1>2, <1>3 DEF Shapes
  <2> QED BY <1>1, <1>3, <2>2, <2>3, <2>4, <2>5 DEF Shapes
<1>17. PacketsOk(w)'
  <2>1. Unprocessed(w)' = Unprocessed(w)
    BY <1>1, <1>11 DEF Unprocessed, O
  <2>2. Range(ps) \subseteq Unprocessed(w)
    <3>1. ASSUME NEW p \in Range(ps) PROVE p \in Unprocessed(w)
      <4>1. p \in O /\ p \in 0 .. n - 1
        BY <1>4, <1>8
      <4>2. Behind(O, B, p)
        BY <1>4, <4>1, BehindSelf
      <4> QED BY <4>1, <4>2 DEF Unprocessed, O, B, n, j
    <3> QED BY <3>1
  <2> DEFINE U == Unprocessed(w)
  <2>3. IsFiniteSet(U) /\ Cardinality(U) = n - got[w]
    <3>1. U \subseteq 0 .. n - 1
      BY DEF Unprocessed, n, j
    <3>2. IsFiniteSet(0 .. n - 1)
      BY <1>4, FS_Interval
    <3>3. U \ Range(burst[w]) = U
      BY <1>5
    <3> HIDE DEF U
    <3>4. IsFiniteSet(U)
      BY <3>1, <3>2, FS_Subset
    <3> QED BY <1>5, <3>3, <3>4 DEF U
  <2>4. U \cap Range(ps) = Range(ps)
    BY <2>2
  <2>5. Cardinality(U \ Range(ps)) = n - got'[w]
    <3>1. Cardinality(U \ Range(ps)) = Cardinality(U) - Cardinality(U \cap Range(ps))
      <4> HIDE DEF U
      <4> QED BY <2>3, FS_Difference
    <3>2. Cardinality(U \ Range(ps)) = (n - got[w]) - Len(ps)
      <4> HIDE DEF U
      <4> QED BY <1>9, <2>3, <2>4, <3>1
    <3>3. (n - got[w]) - Len(ps) = n - (got[w] + Len(ps))
      <4>1. \A a, b, c \in Int : (a - b) - c = a - (b + c)
        OBVIOUS
      <4>2. n \in Int /\ got[w] \in Int /\ Len(ps) \in Int
        <5>1. n \in Int
          BY <1>4
        <5>2. Len(ps) \in Int
          BY <1>8
        <5>3. got[w] \in Int
          BY <1>3 DEF Shapes
        <5> QED BY <5>1, <5>2, <5>3
      <4> QED BY <4>1, <4>2
    <3> QED BY <1>10, <3>2, <3>3
  <2>6. job'[w] = j /\ busy'[w] /\ toSend'[w] = {} /\ Pkts(ppp', job'[w]) = n
    BY <1>1, <1>5 DEF j, n
  <2>7. /\ Range(burst'[w]) = Range(ps) /\ IsInjective(burst'[w])
        /\ Range(burst'[w]) \cap (pending'[w] \cup toSend'[w]) = {}
        /\ pending'[w] \cap toSend'[w] = {}
    BY <1>7, <1>10, <2>6
  <2>8. \A p, q \in O : BufferOf(j, p) = BufferOf(j, q) => p = q
    BY <1>4
  <2>9. j # 0
    BY <1>4
  <2> QED BY <1>4, <1>11, <2>1, <2>5, <2>6, <2>7, <2>8, <2>9 DEF PacketsOk
<1>18. DataOk(w)'
  <2>1. ASSUME ppp = "quantizer"
        PROVE  /\ \A p \in pending'[w] : Carries(backend, buffer'[w][BufferOf(j, p)], j, w, p)
               /\ \A p \in Range(ps) : Returns(backend, buffer'[w][BufferOf(j, p)], j, w, p)
    <3>1. ASSUME NEW p \in pending'[w]
          PROVE  Carries(backend, buffer'[w][BufferOf(j, p)], j, w, p)
      <4>1. p \in pending[w] /\ p \in O /\ p \notin Range(ps) /\ p \in Nat
        BY <1>4, <1>5, <1>10
      <4>2. \A q \in Range(ps) : BufferOf(j, q) # BufferOf(j, p)
        BY <1>4, <1>8, <4>1
      <4>3. BufferOf(j, p) \in 0 .. MaxOutstanding - 1
        BY <1>4, <4>1
      <4>4. buffer'[w][BufferOf(j, p)] = buffer[w][BufferOf(j, p)]
        BY <1>13, <1>15, <4>2, <4>3
      <4>5. Carries(backend, buffer[w][BufferOf(j, p)], j, w, p)
        BY <1>1, <1>3, <2>1, <4>1 DEF DataOk, j
      <4> QED BY <4>4, <4>5
    <3>2. ASSUME NEW p \in Range(ps)
          PROVE  Returns(backend, buffer'[w][BufferOf(j, p)], j, w, p)
      <4>1. /\ BufferOf(j, p) \in 0 .. MaxOutstanding - 1
            /\ Returns(backend, new(BufferOf(j, p)), j, w, p)
        BY <1>14, <2>1
      <4>2. buffer'[w][BufferOf(j, p)] = new(BufferOf(j, p))
        BY <1>13, <4>1
      <4> QED BY <4>1, <4>2
    <3> QED BY <3>1, <3>2
  <2>2. pending'[w] \cup toSend'[w] = pending'[w] /\ burst'[w] = ps /\ job'[w] = j
    BY <1>1, <1>5, <1>10 DEF j
  <2>3. ASSUME ppp = "quantizer"
        PROVE  /\ scale[w] = [l \in 0 .. NumLtus(j) - 1 |->
                     IF Jobs[j].type = "FLOAT32" /\ ~Behind(O, B, l)
                     THEN Factor(backend, j, w, l) ELSE Unset]
               /\ output[w] = [x \in 0 .. Numel(j) - 1 |->
                      IF ~Behind(O, B, PacketOf(j, x \div PacketNumel))
                      THEN Final(backend, j, w, x) ELSE Before(j, w, x)]
    BY <1>1, <1>3, <2>3 DEF DataOk, Processed, j, O, B
  <2> QED BY <1>1, <1>11, <2>1, <2>2, <2>3 DEF DataOk, Processed, B
<1>19. ASSUME NEW v \in Workers PROVE PacketsOk(v)' /\ DataOk(v)'
  <2>1. PacketsOk(v) /\ DataOk(v)
    BY DEF ExchangeInv
  <2>2. CASE v = w
    BY <1>17, <1>18, <2>2
  <2>3. CASE v # w
    BY <1>1, <1>10, <2>1, <2>3, Frame
  <2> QED BY <2>2, <2>3
<1>20. SentOk'
  <2>1. \A v \in Workers : Outstanding(v)' = Outstanding(v)
    <3>1. ASSUME NEW v \in Workers PROVE Outstanding(v)' = Outstanding(v)
      <4>1. CASE v = w
        BY <1>11, <4>1 DEF O
      <4>2. CASE v # w
        BY <1>1, <1>10, <4>2 DEF Outstanding
      <4> QED BY <4>1, <4>2
    <3> QED BY <3>1
  <2>2. ASSUME NEW c \in sent PROVE c.w \in Workers /\ Outstanding(c.w)' = Outstanding(c.w)
    BY <1>3, <2>1 DEF SentOk
  <2> QED BY <1>1, <1>3, <2>2 DEF SentOk
<1> QED BY <1>16, <1>19, <1>20 DEF ExchangeInv

\* A packet of a burst is processed.
LEMMA ProcessStep ==
  ASSUME ExchangeInv, NEW w \in Workers, ProcessReceived(w)
  PROVE  ExchangeInv'
<1> DEFINE j == job[w]
           B == Batch(j)
           n == Pkts(ppp, j)
           O == Outstanding(w)
           p == Head(burst[w])
           b == BufferOf(j, p)
           t == PostprocessSingle(j, [output |-> output[w], scale |-> scale[w]], p, buffer[w][b])
           in == IF InPlace THEN t.output ELSE Jobs[j].tensor[w]
           next == p + B
           more == next < n
           N == IF more THEN {next} ELSE {}
           ps == toSend[w] \cup N
           pre == PreprocessSingle(j, in, t.scale, next, buffer[w][b])
           bs == IF more THEN [buffer[w] EXCEPT ![b] = pre] ELSE buffer[w]
           last == Len(burst[w]) = 1
<1>1. /\ busy[w] /\ burst[w] # <<>>
      /\ output' = [output EXCEPT ![w] = t.output]
      /\ scale' = [scale EXCEPT ![w] = t.scale]
      /\ buffer' = [buffer EXCEPT ![w] = bs]
      /\ burst' = [burst EXCEPT ![w] = Tail(@)]
      /\ IF last THEN SendBurst(w, j, ps, bs) /\ toSend' = [toSend EXCEPT ![w] = {}]
         ELSE toSend' = [toSend EXCEPT ![w] = ps] /\ UNCHANGED <<pending, sent>>
      /\ UNCHANGED <<config, running, job, busy, got>>
      /\ backend' = backend /\ ppp' = ppp
  <2>1. Reused(j, p) <=> more
    BY PktsFact DEF Reused
  <2>2. ps = IF more THEN toSend[w] \cup {next} ELSE toSend[w]
    OBVIOUS
  <2>3. /\ busy[w] /\ burst[w] # <<>>
        /\ output' = [output EXCEPT ![w] = t.output]
        /\ scale' = [scale EXCEPT ![w] = t.scale]
        /\ burst' = [burst EXCEPT ![w] = Tail(@)]
        /\ UNCHANGED <<config, running, job, busy, got>>
        /\ backend' = backend /\ ppp' = ppp
    BY DEF ProcessReceived, config
  <2>4. buffer' = [buffer EXCEPT ![w] = bs]
    BY <2>1 DEF ProcessReceived
  <2>5. IF last THEN SendBurst(w, j, ps, bs) /\ toSend' = [toSend EXCEPT ![w] = {}]
        ELSE toSend' = [toSend EXCEPT ![w] = ps] /\ UNCHANGED <<pending, sent>>
    <3>1. IF last THEN SendBurst(w, j, IF more THEN toSend[w] \cup {next} ELSE toSend[w], bs)
                       /\ toSend' = [toSend EXCEPT ![w] = {}]
          ELSE toSend' = [toSend EXCEPT ![w] = IF more THEN toSend[w] \cup {next} ELSE toSend[w]]
               /\ UNCHANGED <<pending, sent>>
      BY <2>1 DEF ProcessReceived
    <3> HIDE DEF ps, bs, more, next, last
    <3> QED BY <2>2, <3>1
  <2> QED BY <2>3, <2>4, <2>5
<1>2. Shapes /\ PacketsOk(w) /\ DataOk(w) /\ SentOk
  BY DEF ExchangeInv
<1>3. /\ j \in 1 .. Len(Jobs) /\ Numel(j) # 0
      /\ B \in Nat \ {0} /\ n \in Nat /\ O \in SUBSET Nat /\ O \subseteq 0 .. n - 1
      /\ NumLtus(j) \in Nat /\ B <= NumLtus(j) /\ NumLtus(j) <= n
      /\ \A q, r \in O : q % B = r % B => q = r
      /\ \A q \in Nat : BufferOf(j, q) = q % B /\ BufferOf(j, q) \in 0 .. MaxOutstanding - 1
  BY <1>1, <1>2, BusyFacts
<1>4. /\ p \in Range(burst[w]) /\ p \in Nat
      /\ Tail(burst[w]) \in Seq(Nat) /\ IsInjective(Tail(burst[w]))
      /\ Range(Tail(burst[w])) = Range(burst[w]) \ {p}
      /\ Tail(burst[w]) = <<>> <=> last
  <2>1. burst[w] \in Seq(Nat) /\ IsInjective(burst[w])
    BY <1>1, <1>2 DEF Shapes, PacketsOk
  <2> QED BY <1>1, <2>1, HeadOfBurst
<1>5. /\ pending[w] \cap toSend[w] = {} /\ Range(burst[w]) \cap (pending[w] \cup toSend[w]) = {}
      /\ O = pending[w] \cup Range(burst[w]) \cup toSend[w]
      /\ Cardinality(Unprocessed(w) \ Range(burst[w])) = n - got[w]
  BY <1>1, <1>2 DEF PacketsOk, Outstanding
<1>6. p \in O /\ p \in 0 .. n - 1
  BY <1>3, <1>4, <1>5
<1> DEFINE O2 == (O \ {p}) \cup N
<1>7. /\ O2 \in SUBSET Nat
      /\ \A x \in 0 .. n - 1 : Behind(O2, B, x) <=> Behind(O, B, x) /\ x # p
      /\ \A q, r \in O2 : q % B = r % B => q = r
      /\ next \notin O
  <2>1. /\ O \in SUBSET Nat /\ p \in O /\ n \in Nat /\ B \in Nat \ {0}
        /\ \A q, r \in O : q % B = r % B => q = r
    BY <1>3, <1>6
  <2> HIDE DEF O, B, n, p
  <2>2. OnlyThisChanges(O, B, p, n)
    BY <2>1, BehindStep
  <2>3. O2 = (O \ {p}) \cup (IF p + B < n THEN {p + B} ELSE {}) /\ next = p + B
    OBVIOUS
  <2> HIDE DEF O2, next
  <2> QED BY <2>2, <2>3 DEF OnlyThisChanges
<1>8. /\ next \in Nat /\ next % B = p % B /\ BufferOf(j, next) = b
      /\ next > p
  <2>1. (p + B) % B = p % B /\ p + B \in Nat
    <3> HIDE DEF p, B
    <3> QED BY <1>3, <1>4, Remainders
  <2>2. BufferOf(j, p + B) = (p + B) % B /\ BufferOf(j, p) = p % B
    BY <1>3, <1>4, <2>1
  <2>3. p + B > p
    <3>1. p \in Nat /\ B \in Nat \ {0}
      BY <1>3, <1>4
    <3> HIDE DEF p, B
    <3> QED BY <3>1
  <2> HIDE DEF p, B
  <2> QED BY <2>1, <2>2, <2>3
<1>9. b \in 0 .. MaxOutstanding - 1
  BY <1>3, <1>4
<1>10. buffer[w] \in [0 .. MaxOutstanding - 1 -> Contents] /\ buffer[w][b] \in Contents
  BY <1>2, <1>9, BufferFacts
<1> HIDE DEF j, B, n, O, p, b, t, in, next, pre, last
\* Where the packets are.
<1>11. /\ burst'[w] = Tail(burst[w]) /\ buffer'[w] = bs /\ output'[w] = t.output
       /\ scale'[w] = t.scale
       /\ \A v \in Workers : v # w =>
            /\ burst'[v] = burst[v] /\ buffer'[v] = buffer[v] /\ output'[v] = output[v]
            /\ scale'[v] = scale[v]
  BY <1>1, <1>2 DEF Shapes
<1>12. /\ pending'[w] = IF last THEN pending[w] \cup ps ELSE pending[w]
       /\ toSend'[w] = IF last THEN {} ELSE ps
       /\ \A v \in Workers : v # w => pending'[v] = pending[v] /\ toSend'[v] = toSend[v]
       /\ pending' \in [Workers -> SUBSET Nat] /\ toSend' \in [Workers -> SUBSET Nat]
  <2>1. ps \in SUBSET Nat
    BY <1>2, <1>8 DEF Shapes
  <2>2. pending \in [Workers -> SUBSET Nat] /\ toSend \in [Workers -> SUBSET Nat]
    BY <1>2 DEF Shapes
  <2> HIDE DEF ps, bs
  <2>3. CASE last
    <3>1. pending' = [pending EXCEPT ![w] = @ \cup ps] /\ toSend' = [toSend EXCEPT ![w] = {}]
      BY <1>1, <2>3 DEF SendBurst
    <3> QED BY <2>1, <2>2, <2>3, <3>1
  <2>4. CASE ~last
    BY <1>1, <2>1, <2>2, <2>4
  <2> QED BY <2>3, <2>4
<1>13. /\ Outstanding(w)' = O2 /\ pending'[w] \cup toSend'[w] = pending[w] \cup toSend[w] \cup N
       /\ Range(burst'[w]) = Range(burst[w]) \ {p}
  <2>1. pending'[w] \cup toSend'[w] = pending[w] \cup toSend[w] \cup N
    BY <1>12
  <2>2. Range(burst'[w]) = Range(burst[w]) \ {p}
    BY <1>4, <1>11
  <2>3. p \notin pending[w] \cup toSend[w]
    BY <1>4, <1>5
  <2> HIDE DEF N
  <2> QED BY <1>5, <2>1, <2>2, <2>3 DEF Outstanding
<1>14. /\ O2 \subseteq 0 .. n - 1 /\ N \subseteq {next}
       /\ N # {} => N = {next} /\ more
  <2>1. next \in Nat /\ n \in Nat
    BY <1>3, <1>8
  <2>2. more => next \in 0 .. n - 1
    BY <2>1
  <2>3. N \subseteq {next} /\ (N # {} => N = {next} /\ more)
    OBVIOUS
  <2> HIDE DEF more, N
  <2> QED BY <1>3, <2>2, <2>3
<1>15. PacketsOk(w)'
  <2>1. Unprocessed(w)' \ Range(burst'[w]) = Unprocessed(w) \ Range(burst[w])
    <3>1. Unprocessed(w)' = {x \in 0 .. n - 1 : Behind(O2, B, x)}
      BY <1>1, <1>13 DEF Unprocessed, n, B, j
    <3>2. Unprocessed(w) = {x \in 0 .. n - 1 : Behind(O, B, x)}
      BY DEF Unprocessed, n, B, j, O
    <3> HIDE DEF O2
    <3>3. Unprocessed(w)' = Unprocessed(w) \ {p}
      BY <1>7, <3>1, <3>2
    <3> QED BY <1>4, <1>13, <3>3
  <2>2. job'[w] = j /\ busy'[w] /\ got'[w] = got[w] /\ Pkts(ppp', job'[w]) = n
    BY <1>1 DEF j, n
  <2>3. Cardinality(Unprocessed(w)' \ Range(burst'[w])) = Pkts(ppp', job'[w]) - got'[w]
    BY <1>5, <2>1, <2>2
  <2>4. pending'[w] \cap toSend'[w] = {}
    <3>1. \A q \in N : q \notin pending[w]
      BY <1>5, <1>7, <1>14
    <3> HIDE DEF N
    <3> QED BY <1>5, <1>12, <3>1
  <2>5. Range(burst'[w]) \cap (pending'[w] \cup toSend'[w]) = {}
    <3>1. \A q \in N : q \notin Range(burst[w])
      BY <1>5, <1>7, <1>14
    <3> HIDE DEF N
    <3> QED BY <1>5, <1>13, <3>1
  <2>6. IsInjective(burst'[w])
    BY <1>4, <1>11
  <2>7. \A q, r \in O2 : BufferOf(j, q) = BufferOf(j, r) => q = r
    <3>1. \A q \in O2 : BufferOf(j, q) = q % B
      BY <1>3, <1>7
    <3> HIDE DEF O2
    <3> QED BY <1>7, <3>1
  <2>8. burst'[w] = <<>> => toSend'[w] = {}
    BY <1>4, <1>11, <1>12
  <2>9. j # 0
    BY <1>3
  <2>10. /\ Outstanding(w)' \subseteq 0 .. Pkts(ppp', job'[w]) - 1
         /\ \A q, r \in Outstanding(w)' : BufferOf(job'[w], q) = BufferOf(job'[w], r) => q = r
    <3> HIDE DEF O2
    <3> QED BY <1>13, <1>14, <2>2, <2>7
  <2> QED BY <1>3, <2>2, <2>3, <2>4, <2>5, <2>6, <2>8, <2>9, <2>10 DEF PacketsOk
\* The data.
<1>16. ASSUME ppp = "quantizer"
       PROVE  /\ \A q \in pending[w] \cup toSend[w] :
                   Carries(backend, buffer[w][BufferOf(j, q)], j, w, q)
              /\ \A q \in Range(burst[w]) :
                   Returns(backend, buffer[w][BufferOf(j, q)], j, w, q)
              /\ scale[w] = [l \in 0 .. NumLtus(j) - 1 |->
                     IF Jobs[j].type = "FLOAT32" /\ ~Behind(O, B, l)
                     THEN Factor(backend, j, w, l) ELSE Unset]
              /\ output[w] = [x \in 0 .. Numel(j) - 1 |->
                      IF ~Behind(O, B, PacketOf(j, x \div PacketNumel))
                      THEN Final(backend, j, w, x) ELSE Before(j, w, x)]
  BY <1>1, <1>2, <1>16 DEF DataOk, Processed, j, O, B
<1>17. ASSUME ppp = "quantizer"
       PROVE  t = [output |-> [x \in 0 .. Numel(j) - 1 |->
                                 IF PacketOf(j, x \div PacketNumel) = p
                                 THEN Final(backend, j, w, x) ELSE output[w][x]],
                   scale  |-> [l \in 0 .. NumLtus(j) - 1 |->
                                 IF Jobs[j].type = "FLOAT32" /\ l = p
                                 THEN Factor(backend, j, w, l) ELSE scale[w][l]]]
  <2>1. Returns(backend, buffer[w][b], j, w, p)
    BY <1>4, <1>16, <1>17 DEF b
  <2>2. DOMAIN output[w] = 0 .. Numel(j) - 1 /\ DOMAIN scale[w] = 0 .. NumLtus(j) - 1
    BY <1>16, <1>17
  <2>5. \A l \in 0 .. NumLtus(j) - 1 : scale[w][l] =
            IF Jobs[j].type = "FLOAT32" /\ ~Behind(O, B, l)
            THEN Factor(backend, j, w, l) ELSE Unset
    BY <1>16, <1>17
  <2>3. ASSUME Jobs[j].type = "FLOAT32", LtuOf(j, p) >= 0
        PROVE  scale[w][LtuOf(j, p)] = Factor(backend, j, w, LtuOf(j, p))
    <3> DEFINE l == p - B
    <3>1. LtuOf(j, p) = l
      BY <2>3 DEF LtuOf, B
    <3>2. l \in Nat /\ l + B = p
      <4>1. p \in Nat /\ B \in Nat
        BY <1>3, <1>4
      <4>2. l >= 0
        BY <2>3, <3>1
      <4> QED BY <4>1, <4>2
    <3>3. ~Behind(O, B, l)
      <4> HIDE DEF l
      <4>1. l + B \in O
        BY <1>6, <3>2
      <4> QED BY <1>3, <3>2, <4>1, BehindBefore
    <3>4. l < NumLtus(j)
      <4>1. n = NumLtus(j) + B
        BY <1>3, <1>17, <2>3, SliceFacts DEF n, B
      <4> QED BY <1>3, <1>6, <4>1
    <3>5. l \in 0 .. NumLtus(j) - 1
      <4> HIDE DEF l
      <4> QED BY <1>3, <3>2, <3>4
    <3> HIDE DEF l
    <3> QED BY <2>3, <2>5, <3>1, <3>3, <3>5
  <2>4. /\ j \in 1 .. Len(Jobs) /\ Numel(j) # 0 /\ p \in Nat
    BY <1>3, <1>4
  <2> DEFINE bf  == buffer[w][b]
             t0  == [output |-> output[w], scale |-> scale[w]]
  <2>7. t = PostprocessSingle(j, t0, p, bf) /\ t0.output = output[w] /\ t0.scale = scale[w]
    BY DEF t
  <2>8. /\ Returns(backend, bf, j, w, p)
        /\ DOMAIN t0.output = 0 .. Numel(j) - 1 /\ DOMAIN t0.scale = 0 .. NumLtus(j) - 1
        /\ Jobs[j].type = "FLOAT32" /\ LtuOf(j, p) >= 0 =>
              t0.scale[LtuOf(j, p)] = Factor(backend, j, w, LtuOf(j, p))
    BY <2>1, <2>2, <2>3
  <2> HIDE DEF bf, t0
  <2>6. PostprocessSingle(j, t0, p, bf) =
          [output |-> [x \in 0 .. Numel(j) - 1 |->
                         IF PacketOf(j, x \div PacketNumel) = p
                         THEN Final(backend, j, w, x) ELSE t0.output[x]],
           scale  |-> [l \in 0 .. NumLtus(j) - 1 |->
                         IF Jobs[j].type = "FLOAT32" /\ l = p
                         THEN Factor(backend, j, w, l) ELSE t0.scale[l]]]
    BY <1>17, <2>4, <2>8, PostprocessFacts
  <2> QED BY <2>6, <2>7
<1>18. ASSUME NEW l \in 0 .. NumLtus(j) - 1 PROVE l \in 0 .. n - 1
  <2>1. NumLtus(j) \in Nat /\ n \in Nat /\ NumLtus(j) <= n
    BY <1>3
  <2> QED BY <2>1
<1>19. ASSUME ppp = "quantizer", NEW x \in 0 .. Numel(j) - 1
       PROVE  PacketOf(j, x \div PacketNumel) \in 0 .. n - 1
  <2>1. x \div PacketNumel \in 0 .. NumLtus(j) - 1
    BY <1>3, LtuOfElement
  <2>2. CASE Jobs[j].type = "INT32"
    BY <1>18, <2>1, <2>2 DEF PacketOf
  <2>3. CASE Jobs[j].type # "INT32"
    <3>1. Jobs[j].type = "FLOAT32"
      BY <1>3, <2>3, JobFacts
    <3>2. n = NumLtus(j) + B
      BY <1>3, <1>19, <3>1, SliceFacts DEF n, B
    <3>3. PacketOf(j, x \div PacketNumel) = (x \div PacketNumel) + B
      BY <2>3 DEF PacketOf, B
    <3> DEFINE l == x \div PacketNumel
    <3>4. l \in 0 .. NumLtus(j) - 1 /\ PacketOf(j, l) = l + B
      BY <2>1, <3>3
    <3>5. NumLtus(j) \in Nat /\ B \in Nat
      BY <1>3
    <3> HIDE DEF l
    <3>6. l + B \in 0 .. n - 1
      BY <3>2, <3>4, <3>5
    <3> QED BY <3>4, <3>6 DEF l
  <2> QED BY <2>2, <2>3
<1>20. ASSUME ppp = "quantizer"
       PROVE  /\ t.scale = [l \in 0 .. NumLtus(j) - 1 |->
                     IF Jobs[j].type = "FLOAT32" /\ ~Behind(O2, B, l)
                     THEN Factor(backend, j, w, l) ELSE Unset]
              /\ t.output = [x \in 0 .. Numel(j) - 1 |->
                      IF ~Behind(O2, B, PacketOf(j, x \div PacketNumel))
                      THEN Final(backend, j, w, x) ELSE Before(j, w, x)]
  <2>1. \A x \in 0 .. n - 1 : ~Behind(O2, B, x) <=> ~Behind(O, B, x) \/ x = p
    BY <1>7
  <2> HIDE DEF O2
  <2>2. t.scale = [l \in 0 .. NumLtus(j) - 1 |->
                     IF Jobs[j].type = "FLOAT32" /\ ~Behind(O2, B, l)
                     THEN Factor(backend, j, w, l) ELSE Unset]
    <3>1. t.scale = [l \in 0 .. NumLtus(j) - 1 |->
                     IF Jobs[j].type = "FLOAT32" /\ l = p
                     THEN Factor(backend, j, w, l) ELSE scale[w][l]]
      BY <1>17, <1>20
    <3>2. \A l \in 0 .. NumLtus(j) - 1 : scale[w][l] =
            IF Jobs[j].type = "FLOAT32" /\ ~Behind(O, B, l)
            THEN Factor(backend, j, w, l) ELSE Unset
      BY <1>16, <1>20
    <3>3. \A l \in 0 .. NumLtus(j) - 1 : ~Behind(O2, B, l) <=> ~Behind(O, B, l) \/ l = p
      BY <1>18, <2>1
    <3> QED BY <3>1, <3>2, <3>3
  <2>3. t.output = [x \in 0 .. Numel(j) - 1 |->
                      IF ~Behind(O2, B, PacketOf(j, x \div PacketNumel))
                      THEN Final(backend, j, w, x) ELSE Before(j, w, x)]
    <3>1. t.output = [x \in 0 .. Numel(j) - 1 |->
                        IF PacketOf(j, x \div PacketNumel) = p
                        THEN Final(backend, j, w, x) ELSE output[w][x]]
      BY <1>17, <1>20
    <3>2. \A x \in 0 .. Numel(j) - 1 : output[w][x] =
            IF ~Behind(O, B, PacketOf(j, x \div PacketNumel))
            THEN Final(backend, j, w, x) ELSE Before(j, w, x)
      BY <1>16, <1>20
    <3>3. \A x \in 0 .. Numel(j) - 1 :
            ~Behind(O2, B, PacketOf(j, x \div PacketNumel)) <=>
              \/ ~Behind(O, B, PacketOf(j, x \div PacketNumel))
              \/ PacketOf(j, x \div PacketNumel) = p
      BY <1>19, <1>20, <2>1
    <3> QED BY <3>1, <3>2, <3>3
  <2> QED BY <2>2, <2>3
\* The tensor and the factors that the next packet is built from.
<1>21. ASSUME ppp = "quantizer", more
       PROVE  SourceOk(backend, in, t.scale, j, w, next)
  <2>1. next \in O2 /\ next \in 0 .. n - 1
    <3>1. next \in O2
      BY <1>21
    <3> QED BY <1>14, <3>1
  <2>2. ASSUME NEW x \in 0 .. Numel(j) - 1, NEW q \in O2, q <= PacketOf(j, x \div PacketNumel),
               q % B = PacketOf(j, x \div PacketNumel) % B
        PROVE  in[x] = Jobs[j].tensor[w][x]
    <3>1. Behind(O2, B, PacketOf(j, x \div PacketNumel))
      BY <2>2 DEF Behind
    <3>2. t.output[x] = Before(j, w, x)
      BY <1>20, <1>21, <3>1
    <3> QED BY <3>2 DEF in, Before
  <2>3. ASSUME NEW l \in Nat, NEW i \in InLtu(j, l), PacketOf(j, l) = next \/ PacketOf(j, l) = next + B
        PROVE  in[Offset(l, i)] = Jobs[j].tensor[w][Offset(l, i)]
    <3>1. Offset(l, i) \in 0 .. Numel(j) - 1 /\ Offset(l, i) \div PacketNumel = l
      BY <1>3, ElementOfLtu
    <3>2. (next + B) % B = next % B
      BY <1>3, <1>8, Remainders
    <3>4. next \in Nat /\ B \in Nat
      BY <1>3, <1>8
    <3>5. next <= next /\ next <= next + B
      <4> HIDE DEF next
      <4> QED BY <3>4
    <3>3. next <= PacketOf(j, l) /\ next % B = PacketOf(j, l) % B
      BY <2>3, <3>2, <3>5
    <3> HIDE DEF O2
    <3> QED BY <2>1, <2>2, <3>1, <3>3
  <2>4. CASE Jobs[j].type = "INT32"
    <3>1. /\ LtuOf(j, next) = next /\ PacketOf(j, next) = next /\ ~HasExponent(j, next)
          /\ Jobs[j].type # "FLOAT32"
      BY <2>4 DEF LtuOf, PacketOf, HasExponent
    <3>2. \A i \in Elements : HasElement(j, next, i) =>
            in[Offset(LtuOf(j, next), i)] = Jobs[j].tensor[w][Offset(LtuOf(j, next), i)]
      BY <1>8, <2>3, <3>1 DEF HasElement
    <3> QED BY <3>1, <3>2 DEF SourceOk
  <2>5. CASE Jobs[j].type = "FLOAT32"
    <3>1. LtuOf(j, next) = p
      BY <1>3, <1>4, <2>5 DEF LtuOf, next, B
    <3>2. PacketOf(j, p) = next /\ PacketOf(j, next) = next + B
      BY <2>5 DEF PacketOf, next, B
    <3>3. n = NumLtus(j) + B
      BY <1>3, <1>21, <2>5, SliceFacts DEF n, B
    <3>4. p \in 0 .. NumLtus(j) - 1
      <4>1. p + B < n
        BY <1>21 DEF next
      <4>2. p \in Nat /\ B \in Nat /\ NumLtus(j) \in Nat
        BY <1>3, <1>4
      <4> QED BY <3>3, <4>1, <4>2
    <3>5. t.scale[p] = Factor(backend, j, w, p)
      <4>1. t.scale = [l \in 0 .. NumLtus(j) - 1 |->
                         IF Jobs[j].type = "FLOAT32" /\ l = p
                         THEN Factor(backend, j, w, l) ELSE scale[w][l]]
        BY <1>17, <1>21
      <4> QED BY <2>5, <3>4, <4>1
    <3>6. \A i \in Elements : HasElement(j, next, i) =>
            in[Offset(LtuOf(j, next), i)] = Jobs[j].tensor[w][Offset(LtuOf(j, next), i)]
      BY <1>4, <2>3, <3>1, <3>2 DEF HasElement
    <3>7. \A i \in InLtu(j, next) : in[Offset(next, i)] = Jobs[j].tensor[w][Offset(next, i)]
      BY <1>8, <2>3, <3>2
    <3> QED BY <3>1, <3>5, <3>6, <3>7 DEF SourceOk
  <2> QED BY <1>3, <2>4, <2>5, JobFacts
<1>22. more => /\ pre \in Contents
               /\ ppp = "quantizer" => Carries(backend, pre, j, w, next)
  <2> SUFFICES ASSUME more
               PROVE  /\ pre \in Contents
                      /\ ppp = "quantizer" => Carries(backend, pre, j, w, next)
    OBVIOUS
  <2>1. CASE ppp = "quantizer"
    <3>1. SourceOk(backend, in, t.scale, j, w, next)
      BY <1>21, <2>1
    <3> QED BY <1>3, <1>8, <1>10, <2>1, <3>1, PreprocessFacts DEF pre
  <2>2. CASE ppp # "quantizer"
    <3>1. ppp \in PPPs
      BY <1>2 DEF Shapes
    <3> QED BY <1>10, <2>2, <3>1, BypassFacts DEF pre
  <2> QED BY <2>1, <2>2
<1>23. /\ bs \in [0 .. MaxOutstanding - 1 -> Contents]
       /\ \A c \in 0 .. MaxOutstanding - 1 : c # b => bs[c] = buffer[w][c]
       /\ more => bs[b] = pre
  BY <1>9, <1>10, <1>22
<1>24. ASSUME ppp = "quantizer", NEW q \in pending[w] \cup toSend[w] \cup N
       PROVE  Carries(backend, bs[BufferOf(j, q)], j, w, q)
  <2>1. CASE q \in N
    <3>1. q = next /\ more
      BY <1>14, <2>1
    <3> QED BY <1>8, <1>22, <1>23, <1>24, <3>1
  <2>2. CASE q \in pending[w] \cup toSend[w]
    <3>0. q \notin Range(burst[w]) /\ q \in O
      <4> HIDE DEF N
      <4> QED BY <1>5, <2>2
    <3>1. q \in O /\ q # p /\ q \in Nat
      <4> HIDE DEF N
      <4> QED BY <1>3, <1>4, <3>0
    <3>2. BufferOf(j, q) # b /\ BufferOf(j, q) \in 0 .. MaxOutstanding - 1
      BY <1>3, <1>4, <1>6, <3>1 DEF b
    <3>3. Carries(backend, buffer[w][BufferOf(j, q)], j, w, q)
      BY <1>16, <1>24, <2>2
    <3>4. bs[BufferOf(j, q)] = buffer[w][BufferOf(j, q)]
      BY <1>23, <3>2
    <3> QED BY <3>3, <3>4
  <2> QED BY <2>1, <2>2
<1> HIDE DEF bs
<1>25. DataOk(w)'
  <2>1. ASSUME ppp = "quantizer", NEW q \in Range(burst[w]) \ {p}
        PROVE  Returns(backend, bs[BufferOf(j, q)], j, w, q)
    <3>1. q \in O /\ q # p /\ q \in Nat
      BY <1>3, <1>5
    <3>2. BufferOf(j, q) # b /\ BufferOf(j, q) \in 0 .. MaxOutstanding - 1
      BY <1>3, <1>4, <1>6, <3>1 DEF b
    <3>3. Returns(backend, buffer[w][BufferOf(j, q)], j, w, q)
      BY <1>16, <2>1
    <3>4. bs[BufferOf(j, q)] = buffer[w][BufferOf(j, q)]
      BY <1>23, <3>2
    <3> QED BY <3>3, <3>4
  <2> HIDE DEF O2, N
  <2>2. ASSUME ppp = "quantizer"
        PROVE  /\ \A q \in pending'[w] \cup toSend'[w] :
                    Carries(backend, buffer'[w][BufferOf(j, q)], j, w, q)
               /\ \A q \in Range(burst'[w]) :
                    Returns(backend, buffer'[w][BufferOf(j, q)], j, w, q)
               /\ scale'[w] = [l \in 0 .. NumLtus(j) - 1 |->
                     IF Jobs[j].type = "FLOAT32" /\ ~Behind(O2, B, l)
                     THEN Factor(backend, j, w, l) ELSE Unset]
               /\ output'[w] = [x \in 0 .. Numel(j) - 1 |->
                      IF ~Behind(O2, B, PacketOf(j, x \div PacketNumel))
                      THEN Final(backend, j, w, x) ELSE Before(j, w, x)]
    BY <1>11, <1>13, <1>20, <1>24, <2>1, <2>2
  <2>3. job'[w] = j
    BY <1>1 DEF j
  <2> QED BY <1>1, <1>13, <2>2, <2>3 DEF DataOk, Processed, B
<1>26. Shapes'
  <2>1. buffer' \in [Workers -> [0 .. MaxOutstanding - 1 -> Contents]]
    BY <1>1, <1>2, <1>23 DEF Shapes
  <2>2. burst' \in [Workers -> Seq(Nat)]
    BY <1>1, <1>2, <1>4 DEF Shapes
  <2>3. DOMAIN output' = Workers /\ DOMAIN scale' = Workers
    BY <1>1, <1>2 DEF Shapes
  <2> QED BY <1>1, <1>2, <1>12, <2>1, <2>2, <2>3 DEF Shapes
<1>27. ASSUME NEW v \in Workers PROVE PacketsOk(v)' /\ DataOk(v)'
  <2>1. PacketsOk(v) /\ DataOk(v)
    BY DEF ExchangeInv
  <2>2. CASE v = w
    BY <1>15, <1>25, <2>2
  <2>3. CASE v # w
    <3>1. /\ running'[v] = running[v] /\ busy'[v] = busy[v] /\ job'[v] = job[v]
          /\ got'[v] = got[v] /\ UNCHANGED config
      BY <1>1
    <3> QED BY <1>11, <1>12, <2>1, <2>3, <3>1, Frame
  <2> QED BY <2>2, <2>3
<1>28. SentOk'
  <2> DEFINE new == {[w |-> w, job |-> j, pkt |-> q, content |-> bs[BufferOf(j, q)]] : q \in ps}
  <2>1. \/ sent' = sent
        \/ last /\ sent' = sent \cup new
    <3>1. CASE last
      BY <1>1, <3>1 DEF SendBurst
    <3>2. CASE ~last
      BY <1>1, <3>2
    <3> QED BY <3>1, <3>2
  <2>2. job' = job /\ busy' = busy /\ job'[w] = j
    BY <1>1 DEF j
  <2>3. ASSUME NEW c \in sent
        PROVE  /\ c.w \in Workers /\ c.job \in 1 .. job'[c.w] /\ c.content \in Contents
               /\ c.pkt \in 0 .. Pkts(ppp, c.job) - 1
               /\ ppp = "quantizer" => Carries(backend, c.content, c.job, c.w, c.pkt)
               /\ c.w = w /\ c.job = j => c.pkt \notin ps
               /\ busy'[c.w] /\ c.job = job'[c.w] =>
                    /\ c.pkt \notin toSend'[c.w]
                    /\ \A q \in Outstanding(c.w)' :
                         BufferOf(c.job, q) = BufferOf(c.job, c.pkt) => c.pkt <= q
    <3>1. /\ c.w \in Workers /\ c.job \in 1 .. job[c.w] /\ c.content \in Contents
          /\ c.pkt \in 0 .. Pkts(ppp, c.job) - 1
          /\ ppp = "quantizer" => Carries(backend, c.content, c.job, c.w, c.pkt)
          /\ busy[c.w] /\ c.job = job[c.w] =>
               /\ c.pkt \notin toSend[c.w]
               /\ \A q \in Outstanding(c.w) :
                    BufferOf(c.job, q) = BufferOf(c.job, c.pkt) => c.pkt <= q
      BY <1>2 DEF SentOk
    <3>2. ASSUME c.w = w, c.job = j
          PROVE  /\ c.pkt \notin ps /\ c.pkt \notin toSend'[w]
                 /\ \A q \in O2 : BufferOf(j, q) = BufferOf(j, c.pkt) => c.pkt <= q
      <4>1. /\ c.pkt \notin toSend[w] /\ c.pkt \in 0 .. n - 1
            /\ \A q \in O : BufferOf(j, q) = BufferOf(j, c.pkt) => c.pkt <= q
        BY <1>1, <3>1, <3>2 DEF n, j, O
      <4>2. c.pkt \in Nat
        BY <1>3, <4>1
      <4>3. BufferOf(j, c.pkt) = b => c.pkt <= p
        BY <1>6, <4>1 DEF b
      <4>4. c.pkt # next
        BY <1>4, <1>8, <4>2, <4>3
      <4>5. c.pkt \notin ps
        BY <1>14, <4>1, <4>4
      <4>6. ASSUME NEW q \in O2, BufferOf(j, q) = BufferOf(j, c.pkt) PROVE c.pkt <= q
        <5>1. CASE q \in O
          BY <4>1, <4>6, <5>1
        <5>2. CASE q \notin O
          <6>1. q = next
            BY <1>14, <5>2
          <6> QED BY <1>4, <1>8, <4>2, <4>3, <4>6, <6>1
        <5> QED BY <5>1, <5>2
      <4> HIDE DEF ps, O2
      <4> QED BY <1>12, <4>5, <4>6
    <3>3. CASE c.w = w
      <4>1. Outstanding(c.w)' = O2
        BY <1>13, <3>3 DEF Outstanding
      <4> HIDE DEF O2, ps
      <4> QED BY <2>2, <3>1, <3>2, <3>3, <4>1
    <3>4. CASE c.w # w
      <4>1. Outstanding(c.w)' = Outstanding(c.w) /\ toSend'[c.w] = toSend[c.w]
        BY <1>11, <1>12, <3>1, <3>4 DEF Outstanding
      <4> QED BY <2>2, <3>1, <3>4, <4>1
    <3> QED BY <3>3, <3>4
  <2>4. ASSUME last, NEW c \in new
        PROVE  /\ c.w = w /\ c.job = j /\ c.pkt \in ps /\ c.content = bs[BufferOf(j, c.pkt)]
               /\ c.w \in Workers /\ c.job \in 1 .. job'[c.w] /\ c.content \in Contents
               /\ c.pkt \in 0 .. Pkts(ppp, c.job) - 1
               /\ ppp = "quantizer" => Carries(backend, c.content, c.job, c.w, c.pkt)
               /\ c.pkt \notin toSend'[c.w]
               /\ \A q \in Outstanding(c.w)' :
                    BufferOf(c.job, q) = BufferOf(c.job, c.pkt) => c.pkt <= q
    <3>1. PICK q \in ps : c = [w |-> w, job |-> j, pkt |-> q, content |-> bs[BufferOf(j, q)]]
      BY <2>4
    <3>2. c.w = w /\ c.job = j /\ c.pkt = q /\ c.content = bs[BufferOf(j, q)]
      BY <3>1
    <3>3. q \in pending[w] \cup toSend[w] \cup N /\ q \in O2
      <4>1. q \in pending[w] \cup toSend[w] \cup N
        OBVIOUS
      <4>2. q \in Outstanding(w)'
        BY <1>13, <4>1 DEF Outstanding
      <4> QED BY <1>13, <4>1, <4>2
    <3>4. q \in Nat /\ q \in 0 .. n - 1 /\ BufferOf(j, q) \in 0 .. MaxOutstanding - 1
      BY <1>3, <1>7, <1>14, <3>3
    <3>5. bs[BufferOf(j, q)] \in Contents
      BY <1>23, <3>4
    <3>6. ppp = "quantizer" => Carries(backend, bs[BufferOf(j, q)], j, w, q)
      BY <1>24, <3>3
    <3>7. \A r \in O2 : BufferOf(j, r) = BufferOf(j, q) => q <= r
      <4>1. \A r \in O2 : BufferOf(j, r) = r % B
        BY <1>3, <1>7
      <4> HIDE DEF O2
      <4>2. \A r \in O2 : BufferOf(j, r) = BufferOf(j, q) => r = q
        BY <1>7, <3>3, <4>1
      <4> QED BY <3>4, <4>2
    <3>8. Outstanding(c.w)' = O2 /\ toSend'[c.w] = {}
      BY <1>12, <1>13, <2>4, <3>2 DEF Outstanding
    <3>9. c.job \in 1 .. job'[c.w] /\ c.pkt \in 0 .. Pkts(ppp, c.job) - 1
      <4>1. job'[c.w] = j /\ c.job = j /\ c.pkt = q
        BY <2>2, <3>2
      <4>2. j \in 1 .. j
        BY <1>3
      <4>3. q \in 0 .. Pkts(ppp, j) - 1
        BY <3>4 DEF n
      <4> HIDE DEF new
      <4> QED BY <4>1, <4>2, <4>3
    <3>10. c.content \in Contents
           /\ (ppp = "quantizer" => Carries(backend, c.content, c.job, c.w, c.pkt))
      BY <3>2, <3>5, <3>6
    <3>11. \A r \in Outstanding(c.w)' : BufferOf(c.job, r) = BufferOf(c.job, c.pkt) => c.pkt <= r
      <4> HIDE DEF O2
      <4> QED BY <3>2, <3>7, <3>8
    <3> HIDE DEF O2, ps, new
    <3> QED BY <3>1, <3>2, <3>8, <3>9, <3>10, <3>11
  <2>5. \A c, d \in sent' : c.w = d.w /\ c.job = d.job /\ c.pkt = d.pkt => c = d
    <3>1. \A c, d \in sent : c.w = d.w /\ c.job = d.job /\ c.pkt = d.pkt => c = d
      BY <1>2 DEF SentOk
    <3>2. \A c, d \in new : c.pkt = d.pkt => c = d
      OBVIOUS
    <3> HIDE DEF new, ps
    <3>3. last => \A c \in sent, d \in new : ~(c.w = d.w /\ c.job = d.job /\ c.pkt = d.pkt)
      BY <2>3, <2>4
    <3> QED BY <2>1, <3>1, <3>2, <3>3
  <2> HIDE DEF new, ps
  <2> QED BY <1>1, <2>1, <2>3, <2>4, <2>5 DEF SentOk
<1> QED BY <1>26, <1>27, <1>28 DEF ExchangeInv

\* Every step keeps the invariant.
LEMMA NextInv == ExchangeInv /\ [Next]_vars => ExchangeInv'
<1> SUFFICES ASSUME ExchangeInv, [Next]_vars PROVE ExchangeInv'
  OBVIOUS
<1>1. CASE Next
  <2>1. PICK w \in Workers : \/ StartSlice(w) \/ ReceiveBurst(w) \/ ProcessReceived(w)
                             \/ FinishSlice(w) \/ Stop(w)
    BY <1>1 DEF Next
  <2>2. CASE StartSlice(w)
    BY <2>2, StartStep
  <2>3. CASE ReceiveBurst(w)
    BY <2>3, ReceiveStep
  <2>4. CASE ProcessReceived(w)
    BY <2>4, ProcessStep
  <2>5. CASE FinishSlice(w)
    BY <2>5, FinishStep
  <2>6. CASE Stop(w)
    BY <2>6, StopStep
  <2> QED BY <2>1, <2>2, <2>3, <2>4, <2>5, <2>6
<1>2. CASE UNCHANGED vars
  <2>1. /\ UNCHANGED <<config, running, job, busy, output, scale, buffer, pending, burst,
                       toSend, got, sent>>
        /\ backend' = backend /\ ppp' = ppp
    BY <1>2 DEF vars, config, slice
  <2>2. Shapes'
    BY <2>1 DEF ExchangeInv, Shapes
  <2>3. ASSUME NEW v \in Workers PROVE PacketsOk(v)' /\ DataOk(v)'
    <3>1. PacketsOk(v) /\ DataOk(v)
      BY DEF ExchangeInv
    <3> QED BY <2>1, <3>1, Frame
  <2>4. SentOk'
    BY <2>1 DEF ExchangeInv, SentOk, Outstanding
  <2> QED BY <2>2, <2>3, <2>4 DEF ExchangeInv
<1> QED BY <1>1, <1>2

\* The packets of every thread are in one place and one per buffer, buffers and
\* contributions carry what the tensors say, and scaling factors and output are
\* functions of the packets that are processed.
THEOREM ExchangeInvariant == Spec => []ExchangeInv
BY InitInv, NextInv, PTL DEF Spec

-----------------------------------------------------------------------------
(* What follows from the invariant.                                         *)

\* How many packets are still to come.
LEMMA CountFacts ==
  ASSUME Shapes, NEW w \in Workers, PacketsOk(w), busy[w]
  PROVE  /\ got[w] \in Nat /\ got[w] <= Pkts(ppp, job[w])
         /\ got[w] < Pkts(ppp, job[w]) => Outstanding(w) # {}
         /\ got[w] = Pkts(ppp, job[w]) /\ burst[w] = <<>> => Unprocessed(w) = {}
<1> DEFINE j == job[w]
           n == Pkts(ppp, j)
           U == Unprocessed(w) \ Range(burst[w])
<1>1. n \in Nat /\ got[w] \in Nat
  BY BusyFacts DEF Shapes
<1>2. Cardinality(U) = n - got[w]
  BY DEF PacketsOk
<1>3. Unprocessed(w) \subseteq 0 .. n - 1
  BY DEF Unprocessed
<1>4. \A x \in Unprocessed(w) : Outstanding(w) # {}
  BY DEF Unprocessed, Behind
<1>5. burst[w] = <<>> => Range(burst[w]) = {}
  BY RangeFacts DEF Shapes
<1>6. burst[w] = <<>> => U = Unprocessed(w)
  BY <1>5
<1>7. U \subseteq Unprocessed(w)
  OBVIOUS
<1> HIDE DEF n, U
<1>8. IsFiniteSet(U) /\ Cardinality(U) \in Nat
  <2>1. IsFiniteSet(0 .. n - 1)
    BY <1>1, FS_Interval
  <2>2. IsFiniteSet(U)
    BY <1>3, <1>7, <2>1, FS_Subset
  <2> QED BY <2>2, FS_CardinalityType
<1>9. Cardinality(U) = 0 <=> U = {}
  BY <1>8, FS_EmptySet
<1>10. got[w] < n => Outstanding(w) # {}
  <2>1. got[w] < n => U # {}
    BY <1>1, <1>2, <1>9
  <2> QED BY <1>4, <1>7, <2>1
<1>11. got[w] <= n
  BY <1>1, <1>2, <1>8
<1>12. got[w] = n => U = {}
  BY <1>1, <1>2, <1>9
<1> QED BY <1>1, <1>6, <1>10, <1>11, <1>12 DEF n

\* The type invariant.
LEMMA TypeCorrect == ExchangeInv => TypeOK
<1> SUFFICES ASSUME ExchangeInv PROVE TypeOK
  OBVIOUS
<1>1. Shapes
  BY DEF ExchangeInv
<1>2. ASSUME NEW w \in Workers
      PROVE  /\ Outstanding(w) \subseteq Nat
             /\ \A b \in DOMAIN buffer[w] :
                  \A i \in Elements : buffer[w][b].entries[i] \in Int32
             /\ busy[w] => /\ got[w] \in 0 .. TotalPkts(job[w])
                           /\ Outstanding(w) \subseteq 0 .. TotalPkts(job[w]) - 1
  <2>1. PacketsOk(w)
    BY DEF ExchangeInv
  <2>2. Outstanding(w) \subseteq Nat
    <3>1. burst[w] \in Seq(Nat) /\ pending[w] \subseteq Nat /\ toSend[w] \subseteq Nat
      BY <1>1 DEF Shapes
    <3>2. Range(burst[w]) \subseteq Nat
      BY <3>1, RangeFacts
    <3> QED BY <3>1, <3>2 DEF Outstanding
  <2>3. \A b \in DOMAIN buffer[w] : \A i \in Elements : buffer[w][b].entries[i] \in Int32
    <3>1. buffer[w] \in [0 .. MaxOutstanding - 1 -> Contents]
      BY <1>1 DEF Shapes
    <3>2. \A c \in Contents : \A i \in Elements : c.entries[i] \in Int32
      BY DEF Contents
    <3> QED BY <3>1, <3>2
  <2>4. ASSUME busy[w] PROVE got[w] \in 0 .. TotalPkts(job[w])
    <3>1. /\ got[w] \in Nat /\ got[w] <= Pkts(ppp, job[w]) /\ Pkts(ppp, job[w]) \in Nat
      BY <1>1, <2>1, <2>4, CountFacts, BusyFacts
    <3> QED BY <3>1, PktsFact
  <2>5. busy[w] => Outstanding(w) \subseteq 0 .. TotalPkts(job[w]) - 1
    BY <2>1, PktsFact DEF PacketsOk
  <2> QED BY <2>2, <2>3, <2>4, <2>5
<1> QED BY <1>1, <1>2 DEF Shapes, TypeOK

\* Buffers are not shared and a thread that waits has packets outstanding.
LEMMA PacketsInv == ExchangeInv => BuffersNotShared /\ ReceiveFindsPackets
<1> SUFFICES ASSUME ExchangeInv PROVE BuffersNotShared /\ ReceiveFindsPackets
  OBVIOUS
<1>1. BuffersNotShared
  BY DEF ExchangeInv, PacketsOk, BuffersNotShared
<1>2. ASSUME NEW w \in Workers, InLoop(w) PROVE Outstanding(w) # {}
  <2>1. Shapes /\ PacketsOk(w) /\ busy[w]
    BY <1>2 DEF ExchangeInv, InLoop
  <2>2. got[w] < Pkts(ppp, job[w])
    BY <1>2, PktsFact DEF InLoop
  <2> QED BY <2>1, <2>2, CountFacts
<1> QED BY <1>1, <1>2 DEF ReceiveFindsPackets

\* The factor of the values that are outstanding is known.
LEMMA ScaleKnown ==
  ASSUME Shapes, NEW w \in Workers, PacketsOk(w), DataOk(w), busy[w], ppp = "quantizer",
         Jobs[job[w]].type = "FLOAT32", NEW p \in Outstanding(w), p >= Batch(job[w])
  PROVE  /\ p - Batch(job[w]) \in 0 .. NumLtus(job[w]) - 1
         /\ Processed(w, p - Batch(job[w]))
         /\ scale[w][p - Batch(job[w])] = Factor(backend, job[w], w, p - Batch(job[w]))
<1> DEFINE j == job[w]
           B == Batch(j)
           O == Outstanding(w)
           l == p - B
<1>1. /\ B \in Nat \ {0} /\ O \in SUBSET Nat /\ NumLtus(j) \in Nat
      /\ \A q, r \in O : q % B = r % B => q = r
      /\ O \subseteq 0 .. Pkts(ppp, j) - 1
      /\ j \in 1 .. Len(Jobs) /\ Numel(j) # 0
  BY BusyFacts
<1>2. Pkts(ppp, j) = NumLtus(j) + B
  BY <1>1, SliceFacts
<1>3. scale[w] = [k \in 0 .. NumLtus(j) - 1 |->
                    IF Jobs[j].type = "FLOAT32" /\ Processed(w, k)
                    THEN Factor(backend, j, w, k) ELSE Unset]
  BY DEF DataOk
<1>4. p \in O /\ p >= B /\ Jobs[j].type = "FLOAT32"
  OBVIOUS
<1>5. Processed(w, l) <=> ~Behind(O, B, l)
  BY DEF Processed
<1> HIDE DEF j, B, O
<1>6. p \in Nat /\ p < NumLtus(j) + B
  <2>1. p \in 0 .. (NumLtus(j) + B) - 1
    BY <1>1, <1>2, <1>4
  <2>2. NumLtus(j) \in Nat /\ B \in Nat
    BY <1>1
  <2> QED BY <2>1, <2>2
<1>7. l \in Nat /\ l + B = p /\ l \in 0 .. NumLtus(j) - 1
  BY <1>1, <1>4, <1>6
<1> HIDE DEF l
<1>8. ~Behind(O, B, l)
  <2>1. l + B \in O
    BY <1>4, <1>7
  <2> QED BY <1>1, <1>7, <2>1, BehindBefore
<1>9. scale[w][l] = Factor(backend, j, w, l)
  BY <1>3, <1>4, <1>5, <1>7, <1>8
<1> QED BY <1>5, <1>7, <1>8, <1>9 DEF j, B, l

\* Known factors are the ones that all workers compute.
LEMMA FactorsInv == ExchangeInv => FactorsAgree
<1> SUFFICES ASSUME ExchangeInv, NEW w \in Workers, busy[w], ppp = "quantizer",
                    Type(w) = "FLOAT32"
             PROVE  LET j == job[w] IN
    /\ \A p \in Outstanding(w) : p >= Batch(j) => scale[w][p - Batch(j)] # Unset
    /\ \A l \in DOMAIN scale[w] :
         scale[w][l] # Unset =>
           scale[w][l] = IF backend = "dummy" THEN Exponent(Jobs[j].tensor[w], j, l)
                         ELSE Max({Exponent(Jobs[j].tensor[v], j, l) : v \in Workers})
  BY DEF FactorsAgree
<1> DEFINE j == job[w]
<1>1. Shapes /\ PacketsOk(w) /\ DataOk(w) /\ Jobs[j].type = "FLOAT32"
  BY DEF ExchangeInv, Type
<1>2. j \in 1 .. Len(Jobs) /\ Numel(j) # 0
  BY <1>1, BusyFacts
<1>3. ASSUME NEW p \in Outstanding(w), p >= Batch(j) PROVE scale[w][p - Batch(j)] # Unset
  <2>1. /\ p - Batch(j) \in 0 .. NumLtus(j) - 1
        /\ scale[w][p - Batch(j)] = Factor(backend, j, w, p - Batch(j))
    BY <1>1, <1>3, ScaleKnown
  <2>2. p - Batch(j) \in Nat
    BY <2>1
  <2>3. Factor(backend, j, w, p - Batch(j)) \in Exponents
    BY <1>1, <1>2, <2>2, FactorFacts
  <2> QED BY <2>1, <2>3 DEF Exponents, Unset
<1>4. scale[w] = [l \in 0 .. NumLtus(j) - 1 |->
                    IF Jobs[j].type = "FLOAT32" /\ Processed(w, l)
                    THEN Factor(backend, j, w, l) ELSE Unset]
  BY <1>1 DEF DataOk
<1>5. ASSUME NEW l \in DOMAIN scale[w], scale[w][l] # Unset
      PROVE  scale[w][l] = Factor(backend, j, w, l)
  BY <1>4, <1>5
<1> HIDE DEF j
<1>6. \A l \in DOMAIN scale[w] : scale[w][l] # Unset =>
        scale[w][l] = IF backend = "dummy" THEN Exponent(Jobs[j].tensor[w], j, l)
                      ELSE Max({Exponent(Jobs[j].tensor[v], j, l) : v \in Workers})
  BY <1>5 DEF Factor
<1> QED BY <1>3, <1>6 DEF j

\* Outstanding packets have buffers of their own, a thread that waits has
\* packets to wait for, and the workers use the same, known, scaling factors
\* (dummy_worker_thread.cc:112,160, cpu_exponent_quantizer_ppp.cc:103,257).
THEOREM ExchangeConsistent == Spec => []Consistent
<1>1. ExchangeInv => Consistent
  BY TypeCorrect, PacketsInv, FactorsInv DEF Consistent
<1> QED BY <1>1, ExchangeInvariant, PTL

\* A packet that is outstanding is built from elements that were not
\* overwritten and from factors that are known.
LEMMA OutstandingSource ==
  ASSUME Shapes, NEW w \in Workers, PacketsOk(w), DataOk(w), busy[w], ppp = "quantizer",
         NEW p \in Outstanding(w)
  PROVE  SourceOk(backend, Input(w), scale[w], job[w], w, p)
<1> DEFINE j == job[w]
           B == Batch(j)
           O == Outstanding(w)
           in == Input(w)
<1>1. /\ B \in Nat \ {0} /\ O \in SUBSET Nat /\ NumLtus(j) \in Nat
      /\ \A q, r \in O : q % B = r % B => q = r
      /\ j \in 1 .. Len(Jobs) /\ Numel(j) # 0
  BY BusyFacts
<1>2. p \in O
  OBVIOUS
<1>3. output[w] = [x \in 0 .. Numel(j) - 1 |->
                     IF Processed(w, PacketOf(j, x \div PacketNumel))
                     THEN Final(backend, j, w, x) ELSE Before(j, w, x)]
  BY DEF DataOk
<1>4. \A q : Processed(w, q) <=> ~Behind(O, B, q)
  BY DEF Processed
<1>5. \A x : in[x] = IF InPlace THEN output[w][x] ELSE Jobs[j].tensor[w][x]
  BY DEF Input
<1>6. Jobs[j].type = "FLOAT32" /\ LtuOf(j, p) >= 0 =>
        scale[w][LtuOf(j, p)] = Factor(backend, j, w, LtuOf(j, p))
  <2> SUFFICES ASSUME Jobs[j].type = "FLOAT32", LtuOf(j, p) >= 0
               PROVE  scale[w][LtuOf(j, p)] = Factor(backend, j, w, LtuOf(j, p))
    OBVIOUS
  <2>1. LtuOf(j, p) = p - Batch(j)
    BY DEF LtuOf
  <2>2. p \in Nat /\ Batch(j) \in Nat
    BY <1>1, <1>2
  <2>3. p >= Batch(j)
    BY <2>1, <2>2
  <2>4. scale[w][p - Batch(j)] = Factor(backend, j, w, p - Batch(j))
    BY <2>3, ScaleKnown
  <2> QED BY <2>1, <2>4
<1> HIDE DEF j, B, O, in
<1>7. p \in Nat /\ (p + B) % B = p % B
  <2>1. p \in Nat
    BY <1>1, <1>2
  <2> QED BY <1>1, <2>1, Remainders
<1>8. Behind(O, B, p) /\ Behind(O, B, p + B)
  <2>1. p <= p /\ p <= p + B
    BY <1>1, <1>7
  <2> QED BY <1>2, <1>7, <2>1 DEF Behind
<1>9. ASSUME NEW l \in Nat, NEW i \in InLtu(j, l), PacketOf(j, l) = p \/ PacketOf(j, l) = p + B
      PROVE  in[Offset(l, i)] = Jobs[j].tensor[w][Offset(l, i)]
  <2> DEFINE x == Offset(l, i)
  <2>1. x \in 0 .. Numel(j) - 1 /\ x \div PacketNumel = l
    BY <1>1, <1>9, ElementOfLtu
  <2> HIDE DEF x
  <2>2. ~Processed(w, PacketOf(j, x \div PacketNumel))
    BY <1>4, <1>8, <1>9, <2>1
  <2>3. output[w][x] = Before(j, w, x)
    BY <1>3, <2>1, <2>2
  <2> QED BY <1>5, <2>3 DEF Before, x
<1>10. ASSUME NEW i \in Elements, HasElement(j, p, i)
       PROVE  in[Offset(LtuOf(j, p), i)] = Jobs[j].tensor[w][Offset(LtuOf(j, p), i)]
  <2>1. LtuOf(j, p) \in Nat /\ PacketOf(j, LtuOf(j, p)) = p
    <3>1. LtuOf(j, p) >= 0
      BY <1>10 DEF HasElement
    <3>2. CASE Jobs[j].type = "INT32"
      BY <1>7, <3>2 DEF LtuOf, PacketOf
    <3>3. CASE Jobs[j].type # "INT32"
      <4>1. LtuOf(j, p) = p - B /\ PacketOf(j, LtuOf(j, p)) = LtuOf(j, p) + B
        BY <3>3 DEF LtuOf, PacketOf, B
      <4>2. B \in Nat
        BY <1>1
      <4> QED BY <1>7, <3>1, <4>1, <4>2
    <3> QED BY <3>2, <3>3
  <2>2. i \in InLtu(j, LtuOf(j, p))
    BY <1>10 DEF HasElement
  <2> QED BY <1>9, <2>1, <2>2
<1>11. ASSUME HasExponent(j, p), NEW i \in InLtu(j, p)
       PROVE  in[Offset(p, i)] = Jobs[j].tensor[w][Offset(p, i)]
  <2>1. Jobs[j].type = "FLOAT32"
    BY <1>11 DEF HasExponent
  <2>2. PacketOf(j, p) = p + B
    BY <2>1 DEF PacketOf, B
  <2> QED BY <1>7, <1>9, <1>11, <2>2
<1>12. SourceOk(backend, in, scale[w], j, w, p)
  BY <1>6, <1>10, <1>11 DEF SourceOk, j
<1> QED BY <1>12 DEF j, in

\* What the switch has of it is rebuilt.
LEMMA ResendFacts ==
  ASSUME Shapes, NEW w \in Workers, PacketsOk(w), DataOk(w), busy[w], ppp = "quantizer",
         NEW p \in Outstanding(w), NEW old \in Contents, Carries(backend, old, job[w], w, p)
  PROVE  old = PreprocessSingle(job[w], Input(w), scale[w], p, old)
<1> DEFINE j  == job[w]
           in == Input(w)
           sc == scale[w]
<1>1. SourceOk(backend, in, sc, j, w, p)
  BY OutstandingSource
<1>2. j \in 1 .. Len(Jobs) /\ Numel(j) # 0 /\ p \in Nat
  <2>1. j \in 1 .. Len(Jobs) /\ Numel(j) # 0 /\ Outstanding(w) \in SUBSET Nat
    BY BusyFacts
  <2> QED BY <2>1
<1>3. Carries(backend, old, j, w, p)
  OBVIOUS
<1> HIDE DEF j, in, sc
<1>4. PreprocessSingle(j, in, sc, p, old) = old
  <2>1. /\ PreprocessSingle(j, in, sc, p, old) \in Contents
        /\ Carries(backend, PreprocessSingle(j, in, sc, p, old), j, w, p)
    BY <1>1, <1>2, PreprocessFacts
  <2>2. Carries(backend, old, j, w, p) => PreprocessSingle(j, in, sc, p, old) = old
    BY <1>1, <1>2, <2>1, PreprocessFacts
  <2> QED BY <1>3, <2>2
<1> QED BY <1>4 DEF j, in, sc

\* A retransmission rebuilds the packet the switch has
\* (dpdk_worker_thread_utils.inc:225-265).
THEOREM ResendsAreSame == Spec => []ResendIsSame
<1>1. ExchangeInv => ResendIsSame
  <2> SUFFICES ASSUME ExchangeInv, NEW w \in Workers, busy[w], backend = "switch",
                      NEW c \in sent, c.w = w, c.job = job[w], c.pkt \in pending[w]
               PROVE  c.content = PreprocessSingle(job[w], Input(w), scale[w], c.pkt, c.content)
    BY DEF ResendIsSame
  <2>1. Shapes /\ PacketsOk(w) /\ DataOk(w) /\ SentOk
    BY DEF ExchangeInv
  <2>2. /\ c.content \in Contents
        /\ ppp = "quantizer" => Carries(backend, c.content, job[w], w, c.pkt)
    BY <2>1 DEF SentOk
  <2>3. c.pkt \in Outstanding(w)
    BY DEF Outstanding
  <2>4. job[w] \in 1 .. Len(Jobs) /\ Numel(job[w]) # 0 /\ Outstanding(w) \in SUBSET Nat
    BY <2>1, BusyFacts
  <2>5. CASE ppp = "quantizer"
    <3>1. SourceOk(backend, Input(w), scale[w], job[w], w, c.pkt)
      BY <2>1, <2>3, <2>5, OutstandingSource
    <3>2. c.pkt \in Nat
      BY <2>3, <2>4
    <3>3. Carries(backend, c.content, job[w], w, c.pkt)
      BY <2>2, <2>5
    <3> QED BY <2>1, <2>2, <2>3, <2>5, <3>3, ResendFacts
  <2>6. CASE ppp # "quantizer"
    <3>1. ppp \in PPPs
      BY <2>1 DEF Shapes
    <3> QED BY <2>6, <3>1, BypassFacts
  <2> QED BY <2>5, <2>6
<1> QED BY <1>1, ExchangeInvariant, PTL

-----------------------------------------------------------------------------
(* Sums that fit, and what they are worth.                                  *)

\* The workers may all send the largest number below 2^e for every exponent e.
LargestFit == \A e \in Exponents : NumWorkers * Quantize(2^e - 1, e) <= MaxInt

\* Integers of a job can be added without overflow.
IntSumsFit ==
  \A j \in 1 .. Len(Jobs) : Jobs[j].type = "INT32" =>
    \A x \in 0 .. Numel(j) - 1 :
      /\ "switch" \in Backends => ExactSum(j, x) \in Int32
      /\ "dummy" \in Backends => \A w \in Workers : NumWorkers * Jobs[j].tensor[w][x] \in Int32

\* Integers that are wide for the number of workers are enough: with 32 bits,
\* 2^24 workers.
LEMMA WideIntegers ==
  ASSUME NumWorkers * 2^8 <= 2 * MaxInt
  PROVE  LargestFit
<1> SUFFICES ASSUME NEW e \in Exponents PROVE NumWorkers * Quantize(2^e - 1, e) <= MaxInt
  BY DEF LargestFit
<1> DEFINE b == 2^e
           top == b - 1
           q == Quantize(top, e)
           d == NumWorkers * b
<1>1. b \in Nat \ {0} /\ b <= 2^8 /\ 2^8 \in Nat
  <2>1. e <= 8 /\ 8 \in Exponents
    BY DEF Exponents
  <2>2. \A f \in Exponents : 2^f \in Nat \ {0}
    BY Powers
  <2>3. \A f, g \in Exponents : f <= g => 2^f <= 2^g
    BY Powers
  <2>4. 2^e \in Nat \ {0} /\ 2^8 \in Nat
    BY <2>1, <2>2
  <2>5. 2^e <= 2^8
    BY <2>1, <2>3
  <2> QED BY <2>4, <2>5
<1>2. MaxInt \in Nat \ {0} /\ NumWorkers \in Nat \ {0}
  BY ExchangeAssumption, JobFacts
<1>3. top \in Int /\ top \in Nat /\ Abs(top) = top /\ Abs(top) < 2^e
  BY <1>1 DEF Abs
<1>4. (2 * d) * q - (2 * MaxInt) * top <= d /\ q \in Nat
  <2> HIDE DEF q
  <2>1. Quantize(2^e - 1, e) = q
    BY DEF q
  <2>2. Quantize(2^e - 1, e) \in Nat
        /\ (2 * (NumWorkers * 2^e)) * Quantize(top, e) - (2 * MaxInt) * top <= NumWorkers * 2^e
    <3> HIDE DEF top
    <3> QED BY <1>3, QuantizeFacts DEF top
  <2> QED BY <2>1, <2>2 DEF q
<1>5. d <= 2 * MaxInt /\ d \in Nat
  <2>1. b * NumWorkers <= 2^8 * NumWorkers /\ b * NumWorkers = NumWorkers * b
        /\ 2^8 * NumWorkers = NumWorkers * 2^8
    <3> DEFINE k == 2^8
    <3> HIDE DEF k, b
    <3>1. b <= k /\ b \in Nat /\ k \in Nat
      BY <1>1 DEF k
    <3>2. b * NumWorkers <= k * NumWorkers /\ b * NumWorkers = NumWorkers * b
          /\ k * NumWorkers = NumWorkers * k
      BY <1>2, <3>1, Products
    <3> QED BY <3>2 DEF k
  <2> DEFINE m == NumWorkers * 2^8
  <2>2. d <= m /\ m <= 2 * MaxInt /\ d \in Nat /\ m \in Nat
    BY <1>1, <1>2, <2>1
  <2> HIDE DEF m, d
  <2> QED BY <1>2, <2>2
<1>6. (2 * d) * q = (NumWorkers * q) * (2 * b) /\ (2 * MaxInt) * top = 2 * (MaxInt * b) - 2 * MaxInt
  <2> HIDE DEF b, q
  <2> QED BY <1>1, <1>2, <1>4
<1> HIDE DEF b, q, d
<1>7. ASSUME MaxInt + 1 <= NumWorkers * q PROVE FALSE
  <2>1. NumWorkers * q \in Nat
    BY <1>2, <1>4
  <2> DEFINE k == NumWorkers * q
  <2>2. k \in Nat /\ MaxInt + 1 <= k /\ (2 * d) * q = k * (2 * b)
    BY <1>6, <1>7, <2>1
  <2> HIDE DEF k
  <2>3. (MaxInt + 1) * (2 * b) <= k * (2 * b)
    <3>1. 2 * b \in Nat
      BY <1>1
    <3> QED BY <1>2, <2>2, <3>1, Products
  <2>4. (MaxInt + 1) * (2 * b) = 2 * (MaxInt * b) + 2 * b /\ MaxInt * b \in Nat
    BY <1>1, <1>2
  <2> DEFINE mb == MaxInt * b
             kb == k * (2 * b)
  <2>5. mb \in Nat /\ kb \in Nat /\ 2 * mb + 2 * b <= kb /\ kb - (2 * mb - 2 * MaxInt) <= d
    <3>1. kb \in Nat /\ mb \in Nat
      BY <1>1, <1>2, <2>2
    <3>2. (2 * d) * q = kb /\ (2 * MaxInt) * top = 2 * mb - 2 * MaxInt
      BY <1>6, <2>2
    <3> HIDE DEF top
    <3> QED BY <1>4, <2>3, <2>4, <3>1, <3>2
  <2> HIDE DEF mb, kb
  <2> QED BY <1>1, <1>2, <1>5, <2>5
<1>8. NumWorkers * q \in Nat
  BY <1>2, <1>4
<1>9. NumWorkers * q <= MaxInt
  BY <1>2, <1>7, <1>8
<1> QED BY <1>9 DEF q, b

\* What a worker sends of an element, and the sum of what some of them send.
LEMMA SmallElement ==
  ASSUME LargestFit, NEW v \in Int, NEW e \in Exponents, Abs(v) < 2^e
  PROVE  LET E == MaxInt \div NumWorkers
         IN  -E <= Quantize(v, e) /\ Quantize(v, e) <= E
<1> DEFINE E == MaxInt \div NumWorkers
           q == Quantize(v, e)
           k == Quantize(2^e - 1, e)
<1>1. q \in Int32 /\ Abs(q) <= k /\ k \in Nat
  BY QuantizeFacts
<1>2. NumWorkers * k <= MaxInt
  BY DEF LargestFit
<1> HIDE DEF q, k
<1>3. MaxInt \in Nat /\ NumWorkers \in Nat \ {0}
  BY ExchangeAssumption, JobFacts
<1>4. E \in Nat /\ MaxInt = E * NumWorkers + (MaxInt % NumWorkers)
      /\ MaxInt % NumWorkers \in 0 .. NumWorkers - 1
  BY <1>3, Division
<1> HIDE DEF E
<1>5. k <= E
  <2>1. ASSUME E + 1 <= k PROVE FALSE
    <3>1. (E + 1) * NumWorkers <= k * NumWorkers
      BY <1>1, <1>3, <1>4, <2>1, Products
    <3>2. (E + 1) * NumWorkers = E * NumWorkers + NumWorkers /\ E * NumWorkers \in Nat
          /\ k * NumWorkers = NumWorkers * k /\ NumWorkers * k \in Nat
      BY <1>1, <1>3, <1>4
    <3> QED BY <1>2, <1>3, <1>4, <3>1, <3>2
  <2> QED BY <1>1, <1>4, <2>1
<1>6. q \in Int
  BY <1>1, Int32Range
<1>7. -E <= q /\ q <= E
  BY <1>1, <1>4, <1>5, <1>6 DEF Abs
<1> QED BY <1>7 DEF E, q

\* A sum of as many of them as there are workers, at most.
LEMMA SmallSum ==
  ASSUME NEW S, IsFiniteSet(S), Cardinality(S) <= NumWorkers, NEW f,
         \A x \in S : f[x] \in Int,
         \A x \in S : -(MaxInt \div NumWorkers) <= f[x] /\ f[x] <= MaxInt \div NumWorkers
  PROVE  SumOf(f, S) \in Int /\ Abs(SumOf(f, S)) <= MaxInt
<1> DEFINE E == MaxInt \div NumWorkers
           n == Cardinality(S)
           s == SumOf(f, S)
<1>1. MaxInt \in Nat /\ NumWorkers \in Nat \ {0}
  BY ExchangeAssumption, JobFacts
<1>2. E \in Nat /\ MaxInt = E * NumWorkers + (MaxInt % NumWorkers)
      /\ MaxInt % NumWorkers \in 0 .. NumWorkers - 1
  BY <1>1, Division
<1>3. n \in Nat /\ n <= NumWorkers
  BY FS_CardinalityType
<1>4. s \in Int
  BY SumAny
<1> HIDE DEF s, n, E
<1>5. -(n * E) <= s /\ s <= n * E
  <2>1. \A x \in S : f[x] \in Int /\ -E <= f[x] /\ f[x] <= E
    BY DEF E
  <2>2. \A x \in S : -E <= 1 * f[x] - 0 * f[x] /\ 1 * f[x] - 0 * f[x] <= E
    BY <1>2, <2>1
  <2>3. /\ -(Cardinality(S) * E) <= 1 * SumOf(f, S) - 0 * SumOf(f, S)
        /\ 1 * SumOf(f, S) - 0 * SumOf(f, S) <= Cardinality(S) * E
    <3>1. 1 \in Int /\ 0 \in Int /\ E \in Int
      BY <1>2
    <3> QED BY <2>1, <2>2, <3>1, SumsClose
  <2>4. -(n * E) <= 1 * s - 0 * s /\ 1 * s - 0 * s <= n * E
    BY <2>3 DEF n, s
  <2> QED BY <1>4, <2>4
<1>6. n * E <= NumWorkers * E /\ NumWorkers * E = E * NumWorkers /\ n * E \in Nat
      /\ E * NumWorkers \in Nat
  BY <1>1, <1>2, <1>3, Products
<1>7. E * NumWorkers <= MaxInt
  <2> DEFINE m == E * NumWorkers
  <2>1. m \in Nat /\ MaxInt = m + (MaxInt % NumWorkers) /\ MaxInt % NumWorkers \in Nat
    BY <1>1, <1>2, <1>6
  <2> HIDE DEF m
  <2>2. m <= MaxInt
    BY <1>1, <2>1
  <2> QED BY <2>2 DEF m
<1>8. s <= MaxInt /\ -MaxInt <= s
  <2> DEFINE a == n * E
             c == E * NumWorkers
  <2>1. a \in Nat /\ c \in Nat /\ a <= c /\ c <= MaxInt /\ -a <= s /\ s <= a
    BY <1>5, <1>6, <1>7
  <2> HIDE DEF a, c
  <2> QED BY <1>1, <1>4, <2>1
<1>9. s \in Int /\ Abs(s) <= MaxInt
  BY <1>1, <1>4, <1>8 DEF Abs
<1> QED BY <1>9 DEF s

\* The sum of what the workers send fits, for any number of them that sent it.
LEMMA SumsFitInv == LargestFit /\ ExchangeInv => SumsFit
<1> SUFFICES ASSUME LargestFit, ExchangeInv, NEW c \in sent, Jobs[c.job].type = "FLOAT32",
                    ppp = "quantizer", c.pkt >= Batch(c.job),
                    NEW i \in InLtu(c.job, c.pkt - Batch(c.job))
             PROVE  Abs(EntrySum(Contributions(c.job, c.pkt), i)) <= MaxInt
  BY DEF SumsFit
<1> DEFINE j == c.job
           p == c.pkt
           l == p - Batch(j)
           cs == Contributions(j, p)
<1>1. Shapes /\ SentOk
  BY DEF ExchangeInv
<1>2. /\ IsFiniteSet(cs) /\ Cardinality(cs) <= NumWorkers
      /\ \A d \in cs : /\ d.w \in Workers
                       /\ Carries(backend, d.content, j, d.w, p)
  BY <1>1, ContributionFacts
<1>3. j \in 1 .. Len(Jobs) /\ p \in 0 .. Pkts(ppp, j) - 1
  <2>1. c.w \in Workers /\ j \in 1 .. job[c.w] /\ p \in 0 .. Pkts(ppp, j) - 1
    BY <1>1 DEF SentOk
  <2>2. job[c.w] \in 0 .. Len(Jobs) /\ Len(Jobs) \in Nat
    BY <1>1, <2>1, JobFacts DEF Shapes
  <2>3. j \in 1 .. Len(Jobs)
    <3> HIDE DEF j
    <3> QED BY <2>1, <2>2
  <2> QED BY <2>1, <2>3
<1>4. Jobs[j].type = "FLOAT32" /\ p >= Batch(j) /\ i \in InLtu(j, l) /\ i \in Elements
  BY DEF InLtu
<1> HIDE DEF j, p, cs
<1>5. p \in Nat
  BY <1>3
<1>6. NumLtus(j) \in Nat /\ Batch(j) \in Nat
  <2>1. Numel(j) \in Nat /\ PacketNumel \in Nat \ {0} /\ MaxOutstanding \in Nat
    BY <1>3, JobFacts, ExchangeAssumption
  <2> DEFINE x == Numel(j) + PacketNumel - 1
  <2>2. x \in Nat
    BY <2>1
  <2>3. NumLtus(j) = x \div PacketNumel
    BY DEF NumLtus
  <2> HIDE DEF x
  <2>4. NumLtus(j) \in Nat
    BY <2>1, <2>2, <2>3, Division
  <2> QED BY <2>1, <2>4 DEF Batch
<1>7. l \in Nat
  BY <1>4, <1>5, <1>6
<1>8. LtuOf(j, p) = l
  BY <1>4 DEF LtuOf
<1> HIDE DEF l
<1>9. Numel(j) # 0
  <2>1. l * PacketNumel + i < Numel(j) /\ i \in Nat /\ PacketNumel \in Nat /\ Numel(j) \in Nat
    BY <1>3, <1>4, JobFacts, ExchangeAssumption DEF InLtu, Offset, Elements
  <2>2. l * PacketNumel \in Nat
    BY <1>7, <2>1
  <2> QED BY <2>1, <2>2
<1>10. HasElement(j, p, i)
  BY <1>4, <1>7, <1>8 DEF HasElement
<1> DEFINE f == [d \in cs |-> d.content.entries[i]]
<1>11. ASSUME NEW d \in cs
       PROVE  f[d] \in Int /\ -(MaxInt \div NumWorkers) <= f[d] /\ f[d] <= MaxInt \div NumWorkers
  <2> DEFINE e == Factor(backend, j, d.w, l)
             v == Jobs[j].tensor[d.w][Offset(l, i)]
  <2>1. d.w \in Workers /\ Carries(backend, d.content, j, d.w, p)
    BY <1>2
  <2>2. f[d] = Element(backend, j, d.w, p, i)
    BY <1>4, <1>10, <2>1 DEF Carries
  <2>3. /\ Element(backend, j, d.w, p, i) \in Int
        /\ e \in Exponents /\ Element(backend, j, d.w, p, i) = Quantize(v, e)
        /\ v \in Int /\ Abs(v) < 2^e
    BY <1>3, <1>4, <1>5, <1>8, <1>9, <1>10, <2>1, ElementFacts
  <2> HIDE DEF e, v, f
  <2>4. /\ -(MaxInt \div NumWorkers) <= Quantize(v, e)
        /\ Quantize(v, e) <= MaxInt \div NumWorkers
    BY <2>3, SmallElement
  <2> QED BY <2>2, <2>3, <2>4
<1>12. EntrySum(cs, i) = SumOf(f, cs)
  BY <1>2, EntrySums
<1> HIDE DEF f
<1>13. Abs(SumOf(f, cs)) <= MaxInt
  BY <1>2, <1>11, SmallSum
<1> QED BY <1>12, <1>13 DEF j, p, cs

\* The quantized values of the workers are added without overflow
\* (cpu_exponent_quantizer_ppp.cc:151-154,257), when the integers are wide for
\* the number of workers.
THEOREM QuantizedSumsFit == LargestFit /\ Spec => []SumsFit
<1>1. LargestFit /\ ExchangeInv => SumsFit
  BY SumsFitInv
<1>2. ASSUME LargestFit PROVE Spec => []SumsFit
  <2>1. ExchangeInv => SumsFit
    BY <1>1, <1>2
  <2> QED BY <2>1, ExchangeInvariant, PTL
<1> QED BY <1>2

\* Rounding down after a division, of a number that is close.
LEMMA DivisionClose ==
  ASSUME NEW M \in Nat \ {0}, NEW K \in Nat, NEW X \in Int, NEW s \in Int,
         -K <= 2 * X - (2 * M) * s, 2 * X - (2 * M) * s <= K
  PROVE  (X \div M) - s <= 1 + (K \div (2 * M)) /\ -(1 + (K \div (2 * M))) <= (X \div M) - s
         /\ X \div M \in Int /\ K \div (2 * M) \in Nat
<1> DEFINE r == X \div M
           t == X % M
           k == K \div (2 * M)
           u == K % (2 * M)
           y == r - s
<1>1. r \in Int /\ t \in 0 .. M - 1 /\ X = r * M + t
  OBVIOUS
<1>2. k \in Nat /\ u \in 0 .. 2 * M - 1 /\ K = k * (2 * M) + u
  <2>1. 2 * M \in Nat \ {0}
    OBVIOUS
  <2> QED BY <2>1, Division
<1> HIDE DEF r, t, k, u
<1>3. y \in Int /\ r = y + s
  BY <1>1
<1> HIDE DEF y
<1>4. 2 * X - (2 * M) * s = 2 * (y * M) + 2 * t /\ y * M \in Int
  <2>1. (y + s) * M = y * M + s * M /\ (2 * M) * s = 2 * (s * M) /\ s * M \in Int /\ y * M \in Int
    BY <1>3
  <2>2. X = y * M + s * M + t
    BY <1>1, <1>3, <2>1
  <2> DEFINE ym == y * M
             sm == s * M
             ms == (2 * M) * s
  <2>3. ym \in Int /\ sm \in Int /\ ms = 2 * sm /\ X = ym + sm + t
    BY <2>1, <2>2
  <2> HIDE DEF ym, sm, ms
  <2>4. 2 * X - ms = 2 * ym + 2 * t
    BY <1>1, <2>3
  <2> QED BY <2>1, <2>4 DEF ym, ms
<1>5. k * (2 * M) = 2 * (k * M) /\ k * M \in Nat
  BY <1>2
<1>6. ASSUME k + 2 <= y PROVE FALSE
  <2>1. (k + 2) * M <= y * M
    <3>1. k + 2 \in Nat /\ y \in Nat
      BY <1>2, <1>3, <1>6
    <3> QED BY <1>6, <3>1, Products
  <2>2. (k + 2) * M = k * M + 2 * M
    BY <1>2
  <2> DEFINE km == k * M
             ym == y * M
  <2>3. km + 2 * M <= ym /\ km \in Nat /\ ym \in Int /\ 2 * ym + 2 * t <= K /\ K = 2 * km + u
    <3>1. 2 * ym + 2 * t <= K
      BY <1>4
    <3>2. K = 2 * km + u
      BY <1>2, <1>5
    <3> QED BY <1>4, <1>5, <2>1, <2>2, <3>1, <3>2
  <2> HIDE DEF km, ym
  <2> QED BY <1>1, <1>2, <2>3
<1>7. ASSUME k + 2 <= -y PROVE FALSE
  <2> DEFINE z == -y
  <2>0. z \in Nat /\ k + 2 <= z /\ y = -z
    BY <1>2, <1>3, <1>7
  <2>1. y * M = -(z * M) /\ z * M \in Nat
    <3> HIDE DEF z
    <3> QED BY <2>0
  <2> HIDE DEF z
  <2>2. (k + 2) * M <= z * M
    <3>1. k + 2 \in Nat
      BY <1>2
    <3> QED BY <2>0, <3>1, Products
  <2>3. (k + 2) * M = k * M + 2 * M
    BY <1>2
  <2> DEFINE km == k * M
             zm == z * M
             ym == y * M
  <2>4. km + 2 * M <= zm /\ km \in Nat /\ zm \in Nat /\ ym = -zm /\ -K <= 2 * ym + 2 * t
        /\ K = 2 * km + u
    <3>1. -K <= 2 * ym + 2 * t
      BY <1>4
    <3>2. K = 2 * km + u
      BY <1>2, <1>5
    <3> QED BY <1>5, <2>1, <2>2, <2>3, <3>1, <3>2
  <2> HIDE DEF km, zm, ym
  <2> QED BY <1>1, <1>2, <2>4
<1>8. y <= 1 + k /\ -(1 + k) <= y
  BY <1>2, <1>3, <1>6, <1>7
<1> QED BY <1>1, <1>2, <1>8 DEF r, k, y

\* The sum of the quantized values of an element, when it fits, is close to the
\* sum of its values; that of integers is exact.
ExactOf(bk, j, w, x) ==
  IF bk = "dummy" THEN NumWorkers * Jobs[j].tensor[w][x] ELSE ExactSum(j, x)

\* For floats: the sum fits, and it is half a unit per worker off at most.
LEMMA FloatSum ==
  ASSUME LargestFit, NEW bk, NEW j \in 1 .. Len(Jobs), Numel(j) # 0, NEW w \in Workers,
         Jobs[j].type = "FLOAT32", NEW p \in Nat, NEW i, HasElement(j, p, i)
  PROVE  LET S == ElementSum(bk, j, w, p, i)
             l == LtuOf(j, p)
             e == Factor(bk, j, w, l)
             d == NumWorkers * 2^e
             s == ExactOf(bk, j, w, Offset(l, i))
         IN  /\ S \in Int32 /\ S \in Int /\ s \in Int /\ e \in Exponents /\ d \in Nat
             /\ -(NumWorkers * d) <= (2 * d) * S - (2 * MaxInt) * s
             /\ (2 * d) * S - (2 * MaxInt) * s <= NumWorkers * d
<1> DEFINE S == ElementSum(bk, j, w, p, i)
           l == LtuOf(j, p)
           e == Factor(bk, j, w, l)
           d == NumWorkers * 2^e
           x == Offset(l, i)
           s == ExactOf(bk, j, w, x)
           E == MaxInt \div NumWorkers
           f == [v \in Workers |-> Element(bk, j, v, p, i)]
           g == [v \in Workers |-> Jobs[j].tensor[v][x]]
<1>1. MaxInt \in Nat \ {0} /\ NumWorkers \in Nat \ {0} /\ IsFiniteSet(Workers)
      /\ Cardinality(Workers) = NumWorkers
  BY ExchangeAssumption, JobFacts, JobsAssumption DEF NumWorkers
<1>2. l \in 0 .. NumLtus(j) - 1 /\ i \in InLtu(j, l) /\ x \in 0 .. Numel(j) - 1 /\ l \in Nat
  <2>1. l \in 0 .. NumLtus(j) - 1 /\ i \in InLtu(j, l) /\ x \in 0 .. Numel(j) - 1
    BY ElementFacts
  <2> QED BY <2>1
<1>3. e \in Exponents /\ (bk # "dummy" => \A v \in Workers : Factor(bk, j, v, l) = e)
  BY <1>2, FactorFacts
<1>4. d \in Nat
  <2>1. 2^e \in Nat \ {0}
    BY <1>3, Powers
  <2> DEFINE b == 2^e
  <2> HIDE DEF b
  <2>2. b \in Nat
    BY <2>1 DEF b
  <2>3. NumWorkers * b \in Nat
    BY <1>1, <2>2
  <2> QED BY <2>3 DEF b
\* One worker.
<1>5. ASSUME NEW v \in Workers, v = w \/ bk # "dummy"
      PROVE  /\ f[v] \in Int /\ g[v] \in Int
             /\ -E <= f[v] /\ f[v] <= E
             /\ -d <= (2 * d) * f[v] - (2 * MaxInt) * g[v]
             /\ (2 * d) * f[v] - (2 * MaxInt) * g[v] <= d
  <2> DEFINE y == Jobs[j].tensor[v][x]
  <2>1. Factor(bk, j, v, l) = e
    BY <1>3, <1>5
  <2>2. /\ Element(bk, j, v, p, i) \in Int /\ Element(bk, j, v, p, i) = Quantize(y, Factor(bk, j, v, l))
        /\ y \in Int /\ Abs(y) < 2^Factor(bk, j, v, l)
    BY ElementFacts
  <2>3. Quantize(y, e) \in Int /\ y \in Int /\ Abs(y) < 2^e
    BY <2>1, <2>2
  <2>4. f[v] = Quantize(y, e) /\ g[v] = y
    BY <2>1, <2>2
  <2> HIDE DEF y, f, g, e
  <2>5. -E <= Quantize(y, e) /\ Quantize(y, e) <= E
    BY <1>3, <2>3, SmallElement
  <2>6. LET dd == NumWorkers * 2^e
        IN  /\ -dd <= (2 * dd) * Quantize(y, e) - (2 * MaxInt) * y
            /\ (2 * dd) * Quantize(y, e) - (2 * MaxInt) * y <= dd
    BY <1>3, <2>3, QuantizeFacts
  <2>7. /\ -d <= (2 * d) * Quantize(y, e) - (2 * MaxInt) * y
        /\ (2 * d) * Quantize(y, e) - (2 * MaxInt) * y <= d
    BY <2>6
  <2> HIDE DEF d, E
  <2> QED BY <2>3, <2>4, <2>5, <2>7
<1>6. CASE bk = "dummy"
  <2> DEFINE q == f[w]
             y == g[w]
  <2>1. S = NumWorkers * q /\ s = NumWorkers * y
    BY <1>6 DEF ElementSum, ExactOf
  <2>2. /\ q \in Int /\ y \in Int /\ -E <= q /\ q <= E
        /\ -d <= (2 * d) * q - (2 * MaxInt) * y /\ (2 * d) * q - (2 * MaxInt) * y <= d
    BY <1>5
  <2> HIDE DEF q, y, d
  <2>3. S \in Int /\ s \in Int
    BY <1>1, <2>1, <2>2
  <2>4. Abs(S) <= MaxInt
    <3> DEFINE h == [v \in Workers |-> q]
    <3>1. \A v \in Workers : h[v] \in Int /\ -E <= h[v] /\ h[v] <= E
      BY <2>2
    <3>2. E \in Nat /\ MaxInt = E * NumWorkers + (MaxInt % NumWorkers)
          /\ MaxInt % NumWorkers \in 0 .. NumWorkers - 1
      BY <1>1, Division
    <3> HIDE DEF E
    <3>3. E * NumWorkers <= MaxInt /\ E * NumWorkers = NumWorkers * E
      <4> DEFINE m == E * NumWorkers
      <4>1. m \in Nat /\ MaxInt = m + (MaxInt % NumWorkers) /\ MaxInt % NumWorkers \in Nat
        BY <1>1, <3>2
      <4> HIDE DEF m
      <4>2. m <= MaxInt
        BY <1>1, <4>1
      <4> QED BY <1>1, <3>2, <4>2 DEF m
    <3>4. NumWorkers * q <= NumWorkers * E /\ -(NumWorkers * E) <= NumWorkers * q
      <4>1. CASE q >= 0
        <5>1. q \in Nat
          BY <2>2, <4>1
        <5>2. q * NumWorkers <= E * NumWorkers /\ q * NumWorkers \in Nat
          BY <1>1, <2>2, <3>2, <5>1, Products
        <5>3. q * NumWorkers = NumWorkers * q /\ E * NumWorkers = NumWorkers * E
              /\ NumWorkers * E \in Nat
          BY <1>1, <2>2, <3>2
        <5> QED BY <5>2, <5>3
      <4>2. CASE ~(q >= 0)
        <5> DEFINE z == -q
        <5>1. z \in Nat /\ z <= E /\ q = -z
          BY <2>2, <3>2, <4>2
        <5> HIDE DEF z
        <5>2. z * NumWorkers <= E * NumWorkers /\ z * NumWorkers \in Nat
          BY <1>1, <3>2, <5>1, Products
        <5>3. z * NumWorkers = -(NumWorkers * q) /\ E * NumWorkers = NumWorkers * E
              /\ NumWorkers * E \in Nat /\ NumWorkers * q \in Int
          BY <1>1, <2>2, <3>2, <5>1
        <5> DEFINE zn == z * NumWorkers
                   ne == NumWorkers * E
                   nq == NumWorkers * q
        <5>4. zn \in Nat /\ ne \in Nat /\ nq \in Int /\ zn <= ne /\ zn = -nq
          BY <5>2, <5>3
        <5> HIDE DEF zn, ne, nq
        <5>5. nq <= ne /\ -ne <= nq
          BY <5>4
        <5> QED BY <5>5 DEF ne, nq
      <4> QED BY <4>1, <4>2
    <3> DEFINE nq == NumWorkers * q
               ne == NumWorkers * E
    <3>5. nq <= ne /\ -ne <= nq /\ ne <= MaxInt /\ nq \in Int /\ ne \in Int /\ S = nq
      BY <1>1, <2>1, <2>2, <3>2, <3>3, <3>4
    <3> HIDE DEF nq, ne
    <3> QED BY <1>1, <3>5 DEF Abs
  <2>5. (2 * d) * S - (2 * MaxInt) * s = NumWorkers * ((2 * d) * q - (2 * MaxInt) * y)
    <3> HIDE DEF S, s
    <3> QED BY <1>1, <1>4, <2>1, <2>2
  <2> DEFINE k == (2 * d) * q - (2 * MaxInt) * y
  <2>6. k \in Int /\ -d <= k /\ k <= d /\ (2 * d) * S - (2 * MaxInt) * s = NumWorkers * k
    BY <1>1, <1>4, <2>2, <2>5
  <2> HIDE DEF k, S, s
  <2>7. -(NumWorkers * d) <= NumWorkers * k /\ NumWorkers * k <= NumWorkers * d
    <3>1. d - k \in Nat /\ k + d \in Nat
      BY <1>4, <2>6
    <3>2. NumWorkers * (d - k) \in Nat /\ NumWorkers * (k + d) \in Nat
      BY <1>1, <3>1
    <3>3. NumWorkers * (d - k) = NumWorkers * d - NumWorkers * k
          /\ NumWorkers * (k + d) = NumWorkers * k + NumWorkers * d
          /\ NumWorkers * d \in Int /\ NumWorkers * k \in Int
      <4> DEFINE N == NumWorkers
      <4>1. N \in Int /\ d \in Int /\ k \in Int
        BY <1>1, <1>4, <2>6
      <4> HIDE DEF N
      <4>2. /\ N * (d - k) = N * d - N * k /\ N * (k + d) = N * k + N * d
            /\ N * d \in Int /\ N * k \in Int
        BY <4>1
      <4> QED BY <4>2 DEF N
    <3> QED BY <3>2, <3>3
  <2>8. S \in Int32
    BY <2>3, <2>4, Int32Range
  <2> QED BY <1>3, <1>4, <2>3, <2>6, <2>7, <2>8 DEF S, s, d
<1>7. CASE bk # "dummy"
  <2>1. S = SumOf(f, Workers) /\ s = SumOf(g, Workers)
    BY <1>7, ExactSums DEF ElementSum, ExactOf
  <2>2. \A v \in Workers : f[v] \in Int /\ g[v] \in Int
    BY <1>5, <1>7
  <2>3. \A v \in Workers : -E <= f[v] /\ f[v] <= E
    BY <1>5, <1>7
  <2>4. \A v \in Workers : -d <= (2 * d) * f[v] - (2 * MaxInt) * g[v]
                           /\ (2 * d) * f[v] - (2 * MaxInt) * g[v] <= d
    BY <1>5, <1>7
  <2> HIDE DEF f, g, S, s, d
  <2>5. S \in Int /\ s \in Int
    BY <1>1, <2>1, <2>2, SumAny
  <2>6. Abs(S) <= MaxInt
    BY <1>1, <2>1, <2>2, <2>3, SmallSum
  <2>7. 2 * d \in Int /\ 2 * MaxInt \in Int /\ d \in Int
    BY <1>1, <1>4
  <2>8. /\ -(Cardinality(Workers) * d) <= (2 * d) * SumOf(f, Workers) - (2 * MaxInt) * SumOf(g, Workers)
        /\ (2 * d) * SumOf(f, Workers) - (2 * MaxInt) * SumOf(g, Workers) <= Cardinality(Workers) * d
    <3> DEFINE D == 2 * d
               M == 2 * MaxInt
    <3>1. D \in Int /\ M \in Int /\ d \in Int
          /\ \A v \in Workers : -d <= D * f[v] - M * g[v] /\ D * f[v] - M * g[v] <= d
      BY <2>4, <2>7
    <3> HIDE DEF D, M
    <3>2. /\ -(Cardinality(Workers) * d) <= D * SumOf(f, Workers) - M * SumOf(g, Workers)
          /\ D * SumOf(f, Workers) - M * SumOf(g, Workers) <= Cardinality(Workers) * d
      BY <1>1, <2>2, <3>1, SumsClose
    <3> QED BY <3>2 DEF D, M
  <2>9. /\ -(NumWorkers * d) <= (2 * d) * S - (2 * MaxInt) * s
        /\ (2 * d) * S - (2 * MaxInt) * s <= NumWorkers * d
    BY <1>1, <2>1, <2>8
  <2>10. S \in Int32
    BY <2>5, <2>6, Int32Range
  <2> QED BY <1>3, <1>4, <2>5, <2>9, <2>10 DEF S, s, d
<1> QED BY <1>6, <1>7

\* What a thread writes for an element, for floats and for integers.
LEMMA FloatResult ==
  ASSUME LargestFit, NEW bk, NEW j \in 1 .. Len(Jobs), NEW w \in Workers,
         Jobs[j].type = "FLOAT32", NEW x \in 0 .. Numel(j) - 1
  PROVE  LET e == Factor(bk, j, w, x \div PacketNumel)
         IN  Abs(Final(bk, j, w, x) - ExactOf(bk, j, w, x))
               <= 1 + (NumWorkers * NumWorkers * 2^e) \div (2 * MaxInt)
<1> DEFINE l == x \div PacketNumel
           i == x % PacketNumel
           p == PacketOf(j, l)
           e == Factor(bk, j, w, l)
           S == ElementSum(bk, j, w, p, i)
           d == NumWorkers * 2^e
           s == ExactOf(bk, j, w, x)
<1>1. /\ Numel(j) # 0 /\ l \in 0 .. NumLtus(j) - 1 /\ i \in InLtu(j, l) /\ Offset(l, i) = x
  BY LtuOfElement
<1>2. l \in Nat /\ Batch(j) \in Nat /\ MaxInt \in Nat \ {0} /\ NumWorkers \in Nat \ {0}
  BY <1>1, SliceFacts, ExchangeAssumption, JobFacts
<1>3. p = l + Batch(j) /\ LtuOf(j, p) = p - Batch(j)
  BY DEF PacketOf, LtuOf
<1>4. p \in Nat /\ LtuOf(j, p) = l /\ HasElement(j, p, i)
  <2> HIDE DEF l, i, p
  <2>1. p \in Nat /\ LtuOf(j, p) = l
    BY <1>2, <1>3
  <2> QED BY <1>1, <1>2, <2>1 DEF HasElement
<1>5. Final(bk, j, w, x) = Dequantize(Wrap(S), e)
  BY DEF Final
<1>6. /\ S \in Int32 /\ S \in Int /\ s \in Int /\ e \in Exponents /\ d \in Nat
      /\ -(NumWorkers * d) <= (2 * d) * S - (2 * MaxInt) * s
      /\ (2 * d) * S - (2 * MaxInt) * s <= NumWorkers * d
  <2> HIDE DEF l, i, p
  <2>1. LET S1 == ElementSum(bk, j, w, p, i)
            l1 == LtuOf(j, p)
            e1 == Factor(bk, j, w, l1)
            d1 == NumWorkers * 2^e1
            s1 == ExactOf(bk, j, w, Offset(l1, i))
        IN  /\ S1 \in Int32 /\ S1 \in Int /\ s1 \in Int /\ e1 \in Exponents /\ d1 \in Nat
            /\ -(NumWorkers * d1) <= (2 * d1) * S1 - (2 * MaxInt) * s1
            /\ (2 * d1) * S1 - (2 * MaxInt) * s1 <= NumWorkers * d1
    BY <1>1, <1>4, FloatSum
  <2> QED BY <1>1, <1>4, <2>1
<1>7. Wrap(S) = S
  BY <1>6, WrapFacts
<1> DEFINE b == 2^e
<1>8. b \in Nat
  BY <1>6, Powers
<1>9. Dequantize(S, e) = (S * NumWorkers * b) \div MaxInt
  BY DEF Dequantize
<1>10. d = NumWorkers * b
  OBVIOUS
<1> HIDE DEF l, i, p, e, S, d, s, b
<1> DEFINE X == d * S
           K == NumWorkers * d
<1>11. X \in Int /\ K \in Nat /\ S * NumWorkers * b = X /\ NumWorkers * NumWorkers * b = K
  BY <1>2, <1>6, <1>8, <1>10
<1>12. (2 * d) * S = 2 * X
  BY <1>6
<1>13. -K <= 2 * X - (2 * MaxInt) * s /\ 2 * X - (2 * MaxInt) * s <= K
  BY <1>6, <1>12
<1>14. Final(bk, j, w, x) = X \div MaxInt
  BY <1>5, <1>7, <1>9, <1>11
<1> HIDE DEF X, K
<1>15. /\ (X \div MaxInt) - s <= 1 + (K \div (2 * MaxInt))
       /\ -(1 + (K \div (2 * MaxInt))) <= (X \div MaxInt) - s
       /\ X \div MaxInt \in Int /\ K \div (2 * MaxInt) \in Nat
  BY <1>2, <1>6, <1>11, <1>13, DivisionClose
<1>16. Abs((X \div MaxInt) - s) <= 1 + (K \div (2 * MaxInt))
  <2> DEFINE r == X \div MaxInt
             k == K \div (2 * MaxInt)
  <2>1. r \in Int /\ k \in Nat /\ r - s <= 1 + k /\ -(1 + k) <= r - s
    BY <1>15
  <2> HIDE DEF r, k
  <2>2. Abs(r - s) <= 1 + k
    BY <1>6, <2>1 DEF Abs
  <2> QED BY <2>2 DEF r, k
<1>17. Abs(Final(bk, j, w, x) - s) <= 1 + (K \div (2 * MaxInt))
  BY <1>14, <1>16
<1> QED BY <1>11, <1>17 DEF s, b, e, l

\* Integers that fit are added exactly.
LEMMA IntResult ==
  ASSUME IntSumsFit, NEW bk \in Backends, NEW j \in 1 .. Len(Jobs), NEW w \in Workers,
         Jobs[j].type = "INT32", NEW x \in 0 .. Numel(j) - 1
  PROVE  Final(bk, j, w, x) = ExactOf(bk, j, w, x) /\ ExactOf(bk, j, w, x) \in Int
<1> DEFINE l == x \div PacketNumel
           i == x % PacketNumel
           S == ElementSum(bk, j, w, l, i)
           s == ExactOf(bk, j, w, x)
<1>1. Offset(l, i) = x
  BY LtuOfElement
<1>2. Final(bk, j, w, x) = Wrap(S)
  BY DEF Final, PacketOf
<1>3. \A v \in Workers : Element(bk, j, v, l, i) = Jobs[j].tensor[v][x]
  <2>1. LtuOf(j, l) = l
    BY DEF LtuOf
  <2> HIDE DEF l, i
  <2> QED BY <1>1, <2>1 DEF Element
<1>4. S = s
  <2> HIDE DEF l, i
  <2>1. CASE bk = "dummy"
    BY <1>3, <2>1 DEF ElementSum, ExactOf
  <2>2. CASE bk # "dummy"
    <3>1. [v \in Workers |-> Element(bk, j, v, l, i)] = [v \in Workers |-> Jobs[j].tensor[v][x]]
      BY <1>3
    <3>2. S = SumOf([v \in Workers |-> Element(bk, j, v, l, i)], Workers)
      BY <2>2 DEF ElementSum
    <3>3. s = SumOf([v \in Workers |-> Jobs[j].tensor[v][x]], Workers)
      BY <2>2, ExactSums DEF ExactOf
    <3> QED BY <3>1, <3>2, <3>3
  <2> QED BY <2>1, <2>2
<1>5. s \in Int32
  <2>1. bk = "dummy" \/ bk = "switch"
    BY ExchangeAssumption
  <2>2. /\ "switch" \in Backends => ExactSum(j, x) \in Int32
        /\ "dummy" \in Backends => NumWorkers * Jobs[j].tensor[w][x] \in Int32
    BY DEF IntSumsFit
  <2>3. CASE bk = "dummy"
    BY <2>2, <2>3 DEF ExactOf
  <2>4. CASE bk = "switch"
    BY <2>2, <2>4 DEF ExactOf
  <2> QED BY <2>1, <2>3, <2>4
<1> HIDE DEF S, s, l, i
<1>6. s \in Int /\ Wrap(s) = s
  BY <1>5, Int32Range, WrapFacts
<1> QED BY <1>2, <1>4, <1>6 DEF s

\* When everything was received all elements and factors are there.
LEMMA CompleteFacts ==
  ASSUME Shapes, NEW w \in Workers, PacketsOk(w), DataOk(w), Complete(w), ppp = "quantizer"
  PROVE  LET j == job[w]
         IN  /\ j \in 1 .. Len(Jobs) /\ Numel(j) # 0
             /\ output[w] = [x \in 0 .. Numel(j) - 1 |-> Final(backend, j, w, x)]
             /\ Jobs[j].type = "FLOAT32" =>
                  \A l \in 0 .. NumLtus(j) - 1 : scale[w][l] = Factor(backend, j, w, l)
<1> DEFINE j == job[w]
           n == Pkts(ppp, j)
<1>1. busy[w] /\ burst[w] = <<>> /\ got[w] = n
  BY PktsFact DEF Complete
<1>2. Unprocessed(w) = {}
  BY <1>1, CountFacts
<1>3. /\ j \in 1 .. Len(Jobs) /\ Numel(j) # 0 /\ NumLtus(j) \in Nat /\ Batch(j) \in Nat
      /\ n \in Nat /\ NumLtus(j) <= n
  BY <1>1, BusyFacts
<1>4. \A p \in 0 .. n - 1 : Processed(w, p)
  BY <1>2 DEF Unprocessed, Processed
<1>5. /\ scale[w] = [l \in 0 .. NumLtus(j) - 1 |->
                       IF Jobs[j].type = "FLOAT32" /\ Processed(w, l)
                       THEN Factor(backend, j, w, l) ELSE Unset]
      /\ output[w] = [x \in 0 .. Numel(j) - 1 |->
                        IF Processed(w, PacketOf(j, x \div PacketNumel))
                        THEN Final(backend, j, w, x) ELSE Before(j, w, x)]
  BY <1>1 DEF DataOk
<1>6. Jobs[j].type = "FLOAT32" => n = NumLtus(j) + Batch(j)
  BY <1>3, SliceFacts
<1> HIDE DEF j, n
<1>7. \A l \in 0 .. NumLtus(j) - 1 : l \in 0 .. n - 1 /\ PacketOf(j, l) \in 0 .. n - 1
  <2> SUFFICES ASSUME NEW l \in 0 .. NumLtus(j) - 1
               PROVE  l \in 0 .. n - 1 /\ PacketOf(j, l) \in 0 .. n - 1
    OBVIOUS
  <2>1. NumLtus(j) \in Nat /\ Batch(j) \in Nat /\ n \in Nat /\ NumLtus(j) <= n
    BY <1>3
  <2>2. l \in 0 .. n - 1
    BY <2>1
  <2>3. CASE Jobs[j].type = "INT32"
    BY <2>2, <2>3 DEF PacketOf
  <2>4. CASE Jobs[j].type # "INT32"
    <3>1. Jobs[j].type = "FLOAT32"
      BY <1>3, <2>4, JobFacts
    <3>2. PacketOf(j, l) = l + Batch(j) /\ n = NumLtus(j) + Batch(j)
      BY <1>6, <2>4, <3>1 DEF PacketOf
    <3> QED BY <2>1, <2>2, <3>2
  <2> QED BY <2>3, <2>4
<1>8. \A x \in 0 .. Numel(j) - 1 : x \div PacketNumel \in 0 .. NumLtus(j) - 1
  BY <1>3, LtuOfElement
<1>9. \A x \in 0 .. Numel(j) - 1 : Processed(w, PacketOf(j, x \div PacketNumel))
  BY <1>4, <1>7, <1>8
<1>10. output[w] = [x \in 0 .. Numel(j) - 1 |-> Final(backend, j, w, x)]
  BY <1>5, <1>9
<1>11. Jobs[j].type = "FLOAT32" =>
         \A l \in 0 .. NumLtus(j) - 1 : scale[w][l] = Factor(backend, j, w, l)
  BY <1>4, <1>5, <1>7
<1> QED BY <1>3, <1>10, <1>11 DEF j

\* A complete slice is within the error, from the two lemmas above.
LEMMA RoundingInv == LargestFit /\ IntSumsFit /\ ExchangeInv => ResultsWithinRounding
<1> SUFFICES ASSUME LargestFit, IntSumsFit, ExchangeInv, NEW w \in Workers, Complete(w),
                    ppp = "quantizer", NEW x \in DOMAIN output[w]
             PROVE  LET j == job[w]
                        sum == IF backend = "dummy" THEN NumWorkers * Jobs[j].tensor[w][x]
                               ELSE ExactSum(j, x)
                        error == IF Type(w) = "INT32" THEN 0
                                 ELSE 1 + (NumWorkers * NumWorkers
                                           * 2^(scale[w][x \div PacketNumel])) \div (2 * MaxInt)
                    IN  Abs(output[w][x] - sum) <= error
  BY DEF ResultsWithinRounding
<1> DEFINE j == job[w]
<1>1. Shapes /\ PacketsOk(w) /\ DataOk(w) /\ backend \in Backends
  BY DEF ExchangeInv, Shapes
<1>2. /\ j \in 1 .. Len(Jobs) /\ Numel(j) # 0
      /\ output[w] = [y \in 0 .. Numel(j) - 1 |-> Final(backend, j, w, y)]
      /\ Jobs[j].type = "FLOAT32" =>
           \A l \in 0 .. NumLtus(j) - 1 : scale[w][l] = Factor(backend, j, w, l)
  BY <1>1, CompleteFacts
<1>3. Type(w) = Jobs[j].type
  BY DEF Type
<1> HIDE DEF j
<1>4. x \in 0 .. Numel(j) - 1 /\ output[w][x] = Final(backend, j, w, x)
  BY <1>2
<1>5. x \div PacketNumel \in 0 .. NumLtus(j) - 1
  BY <1>2, <1>4, LtuOfElement
<1>6. CASE Jobs[j].type = "INT32"
  <2> DEFINE s == ExactOf(backend, j, w, x)
  <2>1. output[w][x] = s /\ s \in Int
    BY <1>1, <1>2, <1>4, <1>6, IntResult
  <2>2. s = IF backend = "dummy" THEN NumWorkers * Jobs[j].tensor[w][x] ELSE ExactSum(j, x)
    BY DEF ExactOf
  <2> HIDE DEF s
  <2>3. Abs(output[w][x] - s) <= 0
    BY <2>1 DEF Abs
  <2> QED BY <1>3, <1>6, <2>2, <2>3 DEF j
<1>7. CASE Jobs[j].type # "INT32"
  <2> DEFINE l == x \div PacketNumel
             s == ExactOf(backend, j, w, x)
  <2>1. Jobs[j].type = "FLOAT32"
    BY <1>2, <1>7, JobFacts
  <2>2. scale[w][l] = Factor(backend, j, w, l)
    BY <1>2, <1>5, <2>1
  <2>3. Abs(Final(backend, j, w, x) - s)
          <= 1 + (NumWorkers * NumWorkers * 2^Factor(backend, j, w, l)) \div (2 * MaxInt)
    BY <1>2, <1>4, <2>1, FloatResult
  <2>4. s = IF backend = "dummy" THEN NumWorkers * Jobs[j].tensor[w][x] ELSE ExactSum(j, x)
    BY DEF ExactOf
  <2> HIDE DEF s
  <2>5. Abs(output[w][x] - s) <= 1 + (NumWorkers * NumWorkers * 2^(scale[w][l])) \div (2 * MaxInt)
    BY <1>4, <2>2, <2>3
  <2> QED BY <1>3, <1>7, <2>4, <2>5 DEF j
<1> QED BY <1>6, <1>7

\* A finished slice holds the sums up to the rounding of every worker
\* (PostprocessSingle), integers exactly, when nothing can overflow.
THEOREM ResultsAreWithinRounding ==
  LargestFit /\ IntSumsFit /\ Spec => []ResultsWithinRounding
<1>1. ASSUME LargestFit, IntSumsFit PROVE Spec => []ResultsWithinRounding
  <2>1. ExchangeInv => ResultsWithinRounding
    BY <1>1, RoundingInv
  <2> QED BY <2>1, ExchangeInvariant, PTL
<1> QED BY <1>1
=============================================================================
