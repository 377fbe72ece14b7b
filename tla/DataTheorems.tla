---------------------------- MODULE DataTheorems ----------------------------
(***************************************************************************)
(* Facts about the data of the models, whatever they are about: the sums   *)
(* of naturals over finite sets that byte counters are compared with,      *)
(* Functions.SumFunctionOnSet, which adds the values of a function on a    *)
(* set in an order nothing depends on; and sequences without duplicates,   *)
(* as the channels that hold packs are and the items that wait for an ack. *)
(***************************************************************************)
EXTENDS Sequences, FiniteSetTheorems, TLAPS

\* The element the library's folds take from a non-empty set.
Pick(s) == CHOOSE x \in s : TRUE

\* g satisfies the equation by which MapThenFoldSet computes a sum: g[s] is the
\* sum of f over s, for every s within S.
IsSum(g, f, S) ==
  g = [s \in SUBSET S |-> IF s = {} THEN 0 ELSE f[Pick(s)] + g[s \ {Pick(s)}]]

\* A family of subsets of a finite set has a member that no other member is
\* within. Every induction of this module is an appeal to it: a family of
\* counterexamples would have a least one, and taking one element from that leaves
\* a set that is none.
LEMMA LeastSet ==
  ASSUME NEW S, IsFiniteSet(S), NEW B, B \subseteq SUBSET S, B # {}
  PROVE  \E T \in B : \A U \in B : U \subseteq T => U = T
<1>1. FiniteSubsetsOf(S) = SUBSET S
  BY FS_FiniteSubsetsOfFinite
<1>2. IsWellFoundedOn(StrictSubsetOrdering(S), SUBSET S)
  BY <1>1, FS_StrictSubsetOrderingWellFounded, ZenonT(30)
<1>3. PICK T \in B : \A U \in B : <<U, T>> \notin StrictSubsetOrdering(S)
  BY <1>2, WFMin
<1>4. \A U \in B : U \subseteq T => U = T
  BY <1>3, ZenonT(30) DEF StrictSubsetOrdering
<1> QED
  BY <1>4

\* The element taken from a non-empty set is one of its elements.
LEMMA PickMember ==
  ASSUME NEW S, S # {}
  PROVE  Pick(S) \in S
  BY DEF Pick

\* Two solutions of the equation, over two sets, agree where both are defined.
LEMMA SumsAgree ==
  ASSUME NEW S, IsFiniteSet(S), NEW T, NEW f, NEW g, NEW h,
         IsSum(g, f, S), IsSum(h, f, T)
  PROVE  \A U \in SUBSET (S \cap T) : g[U] = h[U]
<1> DEFINE B == {U \in SUBSET (S \cap T) : g[U] # h[U]}
<1>1. SUFFICES ASSUME B # {} PROVE FALSE
  OBVIOUS
<1>2. B \subseteq SUBSET S
  OBVIOUS
<1> HIDE DEF B
<1>3. PICK U \in B : \A V \in B : V \subseteq U => V = U
  BY <1>1, <1>2, LeastSet
<1>4. /\ g[U] = IF U = {} THEN 0 ELSE f[Pick(U)] + g[U \ {Pick(U)}]
      /\ h[U] = IF U = {} THEN 0 ELSE f[Pick(U)] + h[U \ {Pick(U)}]
  BY ZenonT(30) DEF IsSum, B
<1>5. CASE U = {}
  BY <1>4, <1>5 DEF B
<1>6. CASE U # {}
  <2>1. Pick(U) \in U
    BY <1>6, PickMember
  <2>2. U \ {Pick(U)} \notin B
    BY <1>3, <2>1
  <2>3. g[U \ {Pick(U)}] = h[U \ {Pick(U)}]
    BY <2>2 DEF B
  <2> QED
    BY <1>4, <1>6, <2>3 DEF B
<1> QED
  BY <1>5, <1>6

\* The solution the fold uses.
PartialSums(f, S) == CHOOSE g : IsSum(g, f, S)

\* Over a finite set the equation has a solution.
LEMMA SumExists ==
  ASSUME NEW S, IsFiniteSet(S), NEW f
  PROVE  IsSum(PartialSums(f, S), f, S)
<1> DEFINE B == {T \in SUBSET S : ~ IsSum(PartialSums(f, T), f, T)}
<1>1. SUFFICES ASSUME B # {} PROVE FALSE
  OBVIOUS
<1>2. B \subseteq SUBSET S
  OBVIOUS
<1>3. \A T \in SUBSET S : T \notin B => IsSum(PartialSums(f, T), f, T)
  OBVIOUS
<1>4. \A T \in B : ~ IsSum(PartialSums(f, T), f, T)
  OBVIOUS
<1> HIDE DEF B
<1>5. PICK T \in B : \A U \in B : U \subseteq T => U = T
  BY <1>1, <1>2, LeastSet
<1>6. \A U \in SUBSET T : U # T => IsSum(PartialSums(f, U), f, U)
  BY <1>2, <1>3, <1>5
<1> DEFINE Rest(s) == s \ {Pick(s)}
           Below(s) == PartialSums(f, Rest(s))[Rest(s)]
           g == [s \in SUBSET T |-> IF s = {} THEN 0 ELSE f[Pick(s)] + Below(s)]
<1>7. \A s \in SUBSET T : s # {} => g[Rest(s)] = Below(s)
  <2> SUFFICES ASSUME NEW s \in SUBSET T, s # {}
               PROVE  g[Rest(s)] = Below(s)
    BY ZenonT(30)
  <2> DEFINE u == Rest(s)
  <2>1. Pick(s) \in s
    BY PickMember
  <2>2. u \in SUBSET T /\ u # T
    BY <2>1
  <2>3. IsSum(PartialSums(f, u), f, u)
    BY <1>6, <2>2
  <2> HIDE DEF u
  <2>4. PartialSums(f, u)[u] = IF u = {} THEN 0 ELSE f[Pick(u)] + PartialSums(f, u)[Rest(u)]
    BY <2>3, ZenonT(30) DEF IsSum
  <2>5. CASE u = {}
    <3>1. g[u] = 0
      BY <2>2, <2>5
    <3>2. PartialSums(f, u)[u] = 0
      BY <2>4, <2>5
    <3> QED
      BY <3>1, <3>2 DEF u
  <2>6. CASE u # {}
    <3> DEFINE v == Rest(u)
    <3>1. Pick(u) \in u
      BY <2>6, PickMember
    <3>2. v \in SUBSET T /\ v # T /\ v \subseteq u
      BY <2>2, <3>1
    <3>3. IsSum(PartialSums(f, v), f, v)
      BY <1>6, <3>2
    <3>4. IsFiniteSet(u)
      BY <1>2, <2>2, FS_Subset
    <3>5. \A w \in SUBSET (u \cap v) : PartialSums(f, u)[w] = PartialSums(f, v)[w]
      BY <2>3, <3>3, <3>4, SumsAgree
    <3>6. PartialSums(f, u)[v] = PartialSums(f, v)[v]
      BY <3>2, <3>5, ZenonT(30)
    <3>7. g[u] = f[Pick(u)] + PartialSums(f, v)[v]
      BY <2>2, <2>6
    <3>8. PartialSums(f, u)[u] = f[Pick(u)] + PartialSums(f, u)[v]
      BY <2>4, <2>6
    <3> QED
      BY <3>6, <3>7, <3>8 DEF u
  <2> QED
    BY <2>5, <2>6
<1>8. g = [s \in SUBSET T |-> IF s = {} THEN 0 ELSE f[Pick(s)] + g[s \ {Pick(s)}]]
  <2>1. \A s \in SUBSET T : (IF s = {} THEN 0 ELSE f[Pick(s)] + Below(s))
                          = (IF s = {} THEN 0 ELSE f[Pick(s)] + g[s \ {Pick(s)}])
    <3> SUFFICES ASSUME NEW s \in SUBSET T
                 PROVE  (IF s = {} THEN 0 ELSE f[Pick(s)] + Below(s))
                          = (IF s = {} THEN 0 ELSE f[Pick(s)] + g[s \ {Pick(s)}])
      BY ZenonT(30)
    <3>1. s # {} => g[s \ {Pick(s)}] = Below(s)
      BY <1>7, ZenonT(30)
    <3> HIDE DEF g, Below
    <3> QED
      BY <3>1
  <2>2. g = [s \in SUBSET T |-> IF s = {} THEN 0 ELSE f[Pick(s)] + Below(s)]
    OBVIOUS
  <2> HIDE DEF g, Below
  <2> QED
    BY <2>1, <2>2, ZenonT(30)
<1>9. IsSum(g, f, T)
  <2> HIDE DEF g
  <2> QED
    BY <1>8, ZenonT(30) DEF IsSum
<1>10. \E k : IsSum(k, f, T)
  <2> HIDE DEF g
  <2> QED BY <1>9
<1>11. IsSum(PartialSums(f, T), f, T)
  BY <1>10 DEF PartialSums
<1> QED
  BY <1>4, <1>11

\* SumFunctionOnSet reads that solution at the whole set.
LEMMA SumIsPartial ==
  ASSUME NEW f, NEW S
  PROVE  SumFunctionOnSet(f, S) = PartialSums(f, S)[S]
  BY DEF SumFunctionOnSet, FoldFunctionOnSet, MapThenFoldSet, PartialSums, IsSum, Pick
\* Nothing sums to nothing.
LEMMA SumEmpty ==
  ASSUME NEW f
  PROVE  SumFunctionOnSet(f, {}) = 0
<1>1. IsSum(PartialSums(f, {}), f, {})
  BY FS_EmptySet, SumExists
<1>2. PartialSums(f, {})[{}] = 0
  BY <1>1, ZenonT(30) DEF IsSum
<1> QED
  BY <1>2, SumIsPartial

\* A sum is the element the fold takes first, and the sum of the rest.
LEMMA SumPick ==
  ASSUME NEW f, NEW S, IsFiniteSet(S), S # {}
  PROVE  SumFunctionOnSet(f, S)
           = f[Pick(S)] + SumFunctionOnSet(f, S \ {Pick(S)})
<1> DEFINE R == S \ {Pick(S)}
<1>1. IsFiniteSet(R)
  BY FS_RemoveElement
<1>2. IsSum(PartialSums(f, S), f, S) /\ IsSum(PartialSums(f, R), f, R)
  BY <1>1, SumExists
<1>3. PartialSums(f, S)[S] = f[Pick(S)] + PartialSums(f, S)[R]
  BY <1>2, ZenonT(30) DEF IsSum
<1>4. PartialSums(f, S)[R] = PartialSums(f, R)[R]
  <2>1. R \in SUBSET (S \cap R)
    OBVIOUS
  <2> HIDE DEF R
  <2> QED
    BY <1>2, <2>1, SumsAgree
<1>5. SumFunctionOnSet(f, S) = PartialSums(f, S)[S]
  BY SumIsPartial
<1>6. SumFunctionOnSet(f, R) = PartialSums(f, R)[R]
  BY SumIsPartial
<1> QED
  BY <1>3, <1>4, <1>5, <1>6

\* Naturals sum to a natural.
LEMMA SumType ==
  ASSUME NEW S, IsFiniteSet(S), NEW f, \A i \in S : f[i] \in Nat
  PROVE  SumFunctionOnSet(f, S) \in Nat
<1> DEFINE B == {T \in SUBSET S : SumFunctionOnSet(f, T) \notin Nat}
<1>1. SUFFICES ASSUME B # {} PROVE FALSE
  OBVIOUS
<1>2. B \subseteq SUBSET S
  OBVIOUS
<1> HIDE DEF B
<1>3. PICK T \in B : \A U \in B : U \subseteq T => U = T
  BY <1>1, <1>2, LeastSet
<1>4. IsFiniteSet(T)
  BY <1>2, FS_Subset
<1>5. CASE T = {}
  BY <1>5, SumEmpty DEF B
<1>6. CASE T # {}
  <2>1. Pick(T) \in T
    BY <1>6, PickMember
  <2>2. T \ {Pick(T)} \notin B
    BY <1>3, <2>1
  <2>3. SumFunctionOnSet(f, T \ {Pick(T)}) \in Nat
    BY <1>2, <2>2 DEF B
  <2>4. f[Pick(T)] \in Nat
    BY <1>2, <2>1
  <2>5. SumFunctionOnSet(f, T) = f[Pick(T)] + SumFunctionOnSet(f, T \ {Pick(T)})
    BY <1>4, <1>6, SumPick
  <2>6. SumFunctionOnSet(f, T) \in Nat
    BY <2>3, <2>4, <2>5
  <2> QED
    BY <2>6 DEF B
<1> QED
  BY <1>5, <1>6

\* Any element may be taken first: what a counter loses when one item leaves.
LEMMA SumRemove ==
  ASSUME NEW S, IsFiniteSet(S), NEW f, \A i \in S : f[i] \in Nat, NEW x \in S
  PROVE  SumFunctionOnSet(f, S) = f[x] + SumFunctionOnSet(f, S \ {x})
<1> DEFINE Sum(T) == SumFunctionOnSet(f, T)
           B == {T \in SUBSET S : \E y \in T : Sum(T) # f[y] + Sum(T \ {y})}
<1>1. SUFFICES ASSUME B # {} PROVE FALSE
  BY ZenonT(30)
<1>2. B \subseteq SUBSET S
  OBVIOUS
<1>3. \A T \in SUBSET S : Sum(T) \in Nat
  BY FS_Subset, SumType, ZenonT(30)
<1>4. \A T \in SUBSET S : T # {} => Sum(T) = f[Pick(T)] + Sum(T \ {Pick(T)})
  BY FS_Subset, SumPick
<1> HIDE DEF Sum, B
<1>5. PICK T \in B : \A U \in B : U \subseteq T => U = T
  BY <1>1, <1>2, LeastSet
<1>6. PICK y \in T : Sum(T) # f[y] + Sum(T \ {y})
  BY DEF B
<1>7. Pick(T) \in T
  BY PickMember
<1> DEFINE z == Pick(T)
<1>8. z \in T /\ Sum(T) = f[z] + Sum(T \ {z})
  BY <1>2, <1>4, <1>7
<1> HIDE DEF z
<1>9. z # y
  BY <1>6, <1>8
<1>10. T \ {z} \notin B /\ T \ {y} \notin B
  BY <1>5, <1>8
<1>11. Sum(T \ {z}) = f[y] + Sum((T \ {z}) \ {y})
  BY <1>2, <1>9, <1>10, ZenonT(30) DEF B
<1>12. Sum(T \ {y}) = f[z] + Sum((T \ {y}) \ {z})
  BY <1>2, <1>8, <1>9, <1>10, ZenonT(30) DEF B
<1>13. (T \ {z}) \ {y} = (T \ {y}) \ {z}
  OBVIOUS
<1>14. f[z] \in Nat /\ f[y] \in Nat /\ Sum((T \ {y}) \ {z}) \in Nat
  BY <1>2, <1>3, <1>8
<1> QED
  BY <1>6, <1>8, <1>11, <1>12, <1>13, <1>14

\* What a counter gains when one item comes.
LEMMA SumAdd ==
  ASSUME NEW S, IsFiniteSet(S), NEW f, NEW x, x \notin S,
         \A i \in S \cup {x} : f[i] \in Nat
  PROVE  SumFunctionOnSet(f, S \cup {x}) = f[x] + SumFunctionOnSet(f, S)
<1>1. IsFiniteSet(S \cup {x})
  BY FS_AddElement
<1>2. (S \cup {x}) \ {x} = S
  OBVIOUS
<1> QED
  BY <1>1, <1>2, SumRemove

\* Functions that agree on a set have the same sum over it.
LEMMA SumSame ==
  ASSUME NEW S, IsFiniteSet(S), NEW f, NEW g, \A i \in S : f[i] = g[i]
  PROVE  SumFunctionOnSet(f, S) = SumFunctionOnSet(g, S)
<1> DEFINE B == {T \in SUBSET S : SumFunctionOnSet(f, T) # SumFunctionOnSet(g, T)}
<1>1. SUFFICES ASSUME B # {} PROVE FALSE
  OBVIOUS
<1>2. B \subseteq SUBSET S
  OBVIOUS
<1> HIDE DEF B
<1>3. PICK T \in B : \A U \in B : U \subseteq T => U = T
  BY <1>1, <1>2, LeastSet
<1>4. IsFiniteSet(T)
  BY <1>2, FS_Subset
<1>5. CASE T = {}
  BY <1>5, SumEmpty DEF B
<1>6. CASE T # {}
  <2>1. Pick(T) \in T
    BY <1>6, PickMember
  <2>2. T \ {Pick(T)} \notin B
    BY <1>3, <2>1
  <2>3. SumFunctionOnSet(f, T \ {Pick(T)}) = SumFunctionOnSet(g, T \ {Pick(T)})
    BY <1>2, <2>2 DEF B
  <2>4. f[Pick(T)] = g[Pick(T)]
    BY <1>2, <2>1
  <2>5. /\ SumFunctionOnSet(f, T) = f[Pick(T)] + SumFunctionOnSet(f, T \ {Pick(T)})
        /\ SumFunctionOnSet(g, T) = g[Pick(T)] + SumFunctionOnSet(g, T \ {Pick(T)})
    BY <1>4, <1>6, SumPick
  <2> QED
    BY <2>3, <2>4, <2>5 DEF B
<1> QED
  BY <1>5, <1>6

\* What a counter loses when several items leave at once.
LEMMA SumSplit ==
  ASSUME NEW S, IsFiniteSet(S), NEW f, \A i \in S : f[i] \in Nat,
         NEW R \in SUBSET S
  PROVE  SumFunctionOnSet(f, S) = SumFunctionOnSet(f, R) + SumFunctionOnSet(f, S \ R)
<1> DEFINE Sum(T) == SumFunctionOnSet(f, T)
           B == {T \in SUBSET R : Sum(S) # Sum(T) + Sum(S \ T)}
<1>1. SUFFICES ASSUME B # {} PROVE FALSE
  BY ZenonT(30)
<1>2. B \subseteq SUBSET R /\ IsFiniteSet(R)
  BY FS_Subset
<1>3. \A T \in SUBSET S : IsFiniteSet(T) /\ Sum(T) \in Nat
  BY FS_Subset, SumType
<1>4. \A T \in SUBSET S : \A x \in T : Sum(T) = f[x] + Sum(T \ {x})
  BY FS_Subset, SumRemove
<1>5. Sum({}) = 0
  BY SumEmpty
<1> HIDE DEF Sum, B
<1>6. PICK T \in B : \A U \in B : U \subseteq T => U = T
  BY <1>1, <1>2, LeastSet
<1>7. Sum(S) # Sum(T) + Sum(S \ T) /\ T \in SUBSET S
  BY DEF B
<1>8. CASE T = {}
  <2>1. S \ {} = S
    OBVIOUS
  <2> QED
    BY <1>3, <1>5, <1>7, <1>8, <2>1
<1>9. CASE T # {}
  <2>1. PICK x \in T : TRUE
    BY <1>9
  <2>2. T \ {x} \notin B
    BY <1>6
  <2>3. Sum(S) = Sum(T \ {x}) + Sum(S \ (T \ {x}))
    BY <1>2, <2>2 DEF B
  <2>4. Sum(T) = f[x] + Sum(T \ {x})
    BY <1>4, <1>7
  <2>5. Sum(S \ (T \ {x})) = f[x] + Sum(S \ T)
    <3>1. (S \ (T \ {x})) \ {x} = S \ T
      OBVIOUS
    <3>2. x \in S \ (T \ {x})
      BY <1>7
    <3> QED
      BY <1>4, <3>1, <3>2
  <2>6. Sum(T \ {x}) \in Nat /\ Sum(S \ T) \in Nat /\ f[x] \in Nat
    BY <1>3, <1>7
  <2> QED
    BY <1>7, <2>3, <2>4, <2>5, <2>6
<1> QED
  BY <1>8, <1>9

\* Equal values sum to a multiple of their number.
LEMMA SumUniform ==
  ASSUME NEW S, IsFiniteSet(S), NEW f, NEW k \in Nat, \A i \in S : f[i] = k
  PROVE  SumFunctionOnSet(f, S) = k * Cardinality(S)
<1> DEFINE B == {T \in SUBSET S : SumFunctionOnSet(f, T) # k * Cardinality(T)}
<1>1. SUFFICES ASSUME B # {} PROVE FALSE
  OBVIOUS
<1>2. B \subseteq SUBSET S
  OBVIOUS
<1> HIDE DEF B
<1>3. PICK T \in B : \A U \in B : U \subseteq T => U = T
  BY <1>1, <1>2, LeastSet
<1>4. IsFiniteSet(T)
  BY <1>2, FS_Subset
<1>5. CASE T = {}
  BY <1>5, SumEmpty, FS_EmptySet DEF B
<1>6. CASE T # {}
  <2> DEFINE x == Pick(T)
             n == Cardinality(T \ {x})
  <2>1. x \in T
    BY <1>6, PickMember
  <2>2. T \ {x} \notin B
    BY <1>3, <2>1
  <2>3. SumFunctionOnSet(f, T \ {x}) = k * n
    BY <1>2, <2>2 DEF B
  <2>4. SumFunctionOnSet(f, T) = f[x] + SumFunctionOnSet(f, T \ {x})
    BY <1>4, <1>6, SumPick
  <2>5. Cardinality(T) = n + 1 /\ n \in Nat
    <3>1. Cardinality(T) \in Nat
      BY <1>4, FS_CardinalityType
    <3>2. IsFiniteSet(T \ {x}) /\ n = Cardinality(T) - 1
      BY <1>4, <2>1, FS_RemoveElement, ZenonT(30)
    <3>3. n \in Nat
      BY <3>2, FS_CardinalityType
    <3> HIDE DEF n
    <3> QED
      BY <3>1, <3>2, <3>3
  <2>6. f[x] = k
    BY <1>2, <2>1
  <2> HIDE DEF x, n
  <2>7. k * (n + 1) = k * n + k /\ k * n \in Nat
    BY <2>5
  <2>8. SumFunctionOnSet(f, T) = k * Cardinality(T)
    BY <2>3, <2>4, <2>5, <2>6, <2>7
  <2> QED
    BY <2>8 DEF B
<1> QED
  BY <1>5, <1>6

-----------------------------------------------------------------------------
(* Sequences without duplicates. *)

Elements(q) == {q[i] : i \in 1 .. Len(q)}

NoDup(q) == \A i, j \in 1 .. Len(q) : q[i] = q[j] => i = j

\* Taking the head of a channel without duplicates takes that pack away.
LEMMA TailTakes ==
    ASSUME NEW S, NEW q \in Seq(S), q # <<>>, NoDup(q)
    PROVE  /\ Head(q) \in Elements(q)
           /\ Elements(Tail(q)) = Elements(q) \ {Head(q)}
           /\ NoDup(Tail(q))
<1>1. /\ Len(q) \in Nat \ {0} /\ Head(q) = q[1] /\ Len(Tail(q)) = Len(q) - 1
      /\ \A i \in 1 .. Len(q) - 1 : Tail(q)[i] = q[i + 1]
  OBVIOUS
<1>2. ASSUME NEW x \in Elements(Tail(q)) PROVE x \in Elements(q) \ {Head(q)}
  <2>1. PICK i \in 1 .. Len(q) - 1 : x = q[i + 1]
    BY <1>1, <1>2 DEF Elements
  <2>2. i + 1 \in 1 .. Len(q) /\ i + 1 # 1 /\ 1 \in 1 .. Len(q)
    BY <1>1
  <2> QED
    BY <1>1, <2>1, <2>2 DEF Elements, NoDup
<1>3. ASSUME NEW x \in Elements(q), x # Head(q) PROVE x \in Elements(Tail(q))
  <2>1. PICK i \in 1 .. Len(q) : x = q[i]
    BY <1>3 DEF Elements
  <2>2. i - 1 \in 1 .. Len(q) - 1 /\ (i - 1) + 1 = i
    BY <1>1, <1>3, <2>1
  <2>3. x = Tail(q)[i - 1]
    BY <1>1, <2>1, <2>2
  <2> QED
    BY <1>1, <2>2, <2>3 DEF Elements
<1>4. NoDup(Tail(q))
  <2> SUFFICES ASSUME NEW i \in 1 .. Len(q) - 1, NEW j \in 1 .. Len(q) - 1,
                      Tail(q)[i] = Tail(q)[j]
               PROVE  i = j
    BY <1>1 DEF NoDup
  <2>1. q[i + 1] = q[j + 1] /\ i + 1 \in 1 .. Len(q) /\ j + 1 \in 1 .. Len(q)
    BY <1>1
  <2>2. i + 1 = j + 1
    BY <2>1 DEF NoDup
  <2> QED
    BY <2>2
<1>5. Head(q) \in Elements(q)
  BY <1>1 DEF Elements
<1> QED
  BY <1>2, <1>3, <1>4, <1>5

\* Sending a pack the channel does not hold adds that pack.
LEMMA AppendAdds ==
    ASSUME NEW S, NEW q \in Seq(S), NEW x \in S, NoDup(q), x \notin Elements(q)
    PROVE  /\ Elements(Append(q, x)) = Elements(q) \cup {x}
           /\ NoDup(Append(q, x))
<1>1. /\ Len(q) \in Nat /\ Len(Append(q, x)) = Len(q) + 1
      /\ Append(q, x)[Len(q) + 1] = x
      /\ \A i \in 1 .. Len(q) : Append(q, x)[i] = q[i]
  OBVIOUS
<1>2. \A i \in 1 .. Len(q) + 1 : i \in 1 .. Len(q) \/ i = Len(q) + 1
  BY <1>1
<1>3. /\ \A i \in 1 .. Len(q) : i \in 1 .. Len(q) + 1
      /\ Len(q) + 1 \in 1 .. Len(q) + 1
  BY <1>1
<1>4. ASSUME NEW y \in Elements(Append(q, x)) PROVE y \in Elements(q) \cup {x}
  <2>1. PICK i \in 1 .. Len(q) + 1 : y = Append(q, x)[i]
    BY <1>1, <1>4 DEF Elements
  <2> QED
    BY <1>1, <1>2, <2>1 DEF Elements
<1>5. ASSUME NEW y \in Elements(q) \cup {x} PROVE y \in Elements(Append(q, x))
  <2>1. CASE y = x
    BY <1>1, <1>3, <2>1 DEF Elements
  <2>2. CASE y \in Elements(q)
    <3>1. PICK i \in 1 .. Len(q) : y = q[i]
      BY <2>2 DEF Elements
    <3> QED
      BY <1>1, <1>3, <3>1 DEF Elements
  <2> QED
    BY <1>5, <2>1, <2>2, SMTT(30)
<1>6. NoDup(Append(q, x))
  <2> SUFFICES ASSUME NEW i \in 1 .. Len(q) + 1, NEW j \in 1 .. Len(q) + 1,
                      Append(q, x)[i] = Append(q, x)[j]
               PROVE  i = j
    BY <1>1 DEF NoDup
  <2>1. \A k \in 1 .. Len(q) : q[k] # x
    BY DEF Elements
  <2> QED
    BY <1>1, <1>2, <2>1 DEF NoDup
<1> QED
  BY <1>4, <1>5, <1>6

\* An empty sequence has no elements.
LEMMA EmptyHasNone == Elements(<<>>) = {} /\ NoDup(<<>>)
<1>1. Len(<<>>) = 0 /\ 1 .. 0 = {}
    OBVIOUS
<1>. QED
    BY <1>1, Zenon DEF Elements, NoDup

\* What is appended to a sequence comes to what it had.
LEMMA Appends ==
    ASSUME NEW S, NEW q \in Seq(S), NEW x \in S
    PROVE  Elements(q) \subseteq Elements(Append(q, x)) /\ x \in Elements(Append(q, x))
<1>1. /\ Len(q) \in Nat /\ Len(Append(q, x)) = Len(q) + 1
      /\ Append(q, x)[Len(q) + 1] = x
      /\ \A i \in 1 .. Len(q) : Append(q, x)[i] = q[i]
    OBVIOUS
<1>. QED
    BY <1>1 DEF Elements

LEMMA AppendsTwo ==
    ASSUME NEW S, NEW q \in Seq(S), NEW x \in S, NEW y \in S
    PROVE  /\ Elements(q) \subseteq Elements(q \o <<x, y>>)
           /\ x \in Elements(q \o <<x, y>>) /\ y \in Elements(q \o <<x, y>>)
<1>1. /\ Len(q) \in Nat /\ Len(q \o <<x, y>>) = Len(q) + 2
      /\ (q \o <<x, y>>)[Len(q) + 1] = x /\ (q \o <<x, y>>)[Len(q) + 2] = y
      /\ \A i \in 1 .. Len(q) : (q \o <<x, y>>)[i] = q[i]
    OBVIOUS
<1>. QED
    BY <1>1 DEF Elements

\* What is removed from a sequence without duplicates is not in the rest.
LEMMA RemovalTakes ==
    ASSUME NEW S, NEW q \in Seq(S), NoDup(q), NEW k \in 1 .. Len(q), NEW r,
           r = [j \in 1 .. Len(q) - 1 |-> IF j < k THEN q[j] ELSE q[j + 1]]
    PROVE  Elements(r) = Elements(q) \ {q[k]}
<1>1. Len(q) \in Nat /\ Len(r) = Len(q) - 1
    OBVIOUS
<1>. DEFINE p(j) == IF j < k THEN j ELSE j + 1
<1>2. \A j \in 1 .. Len(r) : p(j) \in 1 .. Len(q) /\ p(j) # k /\ r[j] = q[p(j)]
    BY <1>1
<1>3. ASSUME NEW l \in 1 .. Len(q), l # k
      PROVE  \E j \in 1 .. Len(r) : p(j) = l
  <2>1. CASE l < k
    BY <1>1, <2>1
  <2>2. CASE l > k
    <3>1. l - 1 \in 1 .. Len(r) /\ p(l - 1) = l
      BY <1>1, <2>2
    <3>. QED
      BY <3>1
  <2>3. l < k \/ l > k
    BY <1>1, <1>3
  <2>. QED
    BY <2>1, <2>2, <2>3, ZenonT(30)
<1>. HIDE DEF p
<1>4. ASSUME NEW x \in Elements(r)
      PROVE  x \in Elements(q) \ {q[k]}
  <2>1. PICK j \in 1 .. Len(r) : x = r[j]
    BY <1>4 DEF Elements
  <2>2. p(j) \in 1 .. Len(q) /\ p(j) # k /\ x = q[p(j)]
    BY <1>2, <2>1, ZenonT(30)
  <2>. QED
    BY <2>2 DEF Elements, NoDup
<1>5. ASSUME NEW x \in Elements(q), x # q[k]
      PROVE  x \in Elements(r)
  <2>1. PICK l \in 1 .. Len(q) : x = q[l]
    BY <1>5 DEF Elements
  <2>2. PICK j \in 1 .. Len(r) : p(j) = l
    BY <1>3, <1>5, <2>1
  <2>3. x = r[j]
    BY <1>2, <2>1, <2>2, ZenonT(30)
  <2>. QED
    BY <2>3, ZenonT(30) DEF Elements
<1>. QED
    BY <1>4, <1>5

\* A counter of a family is changed.
LEMMA OneChanged ==
    ASSUME NEW S, NEW f \in [S -> Nat], NEW x \in S, NEW n \in Nat
    PROVE  /\ [f EXCEPT ![x] = n] \in [S -> Nat]
           /\ [f EXCEPT ![x] = n][x] = n
           /\ \A y \in S : y # x => [f EXCEPT ![x] = n][y] = f[y]
OBVIOUS
=============================================================================
