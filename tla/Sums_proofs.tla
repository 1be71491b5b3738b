----------------------------- MODULE Sums_proofs -----------------------------
(***************************************************************************)
(* Proofs about sums: the coins a student may spend (Coins), and the       *)
(* counters, marks and subjects of a graded attempt (Grading). Both use    *)
(* SumFunctionOnSet of the community modules. Its fold is a choice of a    *)
(* function over the subsets of a set; the first part shows that it exists *)
(* and that the sum does not depend on the order of the summands.          *)
(***************************************************************************)
EXTENDS Coins, Grading, FiniteSetTheorems, SequenceTheorems, WellFoundedInduction, TLAPS

-----------------------------------------------------------------------------
(* Sums over finite sets                                                   *)

(* Among the sets that break a claim about the subsets of a finite set one *)
(* is smallest: without any of its elements it is as claimed.              *)
LEMMA Smallest ==
  ASSUME NEW S, IsFiniteSet(S), NEW Bad, Bad \subseteq SUBSET S, Bad # {}
  PROVE  \E T \in Bad : \A x \in T : T \ {x} \notin Bad
<1>1. Bad \subseteq FiniteSubsetsOf(S)
  BY FS_Subset DEF FiniteSubsetsOf
<1>2. IsWellFoundedOn(StrictSubsetOrdering(S), FiniteSubsetsOf(S))
  BY FS_StrictSubsetOrderingWellFounded
<1>3. PICK T \in Bad : \A U \in Bad : ~(<<U, T>> \in StrictSubsetOrdering(S))
  BY <1>1, <1>2, WFMin
<1>4. ASSUME NEW x \in T, T \ {x} \in Bad PROVE FALSE
  <2>1. <<T \ {x}, T>> \in StrictSubsetOrdering(S)
    BY <1>4 DEF StrictSubsetOrdering
  <2> QED BY <1>3, <1>4, <2>1
<1> QED BY <1>3, <1>4

(* Induction over the subsets of a finite set, element by element.         *)
LEMMA SetInduction ==
  ASSUME NEW S, IsFiniteSet(S), NEW Good, {} \in Good,
         \A T \in SUBSET S : \A x \in S \ T : T \in Good => T \cup {x} \in Good
  PROVE  S \in Good
<1> SUFFICES ASSUME S \notin Good PROVE FALSE
  OBVIOUS
<1>1. PICK T \in {T \in SUBSET S : T \notin Good} :
        \A x \in T : T \ {x} \notin {U \in SUBSET S : U \notin Good}
  <2> DEFINE Bad == {T \in SUBSET S : T \notin Good}
  <2>1. Bad \subseteq SUBSET S /\ Bad # {}
    OBVIOUS
  <2> HIDE DEF Bad
  <2>2. \E T \in Bad : \A x \in T : T \ {x} \notin Bad
    BY <2>1, Smallest
  <2> QED BY <2>2 DEF Bad
<1>2. PICK x : x \in T
  BY <1>1
<1>3. T = (T \ {x}) \cup {x} /\ T \ {x} \in SUBSET S /\ x \in S \ (T \ {x})
  BY <1>2
<1> QED BY <1>1, <1>2, <1>3

(* What SumFunctionOnSet builds: the sum of each subset, from one of its   *)
(* elements and the rest.                                                  *)
Choice(s) == CHOOSE x \in s : TRUE

IsSum(g, f, S) ==
  g = [s \in SUBSET S |-> IF s = {} THEN 0 ELSE f[Choice(s)] + g[s \ {Choice(s)}]]

(* The chosen element is one of the set.                                   *)
LEMMA AnyIn == ASSUME NEW S, S # {} PROVE Choice(S) \in S
BY DEF Choice

(* There is such a function for every finite set, however large.           *)
LEMMA SumExists ==
  ASSUME NEW S, IsFiniteSet(S), NEW f
  PROVE  \E g : IsSum(g, f, S)
<1> DEFINE Small(n) == {s \in SUBSET S : Cardinality(s) <= n}
           Sums(g, n) == g = [s \in Small(n) |-> IF s = {} THEN 0 ELSE f[Choice(s)] + g[s \ {Choice(s)}]]
           Bad == {n \in Nat : ~\E g : Sums(g, n)}
<1>1. \A s \in SUBSET S : IsFiniteSet(s) /\ Cardinality(s) \in Nat /\ Cardinality(s) <= Cardinality(S)
  BY FS_Subset, FS_CardinalityType
<1>2. Sums([s \in Small(0) |-> 0], 0)
  <2>1. Small(0) = {{}}
    BY <1>1, FS_EmptySet
  <2> QED BY <2>1
<1>3. ASSUME NEW n \in Nat \ {0}, NEW g, Sums(g, n - 1)
      PROVE  \E h : Sums(h, n)
  <2> DEFINE h == [s \in Small(n) |-> IF s = {} THEN 0 ELSE f[Choice(s)] + g[s \ {Choice(s)}]]
  <2>1. ASSUME NEW s \in Small(n), s # {}
        PROVE  h[s \ {Choice(s)}] = g[s \ {Choice(s)}]
    <3> DEFINE t == s \ {Choice(s)}
    <3>1. Cardinality(t) = Cardinality(s) - 1
      BY <1>1, <2>1, AnyIn, FS_RemoveElement
    <3>2. t \in Small(n - 1) /\ t \in Small(n)
      BY <1>1, <3>1
    <3> HIDE DEF t
    <3>3. h[t] = IF t = {} THEN 0 ELSE f[Choice(t)] + g[t \ {Choice(t)}]
      BY <3>2
    <3>4. g[t] = IF t = {} THEN 0 ELSE f[Choice(t)] + g[t \ {Choice(t)}]
      BY <1>3, <3>2
    <3> QED BY <3>3, <3>4 DEF t
  <2>2. Sums(h, n)
    BY <2>1
  <2> QED BY <2>2
<1> HIDE DEF Sums
<1>4. Bad = {}
  <2> SUFFICES ASSUME Bad # {} PROVE FALSE
    OBVIOUS
  <2>1. PICK n \in Bad : \A m \in Bad : ~(<<m, n>> \in OpToRel(<, Nat))
    <3> HIDE DEF Bad
    <3>1. Bad \subseteq Nat
      BY DEF Bad
    <3> QED BY <3>1, NatLessThanWellFounded, WFMin
  <2>2. n \in Nat /\ n # 0
    BY <1>2
  <2>3. n - 1 \in Nat /\ n - 1 \notin Bad
    <3>1. n - 1 \in Nat /\ <<n - 1, n>> \in OpToRel(<, Nat)
      BY <2>2 DEF OpToRel
    <3> QED BY <2>1, <3>1
  <2>4. PICK g : Sums(g, n - 1)
    BY <2>3
  <2>5. \E h : Sums(h, n)
    BY <1>3, <2>2, <2>4
  <2> QED BY <2>1, <2>5
<1>5. Small(Cardinality(S)) = SUBSET S
  BY <1>1
<1>6. Cardinality(S) \in Nat
  BY FS_CardinalityType
<1>7. PICK g : Sums(g, Cardinality(S))
  BY <1>4, <1>6
<1> QED BY <1>5, <1>7 DEF IsSum, Sums

(* SumFunctionOnSet is its value.                                          *)
LEMMA SumIs ==
  ASSUME NEW S, IsFiniteSet(S), NEW f
  PROVE  \E g : IsSum(g, f, S) /\ SumFunctionOnSet(f, S) = g[S]
<1> DEFINE g == CHOOSE g : IsSum(g, f, S)
<1>1. IsSum(g, f, S)
  BY SumExists
<1>2. SumFunctionOnSet(f, S) = g[S]
  BY DEF SumFunctionOnSet, FoldFunctionOnSet, MapThenFoldSet, IsSum, Choice
<1> QED BY <1>1, <1>2
LEMMA SumInt ==
  ASSUME NEW S, IsFiniteSet(S), NEW f, \A x \in S : f[x] \in Int, NEW g, IsSum(g, f, S)
  PROVE  \A s \in SUBSET S : g[s] \in Int
<1> DEFINE Bad == {s \in SUBSET S : g[s] \notin Int}
<1>1. \A s \in SUBSET S : g[s] = IF s = {} THEN 0 ELSE f[Choice(s)] + g[s \ {Choice(s)}]
  BY DEF IsSum
<1>2. Bad \subseteq SUBSET S
  OBVIOUS
<1>3. ASSUME NEW T \in Bad, \A x \in T : T \ {x} \notin Bad PROVE FALSE
  <2>1. T # {} /\ T \in SUBSET S /\ g[T] \notin Int
    BY <1>1, <1>3
  <2>2. PICK c \in T : g[T] = f[c] + g[T \ {c}]
    BY <1>1, <2>1, AnyIn
  <2>3. f[c] \in Int /\ g[T \ {c}] \in Int
    BY <1>3, <2>1, <2>2
  <2> QED BY <2>1, <2>2, <2>3
<1>4. Bad = {}
  <2> HIDE DEF Bad
  <2> QED BY <1>2, <1>3, Smallest
<1> QED BY <1>4

(* Any element may be taken first: the sum does not depend on the choice.  *)
LEMMA SumRemove ==
  ASSUME NEW S, IsFiniteSet(S), NEW f, \A x \in S : f[x] \in Int, NEW g, IsSum(g, f, S)
  PROVE  \A s \in SUBSET S : \A x \in s : g[s] = f[x] + g[s \ {x}]
<1> DEFINE Good(s) == \A x \in s : g[s] = f[x] + g[s \ {x}]
           Bad == {s \in SUBSET S : ~Good(s)}
<1>1. \A s \in SUBSET S : g[s] \in Int /\ (s # {} => g[s] = f[Choice(s)] + g[s \ {Choice(s)}])
  <2>1. \A s \in SUBSET S : s # {} => g[s] = f[Choice(s)] + g[s \ {Choice(s)}]
    BY DEF IsSum
  <2> QED BY <2>1, SumInt
<1>2. Bad \subseteq SUBSET S
  OBVIOUS
<1>3. ASSUME NEW T \in SUBSET S, \A x \in T : Good(T \ {x}) PROVE Good(T)
  <2> SUFFICES ASSUME NEW x \in T PROVE g[T] = f[x] + g[T \ {x}]
    OBVIOUS
  <2>1. PICK c \in T : g[T] = f[c] + g[T \ {c}]
    BY <1>1, AnyIn
  <2>2. CASE x # c
    <3>1. g[T \ {c}] = f[x] + g[(T \ {c}) \ {x}] /\ g[T \ {x}] = f[c] + g[(T \ {x}) \ {c}]
      BY <1>3, <2>2
    <3>2. g[(T \ {c}) \ {x}] = g[(T \ {x}) \ {c}]
      <4>1. (T \ {c}) \ {x} = (T \ {x}) \ {c}
        OBVIOUS
      <4> QED BY <4>1
    <3>3. g[(T \ {x}) \ {c}] \in Int /\ f[x] \in Int /\ f[c] \in Int
      BY <1>1
    <3> QED BY <2>1, <3>1, <3>2, <3>3
  <2> QED BY <2>1, <2>2
<1>4. Bad = {}
  <2>1. ASSUME NEW T \in Bad, \A x \in T : T \ {x} \notin Bad PROVE FALSE
    <3> HIDE DEF Good
    <3> QED BY <1>3, <2>1
  <2> HIDE DEF Bad
  <2> QED BY <1>2, <2>1, Smallest
<1> QED BY <1>4

(* The sum of a subset depends on the values of its elements only.         *)
LEMMA SumUnique ==
  ASSUME NEW S, NEW T, NEW f, NEW e, NEW g, NEW h, IsSum(g, f, S), IsSum(h, e, T),
         NEW U, IsFiniteSet(U), U \subseteq S, U \subseteq T, \A x \in U : f[x] = e[x]
  PROVE  g[U] = h[U]
<1> DEFINE Bad == {s \in SUBSET U : g[s] # h[s]}
<1>1. /\ \A s \in SUBSET U : g[s] = IF s = {} THEN 0 ELSE f[Choice(s)] + g[s \ {Choice(s)}]
      /\ \A s \in SUBSET U : h[s] = IF s = {} THEN 0 ELSE e[Choice(s)] + h[s \ {Choice(s)}]
  BY DEF IsSum
<1>2. Bad \subseteq SUBSET U
  OBVIOUS
<1>3. ASSUME NEW s \in Bad, \A x \in s : s \ {x} \notin Bad PROVE FALSE
  <2>1. s # {} /\ s \in SUBSET U /\ g[s] # h[s]
    BY <1>1, <1>3
  <2>2. Choice(s) \in s
    BY <2>1, AnyIn
  <2>3. g[s \ {Choice(s)}] = h[s \ {Choice(s)}] /\ f[Choice(s)] = e[Choice(s)]
    BY <1>3, <2>1, <2>2
  <2> QED BY <1>1, <2>1, <2>3
<1>4. Bad = {}
  <2> HIDE DEF Bad
  <2> QED BY <1>2, <1>3, Smallest
<1> QED BY <1>4

(* The laws of SumFunctionOnSet.                                           *)
LEMMA SumType ==
  ASSUME NEW S, IsFiniteSet(S), NEW f, \A x \in S : f[x] \in Int
  PROVE  SumFunctionOnSet(f, S) \in Int
BY SumIs, SumInt

(* Nothing adds up to zero.                                                *)
LEMMA SumEmpty == ASSUME NEW f PROVE SumFunctionOnSet(f, {}) = 0
<1>1. PICK g : IsSum(g, f, {}) /\ SumFunctionOnSet(f, {}) = g[{}]
  BY SumIs, FS_EmptySet
<1> QED BY <1>1 DEF IsSum

(* Only the values on the set count.                                       *)
LEMMA SumSame ==
  ASSUME NEW S, IsFiniteSet(S), NEW f, NEW e, \A x \in S : f[x] = e[x]
  PROVE  SumFunctionOnSet(f, S) = SumFunctionOnSet(e, S)
<1>1. PICK g : IsSum(g, f, S) /\ SumFunctionOnSet(f, S) = g[S]
  BY SumIs
<1>2. PICK h : IsSum(h, e, S) /\ SumFunctionOnSet(e, S) = h[S]
  BY SumIs
<1> QED BY <1>1, <1>2, SumUnique

(* Any element can be taken out of a sum.                                  *)
LEMMA SumWithout ==
  ASSUME NEW S, IsFiniteSet(S), NEW f, \A x \in S : f[x] \in Int, NEW x \in S
  PROVE  SumFunctionOnSet(f, S) = f[x] + SumFunctionOnSet(f, S \ {x})
<1>1. PICK g : IsSum(g, f, S) /\ SumFunctionOnSet(f, S) = g[S]
  BY SumIs
<1>2. IsFiniteSet(S \ {x})
  BY FS_RemoveElement
<1>3. PICK h : IsSum(h, f, S \ {x}) /\ SumFunctionOnSet(f, S \ {x}) = h[S \ {x}]
  BY <1>2, SumIs
<1>4. g[S \ {x}] = h[S \ {x}]
  BY <1>1, <1>2, <1>3, SumUnique
<1>5. S \in SUBSET S
  OBVIOUS
<1>6. g[S] = f[x] + g[S \ {x}]
  BY <1>1, <1>5, SumRemove
<1> QED BY <1>1, <1>3, <1>4, <1>6

(* One more summand.                                                       *)
LEMMA SumAdd ==
  ASSUME NEW S, IsFiniteSet(S), NEW x, x \notin S, NEW f, \A y \in S \cup {x} : f[y] \in Int
  PROVE  SumFunctionOnSet(f, S \cup {x}) = f[x] + SumFunctionOnSet(f, S)
<1>1. IsFiniteSet(S \cup {x}) /\ (S \cup {x}) \ {x} = S
  BY FS_AddElement
<1> QED BY <1>1, SumWithout

(* One value changes by d.                                                 *)
LEMMA SumChange ==
  ASSUME NEW S, IsFiniteSet(S), NEW f, NEW e, NEW x \in S, NEW d \in Int,
         \A y \in S : f[y] \in Int, e[x] = f[x] + d, \A y \in S \ {x} : e[y] = f[y]
  PROVE  SumFunctionOnSet(e, S) = SumFunctionOnSet(f, S) + d
<1>1. \A y \in S : e[y] \in Int
  OBVIOUS
<1>2. IsFiniteSet(S \ {x})
  BY FS_RemoveElement
<1>3. /\ SumFunctionOnSet(f, S) = f[x] + SumFunctionOnSet(f, S \ {x})
      /\ SumFunctionOnSet(e, S) = e[x] + SumFunctionOnSet(e, S \ {x})
  BY <1>1, SumWithout
<1>4. SumFunctionOnSet(e, S \ {x}) = SumFunctionOnSet(f, S \ {x})
  BY <1>2, SumSame
<1>5. SumFunctionOnSet(f, S \ {x}) \in Int
  BY <1>2, SumType
<1> QED BY <1>3, <1>4, <1>5

(* Sums keep the order of their summands.                                  *)
LEMMA SumLeq ==
  ASSUME NEW S, IsFiniteSet(S), NEW f, NEW e,
         \A x \in S : f[x] \in Int /\ e[x] \in Int /\ f[x] <= e[x]
  PROVE  SumFunctionOnSet(f, S) <= SumFunctionOnSet(e, S)
<1> DEFINE Good == {T \in SUBSET S : SumFunctionOnSet(f, T) <= SumFunctionOnSet(e, T)}
<1>1. {} \in Good
  BY SumEmpty
<1>2. ASSUME NEW T \in SUBSET S, NEW x \in S \ T, T \in Good PROVE T \cup {x} \in Good
  <2>1. IsFiniteSet(T)
    BY FS_Subset
  <2>2. /\ SumFunctionOnSet(f, T \cup {x}) = f[x] + SumFunctionOnSet(f, T)
        /\ SumFunctionOnSet(e, T \cup {x}) = e[x] + SumFunctionOnSet(e, T)
    BY <2>1, SumAdd
  <2>3. SumFunctionOnSet(f, T) \in Int /\ SumFunctionOnSet(e, T) \in Int
    BY <2>1, SumType
  <2> QED BY <1>2, <2>2, <2>3
<1>3. S \in Good
  <2> HIDE DEF Good
  <2> QED BY <1>1, <1>2, SetInduction
<1> QED BY <1>3

(* The order of the summands does not matter: p places each of S in p[S].  *)
LEMMA SumMoved ==
  ASSUME NEW S, IsFiniteSet(S), NEW p, \A x, y \in S : p[x] = p[y] => x = y,
         NEW f, NEW e, \A x \in S : f[x] \in Int /\ e[p[x]] = f[x]
  PROVE  SumFunctionOnSet(e, {p[x] : x \in S}) = SumFunctionOnSet(f, S)
<1> DEFINE Good == {T \in SUBSET S : /\ IsFiniteSet({p[x] : x \in T})
                                     /\ SumFunctionOnSet(e, {p[x] : x \in T}) = SumFunctionOnSet(f, T)}
<1>1. {} \in Good
  <2>1. {p[x] : x \in {}} = {}
    OBVIOUS
  <2> QED BY <2>1, SumEmpty, FS_EmptySet
<1>2. ASSUME NEW T \in SUBSET S, NEW x \in S \ T, T \in Good PROVE T \cup {x} \in Good
  <2> DEFINE I == {p[y] : y \in T}
  <2>1. IsFiniteSet(T) /\ IsFiniteSet(I) /\ SumFunctionOnSet(e, I) = SumFunctionOnSet(f, T)
    BY <1>2, FS_Subset
  <2>2. {p[y] : y \in T \cup {x}} = I \cup {p[x]} /\ p[x] \notin I /\ \A j \in I \cup {p[x]} : e[j] \in Int
    OBVIOUS
  <2> HIDE DEF I
  <2>3. SumFunctionOnSet(e, I \cup {p[x]}) = e[p[x]] + SumFunctionOnSet(e, I)
    BY <2>1, <2>2, SumAdd
  <2>4. SumFunctionOnSet(f, T \cup {x}) = f[x] + SumFunctionOnSet(f, T)
    BY <2>1, SumAdd
  <2>5. IsFiniteSet(I \cup {p[x]})
    BY <2>1, FS_AddElement
  <2> QED BY <2>1, <2>2, <2>3, <2>4, <2>5
<1>3. S \in Good
  <2> HIDE DEF Good
  <2> QED BY <1>1, <1>2, SetInduction
<1> QED BY <1>3

(* Adding up ones is counting them.                                        *)
LEMMA SumOfOnes ==
  ASSUME NEW S, IsFiniteSet(S), NEW f, \A x \in S : f[x] \in {0, 1}
  PROVE  SumFunctionOnSet(f, S) = Cardinality({x \in S : f[x] = 1})
<1> DEFINE Ones(T) == {x \in T : f[x] = 1}
           Good == {T \in SUBSET S : SumFunctionOnSet(f, T) = Cardinality(Ones(T))}
<1>1. {} \in Good
  <2>1. Ones({}) = {}
    OBVIOUS
  <2> HIDE DEF Ones
  <2> QED BY <2>1, SumEmpty, FS_EmptySet
<1>2. ASSUME NEW T \in SUBSET S, NEW x \in S \ T, T \in Good PROVE T \cup {x} \in Good
  <2>1. IsFiniteSet(T) /\ IsFiniteSet(Ones(T)) /\ x \notin Ones(T)
    BY FS_Subset
  <2>2. Cardinality(Ones(T)) \in Nat /\ Cardinality(Ones(T) \cup {x}) = Cardinality(Ones(T)) + 1
    BY <2>1, FS_CardinalityType, FS_AddElement
  <2>3. SumFunctionOnSet(f, T \cup {x}) = f[x] + SumFunctionOnSet(f, T)
    <3>1. \A y \in T \cup {x} : f[y] \in Int
      OBVIOUS
    <3> QED BY <2>1, <3>1, SumAdd
  <2>4. SumFunctionOnSet(f, T) = Cardinality(Ones(T))
    BY <1>2
  <2>5. Ones(T \cup {x}) = IF f[x] = 1 THEN Ones(T) \cup {x} ELSE Ones(T)
    OBVIOUS
  <2>6. f[x] \in {0, 1}
    OBVIOUS
  <2> HIDE DEF Ones
  <2> QED BY <2>2, <2>3, <2>4, <2>5, <2>6
<1>3. S \in Good
  <2> HIDE DEF Good
  <2> QED BY <1>1, <1>2, SetInduction
<1> QED BY <1>3

(* Adding up group by group, where key names the group of each element.    *)
LEMMA SumByGroup ==
  ASSUME NEW S, IsFiniteSet(S), NEW D, IsFiniteSet(D), NEW key, \A x \in S : key[x] \in D,
         NEW f, \A x \in S : f[x] \in Int
  PROVE  SumFunctionOnSet([d \in D |-> SumFunctionOnSet(f, {x \in S : key[x] = d})], D)
           = SumFunctionOnSet(f, S)
<1> DEFINE By(T) == [d \in D |-> SumFunctionOnSet(f, {x \in T : key[x] = d})]
           Good == {T \in SUBSET S : SumFunctionOnSet(By(T), D) = SumFunctionOnSet(f, T)}
<1>1. {} \in Good
  <2>1. \A d \in D : By({})[d] = 0
    <3>1. \A d \in D : {x \in {} : key[x] = d} = {}
      OBVIOUS
    <3> QED BY <3>1, SumEmpty
  <2>2. SumFunctionOnSet(By({}), D) = 0
    <3> HIDE DEF By
    <3>1. SumFunctionOnSet(By({}), D) = Cardinality({d \in D : By({})[d] = 1})
      BY <2>1, SumOfOnes
    <3>2. {d \in D : By({})[d] = 1} = {}
      BY <2>1
    <3> QED BY <3>1, <3>2, FS_EmptySet
  <2> HIDE DEF By
  <2> QED BY <2>2, SumEmpty
<1>2. ASSUME NEW T \in SUBSET S, NEW x \in S \ T, T \in Good PROVE T \cup {x} \in Good
  <2>1. IsFiniteSet(T) /\ \A d \in D : IsFiniteSet({y \in T : key[y] = d})
    BY FS_Subset
  <2>2. \A d \in D : By(T)[d] \in Int
    BY <2>1, SumType
  <2>3. By(T \cup {x})[key[x]] = By(T)[key[x]] + f[x]
    <3> DEFINE G == {y \in T : key[y] = key[x]}
    <3>1. {y \in T \cup {x} : key[y] = key[x]} = G \cup {x} /\ x \notin G /\ IsFiniteSet(G)
      BY <2>1
    <3>2. By(T)[key[x]] = SumFunctionOnSet(f, G) /\ SumFunctionOnSet(f, G) \in Int
      BY <2>2
    <3>3. By(T \cup {x})[key[x]] = SumFunctionOnSet(f, G \cup {x})
      BY <3>1
    <3>4. \A y \in G \cup {x} : f[y] \in Int
      OBVIOUS
    <3> HIDE DEF G, By
    <3>5. SumFunctionOnSet(f, G \cup {x}) = f[x] + SumFunctionOnSet(f, G)
      BY <3>1, <3>4, SumAdd
    <3>6. f[x] \in Int
      OBVIOUS
    <3> QED BY <3>2, <3>3, <3>5, <3>6
  <2>4. \A d \in D \ {key[x]} : By(T \cup {x})[d] = By(T)[d]
    <3> SUFFICES ASSUME NEW d \in D \ {key[x]}
                 PROVE  {y \in T \cup {x} : key[y] = d} = {y \in T : key[y] = d}
      OBVIOUS
    <3> QED OBVIOUS
  <2>5. SumFunctionOnSet(By(T \cup {x}), D) = SumFunctionOnSet(By(T), D) + f[x]
    <3>1. key[x] \in D /\ f[x] \in Int
      OBVIOUS
    <3> HIDE DEF By
    <3>2. \A g, h : /\ \A d \in D : g[d] \in Int
                    /\ h[key[x]] = g[key[x]] + f[x]
                    /\ \A d \in D \ {key[x]} : h[d] = g[d]
                    => SumFunctionOnSet(h, D) = SumFunctionOnSet(g, D) + f[x]
      BY <3>1, SumChange
    <3> QED BY <2>2, <2>3, <2>4, <3>2
  <2>6. SumFunctionOnSet(f, T \cup {x}) = f[x] + SumFunctionOnSet(f, T)
    BY <2>1, SumAdd
  <2>7. SumFunctionOnSet(f, T) \in Int
    BY <2>1, SumType
  <2> HIDE DEF By
  <2> QED BY <1>2, <2>5, <2>6, <2>7
<1>3. S \in Good
  <2> HIDE DEF Good
  <2> QED BY <1>1, <1>2, SetInduction
<1> QED BY <1>3

-----------------------------------------------------------------------------
(* Coins                                                                   *)

Records == [type : ActivityTypes \cup {"none"}, coins : Amounts \cup {0}]
Calls   == [at : {"open", "redeem", "deduct"}, coins : Amounts \cup {0}]

Strains == {"negative", "other student", "overlap", "deduction", "not a request"}

(* An activity is stored with the amount that was asked for.               *)
Kept(r) == IF r.type = "none" THEN r.coins = 0 ELSE r.coins \in Amounts

(* What a call in progress is to store.                                    *)
CallsInv ==
  \A k \in Counters : counter[k].at \in {"redeem", "deduct"} => counter[k].coins \in Amounts

RecordsInv ==
  /\ activity \in [Activities -> Records] /\ counter \in [Counters -> Calls]
  /\ strains \subseteq Strains
  /\ \A a \in Activities : Kept(activity[a])
  /\ CallsInv

(* As long as nothing strains it, no amount is negative, one request at a  *)
(* time is between its check and its write, and the balance covers it.     *)
CoveredInv ==
  strains = {} =>
    /\ Balance >= 0
    /\ \A a \in Activities : activity[a].coins >= 0
    /\ \A k \in Counters :
        counter[k].at = "redeem" => counter[k].coins >= 0 /\ Balance >= counter[k].coins
    /\ \A j, k \in Counters : counter[j].at = "redeem" /\ counter[k].at = "redeem" => j = k

(* The coins of one type in a list act of activities.                      *)
InList(act, type) ==
  SumFunctionOnSet([a \in Activities |-> act[a].coins], {a \in Activities : act[a].type = type})

Share(r, type) == IF r.type = type THEN r.coins ELSE 0

OthersInList(act, type, a) ==
  SumFunctionOnSet([b \in Activities |-> act[b].coins],
                   {b \in Activities \ {a} : act[b].type = type})

LEMMA ListWithout ==
  ASSUME NEW act, \A b \in Activities : act[b].coins \in Int, NEW type, NEW a \in Activities
  PROVE  /\ InList(act, type) = Share(act[a], type) + OthersInList(act, type, a)
         /\ OthersInList(act, type, a) \in Int
<1> DEFINE f == [b \in Activities |-> act[b].coins]
           T == {b \in Activities : act[b].type = type}
           R == {b \in Activities \ {a} : act[b].type = type}
<1>1. IsFiniteSet(T) /\ IsFiniteSet(R)
  BY CoinsAssumption, FS_Subset DEF CoinsAssumption
<1>2. \A b \in T : f[b] \in Int
  OBVIOUS
<1>3. R \subseteq T /\ InList(act, type) = SumFunctionOnSet(f, T) /\ f[a] = act[a].coins
  BY DEF InList
<1>4. SumFunctionOnSet(f, R) \in Int
  BY <1>1, <1>2, <1>3, SumType
<1>5. OthersInList(act, type, a) = SumFunctionOnSet(f, R)
  BY DEF OthersInList
<1>6. CASE act[a].type = type
  <2>1. a \in T /\ T \ {a} = R
    BY <1>6
  <2> HIDE DEF f, T, R
  <2>2. SumFunctionOnSet(f, T) = f[a] + SumFunctionOnSet(f, R)
    BY <1>1, <1>2, <2>1, SumWithout
  <2> QED BY <1>3, <1>4, <1>5, <1>6, <2>2 DEF Share
<1>7. CASE act[a].type # type
  <2>1. T = R
    BY <1>7
  <2> HIDE DEF f, T, R
  <2> QED BY <1>3, <1>4, <1>5, <1>7, <2>1 DEF Share
<1> QED BY <1>6, <1>7

(* One record changes: its coins move from one sum to another.             *)
LEMMA ListChange ==
  ASSUME NEW act, NEW new, \A b \in Activities : act[b].coins \in Int /\ new[b].coins \in Int,
         NEW type, NEW a \in Activities, \A b \in Activities \ {a} : new[b] = act[b]
  PROVE  InList(new, type) = InList(act, type) - Share(act[a], type) + Share(new[a], type)
<1> DEFINE f == [b \in Activities |-> act[b].coins]
           g == [b \in Activities |-> new[b].coins]
           R == {b \in Activities \ {a} : act[b].type = type}
<1>1. /\ R = {b \in Activities \ {a} : new[b].type = type} /\ IsFiniteSet(R)
      /\ \A b \in R : f[b] = g[b]
  BY CoinsAssumption, FS_Subset DEF CoinsAssumption
<1>2. \A b \in Activities : act[b].coins \in Int
  OBVIOUS
<1>3. /\ InList(act, type) = Share(act[a], type) + OthersInList(act, type, a)
      /\ OthersInList(act, type, a) \in Int
  BY <1>2, ListWithout
<1>4. \A b \in Activities : new[b].coins \in Int
  OBVIOUS
<1>5. InList(new, type) = Share(new[a], type) + OthersInList(new, type, a)
  BY <1>4, ListWithout
<1>6. OthersInList(act, type, a) = SumFunctionOnSet(f, R)
  BY DEF OthersInList
<1>7. OthersInList(new, type, a) = SumFunctionOnSet(g, R)
  BY <1>1 DEF OthersInList
<1> HIDE DEF f, g, R
<1>8. SumFunctionOnSet(f, R) = SumFunctionOnSet(g, R)
  BY <1>1, SumSame
<1>9. Share(act[a], type) \in Int /\ Share(new[a], type) \in Int
  BY <1>2, <1>4 DEF Share
<1> QED BY <1>3, <1>5, <1>6, <1>7, <1>8, <1>9

LEMMA CoinsAreNumbers ==
  ASSUME NEW act \in [Activities -> Records]
  PROVE  /\ \A a \in Activities : act[a].coins \in Int
         /\ \A type : InList(act, type) \in Int
<1>1. Amounts \cup {0} \subseteq Int
  BY CoinsAssumption DEF CoinsAssumption
<1>2. ASSUME NEW a \in Activities PROVE act[a].coins \in Int
  <2>1. act[a] \in Records
    OBVIOUS
  <2> QED BY <1>1, <2>1 DEF Records
<1>3. ASSUME NEW type PROVE InList(act, type) \in Int
  <2> DEFINE T == {a \in Activities : act[a].type = type}
             f == [a \in Activities |-> act[a].coins]
  <2>1. IsFiniteSet(T) /\ \A a \in T : f[a] \in Int
    BY <1>2, CoinsAssumption, FS_Subset DEF CoinsAssumption
  <2> HIDE DEF f, T
  <2>2. SumFunctionOnSet(f, T) \in Int
    BY <2>1, SumType
  <2> QED BY <2>2 DEF InList, f, T
<1> QED BY <1>2, <1>3

(* What a step does to the balance.                                        *)
Worth(r) == Share(r, "earned") - (Share(r, "redeemed") + Share(r, "inprocess"))

LEMMA BalanceChange ==
  ASSUME RecordsInv, RecordsInv', NEW a \in Activities,
         \A b \in Activities \ {a} : activity'[b] = activity[b]
  PROVE  Balance' = Balance - Worth(activity[a]) + Worth(activity'[a]) /\ Balance \in Int
<1>1. /\ activity \in [Activities -> Records] /\ activity' \in [Activities -> Records]
  BY DEF RecordsInv
<1>2. /\ \A b \in Activities : activity[b].coins \in Int /\ activity'[b].coins \in Int
      /\ \A type : InList(activity, type) \in Int /\ InList(activity', type) \in Int
  BY <1>1, CoinsAreNumbers
<1>3. \A type : InList(activity', type) = InList(activity, type) - Share(activity[a], type)
                                            + Share(activity'[a], type)
  BY <1>2, ListChange
<1>4. /\ Balance = InList(activity, "earned")
                   - (InList(activity, "redeemed") + InList(activity, "inprocess"))
      /\ Balance' = InList(activity', "earned")
                    - (InList(activity', "redeemed") + InList(activity', "inprocess"))
  BY DEF Balance, CoinsOf, InList
<1>5. \A type : Share(activity[a], type) \in Int /\ Share(activity'[a], type) \in Int
  BY <1>2 DEF Share
<1> QED BY <1>2, <1>3, <1>4, <1>5 DEF Worth

LEMMA BalanceSame ==
  ASSUME UNCHANGED activity
  PROVE  Balance' = Balance
BY DEF Balance, CoinsOf

(* Before the first activity nothing is earned and nothing asked for.      *)
LEMMA InitCoins == CoinsInit => RecordsInv /\ CoveredInv
<1> SUFFICES ASSUME CoinsInit PROVE RecordsInv /\ CoveredInv
  OBVIOUS
<1>1. RecordsInv
  BY CoinsAssumption DEF CoinsAssumption, CoinsInit, RecordsInv, CallsInv, Records, Calls, Nothing, Open, Kept
<1>2. \A type \in {"earned", "redeemed", "inprocess"} : CoinsOf(type) = 0
  <2> SUFFICES ASSUME NEW type \in {"earned", "redeemed", "inprocess"} PROVE CoinsOf(type) = 0
    OBVIOUS
  <2>1. {a \in Activities : activity[a].type = type} = {}
    BY DEF CoinsInit, Nothing
  <2> QED BY <2>1, SumEmpty DEF CoinsOf
<1>3. Balance = 0
  BY <1>2 DEF Balance
<1> QED BY <1>1, <1>3 DEF CoveredInv, CoinsInit, Open, Nothing

(* What is recorded of a call stays true until its next step.              *)
LEMMA RecordsStep == RecordsInv /\ [CoinsNext]_coinsVars => RecordsInv'
<1> SUFFICES ASSUME RecordsInv, [CoinsNext]_coinsVars PROVE RecordsInv'
  OBVIOUS
<1> USE DEF RecordsInv
<1>1. CASE UNCHANGED coinsVars
  BY <1>1 DEF coinsVars, CallsInv
<1>2. ASSUME NEW type \in ActivityTypes, NEW n \in Amounts, Adds(type, n)
      PROVE  /\ activity' \in [Activities -> Records]
             /\ \A a \in Activities : Kept(activity'[a])
  <2>1. PICK a \in Activities : /\ activity[a] = Nothing
                                /\ activity' = [activity EXCEPT ![a] = [type |-> type, coins |-> n]]
    BY <1>2 DEF Adds
  <2>2. [type |-> type, coins |-> n] \in Records /\ Kept([type |-> type, coins |-> n])
    BY DEF Records, ActivityTypes, Kept
  <2> QED BY <2>1, <2>2
<1>3. ASSUME NEW k \in Counters, NEW call \in Calls, counter' = [counter EXCEPT ![k] = call],
             call.at \in {"redeem", "deduct"} => call.coins \in Amounts
      PROVE  counter' \in [Counters -> Calls] /\ CallsInv'
  BY <1>3 DEF CallsInv
<1>4. Open \in Calls /\ Open.at = "open"
  BY DEF Open, Calls
<1>5. ASSUME NEW k \in Counters, Award(k) PROVE RecordsInv'
  <2>1. UNCHANGED counter /\ strains' \subseteq Strains
    BY <1>5 DEF Award, Strains, Negative
  <2>2. activity' \in [Activities -> Records] /\ \A a \in Activities : Kept(activity'[a])
    BY <1>2, <1>5 DEF Award, ActivityTypes
  <2> QED BY <2>1, <2>2 DEF CallsInv
<1>6. ASSUME NEW k \in Counters, RedeemCheck(k) \/ DeductCheck(k) PROVE RecordsInv'
  <2>1. PICK n \in Amounts, step \in {"redeem", "deduct"} :
          counter' = [counter EXCEPT ![k] = [at |-> step, coins |-> n]]
    BY <1>6 DEF RedeemCheck, DeductCheck
  <2>2. [at |-> step, coins |-> n] \in Calls
    BY DEF Calls
  <2>3. UNCHANGED activity /\ strains' \subseteq Strains
    BY <1>6 DEF RedeemCheck, DeductCheck, Strains, Negative
  <2>4. counter' \in [Counters -> Calls] /\ CallsInv'
    BY <1>3, <2>1, <2>2
  <2> QED BY <2>3, <2>4
<1>7. ASSUME NEW k \in Counters, RedeemStore(k) \/ DeductStore(k) PROVE RecordsInv'
  <2>1. counter[k].coins \in Amounts
    BY <1>7 DEF RedeemStore, DeductStore, CallsInv
  <2>2. activity' \in [Activities -> Records] /\ \A a \in Activities : Kept(activity'[a])
    BY <1>2, <1>7, <2>1 DEF RedeemStore, DeductStore, ActivityTypes
  <2>3. counter' = [counter EXCEPT ![k] = Open] /\ strains' \subseteq Strains
    BY <1>7 DEF RedeemStore, DeductStore, Shuts, Strains
  <2>4. counter' \in [Counters -> Calls] /\ CallsInv'
    BY <1>3, <1>4, <2>3
  <2> QED BY <2>2, <2>3, <2>4
<1>8. ASSUME UpdateStatus PROVE RecordsInv'
  <2>1. PICK a \in Activities, verdict \in ActivityTypes :
          activity[a] # Nothing /\ activity' = Decided(a, verdict)
    BY <1>8 DEF UpdateStatus
  <2>2. activity[a] \in Records /\ Kept(activity[a]) /\ activity[a].coins \in Amounts
    BY <2>1 DEF Records, Kept, Nothing
  <2>3. PICK r : r = [activity[a] EXCEPT !.type = verdict]
    OBVIOUS
  <2>4. r \in Records /\ Kept(r)
    BY <2>2, <2>3 DEF Records, ActivityTypes, Kept
  <2>5. activity' = [activity EXCEPT ![a] = r]
    BY <2>1, <2>3 DEF Decided
  <2>6. UNCHANGED counter /\ strains' \subseteq Strains
    BY <1>8 DEF UpdateStatus, Strains
  <2> QED BY <2>4, <2>5, <2>6 DEF CallsInv
<1>9. ASSUME NEW k \in Counters, CounterFails(k) PROVE RecordsInv'
  <2>1. counter' = [counter EXCEPT ![k] = Open] /\ UNCHANGED <<activity, strains>>
    BY <1>9 DEF CounterFails, Shuts
  <2>2. counter' \in [Counters -> Calls] /\ CallsInv'
    BY <1>3, <1>4, <2>1
  <2> QED BY <2>1, <2>2
<1> QED BY <1>1, <1>5, <1>6, <1>7, <1>8, <1>9 DEF CoinsNext

(* No step asks for more coins than there are.                             *)
LEMMA CoveredStep == RecordsInv /\ CoveredInv /\ [CoinsNext]_coinsVars => CoveredInv'
<1> SUFFICES ASSUME RecordsInv, CoveredInv, [CoinsNext]_coinsVars, strains' = {}
             PROVE  /\ Balance' >= 0
                    /\ \A a \in Activities : activity'[a].coins >= 0
                    /\ \A k \in Counters :
                        counter'[k].at = "redeem" => counter'[k].coins >= 0 /\ Balance' >= counter'[k].coins
                    /\ \A j, k \in Counters : counter'[j].at = "redeem" /\ counter'[k].at = "redeem" => j = k
  BY DEF CoveredInv
<1>1. RecordsInv'
  BY RecordsStep
<1>2. /\ activity \in [Activities -> Records] /\ counter \in [Counters -> Calls]
      /\ \A a \in Activities : activity[a].coins \in Int
      /\ \A k \in Counters : counter[k].coins \in Int
  <2>1. activity \in [Activities -> Records] /\ counter \in [Counters -> Calls]
    BY DEF RecordsInv
  <2>2. \A k \in Counters : counter[k] \in Calls
    BY <2>1
  <2>3. Amounts \cup {0} \subseteq Int
    BY CoinsAssumption DEF CoinsAssumption
  <2> QED BY <2>1, <2>2, <2>3, CoinsAreNumbers DEF Calls
<1>3. strains = {}
  BY DEF CoinsNext, Award, RedeemCheck, RedeemStore, DeductCheck, DeductStore, UpdateStatus,
     CounterFails, coinsVars
<1>4. /\ Balance >= 0
      /\ \A a \in Activities : activity[a].coins >= 0
      /\ \A k \in Counters :
          counter[k].at = "redeem" => counter[k].coins >= 0 /\ Balance >= counter[k].coins
      /\ \A j, k \in Counters : counter[j].at = "redeem" /\ counter[k].at = "redeem" => j = k
  BY <1>3 DEF CoveredInv
<1>5. Balance \in Int
  <2>1. \A type : InList(activity, type) \in Int
    BY <1>2, CoinsAreNumbers
  <2>2. \A type : CoinsOf(type) = InList(activity, type)
    BY DEF CoinsOf, InList
  <2> QED BY <2>1, <2>2 DEF Balance
<1>6. Open.at = "open" /\ Worth(Nothing) = 0
  BY DEF Open, Nothing, Worth, Share
<1>7. CASE UNCHANGED coinsVars
  <2>1. Balance' = Balance /\ counter' = counter /\ activity' = activity
    BY <1>7, BalanceSame DEF coinsVars
  <2> QED BY <1>4, <2>1
<1>8. ASSUME NEW k \in Counters, Award(k)
      PROVE  /\ Balance' >= Balance /\ Balance' \in Int /\ counter' = counter
             /\ \A a \in Activities : activity'[a].coins >= 0
  <2>1. PICK n \in Amounts, a \in Activities :
          /\ activity[a] = Nothing /\ activity' = [activity EXCEPT ![a] = [type |-> "earned", coins |-> n]]
          /\ n >= 0
    <3>1. PICK n \in Amounts : Adds("earned", n) /\ strains' = strains \cup Negative(n)
      BY <1>8 DEF Award
    <3>2. n \in Int /\ n >= 0
      BY <3>1, CoinsAssumption DEF CoinsAssumption, Negative
    <3> QED BY <3>1, <3>2 DEF Adds
  <2>2. activity'[a] = [type |-> "earned", coins |-> n] /\ n \in Nat
        /\ \A b \in Activities \ {a} : activity'[b] = activity[b]
    BY <1>2, <2>1, CoinsAssumption DEF CoinsAssumption
  <2>3. Worth(activity'[a]) = n
    BY <2>2 DEF Worth, Share
  <2>4. Balance' = Balance - Worth(activity[a]) + Worth(activity'[a])
    BY <1>1, <2>2, BalanceChange
  <2> QED BY <1>4, <1>5, <1>6, <1>8, <2>1, <2>2, <2>3, <2>4 DEF Award
<1>9. ASSUME NEW k \in Counters, RedeemCheck(k)
      PROVE  /\ Balance' >= 0
             /\ \A j \in Counters : counter'[j].at = "redeem" => j = k
             /\ counter'[k].coins >= 0 /\ Balance' >= counter'[k].coins
             /\ activity' = activity
  <2>1. PICK n \in Amounts :
          /\ Enough(n) /\ counter' = [counter EXCEPT ![k] = [at |-> "redeem", coins |-> n]]
          /\ Negative(n) = {} /\ ~Overlaps(k)
    BY <1>9 DEF RedeemCheck
  <2>2. counter'[k].coins = n /\ \A j \in Counters \ {k} : counter'[j] = counter[j]
    BY <1>2, <2>1
  <2>3. \A type : CoinsOf(type) \in Int
    BY <1>2, CoinsAreNumbers DEF CoinsOf, InList
  <2>4. Balance >= n /\ n \in Nat
    BY <2>1, <2>3, CoinsAssumption DEF CoinsAssumption, Enough, Balance, Negative
  <2>5. \A j \in Counters \ {k} : counter[j].at # "redeem"
    BY <2>1 DEF Overlaps
  <2>6. Balance' = Balance /\ activity' = activity
    BY <1>9, BalanceSame DEF RedeemCheck
  <2> QED BY <1>4, <2>2, <2>4, <2>5, <2>6
<1>10. ASSUME NEW k \in Counters, RedeemStore(k)
       PROVE  /\ Balance' >= 0 /\ \A j \in Counters : counter'[j].at # "redeem"
              /\ \A a \in Activities : activity'[a].coins >= 0
  <2>1. PICK a \in Activities :
          /\ activity[a] = Nothing
          /\ activity' = [activity EXCEPT ![a] = [type |-> "inprocess", coins |-> counter[k].coins]]
    BY <1>10 DEF RedeemStore, Adds
  <2>2. activity'[a] = [type |-> "inprocess", coins |-> counter[k].coins]
        /\ \A b \in Activities \ {a} : activity'[b] = activity[b]
    BY <1>2, <2>1
  <2>3. Worth(activity'[a]) = 0 - counter[k].coins
    BY <1>2, <2>2 DEF Worth, Share
  <2>4. Balance' = Balance - Worth(activity[a]) + Worth(activity'[a])
    BY <1>1, <2>2, BalanceChange
  <2>5. counter[k].at = "redeem" /\ Balance >= counter[k].coins /\ counter[k].coins >= 0
    BY <1>4, <1>10 DEF RedeemStore
  <2>6. counter' = [counter EXCEPT ![k] = Open]
    BY <1>10 DEF RedeemStore, Shuts
  <2> QED BY <1>2, <1>4, <1>5, <1>6, <2>1, <2>3, <2>4, <2>5, <2>6
<1>11. ASSUME NEW k \in Counters, DeductCheck(k) \/ CounterFails(k)
       PROVE  /\ Balance' = Balance /\ activity' = activity
              /\ \A j \in Counters : counter'[j] = counter[j] \/ counter'[j].at # "redeem"
  <2>1. Balance' = Balance /\ activity' = activity
    BY <1>11, BalanceSame DEF DeductCheck, CounterFails
  <2>2. PICK call : counter' = [counter EXCEPT ![k] = call] /\ call.at # "redeem"
    BY <1>6, <1>11 DEF DeductCheck, CounterFails, Shuts
  <2> QED BY <1>2, <2>1, <2>2
<1>12. ASSUME NEW k \in Counters PROVE ~DeductStore(k)
  BY DEF DeductStore
<1>13. ASSUME UpdateStatus
       PROVE  /\ Balance' >= Balance /\ Balance' \in Int /\ counter' = counter
              /\ \A a \in Activities : activity'[a].coins >= 0
  <2>1. PICK a \in Activities, verdict \in ActivityTypes :
          /\ activity' = Decided(a, verdict)
          /\ activity[a].type = "inprocess"
    BY <1>13 DEF UpdateStatus
  <2>2. /\ activity'[a] = [activity[a] EXCEPT !.type = verdict]
        /\ \A b \in Activities \ {a} : activity'[b] = activity[b]
    BY <1>2, <2>1 DEF Decided
  <2>3. activity'[a].type = verdict /\ activity'[a].coins = activity[a].coins
    <3>1. activity[a] \in Records
      BY <1>2
    <3> QED BY <2>2, <3>1 DEF Records
  <2>4. Worth(activity[a]) = 0 - activity[a].coins
    BY <1>2, <2>1 DEF Worth, Share
  <2>5. Worth(activity'[a]) \in {0, activity[a].coins, 0 - activity[a].coins}
    BY <1>2, <2>3 DEF Worth, Share
  <2>6. Balance' = Balance - Worth(activity[a]) + Worth(activity'[a])
    BY <1>1, <2>2, BalanceChange
  <2>7. activity[a].coins \in Int /\ activity[a].coins >= 0
    BY <1>2, <1>4
  <2>8. Balance' >= Balance /\ Balance' \in Int
    BY <1>5, <2>4, <2>5, <2>6, <2>7
  <2>9. \A b \in Activities : activity'[b].coins >= 0
    BY <1>4, <2>2, <2>3
  <2> QED BY <1>13, <2>8, <2>9 DEF UpdateStatus
<1>14. ASSUME Balance' \in Int, Balance' >= Balance,
              \A a \in Activities : activity'[a].coins >= 0,
              \A j \in Counters : counter'[j] = counter[j] \/ counter'[j].at # "redeem"
       PROVE  /\ Balance' >= 0
              /\ \A a \in Activities : activity'[a].coins >= 0
              /\ \A k \in Counters :
                  counter'[k].at = "redeem" => counter'[k].coins >= 0 /\ Balance' >= counter'[k].coins
              /\ \A j, k \in Counters : counter'[j].at = "redeem" /\ counter'[k].at = "redeem" => j = k
  BY <1>2, <1>4, <1>5, <1>14
<1> QED
  <2>1. CASE UpdateStatus \/ \E k \in Counters : Award(k) \/ DeductCheck(k) \/ CounterFails(k)
    BY <1>4, <1>5, <1>8, <1>11, <1>13, <1>14, <2>1
  <2>2. CASE \E k \in Counters : RedeemCheck(k)
    BY <1>4, <1>9, <2>2
  <2>3. CASE \E k \in Counters : RedeemStore(k)
    BY <1>10, <2>3
  <2> QED BY <1>7, <1>12, <2>1, <2>2, <2>3 DEF CoinsNext

(* CoinsCoverRequests: what a student has asked for and redeemed never     *)
(* exceeds what he has earned, for every number of activities, amounts and *)
(* calls, unless an amount was negative, someone else asked on his behalf, *)
(* two checks overlapped, coins were deducted, or a verdict went to what   *)
(* was no open request (redeemCoins, deductEducoins, updateStatus).        *)
THEOREM RequestsAreCovered == CoinsSpec => []CoinsCoverRequests
<1>1. RecordsInv /\ CoveredInv /\ [CoinsNext]_coinsVars => (RecordsInv /\ CoveredInv)'
  BY RecordsStep, CoveredStep
<1>2. CoveredInv => CoinsCoverRequests
  BY DEF CoveredInv, CoinsCoverRequests
<1> QED BY InitCoins, <1>1, <1>2, PTL DEF CoinsSpec

(* CoinsType: the list of a student holds nothing but activities of the    *)
(* four types with an amount that was asked for, whoever asks and decides  *)
(* and in whatever order (users.service.ts, supercoins.service.ts).        *)
THEOREM CoinsTypeCorrect == CoinsSpec => []CoinsType
<1>1. RecordsInv => CoinsType
  <2> SUFFICES ASSUME RecordsInv PROVE CoinsType
    OBVIOUS
  <2>1. ASSUME NEW a \in Activities
        PROVE  activity[a] = Nothing \/ (activity[a].type \in ActivityTypes /\ activity[a].coins \in Amounts)
    <3>1. activity[a] \in Records /\ Kept(activity[a])
      BY DEF RecordsInv
    <3> QED BY <3>1 DEF Records, Nothing, Kept
  <2>2. ASSUME NEW k \in Counters PROVE counter[k] \in Calls
    BY DEF RecordsInv
  <2> QED BY <2>1, <2>2 DEF CoinsType, Calls, RecordsInv, Strains
<1> QED BY InitCoins, RecordsStep, <1>1, PTL DEF CoinsSpec

-----------------------------------------------------------------------------
(* Marking                                                                 *)

(* What an answer earns stays below its maximum, and reaches it only if    *)
(* the answer is right in every part.                                      *)
LEMMA ShareOf ==
  ASSUME NEW p \in Nat \ {0}, NEW m \in Nat, NEW r \in 0 .. p
  PROVE  /\ (r * m) \div p \in Nat /\ (r * m) \div p <= m
         /\ r < p /\ m > 0 => (r * m) \div p < m
<1>1. r * m \in Nat /\ r * m <= p * m /\ (r < p /\ m > 0 => r * m < p * m)
  <2>1. PICK d \in Nat : p = r + d
    <3>1. p - r \in Nat /\ p = r + (p - r)
      OBVIOUS
    <3> QED BY <3>1
  <2>2. p * m = r * m + d * m
    BY <2>1
  <2>3. r * m \in Nat /\ d * m \in Nat /\ (d > 0 /\ m > 0 => d * m > 0)
    BY <2>1
  <2> QED BY <2>1, <2>2, <2>3
<1> DEFINE x == r * m  q == x \div p
<1>2. q \in Int /\ p * q <= x /\ x < p * q + p
  BY <1>1
<1> HIDE DEF q, x
<1>3. q >= 0
  <2> SUFFICES ASSUME q <= -1 PROVE FALSE
    BY <1>2
  <2>1. p * q <= -p
    BY <1>2
  <2> QED BY <1>1, <1>2, <2>1 DEF x
<1>4. ASSUME q >= m PROVE p * q >= p * m
  BY <1>2, <1>4
<1>5. ASSUME q > m PROVE p * q >= p * m + p
  BY <1>2, <1>5
<1>6. q <= m
  BY <1>1, <1>2, <1>5 DEF x
<1>7. r < p /\ m > 0 => q < m
  BY <1>1, <1>2, <1>4 DEF x
<1> QED BY <1>2, <1>3, <1>6, <1>7 DEF q, x

Exact(e) == e.answer.right = PartsOf(e.kind) /\ e.answer.wrong = 0

EntryInv(e) ==
  /\ e.kind \in KindsSent(test.plain) /\ e.answer \in Answers(e.kind)
  /\ e.obtainMarks <= e.actualMarks
  /\ ~test.plain /\ e.obtainMarks = e.actualMarks /\ e.actualMarks > 0 /\ ~PartialIgnored(e) => Exact(e)

Statuses == {"missed", "pending", "incorrect", "correct"}

Entries == [question : ToSet(TestQuestions), kind : QuestionKinds, answer : [right : Nat, wrong : Nat],
            status : Statuses, obtainMarks : Int, actualMarks : Nat]

Tests == [enableMarks : BOOLEAN, isMarksLevel : BOOLEAN, partialCoding : BOOLEAN,
          subset : BOOLEAN, listed : Listings, plain : BOOLEAN, subjectOf : SubjectPlans]

(* Without marks every right answer is worth one and no answer less than   *)
(* nothing, whatever was marked before.                                    *)
MarkInv ==
  /\ test \in Tests
  /\ mark \in [plus : Nat, minus : Int] /\ mark.minus <= 0
  /\ ~test.enableMarks => mark.plus = 1 /\ mark.minus = 0

(* A question of a kind, with its plusMark, and an answer to it.           *)
Question(kind, plus, a) ==
  /\ kind \in KindsSent(test.plain) /\ plus \in {0, QuestionMarks.plus}
  /\ plus = 0 => kind = "partial"
  /\ a \in Answers(kind)

(* What a student may answer.                                              *)
LEMMA AnswerIs ==
  ASSUME NEW kind \in QuestionKinds, NEW a \in Answers(kind)
  PROVE  /\ a \in [right : Nat, wrong : Nat] /\ Parts \in Nat \ {0} /\ PartsOf(kind) \in {1, Parts}
         /\ a.right \in 0 .. PartsOf(kind) /\ a.wrong \in 0 .. PartsOf(kind)
         /\ \/ kind \in {"multiple", "partial"} /\ a.wrong <= 1
            \/ a.right + a.wrong \in {0, PartsOf(kind)} /\ (kind = "descriptive" => a.wrong = 0)
BY GradingAssumption DEF GradingAssumption, Answers, PartsOf

(* The marks of test and questions, as numbers.                            *)
LEMMA MarksAre ==
  /\ Parts \in Nat \ {0}
  /\ TestMarks.plus \in Nat /\ TestMarks.minus \in Int /\ TestMarks.minus <= 0
  /\ QuestionMarks.plus \in Nat /\ QuestionMarks.minus \in Int /\ QuestionMarks.minus <= 0
  /\ QuestionMarks.option \in Nat
  /\ Parts * QuestionMarks.option \in Nat
  /\ Parts * QuestionMarks.option <= QuestionMarks.plus
<1>1. /\ TestMarks \in [plus : Nat, minus : Int] /\ TestMarks.minus <= 0
      /\ QuestionMarks \in [plus : Nat, minus : Int, option : Nat] /\ QuestionMarks.minus <= 0
      /\ Parts \in Nat \ {0} /\ Parts * QuestionMarks.option <= QuestionMarks.plus
  BY GradingAssumption DEF GradingAssumption
<1>2. Parts * QuestionMarks.option \in Nat
  BY <1>1
<1> QED BY <1>1, <1>2

(* The maximum of an answer.                                               *)
LEMMA ActualIs ==
  ASSUME MarkInv, NEW kind, NEW plus, NEW a, Question(kind, plus, a)
  PROVE  ActualMark(kind, plus) \in Nat
BY MarksAre DEF ActualMark, ActualMarkOfQuestion, Question

(* What an incorrect answer loses.                                         *)
LEMMA MinusIs ==
  ASSUME MarkInv
  PROVE  MinusMark \in Int /\ MinusMark <= 0 /\ (~test.enableMarks => MinusMark = 0)
BY MarksAre DEF MinusMark, MarkInv

(* A multiple choice with partial marks: a share of the options' marks.    *)
LEMMA OptionMarks ==
  ASSUME NEW r \in 0 .. Parts, r # Parts
  PROVE  /\ r * QuestionMarks.option \in Nat
         /\ r * QuestionMarks.option <= Parts * QuestionMarks.option
         /\ QuestionMarks.option > 0 => r * QuestionMarks.option < Parts * QuestionMarks.option
<1> DEFINE o == QuestionMarks.option
<1>1. o \in Nat /\ Parts \in Nat
  BY MarksAre
<1> HIDE DEF o
<1>2. PICK d \in Nat : Parts = r + d /\ d > 0
  <2>1. Parts - r \in Nat /\ Parts = r + (Parts - r) /\ Parts - r > 0
    BY <1>1
  <2> QED BY <2>1
<1>3. Parts * o = r * o + d * o /\ r * o \in Nat /\ d * o \in Nat /\ (o > 0 => d * o > 0)
  BY <1>1, <1>2
<1>4. Parts * o \in Nat
  BY <1>1
<1> QED BY <1>3, <1>4 DEF o

(* What a correct answer earns.                                            *)
LEMMA PlusIs ==
  ASSUME MarkInv, NEW kind, NEW plus, NEW a, Question(kind, plus, a),
         StatusOf(kind, a) = "correct", NEW m \in PlusMarks(kind, plus, a)
  PROVE  /\ m \in Nat /\ m <= ActualMark(kind, plus)
         /\ ~test.enableMarks => m = 1
         /\ \/ test.plain \/ m # ActualMark(kind, plus) \/ ActualMark(kind, plus) = 0
            \/ a.right = PartsOf(kind) /\ a.wrong = 0
            \/ kind = "partial" /\ (~test.enableMarks \/ test.isMarksLevel)
            \/ kind = "code" /\ test.partialCoding /\ ~test.enableMarks
<1>1. /\ kind \in QuestionKinds /\ a \in Answers(kind) /\ plus \in Nat
      /\ kind # "descriptive" /\ ~Wrong(kind, a) /\ a.right + a.wrong > 0
  BY MarksAre DEF Question, KindsSent, StatusOf, Given
<1>2. /\ Parts \in Nat \ {0} /\ PartsOf(kind) \in {1, Parts}
      /\ a.right \in 0 .. PartsOf(kind) /\ a.wrong \in 0 .. PartsOf(kind)
      /\ kind \notin {"multiple", "partial"} => a.right + a.wrong = PartsOf(kind)
  BY <1>1, AnswerIs
<1>3. FullMark(plus) \in Nat
  BY <1>1, MarksAre DEF FullMark
<1>4. test.enableMarks \in BOOLEAN /\ test.isMarksLevel \in BOOLEAN /\ test.plain \in BOOLEAN
      /\ test.partialCoding \in BOOLEAN /\ mark.plus \in Nat /\ (~test.enableMarks => mark.plus = 1)
  BY DEF MarkInv, Tests
<1>5. ~test.plain =>
        /\ kind = "single" => a.right # 0
        /\ kind = "multiple" => a.wrong = 0 /\ a.right = Parts
        /\ kind = "partial" => a.wrong = 0
        /\ kind = "typed" => a.right = PartsOf(kind)
        /\ kind = "code" => IF test.partialCoding THEN a.right # 0 ELSE a.wrong = 0
  BY <1>1, <1>2 DEF Wrong, WrongObject
<1>6. CASE ~test.enableMarks
  <2>1. m = 1 /\ ActualMark(kind, plus) = 1
    BY <1>4, <1>6 DEF PlusMarks, ActualMark
  <2>2. test.plain \/ kind \in {"partial", "code"} \/ (a.right = PartsOf(kind) /\ a.wrong = 0)
    BY <1>1, <1>2, <1>5 DEF QuestionKinds, PartsOf
  <2>3. kind = "code" /\ ~test.plain /\ ~test.partialCoding => a.right = PartsOf(kind) /\ a.wrong = 0
    BY <1>2, <1>5
  <2> QED BY <1>6, <2>1, <2>2, <2>3
<1>7. CASE test.enableMarks /\ kind = "code" /\ test.partialCoding /\ ~test.plain
  <2> DEFINE s == (a.right * FullMark(plus)) \div Parts
  <2>1. m \in 0 .. s /\ ActualMark(kind, plus) = FullMark(plus) /\ PartsOf(kind) = Parts
    BY <1>7 DEF PlusMarks, CodeMarks, ActualMark, ActualMarkOfQuestion, FullMark, PartsOf
  <2>2. /\ s \in Nat /\ s <= FullMark(plus)
        /\ a.right < Parts /\ FullMark(plus) > 0 => s < FullMark(plus)
    BY <1>2, <1>3, <2>1, ShareOf
  <2> HIDE DEF s
  <2>3. a.right = Parts => a.wrong = 0
    BY <1>2, <1>7, <2>1
  <2>4. m \in Nat /\ m <= FullMark(plus) /\ (a.right < Parts /\ FullMark(plus) > 0 => m # FullMark(plus))
    BY <1>3, <2>1, <2>2
  <2> QED BY <1>2, <1>3, <1>7, <2>1, <2>3, <2>4
<1>8. CASE test.enableMarks /\ ~(kind = "code" /\ test.partialCoding /\ ~test.plain) /\ test.isMarksLevel
  <2>1. m = TestMarks.plus /\ ActualMark(kind, plus) = TestMarks.plus
    BY <1>8 DEF PlusMarks, ActualMark
  <2>2. test.plain \/ kind = "partial" \/ (a.right = PartsOf(kind) /\ a.wrong = 0)
    BY <1>1, <1>2, <1>5, <1>8 DEF QuestionKinds, PartsOf
  <2> QED BY <1>8, <2>1, <2>2, MarksAre
<1>9. CASE /\ test.enableMarks /\ ~(kind = "code" /\ test.partialCoding /\ ~test.plain)
           /\ ~test.isMarksLevel /\ kind = "partial"
  <2>1. ActualMark(kind, plus) = IF plus = 0 THEN Parts * QuestionMarks.option ELSE plus
    BY <1>9 DEF ActualMark, ActualMarkOfQuestion
  <2>2. m = IF test.plain THEN 0 ELSE IF a.right # Parts THEN a.right * QuestionMarks.option ELSE plus
    BY <1>9 DEF PlusMarks
  <2>3. PartsOf(kind) = Parts /\ a.right \in 0 .. Parts
    BY <1>2, <1>9 DEF PartsOf
  <2>4. plus # 0 => plus = QuestionMarks.plus
    BY DEF Question
  <2>5. CASE test.plain
    BY <1>1, <2>1, <2>2, <2>5, <1>9, MarksAre
  <2>6. CASE ~test.plain /\ a.right = Parts
    BY <1>1, <1>5, <1>9, <2>1, <2>2, <2>3, <2>6, MarksAre
  <2>7. CASE ~test.plain /\ a.right # Parts
    <3>1. /\ m = a.right * QuestionMarks.option /\ m \in Nat
          /\ m <= Parts * QuestionMarks.option
          /\ QuestionMarks.option > 0 => m < Parts * QuestionMarks.option
      BY <2>2, <2>3, <2>7, OptionMarks
    <3>2. Parts * QuestionMarks.option <= ActualMark(kind, plus) /\ ActualMark(kind, plus) \in Nat
      BY <1>1, <2>1, <2>4, MarksAre
    <3>3. QuestionMarks.option = 0 => m = 0
      BY <1>2, <2>3, <3>1
    <3> QED BY <1>9, <3>1, <3>2, <3>3, MarksAre
  <2> QED BY <2>5, <2>6, <2>7
<1>10. CASE /\ test.enableMarks /\ ~(kind = "code" /\ test.partialCoding /\ ~test.plain)
            /\ ~test.isMarksLevel /\ kind # "partial"
  <2>1. m = plus /\ ActualMark(kind, plus) = plus
    BY <1>10 DEF PlusMarks, ActualMark, ActualMarkOfQuestion
  <2>2. test.plain \/ (a.right = PartsOf(kind) /\ a.wrong = 0)
    BY <1>1, <1>2, <1>5, <1>10 DEF QuestionKinds, PartsOf
  <2> QED BY <1>1, <1>10, <2>1, <2>2
<1> QED BY <1>4, <1>6, <1>7, <1>8, <1>9, <1>10

One(b) == IF b THEN 1 ELSE 0

Totals == [errors : Nat, missed : Nat, pending : Nat, plus : Nat, minus : Int, evaluated : BOOLEAN]

(* One turn, seen from outside: the answer e to the question at place i is *)
(* added, the counter of its status moves by one and the marks by what it  *)
(* obtained.                                                               *)
Turn(i, e) ==
  /\ e \in Entries /\ e.question = TestQuestions[i] /\ EntryInv(e)
  /\ QA' = Append(QA, e) /\ todo' = todo \ {i} /\ test' = test /\ subjects' = subjects
  /\ mark' \in [plus : Nat, minus : Int] /\ mark'.minus <= 0
  /\ ~test.enableMarks => mark'.plus = 1 /\ mark'.minus = 0
  /\ total' \in Totals
  /\ total'.errors = total.errors + One(e.status = "incorrect")
  /\ total'.missed = total.missed + One(e.status = "missed")
  /\ total'.pending = total.pending + One(e.status = "pending" /\ ~test.plain)
  /\ total'.evaluated <=> (total.evaluated /\ ~(e.status = "pending" /\ ~test.plain))
  /\ total'.plus + total'.minus = total.plus + total.minus + e.obtainMarks

(* What is stored for an answer has its shape and its maximum.             *)
LEMMA MarkedIs ==
  ASSUME MarkInv, NEW q \in ToSet(TestQuestions), NEW kind, NEW plus, NEW a,
         Question(kind, plus, a), NEW obtain \in Int,
         NEW e, e = Marked(q, kind, plus, a, obtain)
  PROVE  /\ e \in Entries /\ e.question = q /\ e.kind = kind /\ e.answer = a
         /\ e.status = StatusOf(kind, a) /\ e.obtainMarks = obtain
         /\ e.actualMarks = ActualMark(kind, plus) /\ e.actualMarks \in Nat
<1>1. kind \in QuestionKinds /\ a \in [right : Nat, wrong : Nat]
  BY AnswerIs DEF Question, KindsSent
<1>2. StatusOf(kind, a) \in Statuses
  BY DEF StatusOf, Statuses
<1> QED BY <1>1, <1>2, ActualIs DEF Marked, Entries

(* An answer that is not correct obtains nothing, or loses marks.          *)
LEMMA NothingEarned ==
  ASSUME MarkInv, NEW q \in ToSet(TestQuestions), NEW kind, NEW plus, NEW a,
         Question(kind, plus, a), NEW obtain \in Int, obtain <= 0,
         NEW e, e = Marked(q, kind, plus, a, obtain)
  PROVE  EntryInv(e)
BY MarkedIs DEF EntryInv, Question

(* The marks of a correct answer stay below its maximum.                   *)
LEMMA MarksEarned ==
  ASSUME MarkInv, NEW q \in ToSet(TestQuestions), NEW kind, NEW plus, NEW a,
         Question(kind, plus, a), StatusOf(kind, a) = "correct",
         NEW obtain \in PlusMarks(kind, plus, a),
         NEW e, e = Marked(q, kind, plus, a, obtain)
  PROVE  EntryInv(e)
<1>1. /\ obtain \in Nat /\ obtain <= ActualMark(kind, plus)
      /\ \/ test.plain \/ obtain # ActualMark(kind, plus) \/ ActualMark(kind, plus) = 0
         \/ a.right = PartsOf(kind) /\ a.wrong = 0
         \/ kind = "partial" /\ (~test.enableMarks \/ test.isMarksLevel)
         \/ kind = "code" /\ test.partialCoding /\ ~test.enableMarks
  BY PlusIs
<1>2. /\ e.kind = kind /\ e.answer = a /\ e.obtainMarks = obtain
      /\ e.actualMarks = ActualMark(kind, plus)
  BY <1>1, MarkedIs
<1> QED BY <1>1, <1>2 DEF EntryInv, Question, Exact, PartialIgnored

(* Each way of marking a question is such a turn.                          *)
LEMMA TurnOfMissed ==
  ASSUME MarkInv, total \in Totals, NEW i \in DOMAIN TestQuestions, TestQuestions[i] \in ToSet(TestQuestions),
         NEW kind, NEW plus, NEW a, Question(kind, plus, a),
         todo' = todo \ {i}, UNCHANGED <<test, subjects>>,
         GradeMissed(TestQuestions[i], kind, plus, a)
  PROVE  \E e \in Entries : Turn(i, e)
<1>1. PICK e : e = Marked(TestQuestions[i], kind, plus, a, 0)
  OBVIOUS
<1>2. e \in Entries /\ e.question = TestQuestions[i] /\ e.status = "missed" /\ e.obtainMarks = 0
  BY <1>1, MarkedIs DEF GradeMissed, StatusOf
<1>3. EntryInv(e)
  BY <1>1, NothingEarned
<1>4. /\ QA' = Append(QA, e) /\ total' = [total EXCEPT !.missed = @ + 1] /\ mark' = mark
      /\ test' = test /\ subjects' = subjects
  BY <1>1 DEF GradeMissed
<1>5. total' \in Totals /\ total'.missed = total.missed + 1 /\ total'.errors = total.errors
      /\ total'.pending = total.pending /\ total'.evaluated = total.evaluated
      /\ total'.plus = total.plus /\ total'.minus = total.minus
  BY <1>4 DEF Totals
<1>6. total'.plus + total'.minus = total.plus + total.minus + e.obtainMarks
  BY <1>2, <1>5 DEF Totals
<1>7. /\ total'.errors = total.errors + One(e.status = "incorrect")
      /\ total'.missed = total.missed + One(e.status = "missed")
      /\ total'.pending = total.pending + One(e.status = "pending" /\ ~test.plain)
      /\ total'.evaluated <=> (total.evaluated /\ ~(e.status = "pending" /\ ~test.plain))
  BY <1>2, <1>5 DEF One, Totals
<1> QED BY <1>2, <1>3, <1>4, <1>5, <1>6, <1>7 DEF Turn, MarkInv

LEMMA TurnOfDescriptive ==
  ASSUME MarkInv, total \in Totals, NEW i \in DOMAIN TestQuestions, TestQuestions[i] \in ToSet(TestQuestions),
         NEW kind, NEW plus, NEW a, Question(kind, plus, a),
         todo' = todo \ {i}, UNCHANGED <<test, subjects>>,
         GradeDescriptive(TestQuestions[i], kind, plus, a)
  PROVE  \E e \in Entries : Turn(i, e)
<1>1. PICK e : e = Marked(TestQuestions[i], kind, plus, a, 0)
  OBVIOUS
<1>2. e \in Entries /\ e.question = TestQuestions[i] /\ e.status = "pending" /\ e.obtainMarks = 0
  BY <1>1, MarkedIs DEF GradeDescriptive, StatusOf
<1>3. EntryInv(e)
  BY <1>1, NothingEarned
<1>4. /\ QA' = Append(QA, e) /\ mark' = mark /\ test' = test /\ subjects' = subjects
      /\ total' = IF test.plain THEN total ELSE [total EXCEPT !.pending = @ + 1, !.evaluated = FALSE]
  BY <1>1 DEF GradeDescriptive
<1>5. /\ total' \in Totals /\ total'.missed = total.missed /\ total'.errors = total.errors
      /\ total'.pending = total.pending + One(~test.plain)
      /\ total'.evaluated <=> (total.evaluated /\ test.plain)
      /\ total'.plus = total.plus /\ total'.minus = total.minus
  <2>1. CASE test.plain
    BY <1>4, <2>1 DEF Totals, One
  <2>2. CASE ~test.plain
    <3>1. total' = [total EXCEPT !.pending = @ + 1, !.evaluated = FALSE]
      BY <1>4, <2>2
    <3>2. PICK t : t = [total EXCEPT !.pending = @ + 1]
      OBVIOUS
    <3>3. /\ t \in Totals /\ t.missed = total.missed /\ t.errors = total.errors
          /\ t.pending = total.pending + 1 /\ t.plus = total.plus /\ t.minus = total.minus
      BY <3>2 DEF Totals
    <3>4. total' = [t EXCEPT !.evaluated = FALSE]
      BY <3>1, <3>2
    <3>5. total' \in Totals /\ total'.evaluated = FALSE
      BY <3>3, <3>4 DEF Totals
    <3>6. /\ total'.missed = t.missed /\ total'.errors = t.errors /\ total'.pending = t.pending
          /\ total'.plus = t.plus /\ total'.minus = t.minus
      BY <3>3, <3>4 DEF Totals
    <3> QED BY <2>2, <3>3, <3>5, <3>6 DEF One
  <2> QED BY <2>1, <2>2
<1>6. total'.plus + total'.minus = total.plus + total.minus + e.obtainMarks
  BY <1>2, <1>5 DEF Totals
<1>7. /\ total'.errors = total.errors + One(e.status = "incorrect")
      /\ total'.missed = total.missed + One(e.status = "missed")
      /\ total'.pending = total.pending + One(e.status = "pending" /\ ~test.plain)
  BY <1>2, <1>5 DEF One, Totals
<1>8. total'.evaluated <=> (total.evaluated /\ ~(e.status = "pending" /\ ~test.plain))
  BY <1>2, <1>5 DEF Totals
<1> QED BY <1>2, <1>3, <1>4, <1>5, <1>6, <1>7, <1>8 DEF Turn, MarkInv

LEMMA TurnOfIncorrect ==
  ASSUME MarkInv, total \in Totals, NEW i \in DOMAIN TestQuestions, TestQuestions[i] \in ToSet(TestQuestions),
         NEW kind, NEW plus, NEW a, Question(kind, plus, a),
         todo' = todo \ {i}, UNCHANGED <<test, subjects>>,
         GradeIncorrect(TestQuestions[i], kind, plus, a)
  PROVE  \E e \in Entries : Turn(i, e)
<1>1. PICK e : e = Marked(TestQuestions[i], kind, plus, a, MinusMark)
  OBVIOUS
<1>2. MinusMark \in Int /\ MinusMark <= 0 /\ (~test.enableMarks => MinusMark = 0)
  BY MinusIs
<1>3. e \in Entries /\ e.question = TestQuestions[i] /\ e.status = "incorrect" /\ e.obtainMarks = MinusMark
  BY <1>1, <1>2, MarkedIs DEF GradeIncorrect
<1>4. EntryInv(e)
  BY <1>1, <1>2, NothingEarned
<1>5. mark' = [mark EXCEPT !.minus = MinusMark]
  BY DEF GradeIncorrect
<1>6. mark'.minus = MinusMark /\ mark' \in [plus : Nat, minus : Int] /\ mark'.plus = mark.plus
  BY <1>2, <1>5 DEF MarkInv
<1>7. /\ QA' = Append(QA, e) /\ test' = test /\ subjects' = subjects
      /\ total' = [total EXCEPT !.errors = @ + 1,
                                !.minus = @ + IF test.enableMarks THEN MinusMark ELSE 0]
  BY <1>1, <1>6 DEF GradeIncorrect
<1>8. /\ total' \in Totals /\ total'.missed = total.missed /\ total'.errors = total.errors + 1
      /\ total'.pending = total.pending /\ total'.evaluated = total.evaluated
      /\ total'.plus = total.plus /\ total'.minus = total.minus + MinusMark
  <2>1. PICK t : t = [total EXCEPT !.errors = @ + 1]
    OBVIOUS
  <2>2. /\ t \in Totals /\ t.missed = total.missed /\ t.errors = total.errors + 1
        /\ t.pending = total.pending /\ t.evaluated = total.evaluated
        /\ t.plus = total.plus /\ t.minus = total.minus
    BY <2>1 DEF Totals
  <2>3. total' = [t EXCEPT !.minus = @ + MinusMark]
    BY <1>2, <1>7, <2>1 DEF Totals
  <2> QED BY <1>2, <2>2, <2>3 DEF Totals
<1>9. total'.plus + total'.minus = total.plus + total.minus + e.obtainMarks
  BY <1>2, <1>3, <1>8 DEF Totals
<1>10. /\ total'.errors = total.errors + One(e.status = "incorrect")
       /\ total'.missed = total.missed + One(e.status = "missed")
       /\ total'.pending = total.pending + One(e.status = "pending" /\ ~test.plain)
       /\ total'.evaluated <=> (total.evaluated /\ ~(e.status = "pending" /\ ~test.plain))
  BY <1>3, <1>8 DEF One, Totals
<1> QED BY <1>2, <1>3, <1>4, <1>6, <1>7, <1>8, <1>9, <1>10 DEF Turn, MarkInv

LEMMA TurnOfCorrect ==
  ASSUME MarkInv, total \in Totals, NEW i \in DOMAIN TestQuestions, TestQuestions[i] \in ToSet(TestQuestions),
         NEW kind, NEW plus, NEW a, Question(kind, plus, a),
         todo' = todo \ {i}, UNCHANGED <<test, subjects>>,
         GradeCorrect(TestQuestions[i], kind, plus, a)
  PROVE  \E e \in Entries : Turn(i, e)
<1>1. PICK m \in PlusMarks(kind, plus, a) : mark' = [mark EXCEPT !.plus = m]
  BY DEF GradeCorrect
<1>2. PICK e : e = Marked(TestQuestions[i], kind, plus, a, m)
  OBVIOUS
<1>3. m \in Nat /\ (~test.enableMarks => m = 1)
  BY PlusIs DEF GradeCorrect
<1>4. e \in Entries /\ e.question = TestQuestions[i] /\ e.status = "correct" /\ e.obtainMarks = m
  BY <1>2, <1>3, MarkedIs DEF GradeCorrect
<1>5. EntryInv(e)
  BY <1>2, MarksEarned DEF GradeCorrect
<1>6. mark'.plus = m /\ mark' \in [plus : Nat, minus : Int] /\ mark'.minus = mark.minus
  BY <1>1, <1>3 DEF MarkInv
<1>7. /\ QA' = Append(QA, e) /\ test' = test /\ subjects' = subjects
      /\ total' = [total EXCEPT !.plus = @ + IF test.enableMarks THEN m ELSE 1]
  BY <1>2, <1>6 DEF GradeCorrect
<1>8. /\ total' \in Totals /\ total'.missed = total.missed /\ total'.errors = total.errors
      /\ total'.pending = total.pending /\ total'.evaluated = total.evaluated
      /\ total'.minus = total.minus /\ total'.plus = total.plus + m
  BY <1>3, <1>7, SMTT(30) DEF Totals
<1>9. total'.plus + total'.minus = total.plus + total.minus + e.obtainMarks
  BY <1>3, <1>4, <1>8 DEF Totals
<1>10. /\ total'.errors = total.errors + One(e.status = "incorrect")
       /\ total'.missed = total.missed + One(e.status = "missed")
       /\ total'.pending = total.pending + One(e.status = "pending" /\ ~test.plain)
       /\ total'.evaluated <=> (total.evaluated /\ ~(e.status = "pending" /\ ~test.plain))
  BY <1>4, <1>8 DEF One, Totals
<1> QED BY <1>3, <1>4, <1>5, <1>6, <1>7, <1>8, <1>9, <1>10 DEF Turn, MarkInv

(* A turn of the loop marks one question that waited.                      *)
LEMMA TurnTaken ==
  ASSUME MarkInv, total \in Totals, todo \subseteq DOMAIN TestQuestions, GradeQuestion
  PROVE  \E i \in todo, e \in Entries : Turn(i, e)
<1>1. PICK i \in todo, kind \in KindsSent(test.plain), plus \in {0, QuestionMarks.plus} :
        /\ todo' = todo \ {i} /\ (plus = 0 => kind = "partial")
        /\ \E a \in Answers(kind) :
            \/ GradeMissed(TestQuestions[i], kind, plus, a)
            \/ GradeDescriptive(TestQuestions[i], kind, plus, a)
            \/ GradeIncorrect(TestQuestions[i], kind, plus, a)
            \/ GradeCorrect(TestQuestions[i], kind, plus, a)
  BY DEF GradeQuestion
<1>2. PICK a \in Answers(kind) :
            \/ GradeMissed(TestQuestions[i], kind, plus, a)
            \/ GradeDescriptive(TestQuestions[i], kind, plus, a)
            \/ GradeIncorrect(TestQuestions[i], kind, plus, a)
            \/ GradeCorrect(TestQuestions[i], kind, plus, a)
  BY <1>1
<1>3. Question(kind, plus, a)
  BY <1>1, <1>2 DEF Question
<1>4. i \in DOMAIN TestQuestions /\ TestQuestions[i] \in ToSet(TestQuestions)
  BY <1>1 DEF ToSet
<1>5. UNCHANGED <<test, subjects>>
  BY DEF GradeQuestion
<1> QED
  BY <1>1, <1>2, <1>3, <1>4, <1>5, TurnOfMissed, TurnOfDescriptive, TurnOfIncorrect, TurnOfCorrect

(* What a list of answers adds up to: its answers of a status, its marks   *)
(* and its maximum are sums of a weight of its entries.                    *)
Weight(w, list, places) == SumFunctionOnSet([i \in DOMAIN list |-> w[list[i]]], places)

OfStatus(st) == [e \in Entries |-> One(e.status = st)]
Gained == [e \in Entries |-> e.obtainMarks]
Gainable == [e \in Entries |-> e.actualMarks]

LEMMA WeightType ==
  /\ \A st : OfStatus(st) \in [Entries -> Int]
  /\ Gained \in [Entries -> Int]
  /\ Gainable \in [Entries -> Int]
BY DEF OfStatus, Gained, Gainable, Entries, One

LEMMA PlacesFinite ==
  ASSUME NEW list \in Seq(Entries)
  PROVE  /\ IsFiniteSet(DOMAIN list) /\ DOMAIN list = 1 .. Len(list) /\ Len(list) \in Nat
         /\ \A i \in DOMAIN list : list[i] \in Entries
<1>1. DOMAIN list = 1 .. Len(list) /\ Len(list) \in Nat /\ \A i \in DOMAIN list : list[i] \in Entries
  OBVIOUS
<1> QED BY <1>1, FS_Interval

(* Counts and marks are such sums.                                         *)
LEMMA WeightsAre ==
  ASSUME NEW list \in Seq(Entries), NEW places \in SUBSET DOMAIN list
  PROVE  /\ \A st : NumberOf(list, places, st) = Weight(OfStatus(st), list, places)
         /\ Obtained(list, places) = Weight(Gained, list, places)
         /\ Obtainable(list, places) = Weight(Gainable, list, places)
<1>1. IsFiniteSet(places) /\ \A i \in DOMAIN list : list[i] \in Entries
  BY PlacesFinite, FS_Subset
<1>2. ASSUME NEW st PROVE NumberOf(list, places, st) = Weight(OfStatus(st), list, places)
  <2> DEFINE f == [i \in DOMAIN list |-> OfStatus(st)[list[i]]]
  <2>1. \A i \in DOMAIN list : f[i] = One(list[i].status = st)
    BY <1>1 DEF OfStatus
  <2>2. \A i \in places : f[i] \in {0, 1} /\ (f[i] = 1 <=> list[i].status = st)
    BY <2>1 DEF One
  <2> HIDE DEF f
  <2>3. SumFunctionOnSet(f, places) = Cardinality({i \in places : f[i] = 1})
    BY <1>1, <2>2, SumOfOnes
  <2>4. {i \in places : f[i] = 1} = {i \in places : list[i].status = st}
    BY <2>2
  <2> QED BY <2>3, <2>4 DEF f, NumberOf, Weight
<1>3. [i \in DOMAIN list |-> list[i].obtainMarks] = [i \in DOMAIN list |-> Gained[list[i]]]
  BY <1>1 DEF Gained
<1>4. [i \in DOMAIN list |-> list[i].actualMarks] = [i \in DOMAIN list |-> Gainable[list[i]]]
  BY <1>1 DEF Gainable
<1> QED BY <1>2, <1>3, <1>4 DEF Obtained, Obtainable, Weight

LEMMA WeightInt ==
  ASSUME NEW list \in Seq(Entries), NEW places \in SUBSET DOMAIN list, NEW w \in [Entries -> Int]
  PROVE  Weight(w, list, places) \in Int
<1> DEFINE f == [i \in DOMAIN list |-> w[list[i]]]
<1>1. IsFiniteSet(places) /\ \A i \in places : f[i] \in Int
  BY PlacesFinite, FS_Subset
<1> HIDE DEF f
<1>2. SumFunctionOnSet(f, places) \in Int
  BY <1>1, SumType
<1> QED BY <1>2 DEF f, Weight

(* One more answer adds its weight.                                        *)
LEMMA WeightAppend ==
  ASSUME NEW list \in Seq(Entries), NEW e \in Entries, NEW w \in [Entries -> Int],
         NEW more, more = Append(list, e)
  PROVE  /\ more \in Seq(Entries)
         /\ Weight(w, more, DOMAIN more) = Weight(w, list, DOMAIN list) + w[e]
<1> DEFINE n == Len(list)
           f == [i \in DOMAIN list |-> w[list[i]]]
           g == [i \in DOMAIN more |-> w[more[i]]]
<1>1. /\ more \in Seq(Entries) /\ DOMAIN more = 1 .. n + 1 /\ DOMAIN list = 1 .. n /\ n \in Nat
      /\ \A i \in 1 .. n : more[i] = list[i]
      /\ more[n + 1] = e
  OBVIOUS
<1>2. DOMAIN more = DOMAIN list \cup {n + 1} /\ n + 1 \notin DOMAIN list /\ IsFiniteSet(DOMAIN list)
  BY <1>1, PlacesFinite
<1>3. g[n + 1] = w[e] /\ w[e] \in Int /\ \A i \in DOMAIN list : g[i] = f[i] /\ f[i] \in Int
  BY <1>1, PlacesFinite
<1> HIDE DEF n, f, g
<1>4. \A i \in DOMAIN list \cup {n + 1} : g[i] \in Int
  BY <1>3
<1>5. SumFunctionOnSet(g, DOMAIN list \cup {n + 1}) = g[n + 1] + SumFunctionOnSet(g, DOMAIN list)
  BY <1>2, <1>4, SumAdd
<1>6. SumFunctionOnSet(g, DOMAIN list) = SumFunctionOnSet(f, DOMAIN list)
  BY <1>2, <1>3, SumSame
<1>7. SumFunctionOnSet(f, DOMAIN list) \in Int
  BY <1>2, <1>3, SumType
<1>8. SumFunctionOnSet(g, DOMAIN more) = SumFunctionOnSet(f, DOMAIN list) + w[e]
  BY <1>2, <1>3, <1>5, <1>6, <1>7
<1> QED BY <1>1, <1>8 DEF f, g, Weight

(* The same answers in another order: p tells where each one was.          *)
Distinct(list) == \A i, j \in DOMAIN list : list[i].question = list[j].question => i = j

Moves(p, list, moved) ==
  /\ moved \in Seq(Entries)
  /\ Len(moved) = Len(list)
  /\ p \in [DOMAIN moved -> DOMAIN list]
  /\ \A i, j \in DOMAIN moved : p[i] = p[j] => i = j
  /\ {p[i] : i \in DOMAIN moved} = DOMAIN list
  /\ \A i \in DOMAIN moved : moved[i] = list[p[i]]

(* The order of the answers does not matter.                               *)
LEMMA WeightMoved ==
  ASSUME NEW list \in Seq(Entries), NEW moved, NEW p, Moves(p, list, moved), NEW w \in [Entries -> Int]
  PROVE  Weight(w, moved, DOMAIN moved) = Weight(w, list, DOMAIN list)
<1>10. /\ moved \in Seq(Entries)
       /\ \A i, j \in DOMAIN moved : p[i] = p[j] => i = j
       /\ {p[i] : i \in DOMAIN moved} = DOMAIN list
       /\ \A i \in DOMAIN moved : moved[i] = list[p[i]]
  BY DEF Moves
<1> USE <1>10
<1> DEFINE f == [i \in DOMAIN moved |-> w[moved[i]]]
           e == [i \in DOMAIN list |-> w[list[i]]]
<1>1. IsFiniteSet(DOMAIN moved) /\ \A i \in DOMAIN moved : moved[i] \in Entries
  BY PlacesFinite
<1>2. \A i \in DOMAIN moved : p[i] \in DOMAIN list
  OBVIOUS
<1>3. \A i \in DOMAIN moved : f[i] \in Int /\ e[p[i]] = f[i]
  BY <1>1, <1>2
<1>4. PICK S : S = DOMAIN moved
  OBVIOUS
<1> HIDE DEF f, e
<1>5. IsFiniteSet(S)
  BY <1>1, <1>4
<1>6. \A x, y \in S : p[x] = p[y] => x = y
  BY <1>4
<1>7. \A x \in S : f[x] \in Int /\ e[p[x]] = f[x]
  BY <1>3, <1>4
<1>8. SumFunctionOnSet(e, {p[x] : x \in S}) = SumFunctionOnSet(f, S)
  BY <1>5, <1>6, <1>7, SumMoved, Z3T(40)
<1>9. {p[x] : x \in S} = DOMAIN list
  <2>1. {p[i] : i \in DOMAIN moved} = DOMAIN list
    BY ONLY Moves(p, list, moved), Zenon DEF Moves
  <2> QED BY ONLY <1>4, <2>1, Zenon
<1> QED BY <1>4, <1>8, <1>9 DEF f, e, Weight

(* Every answer belongs to one subject.                                    *)
SubjectsIn(of, list) == {of[e.question] : e \in ToSet(list)}

Belonging(of, list, s) == {i \in DOMAIN list : of[list[i].question] = s}

(* A list of answers has finitely many subjects.                           *)
LEMMA SubjectsFinite ==
  ASSUME NEW list \in Seq(Entries), NEW of
  PROVE  IsFiniteSet(SubjectsIn(of, list))
<1> DEFINE key == [i \in DOMAIN list |-> of[list[i].question]]
<1>1. ToSet(list) = {list[i] : i \in DOMAIN list}
  BY DEF ToSet
<1>2. key \in Surjection(DOMAIN list, SubjectsIn(of, list))
  BY <1>1 DEF Surjection, SubjectsIn
<1> HIDE DEF key
<1> QED BY <1>2, PlacesFinite, FS_Surjection

(* The sums of the subjects add up to the sum of all answers.              *)
LEMMA WeightBySubject ==
  ASSUME NEW list \in Seq(Entries), NEW w \in [Entries -> Int], NEW of, NEW D, D = SubjectsIn(of, list)
  PROVE  SumFunctionOnSet([s \in D |-> Weight(w, list, Belonging(of, list, s))], D)
           = Weight(w, list, DOMAIN list)
<1> DEFINE key == [i \in DOMAIN list |-> of[list[i].question]]
           f == [i \in DOMAIN list |-> w[list[i]]]
           S == DOMAIN list
<1>1. IsFiniteSet(S) /\ IsFiniteSet(D)
  BY PlacesFinite, SubjectsFinite
<1>2. \A i \in S : key[i] \in D /\ f[i] \in Int
  BY PlacesFinite DEF SubjectsIn, ToSet
<1>3. \A s \in D : Belonging(of, list, s) = {i \in S : key[i] = s}
  BY DEF Belonging
<1>4. \A s \in D : Weight(w, list, Belonging(of, list, s)) = SumFunctionOnSet(f, {i \in S : key[i] = s})
  BY <1>3 DEF Weight
<1> HIDE DEF key, f, S
<1>5. SumFunctionOnSet([s \in D |-> SumFunctionOnSet(f, {i \in S : key[i] = s})], D) = SumFunctionOnSet(f, S)
  BY <1>1, <1>2, SumByGroup
<1>6. [s \in D |-> SumFunctionOnSet(f, {i \in S : key[i] = s})]
        = [s \in D |-> Weight(w, list, Belonging(of, list, s))]
  BY <1>4
<1>7. SumFunctionOnSet([s \in D |-> Weight(w, list, Belonging(of, list, s))], D) = SumFunctionOnSet(f, S)
  BY <1>5, <1>6
<1> QED BY <1>7 DEF f, S, Weight

(* Numbering a set of places in increasing order reaches every number up   *)
(* to its size, once.                                                      *)
LEMMA PlaceIs ==
  ASSUME NEW n \in Nat, NEW K \in SUBSET (1 .. n), NEW k \in 1 .. Cardinality(K)
  PROVE  Place(K, k) \in K /\ Cardinality({j \in K : j <= Place(K, k)}) = k
<1> DEFINE Upto(i) == {j \in K : j <= i}
           rank == [i \in K |-> Cardinality(Upto(i))]
           m == Cardinality(K)
<1>1. IsFiniteSet(K) /\ m \in Nat /\ K \subseteq Int
  <2>1. IsFiniteSet(1 .. n)
    BY FS_Interval
  <2>2. IsFiniteSet(K)
    BY <2>1, FS_Subset
  <2> QED BY <2>2, FS_CardinalityType
<1>2. \A i \in K : /\ Upto(i) \subseteq K /\ IsFiniteSet(Upto(i)) /\ i \in Upto(i)
                   /\ Cardinality(Upto(i)) \in Nat /\ Cardinality(Upto(i)) <= m
                   /\ Cardinality(Upto(i)) # 0
  <2> SUFFICES ASSUME NEW i \in K
               PROVE  /\ Upto(i) \subseteq K /\ IsFiniteSet(Upto(i)) /\ i \in Upto(i)
                      /\ Cardinality(Upto(i)) \in Nat /\ Cardinality(Upto(i)) <= m
                      /\ Cardinality(Upto(i)) # 0
    OBVIOUS
  <2>1. Upto(i) \subseteq K /\ i \in Upto(i)
    BY <1>1
  <2> HIDE DEF Upto
  <2> QED BY <1>1, <2>1, FS_Subset, FS_CardinalityType, FS_EmptySet
<1>3. ASSUME NEW i \in K, NEW j \in K, i < j PROVE Cardinality(Upto(i)) < Cardinality(Upto(j))
  <2>1. Upto(i) \subseteq Upto(j) /\ j \in Upto(j) /\ j \notin Upto(i)
    <3>1. i \in Int /\ j \in Int
      BY <1>1
    <3>2. \A x \in K : x <= i => x <= j
      BY <1>1, <1>3, <3>1
    <3>3. ~(j <= i) /\ j <= j
      BY <1>3, <3>1
    <3> QED BY <3>2, <3>3
  <2>2. IsFiniteSet(Upto(j))
    BY <1>2
  <2> HIDE DEF Upto
  <2>3. Upto(i) # Upto(j)
    BY <2>1
  <2>4. Cardinality(Upto(i)) \in Nat /\ Cardinality(Upto(j)) \in Nat
    BY <1>2
  <2>5. Cardinality(Upto(i)) <= Cardinality(Upto(j)) /\ Cardinality(Upto(i)) # Cardinality(Upto(j))
    BY <2>1, <2>2, <2>3, FS_Subset
  <2> QED BY <2>4, <2>5
<1>4. \A i, j \in K : Cardinality(Upto(i)) = Cardinality(Upto(j)) => i = j
  <2> SUFFICES ASSUME NEW i \in K, NEW j \in K, i # j PROVE Cardinality(Upto(i)) # Cardinality(Upto(j))
    OBVIOUS
  <2>1. i < j \/ j < i
    BY <1>1
  <2> QED BY <1>2, <1>3, <2>1
<1> HIDE DEF Upto
<1>5. rank \in [K -> 1 .. m]
  BY <1>1, <1>2
<1>6. rank \in Injection(K, 1 .. m)
  BY <1>4, <1>5 DEF Injection, IsInjective
<1>7. IsFiniteSet(1 .. m) /\ Cardinality(1 .. m) = m
  BY <1>1, FS_Interval
<1> HIDE DEF rank
<1>8. rank \in Surjection(K, 1 .. m)
  BY <1>1, <1>6, <1>7, FS_Injection
<1>9. PICK i \in K : rank[i] = k
  BY <1>8 DEF Surjection, m
<1>10. Cardinality({j \in K : j <= i}) = k
  BY <1>9 DEF rank, Upto
<1> QED BY <1>9, <1>10 DEF Place

(* The stored answers are the marked ones in some order.                   *)
LEMMA MovesBy ==
  ASSUME NEW list \in Seq(Entries), NEW n, n = Len(list), NEW p \in [1 .. n -> 1 .. n],
         \A i, j \in 1 .. n : p[i] = p[j] => i = j,
         NEW moved, moved = [k \in 1 .. n |-> list[p[k]]]
  PROVE  Moves(p, list, moved)
<1>1. n \in Nat /\ DOMAIN list = 1 .. n /\ \A i \in 1 .. n : list[i] \in Entries
  OBVIOUS
<1>2. moved \in [1 .. n -> Entries]
  BY <1>1
<1>3. moved \in Seq(Entries) /\ DOMAIN moved = 1 .. n /\ Len(moved) = n
  BY <1>1, <1>2
<1>4. p \in Injection(1 .. n, 1 .. n)
  BY DEF Injection, IsInjective
<1>5. IsFiniteSet(1 .. n)
  BY <1>1, FS_Interval
<1>6. p \in Surjection(1 .. n, 1 .. n)
  BY <1>4, <1>5, FS_Injection
<1>7. {p[i] : i \in 1 .. n} = 1 .. n
  BY <1>6 DEF Surjection
<1> QED BY <1>1, <1>3, <1>7 DEF Moves

(* Reordered keeps every answer once, if no question was listed twice; and *)
(* whatever was listed, its answers are some of those that were marked.    *)
LEMMA ReorderedTakes ==
  ASSUME test \in Tests, QA \in Seq(Entries)
  PROVE  /\ Reordered \in Seq(Entries) /\ Len(Reordered) = Len(QA)
         /\ \A k \in DOMAIN Reordered : \E i \in DOMAIN QA : Reordered[k] = QA[i]
         /\ Distinct(QA) /\ ListedOnce => \E p : Moves(p, QA, Reordered)
<1> DEFINE n == Len(QA)
           listed == test.listed
           K == {i \in DOMAIN listed : \E e \in ToSet(QA) : e.question = listed[i]}
           At(q) == CHOOSE i \in DOMAIN QA : QA[i].question = q
<1>1. n \in Nat /\ DOMAIN QA = 1 .. n /\ \A i \in 1 .. n : QA[i] \in Entries
  OBVIOUS
<1>2. listed \in Seq(ToSet(listed))
  BY GradingAssumption DEF GradingAssumption, Tests
<1>3. Len(listed) \in Nat /\ DOMAIN listed = 1 .. Len(listed) /\ K \in SUBSET (1 .. Len(listed))
  BY <1>2
<1>4. CASE Len(NewOrder) # Len(QA)
  <2> DEFINE p == [i \in 1 .. n |-> i]
  <2>1. p \in [1 .. n -> 1 .. n] /\ \A i, j \in 1 .. n : p[i] = p[j] => i = j
    OBVIOUS
  <2>2. QA = [k \in 1 .. n |-> QA[p[k]]]
    BY <1>1
  <2>3. Reordered = QA
    BY <1>4 DEF Reordered
  <2> HIDE DEF p
  <2>4. Moves(p, QA, QA)
    BY <2>1, <2>2, MovesBy
  <2> QED BY <1>1, <2>3, <2>4
<1>5. CASE Len(NewOrder) = Len(QA)
  <2>1. NewOrder = [k \in 1 .. Cardinality(K) |-> EntryOf(listed[Place(K, k)])]
    BY DEF NewOrder
  <2>2. IsFiniteSet(K) /\ Cardinality(K) \in Nat
    <3> HIDE DEF K, listed
    <3>1. IsFiniteSet(1 .. Len(listed))
      BY <1>3, FS_Interval
    <3>2. IsFiniteSet(K)
      BY <1>3, <3>1, FS_Subset
    <3> QED BY <3>2, FS_CardinalityType
  <2>3. Cardinality(K) = n
    <3> HIDE DEF K, n
    <3>1. Len(NewOrder) = Cardinality(K)
      BY <2>1, <2>2
    <3> QED BY <1>5, <3>1 DEF n
  <2>4. \A k \in 1 .. n : Place(K, k) \in K /\ Cardinality({j \in K : j <= Place(K, k)}) = k
    <3> HIDE DEF K, n, listed
    <3> QED BY <1>3, <2>3, PlaceIs
  <2>5. \A k \in 1 .. n : \E i \in DOMAIN QA : QA[i].question = listed[Place(K, k)]
    <3> SUFFICES ASSUME NEW k \in 1 .. n
                 PROVE  \E i \in DOMAIN QA : QA[i].question = listed[Place(K, k)]
      OBVIOUS
    <3>1. PICK x \in K : x = Place(K, k)
      BY <2>4
    <3>2. \E e \in ToSet(QA) : e.question = listed[x]
      BY <3>1
    <3>3. \E i \in DOMAIN QA : QA[i].question = listed[x]
      BY <3>2 DEF ToSet
    <3> QED BY <3>1, <3>3
  <2> DEFINE p == [k \in 1 .. n |-> At(listed[Place(K, k)])]
  <2>6. \A k \in 1 .. n : p[k] \in DOMAIN QA /\ QA[p[k]].question = listed[Place(K, k)]
    <3> HIDE DEF K, n, listed
    <3> QED BY <2>5
  <2>7. \A k \in 1 .. n : NewOrder[k] = QA[p[k]]
    <3> HIDE DEF K, listed
    <3> QED BY <2>1, <2>3 DEF EntryOf
  <2> HIDE DEF p, At
  <2>8. p \in [1 .. n -> 1 .. n] /\ NewOrder = [k \in 1 .. n |-> QA[p[k]]]
    <3>1. p \in [1 .. n -> 1 .. n]
      <4>1. \A k \in 1 .. n : p[k] \in 1 .. n
        BY <1>1, <2>6
      <4> HIDE DEF n, K, listed
      <4> QED BY <4>1 DEF p
    <3> HIDE DEF n, K
    <3> QED BY <2>1, <2>3, <2>7, <3>1
  <2>9. Reordered = NewOrder
    BY <1>5 DEF Reordered
  <2>10. /\ NewOrder \in Seq(Entries) /\ Len(NewOrder) = n
         /\ \A k \in DOMAIN NewOrder : \E i \in DOMAIN QA : NewOrder[k] = QA[i]
    <3> HIDE DEF n
    <3>1. /\ n \in Nat /\ \A i \in 1 .. n : QA[i] \in Entries
          /\ \A k \in 1 .. n : p[k] \in 1 .. n /\ NewOrder[k] = QA[p[k]]
      BY <1>1, <2>8
    <3>2. NewOrder \in [1 .. n -> Entries]
      BY <2>8, <3>1
    <3>3. NewOrder \in Seq(Entries) /\ DOMAIN NewOrder = 1 .. n /\ Len(NewOrder) = n
      BY <3>1, <3>2
    <3> QED BY <1>1, <3>1, <3>3
  <2>11. ASSUME Distinct(QA), ListedOnce PROVE Moves(p, QA, NewOrder)
    <3>1. \A i, j \in 1 .. n : p[i] = p[j] => i = j
      <4> SUFFICES ASSUME NEW i \in 1 .. n, NEW j \in 1 .. n, p[i] = p[j] PROVE i = j
        OBVIOUS
      <4>1. Place(K, i) \in DOMAIN listed /\ Place(K, j) \in DOMAIN listed
        BY <2>4
      <4>2. \A x, y \in DOMAIN listed : listed[x] = listed[y] => x = y
        BY <2>11 DEF ListedOnce, IsInjective
      <4>3. Place(K, i) = Place(K, j)
        BY <2>6, <4>1, <4>2
      <4> QED BY <2>4, <4>3
    <3> QED BY <2>8, <3>1, MovesBy
  <2> QED BY <2>9, <2>10, <2>11
<1> QED BY <1>4, <1>5

(***************************************************************************)
(* The invariant                                                           *)
(***************************************************************************)
ToGrade == Graded(test.subset, test.listed)

Total(w) == Weight(w, QA, DOMAIN QA)

FairEntries == {e \in Entries : EntryInv(e)}

(* Types, and what holds of each answer.                                   *)
LoopInv ==
  /\ MarkInv /\ total \in Totals
  /\ todo \subseteq ToGrade
  /\ QA \in Seq(Entries)
  /\ \A k \in DOMAIN QA : QA[k] \in FairEntries

(* There are as many answers as questions that were to be graded and no    *)
(* longer wait; one to each of these, unless a question was listed twice.  *)
AskedInv ==
  /\ Len(QA) + Cardinality(todo) = Cardinality(ToGrade)
  /\ AsMarked => /\ Distinct(QA)
                 /\ {QA[k].question : k \in DOMAIN QA} = {TestQuestions[i] : i \in ToGrade \ todo}

(* The counters are sums over the answers as they were marked.             *)
SumsInv ==
  /\ total.errors = Total(OfStatus("incorrect"))
  /\ total.missed = Total(OfStatus("missed"))
  /\ total.pending = IF test.plain THEN 0 ELSE Total(OfStatus("pending"))
  /\ Total(OfStatus("incorrect")) + Total(OfStatus("missed")) + Total(OfStatus("pending"))
       + Total(OfStatus("correct")) = Len(QA)
  /\ total.plus + total.minus = Total(Gained)

CountInv ==
  /\ total.evaluated <=> total.pending = 0
  /\ AsMarked => SumsInv

(* The subjects are added up from the stored answers.                      *)
SubjectInv ==
  Stored => /\ todo = {}
            /\ subjects = [s \in SubjectsIn(test.subjectOf, QA) |-> SubjectOf(s, QA)]

GradingInv == LoopInv /\ AskedInv /\ CountInv /\ SubjectInv

LEMMA ToGradeFinite ==
  /\ IsFiniteSet(DOMAIN TestQuestions) /\ ToGrade \subseteq DOMAIN TestQuestions
  /\ IsFiniteSet(ToGrade)
<1>1. Len(TestQuestions) \in Nat /\ DOMAIN TestQuestions = 1 .. Len(TestQuestions)
  BY GradingAssumption DEF GradingAssumption
<1>2. IsFiniteSet(DOMAIN TestQuestions)
  BY <1>1, FS_Interval
<1>3. ToGrade \subseteq DOMAIN TestQuestions
  BY DEF ToGrade, Graded
<1> QED BY <1>2, <1>3, FS_Subset

LEMMA GradingStarts == GradingInit => GradingInv
<1> SUFFICES ASSUME GradingInit PROVE GradingInv
  OBVIOUS
<1>1. test \in Tests /\ todo = ToGrade /\ QA = <<>> /\ subjects = <<>>
  BY DEF GradingInit, Tests, ToGrade
<1>2. mark = [plus |-> 1, minus |-> 0]
      /\ total = [errors |-> 0, missed |-> 0, pending |-> 0, plus |-> 0, minus |-> 0, evaluated |-> TRUE]
  BY DEF GradingInit
<1>3. DOMAIN QA = {} /\ QA \in Seq(Entries) /\ Len(QA) = 0
  BY <1>1
<1>4. \A w : Total(w) = 0
  BY <1>3, SumEmpty DEF Total, Weight
<1>5. LoopInv
  BY <1>1, <1>2, <1>3 DEF LoopInv, MarkInv, Totals
<1>6. AskedInv
  <2>1. {TestQuestions[i] : i \in ToGrade \ todo} = {} /\ {QA[k].question : k \in DOMAIN QA} = {}
    BY <1>1, <1>3
  <2>2. Cardinality(ToGrade) \in Nat
    BY ToGradeFinite, FS_CardinalityType
  <2> QED BY <1>1, <1>3, <2>1, <2>2 DEF AskedInv, Distinct
<1>7. CountInv
  BY <1>2, <1>3, <1>4 DEF CountInv, SumsInv
<1>8. SubjectInv
  BY <1>1 DEF SubjectInv, Stored
<1> QED BY <1>5, <1>6, <1>7, <1>8 DEF GradingInv

(***************************************************************************)
(* Marking a question                                                      *)
(***************************************************************************)
LEMMA TurnKeepsLoop ==
  ASSUME LoopInv, NEW i \in todo, NEW e \in Entries, Turn(i, e)
  PROVE  LoopInv'
<1>1. QA' = Append(QA, e) /\ QA \in Seq(Entries) /\ test' = test /\ todo' = todo \ {i}
  BY DEF Turn, LoopInv
<1>2. /\ QA' \in Seq(Entries) /\ DOMAIN QA' = 1 .. Len(QA) + 1 /\ DOMAIN QA = 1 .. Len(QA)
      /\ Len(QA) \in Nat
      /\ \A k \in 1 .. Len(QA) : QA'[k] = QA[k]
      /\ QA'[Len(QA) + 1] = e
  BY <1>1
<1>3. FairEntries' = FairEntries
  BY <1>1 DEF FairEntries, EntryInv, PartialIgnored, Exact
<1>4. \A k \in DOMAIN QA' : QA'[k] \in FairEntries
  <2>1. \A k \in 1 .. Len(QA) : QA[k] \in FairEntries
    BY <1>2 DEF LoopInv
  <2>2. \A k \in DOMAIN QA' : k \in 1 .. Len(QA) \/ k = Len(QA) + 1
    BY <1>2
  <2>3. e \in FairEntries
    BY DEF Turn, FairEntries
  <2>4. ASSUME NEW k \in DOMAIN QA' PROVE QA'[k] \in FairEntries
    <3>1. CASE k \in 1 .. Len(QA)
      BY <1>2, <2>1, <3>1
    <3>2. CASE k = Len(QA) + 1
      BY <1>2, <2>3, <3>2
    <3> QED BY <2>2, <3>1, <3>2
  <2> QED BY <2>4
<1>6. MarkInv' /\ total' \in Totals
  BY <1>1 DEF Turn, MarkInv, LoopInv
<1>7. todo' \subseteq ToGrade'
  BY <1>1 DEF LoopInv, ToGrade
<1> QED BY <1>2, <1>3, <1>4, <1>6, <1>7 DEF LoopInv

LEMMA TurnKeepsAsked ==
  ASSUME LoopInv, AskedInv, AsMarked, NEW i \in todo, NEW e \in Entries, Turn(i, e)
  PROVE  AskedInv'
<1> DEFINE n == Len(QA)
<1>1. QA' = Append(QA, e) /\ QA \in Seq(Entries) /\ test' = test /\ todo' = todo \ {i}
      /\ e.question = TestQuestions[i]
  BY DEF Turn, LoopInv
<1>2. /\ QA' \in Seq(Entries) /\ DOMAIN QA' = 1 .. n + 1 /\ DOMAIN QA = 1 .. n
      /\ n \in Nat /\ Len(QA') = n + 1
      /\ \A k \in 1 .. n : QA'[k] = QA[k]
      /\ QA'[n + 1] = e
  BY <1>1
<1> HIDE DEF n
<1>3. DOMAIN QA' = DOMAIN QA \cup {n + 1} /\ \A k \in DOMAIN QA : QA'[k] = QA[k]
  BY <1>2
<1>4. /\ todo \subseteq ToGrade /\ ToGrade \subseteq DOMAIN TestQuestions /\ IsFiniteSet(todo)
      /\ i \in ToGrade \ todo' /\ ToGrade \ todo' = (ToGrade \ todo) \cup {i}
      /\ i \notin ToGrade \ todo /\ ToGrade' = ToGrade
  <2>1. todo \subseteq ToGrade
    BY DEF LoopInv
  <2>2. IsFiniteSet(todo)
    BY <2>1, ToGradeFinite, FS_Subset
  <2>3. ToGrade' = ToGrade
    BY <1>1 DEF ToGrade
  <2> QED BY <1>1, <2>1, <2>2, <2>3, ToGradeFinite
<1>5. \A j \in ToGrade \ todo : TestQuestions[j] # TestQuestions[i]
  BY <1>4, GradingAssumption DEF GradingAssumption, IsInjective
<1>6. {QA[k].question : k \in DOMAIN QA} = {TestQuestions[j] : j \in ToGrade \ todo}
  BY DEF AskedInv
<1>7. \A k \in DOMAIN QA : QA[k].question # e.question
  <2> SUFFICES ASSUME NEW k \in DOMAIN QA PROVE QA[k].question # e.question
    OBVIOUS
  <2>1. QA[k].question \in {TestQuestions[j] : j \in ToGrade \ todo}
    BY <1>6
  <2> QED BY <1>1, <1>5, <2>1
<1>8. Distinct(QA)'
  BY <1>3, <1>2, <1>7 DEF AskedInv, Distinct
<1>9. {QA'[k].question : k \in DOMAIN QA'} = {TestQuestions[j] : j \in ToGrade \ todo'}
  <2>1. {QA'[k].question : k \in DOMAIN QA'} = {QA[k].question : k \in DOMAIN QA} \cup {e.question}
    BY <1>2, <1>3
  <2>2. {TestQuestions[j] : j \in ToGrade \ todo'}
          = {TestQuestions[j] : j \in ToGrade \ todo} \cup {TestQuestions[i]}
    BY <1>4
  <2> QED BY <1>1, <1>6, <2>1, <2>2
<1>10. Len(QA') + Cardinality(todo') = Cardinality(ToGrade')
  <2>1. Cardinality(todo') = Cardinality(todo) - 1 /\ Cardinality(todo) \in Nat
    BY <1>1, <1>4, FS_RemoveElement, FS_CardinalityType
  <2>2. n + Cardinality(todo) = Cardinality(ToGrade)
    BY DEF AskedInv, n
  <2> QED BY <1>2, <1>4, <2>1, <2>2
<1> QED BY <1>4, <1>8, <1>9, <1>10 DEF AskedInv

(* Counters and sums over the answers move together.                       *)
LEMMA TurnKeepsCounts ==
  ASSUME LoopInv, CountInv, AsMarked, NEW i \in todo, NEW e \in Entries, Turn(i, e)
  PROVE  CountInv'
<1>1. /\ QA' = Append(QA, e) /\ QA \in Seq(Entries) /\ test' = test /\ total \in Totals
      /\ test.plain \in BOOLEAN
  BY DEF Turn, LoopInv, MarkInv, Tests
<1>2. /\ Len(QA) \in Nat /\ Len(QA') = Len(QA) + 1
      /\ e.status \in Statuses /\ e.obtainMarks \in Int
  BY <1>1 DEF Entries
<1>3. \A w \in [Entries -> Int] : Total(w)' = Total(w) + w[e] /\ Total(w) \in Int
  <2> SUFFICES ASSUME NEW w \in [Entries -> Int] PROVE Total(w)' = Total(w) + w[e] /\ Total(w) \in Int
    OBVIOUS
  <2>1. Weight(w, QA', DOMAIN QA') = Weight(w, QA, DOMAIN QA) + w[e]
    BY <1>1, WeightAppend
  <2>2. Weight(w, QA, DOMAIN QA) \in Int
    BY <1>1, WeightInt
  <2> QED BY <2>1, <2>2 DEF Total
<1>4. \A st : Total(OfStatus(st))' = Total(OfStatus(st)) + One(e.status = st) /\ Total(OfStatus(st)) \in Int
  <2> SUFFICES ASSUME NEW st
               PROVE  /\ Total(OfStatus(st))' = Total(OfStatus(st)) + One(e.status = st)
                      /\ Total(OfStatus(st)) \in Int
    OBVIOUS
  <2>1. OfStatus(st) \in [Entries -> Int]
    BY WeightType
  <2>2. OfStatus(st)[e] = One(e.status = st)
    BY DEF OfStatus
  <2>3. PICK w \in [Entries -> Int] : w = OfStatus(st)
    BY <2>1
  <2> QED BY <1>3, <2>2, <2>3
<1>5. Total(Gained)' = Total(Gained) + e.obtainMarks /\ Total(Gained) \in Int
  <2>1. Gained[e] = e.obtainMarks
    BY DEF Gained
  <2> QED BY <1>3, <2>1, WeightType
<1>11. SumsInv
  BY DEF CountInv
<1>6. /\ total'.errors = Total(OfStatus("incorrect"))'
      /\ total'.missed = Total(OfStatus("missed"))'
  BY <1>4, <1>11 DEF Turn, SumsInv
<1>7. total'.pending = IF test'.plain THEN 0 ELSE Total(OfStatus("pending"))'
  BY <1>1, <1>4, <1>11 DEF Turn, SumsInv, One
<1>8. total'.evaluated <=> total'.pending = 0
  <2>1. total'.evaluated <=> (total.evaluated /\ ~(e.status = "pending" /\ ~test.plain))
    BY DEF Turn
  <2>2. total'.pending = total.pending + One(e.status = "pending" /\ ~test.plain) /\ total.pending \in Nat
    BY <1>1 DEF Turn, Totals
  <2>3. total.evaluated <=> total.pending = 0
    BY DEF CountInv
  <2>4. CASE e.status = "pending" /\ ~test.plain
    BY <2>1, <2>2, <2>4 DEF One
  <2>5. CASE ~(e.status = "pending" /\ ~test.plain)
    <3>1. total'.pending = total.pending
      BY <2>2, <2>5 DEF One
    <3>2. total'.evaluated <=> total.evaluated
      BY <2>1, <2>5
    <3> QED BY <2>3, <3>1, <3>2
  <2> QED BY <2>4, <2>5
<1>9. Total(OfStatus("incorrect"))' + Total(OfStatus("missed"))' + Total(OfStatus("pending"))'
        + Total(OfStatus("correct"))' = Len(QA')
  <2>1. One(e.status = "incorrect") + One(e.status = "missed") + One(e.status = "pending")
          + One(e.status = "correct") = 1
    BY <1>2 DEF Statuses, One
  <2>2. \A b : One(b) \in Int
    BY DEF One
  <2>3. Total(OfStatus("incorrect")) + Total(OfStatus("missed")) + Total(OfStatus("pending"))
          + Total(OfStatus("correct")) = Len(QA)
    BY <1>11 DEF SumsInv
  <2>4. PICK a, b, c, d : /\ a = Total(OfStatus("incorrect")) /\ b = Total(OfStatus("missed"))
                          /\ c = Total(OfStatus("pending")) /\ d = Total(OfStatus("correct"))
    OBVIOUS
  <2>5. PICK oa, ob, oc, od : /\ oa = One(e.status = "incorrect") /\ ob = One(e.status = "missed")
                              /\ oc = One(e.status = "pending") /\ od = One(e.status = "correct")
    OBVIOUS
  <2>6. /\ a \in Int /\ b \in Int /\ c \in Int /\ d \in Int
        /\ oa \in Int /\ ob \in Int /\ oc \in Int /\ od \in Int
    BY <1>4, <2>2, <2>4, <2>5
  <2>7. oa + ob + oc + od = 1 /\ a + b + c + d = Len(QA)
    BY <2>1, <2>3, <2>4, <2>5
  <2>8. (a + oa) + (b + ob) + (c + oc) + (d + od) = Len(QA')
    BY <1>2, <2>6, <2>7
  <2>9. /\ Total(OfStatus("incorrect"))' = a + oa /\ Total(OfStatus("missed"))' = b + ob
        /\ Total(OfStatus("pending"))' = c + oc /\ Total(OfStatus("correct"))' = d + od
    BY <1>4, <2>4, <2>5
  <2> QED BY <2>8, <2>9
<1>10. total'.plus + total'.minus = Total(Gained)'
  <2>1. total'.plus + total'.minus = total.plus + total.minus + e.obtainMarks
    BY DEF Turn
  <2>2. total.plus + total.minus = Total(Gained)
    BY <1>11 DEF SumsInv
  <2> QED BY <1>2, <1>5, <2>1, <2>2
<1> QED BY <1>6, <1>7, <1>8, <1>9, <1>10 DEF CountInv, SumsInv

LEMMA TurnKeepsSubjects ==
  ASSUME SubjectInv, NEW i \in todo, NEW e \in Entries, Turn(i, e)
  PROVE  SubjectInv'
BY DEF SubjectInv, Turn, Stored

(***************************************************************************)
(* Storing the attempt                                                     *)
(***************************************************************************)
LEMMA StoreTakes ==
  ASSUME LoopInv, AskedInv, ~Stored, StoreAttempt
  PROVE  /\ QA' \in Seq(Entries) /\ Len(QA') = Len(QA)
         /\ \A k \in DOMAIN QA' : \E i \in DOMAIN QA : QA'[k] = QA[i]
         /\ ListedOnce => \E p : Moves(p, QA, QA')
         /\ test' = test /\ todo' = todo /\ mark' = mark /\ total' = total /\ todo = {}
         /\ subjects' = [s \in SubjectsIn(test.subjectOf, QA') |-> SubjectOf(s, QA')]
<1>1. QA' = Reordered /\ todo = {} /\ UNCHANGED <<test, todo, mark, total>>
      /\ subjects' = [s \in SubjectsIn(test.subjectOf, QA') |-> SubjectOf(s, QA')]
  BY DEF StoreAttempt, SubjectsIn
<1>2. Distinct(QA) /\ test \in Tests /\ QA \in Seq(Entries)
  BY DEF AskedInv, AsMarked, LoopInv, MarkInv
<1>3. /\ Reordered \in Seq(Entries) /\ Len(Reordered) = Len(QA)
      /\ \A k \in DOMAIN Reordered : \E i \in DOMAIN QA : Reordered[k] = QA[i]
      /\ ListedOnce => \E p : Moves(p, QA, Reordered)
  BY <1>2, ReorderedTakes
<1> QED BY <1>1, <1>3

(* Another order keeps the answers and their questions.                    *)
LEMMA SameAnswers ==
  ASSUME NEW list \in Seq(Entries), NEW moved, NEW p, Moves(p, list, moved)
  PROVE  /\ ToSet(moved) = ToSet(list)
         /\ {moved[k].question : k \in DOMAIN moved} = {list[k].question : k \in DOMAIN list}
         /\ Distinct(list) => Distinct(moved)
<1>1. /\ \A k \in DOMAIN moved : p[k] \in DOMAIN list /\ moved[k] = list[p[k]]
      /\ \A i \in DOMAIN list : \E k \in DOMAIN moved : p[k] = i
      /\ \A i, j \in DOMAIN moved : p[i] = p[j] => i = j
  BY DEF Moves
<1>2. ToSet(moved) = ToSet(list)
  <2>1. ToSet(moved) = {moved[k] : k \in DOMAIN moved} /\ ToSet(list) = {list[k] : k \in DOMAIN list}
    BY DEF ToSet
  <2> QED BY <1>1, <2>1
<1>3. {moved[k].question : k \in DOMAIN moved} = {list[k].question : k \in DOMAIN list}
  BY <1>1
<1>4. Distinct(list) => Distinct(moved)
  BY <1>1 DEF Distinct
<1> QED BY <1>2, <1>3, <1>4

(* Storing changes the order only, if no question was listed twice, and    *)
(* always keeps the number of answers.                                     *)
LEMMA StoreKeeps ==
  ASSUME LoopInv, AskedInv, CountInv, ~Stored, StoreAttempt
  PROVE  GradingInv'
<1>1. /\ QA' \in Seq(Entries) /\ Len(QA') = Len(QA)
      /\ \A k \in DOMAIN QA' : \E i \in DOMAIN QA : QA'[k] = QA[i]
  BY StoreTakes
<1>2. /\ test' = test /\ todo' = todo /\ mark' = mark /\ total' = total /\ todo = {}
      /\ subjects' = [s \in SubjectsIn(test.subjectOf, QA') |-> SubjectOf(s, QA')]
  BY StoreTakes
<1>3. QA \in Seq(Entries) /\ Distinct(QA) /\ SumsInv
      /\ {QA[k].question : k \in DOMAIN QA} = {TestQuestions[i] : i \in ToGrade \ todo}
  BY DEF LoopInv, AskedInv, CountInv, AsMarked
<1>4. ToGrade' = ToGrade /\ (ListedOnce' <=> ListedOnce)
  BY <1>2 DEF ToGrade, ListedOnce
<1>5. ASSUME ListedOnce
      PROVE  /\ {QA'[k].question : k \in DOMAIN QA'} = {QA[k].question : k \in DOMAIN QA}
             /\ Distinct(QA')
             /\ \A w \in [Entries -> Int] : Total(w)' = Total(w)
  <2>1. PICK p : Moves(p, QA, QA')
    BY <1>5, StoreTakes
  <2>2. /\ {QA'[k].question : k \in DOMAIN QA'} = {QA[k].question : k \in DOMAIN QA}
        /\ Distinct(QA')
    BY <1>3, <2>1, SameAnswers
  <2>3. \A w \in [Entries -> Int] : Total(w)' = Total(w)
    BY <1>3, <2>1, WeightMoved DEF Total
  <2> QED BY <2>2, <2>3
<1>6. LoopInv'
  <2>1. FairEntries' = FairEntries
    BY <1>2 DEF FairEntries, EntryInv, PartialIgnored, Exact
  <2>2. \A k \in DOMAIN QA' : QA'[k] \in FairEntries
    BY <1>1 DEF LoopInv
  <2>3. MarkInv' /\ total' \in Totals
    BY <1>2 DEF LoopInv, MarkInv
  <2>4. todo' \subseteq ToGrade'
    BY <1>2
  <2> QED BY <1>1, <2>1, <2>2, <2>3, <2>4 DEF LoopInv
<1>7. AskedInv'
  <2>1. Len(QA') + Cardinality(todo') = Cardinality(ToGrade')
    BY <1>1, <1>2, <1>4 DEF AskedInv
  <2>2. ASSUME ListedOnce
        PROVE  /\ Distinct(QA')
               /\ {QA'[k].question : k \in DOMAIN QA'} = {TestQuestions[i] : i \in ToGrade' \ todo'}
    BY <1>2, <1>3, <1>4, <1>5, <2>2
  <2>3. CASE ListedOnce
    BY <2>1, <2>2, <2>3 DEF AskedInv, Distinct
  <2>4. CASE ~ListedOnce /\ Stored'
    BY <1>4, <2>1, <2>4 DEF AskedInv, AsMarked
  <2>5. CASE ~ListedOnce /\ ~Stored'
    <3>1. SubjectsIn(test.subjectOf, QA') = {}
      BY <1>2, <2>5 DEF Stored
    <3>2. DOMAIN QA' = {}
      BY <3>1 DEF SubjectsIn, ToSet
    <3>3. DOMAIN QA = {}
      BY <1>1, <1>3, <3>2
    <3> QED BY <1>2, <1>3, <1>4, <2>1, <3>2, <3>3 DEF AskedInv, Distinct
  <2> QED BY <2>3, <2>4, <2>5
<1>8. CountInv'
  <2>1. total'.evaluated <=> total'.pending = 0
    BY <1>2 DEF CountInv
  <2>2. ASSUME \A w \in [Entries -> Int] : Total(w)' = Total(w) PROVE SumsInv'
    <3>1. \A st : Total(OfStatus(st))' = Total(OfStatus(st))
      <4> SUFFICES ASSUME NEW st PROVE Total(OfStatus(st))' = Total(OfStatus(st))
        OBVIOUS
      <4>1. PICK w \in [Entries -> Int] : w = OfStatus(st)
        BY WeightType
      <4> QED BY <2>2, <4>1
    <3>2. Total(Gained)' = Total(Gained)
      BY <2>2, WeightType
    <3> QED BY <1>1, <1>2, <1>3, <3>1, <3>2 DEF SumsInv
  <2>3. CASE ListedOnce
    BY <1>5, <2>1, <2>2, <2>3 DEF CountInv
  <2>4. CASE ~ListedOnce /\ Stored'
    BY <1>4, <2>1, <2>4 DEF CountInv, AsMarked
  <2>5. CASE ~ListedOnce /\ ~Stored'
    <3>1. SubjectsIn(test.subjectOf, QA') = {}
      BY <1>2, <2>5 DEF Stored
    <3>2. DOMAIN QA' = {}
      BY <3>1 DEF SubjectsIn, ToSet
    <3>3. DOMAIN QA = {} /\ QA' = QA
      BY <1>1, <1>3, <3>2
    <3>4. \A w \in [Entries -> Int] : Total(w)' = Total(w)
      BY <3>3 DEF Total
    <3> QED BY <2>1, <2>2, <3>4 DEF CountInv
  <2> QED BY <2>3, <2>4, <2>5
<1>9. SubjectInv'
  <2>1. subjects' = [s \in SubjectsIn(test'.subjectOf, QA') |-> SubjectOf(s, QA)']
    BY <1>2 DEF SubjectOf, PlacesOf
  <2> QED BY <1>2, <2>1 DEF SubjectInv
<1> QED BY <1>6, <1>7, <1>8, <1>9 DEF GradingInv

LEMMA GradingStays ==
  ASSUME GradingInv, [GradingNext]_gradingVars
  PROVE  GradingInv'
<1>1. LoopInv /\ AskedInv /\ CountInv /\ SubjectInv
  BY DEF GradingInv
<1>2. CASE GradeQuestion
  <2>1. todo \subseteq DOMAIN TestQuestions
    BY <1>1, ToGradeFinite DEF LoopInv
  <2>2. PICK i \in todo, e \in Entries : Turn(i, e)
    BY <1>1, <1>2, <2>1, TurnTaken DEF LoopInv
  <2>3. AsMarked
    BY <1>1 DEF SubjectInv, AsMarked
  <2> QED
    BY <1>1, <2>2, <2>3, TurnKeepsLoop, TurnKeepsAsked, TurnKeepsCounts, TurnKeepsSubjects DEF GradingInv
<1>3. CASE StoreAttempt
  BY <1>1, <1>3, StoreKeeps DEF StoreAttempt, Stored
<1>4. CASE UNCHANGED gradingVars
  <2>1. /\ test' = test /\ todo' = todo /\ QA' = QA /\ mark' = mark /\ total' = total
        /\ subjects' = subjects
    BY <1>4 DEF gradingVars
  <2>2. LoopInv'
    BY <1>1, <2>1 DEF LoopInv, MarkInv, ToGrade, FairEntries, EntryInv, PartialIgnored, Exact
  <2>3. AskedInv'
    BY <1>1, <2>1 DEF AskedInv, AsMarked, ListedOnce, Stored, Distinct, ToGrade
  <2>4. CountInv'
    BY <1>1, <2>1 DEF CountInv, SumsInv, AsMarked, ListedOnce, Stored, Total
  <2>5. SubjectInv'
    BY <1>1, <2>1 DEF SubjectInv, Stored, SubjectOf, PlacesOf
  <2> QED BY <2>2, <2>3, <2>4, <2>5 DEF GradingInv
<1> QED BY <1>2, <1>3, <1>4 DEF GradingNext

(* The invariant holds in every state of a grading.                        *)
THEOREM GradingInvariant == GradingSpec => []GradingInv
<1>1. GradingInit => GradingInv
  BY GradingStarts
<1>2. GradingInv /\ [GradingNext]_gradingVars => GradingInv'
  BY GradingStays
<1> QED BY <1>1, <1>2, PTL DEF GradingSpec

(***************************************************************************)
(* The theorems                                                            *)
(***************************************************************************)

(* Counters and totals are typed, and every answer has a status and marks. *)
THEOREM GradingTypeCorrect == GradingSpec => []GradingType
<1>1. GradingInv => GradingType
  <2> SUFFICES ASSUME GradingInv PROVE GradingType
    OBVIOUS
  <2>1. LoopInv /\ SubjectInv /\ QA \in Seq(Entries)
    BY DEF GradingInv, LoopInv
  <2>2. \A e \in ToSet(QA) : e \in Entries /\ EntryInv(e)
    <3>1. \A k \in DOMAIN QA : QA[k] \in FairEntries
      BY <2>1 DEF LoopInv
    <3> QED BY <3>1 DEF ToSet, FairEntries
  <2>3. \A e \in ToSet(QA) :
          /\ e.question \in ToSet(TestQuestions) /\ e.kind \in KindsSent(test.plain)
          /\ e.answer \in Answers(e.kind)
          /\ e.status \in {"missed", "pending", "incorrect", "correct"}
          /\ e.obtainMarks \in Int /\ e.actualMarks \in Nat
    BY <2>2 DEF EntryInv, Entries, Statuses
  <2>4. todo \subseteq DOMAIN TestQuestions
    BY <2>1, ToGradeFinite DEF LoopInv
  <2>5. Stored => DOMAIN subjects = {test.subjectOf[e.question] : e \in ToSet(QA)}
    BY <2>1 DEF SubjectInv, SubjectsIn
  <2> QED BY <2>1, <2>3, <2>4, <2>5 DEF GradingType, LoopInv, MarkInv, Totals
<1> QED BY <1>1, GradingInvariant, PTL

(* As many answers are stored as questions were to be graded, and in       *)
(* whatever order these were listed each is stored once, unless one of     *)
(* them was listed twice.                                                  *)
THEOREM EveryQuestionIsStored == GradingSpec => []EveryQuestionCounts
<1>1. GradingInv => EveryQuestionCounts
  <2> SUFFICES ASSUME GradingInv, Stored
               PROVE  /\ Len(QA) = Cardinality(ToGrade)
                      /\ ListedOnce =>
                          /\ IsInjective([i \in DOMAIN QA |-> QA[i].question])
                          /\ ToSet([i \in DOMAIN QA |-> QA[i].question])
                               = IF test.subset /\ test.listed # <<>>
                                 THEN ToSet(test.listed) \cap ToSet(TestQuestions)
                                 ELSE ToSet(TestQuestions)
    BY DEF EveryQuestionCounts, ToGrade
  <2>1. AskedInv /\ todo = {} /\ QA \in Seq(Entries)
    BY DEF GradingInv, SubjectInv, LoopInv
  <2>2. Len(QA) = Cardinality(ToGrade)
    BY <2>1, FS_EmptySet DEF AskedInv
  <2> SUFFICES ASSUME ListedOnce
               PROVE  /\ IsInjective([i \in DOMAIN QA |-> QA[i].question])
                      /\ ToSet([i \in DOMAIN QA |-> QA[i].question])
                           = IF test.subset /\ test.listed # <<>>
                             THEN ToSet(test.listed) \cap ToSet(TestQuestions)
                             ELSE ToSet(TestQuestions)
    BY <2>2
  <2>3. Distinct(QA) /\ {QA[k].question : k \in DOMAIN QA} = {TestQuestions[i] : i \in ToGrade}
    BY <2>1 DEF AskedInv, AsMarked
  <2>4. IsInjective([i \in DOMAIN QA |-> QA[i].question])
    BY <2>3 DEF Distinct, IsInjective
  <2>5. ToSet([i \in DOMAIN QA |-> QA[i].question]) = {TestQuestions[i] : i \in ToGrade}
    BY <2>3 DEF ToSet
  <2>6. ToSet(TestQuestions) = {TestQuestions[i] : i \in DOMAIN TestQuestions}
    BY DEF ToSet
  <2>7. CASE test.subset /\ test.listed # <<>>
    <3>1. ToGrade = {i \in DOMAIN TestQuestions : TestQuestions[i] \in ToSet(test.listed)}
      BY <2>7 DEF ToGrade, Graded
    <3>2. {TestQuestions[i] : i \in ToGrade} = ToSet(test.listed) \cap ToSet(TestQuestions)
      BY <2>6, <3>1
    <3> QED BY <2>4, <2>5, <2>7, <3>2
  <2>8. CASE ~(test.subset /\ test.listed # <<>>)
    <3>1. ToGrade = DOMAIN TestQuestions
      BY <2>8 DEF ToGrade, Graded
    <3> QED BY <2>4, <2>5, <2>6, <2>8, <3>1
  <2> QED BY <2>7, <2>8
<1> QED BY <1>1, GradingInvariant, PTL

(* What a sum over the subjects is.                                        *)
LEMMA SubjectSums ==
  ASSUME GradingInv, Stored
  PROVE  /\ SubjectSum(LAMBDA s : s.correct) = Number("correct")
         /\ SubjectSum(LAMBDA s : s.incorrect) = Number("incorrect")
         /\ SubjectSum(LAMBDA s : s.missed) = Number("missed")
         /\ SubjectSum(LAMBDA s : s.pending) = Number("pending")
         /\ SubjectSum(LAMBDA s : s.mark) = Obtained(QA, DOMAIN QA)
         /\ SubjectSum(LAMBDA s : s.maxMarks) = Maximum
<1> DEFINE D == SubjectsIn(test.subjectOf, QA)
           of(s) == Belonging(test.subjectOf, QA, s)
<1>1. QA \in Seq(Entries) /\ subjects = [s \in D |-> SubjectOf(s, QA)]
  BY DEF GradingInv, LoopInv, SubjectInv
<1>2. DOMAIN subjects = D /\ \A s \in D : subjects[s] = SubjectOf(s, QA)
  BY <1>1
<1>3. \A s : PlacesOf(s, QA) = of(s) /\ of(s) \in SUBSET DOMAIN QA
  BY DEF PlacesOf, Belonging
<1> HIDE DEF D, of
<1>4. \A s \in D :
        /\ subjects[s].correct = Weight(OfStatus("correct"), QA, of(s))
        /\ subjects[s].incorrect = Weight(OfStatus("incorrect"), QA, of(s))
        /\ subjects[s].missed = Weight(OfStatus("missed"), QA, of(s))
        /\ subjects[s].pending = Weight(OfStatus("pending"), QA, of(s))
        /\ subjects[s].mark = Weight(Gained, QA, of(s))
        /\ subjects[s].maxMarks = Weight(Gainable, QA, of(s))
  <2> SUFFICES ASSUME NEW s \in D
               PROVE  /\ subjects[s].correct = Weight(OfStatus("correct"), QA, of(s))
                      /\ subjects[s].incorrect = Weight(OfStatus("incorrect"), QA, of(s))
                      /\ subjects[s].missed = Weight(OfStatus("missed"), QA, of(s))
                      /\ subjects[s].pending = Weight(OfStatus("pending"), QA, of(s))
                      /\ subjects[s].mark = Weight(Gained, QA, of(s))
                      /\ subjects[s].maxMarks = Weight(Gainable, QA, of(s))
    OBVIOUS
  <2>1. PICK places \in SUBSET DOMAIN QA : places = of(s)
    BY <1>3
  <2>2. /\ \A st : NumberOf(QA, places, st) = Weight(OfStatus(st), QA, places)
        /\ Obtained(QA, places) = Weight(Gained, QA, places)
        /\ Obtainable(QA, places) = Weight(Gainable, QA, places)
    BY <1>1, WeightsAre
  <2>3. /\ subjects[s].correct = NumberOf(QA, places, "correct")
        /\ subjects[s].incorrect = NumberOf(QA, places, "incorrect")
        /\ subjects[s].missed = NumberOf(QA, places, "missed")
        /\ subjects[s].pending = NumberOf(QA, places, "pending")
        /\ subjects[s].mark = Obtained(QA, places)
        /\ subjects[s].maxMarks = Obtainable(QA, places)
    BY <1>2, <1>3, <2>1 DEF SubjectOf
  <2> QED BY <2>1, <2>2, <2>3
<1>5. \A w \in [Entries -> Int] :
        SumFunctionOnSet([s \in D |-> Weight(w, QA, of(s))], D) = Total(w)
  BY <1>1, WeightBySubject DEF D, of, Total
<1>6. /\ \A st : Number(st) = Total(OfStatus(st))
      /\ Obtained(QA, DOMAIN QA) = Total(Gained) /\ Maximum = Total(Gainable)
  <2>1. /\ \A st : NumberOf(QA, DOMAIN QA, st) = Weight(OfStatus(st), QA, DOMAIN QA)
        /\ Obtained(QA, DOMAIN QA) = Weight(Gained, QA, DOMAIN QA)
        /\ Obtainable(QA, DOMAIN QA) = Weight(Gainable, QA, DOMAIN QA)
    BY <1>1, WeightsAre
  <2> QED BY <2>1 DEF Number, Total, Maximum
<1>7. SubjectSum(LAMBDA s : s.correct) = Number("correct")
  <2>1. [s \in DOMAIN subjects |-> subjects[s].correct] = [s \in D |-> Weight(OfStatus("correct"), QA, of(s))]
    BY <1>2, <1>4
  <2> QED BY <1>2, <1>5, <1>6, <2>1, WeightType DEF SubjectSum, SumFunction
<1>8. SubjectSum(LAMBDA s : s.incorrect) = Number("incorrect")
  <2>1. [s \in DOMAIN subjects |-> subjects[s].incorrect] = [s \in D |-> Weight(OfStatus("incorrect"), QA, of(s))]
    BY <1>2, <1>4
  <2> QED BY <1>2, <1>5, <1>6, <2>1, WeightType DEF SubjectSum, SumFunction
<1>9. SubjectSum(LAMBDA s : s.missed) = Number("missed")
  <2>1. [s \in DOMAIN subjects |-> subjects[s].missed] = [s \in D |-> Weight(OfStatus("missed"), QA, of(s))]
    BY <1>2, <1>4
  <2> QED BY <1>2, <1>5, <1>6, <2>1, WeightType DEF SubjectSum, SumFunction
<1>10. SubjectSum(LAMBDA s : s.pending) = Number("pending")
  <2>1. [s \in DOMAIN subjects |-> subjects[s].pending] = [s \in D |-> Weight(OfStatus("pending"), QA, of(s))]
    BY <1>2, <1>4
  <2> QED BY <1>2, <1>5, <1>6, <2>1, WeightType DEF SubjectSum, SumFunction
<1>11. SubjectSum(LAMBDA s : s.mark) = Obtained(QA, DOMAIN QA)
  <2>1. [s \in DOMAIN subjects |-> subjects[s].mark] = [s \in D |-> Weight(Gained, QA, of(s))]
    BY <1>2, <1>4
  <2> QED BY <1>2, <1>5, <1>6, <2>1, WeightType DEF SubjectSum, SumFunction
<1>12. SubjectSum(LAMBDA s : s.maxMarks) = Maximum
  <2>1. [s \in DOMAIN subjects |-> subjects[s].maxMarks] = [s \in D |-> Weight(Gainable, QA, of(s))]
    BY <1>2, <1>4
  <2> QED BY <1>2, <1>5, <1>6, <2>1, WeightType DEF SubjectSum, SumFunction
<1> QED BY <1>7, <1>8, <1>9, <1>10, <1>11, <1>12

(* What the invariant says in terms of the module: the numbers of answers  *)
(* of each status, and their marks.                                        *)
LEMMA TotalsAre ==
  ASSUME GradingInv
  PROVE  /\ QA \in Seq(Entries) /\ total \in Totals /\ Len(QA) \in Nat
         /\ \A st : Number(st) = Total(OfStatus(st)) /\ Number(st) \in Int
         /\ Obtained(QA, DOMAIN QA) = Total(Gained) /\ Maximum = Total(Gainable)
<1>1. QA \in Seq(Entries) /\ total \in Totals
  BY DEF GradingInv, LoopInv
<1>2. /\ \A st : NumberOf(QA, DOMAIN QA, st) = Weight(OfStatus(st), QA, DOMAIN QA)
      /\ Obtained(QA, DOMAIN QA) = Weight(Gained, QA, DOMAIN QA)
      /\ Obtainable(QA, DOMAIN QA) = Weight(Gainable, QA, DOMAIN QA)
  BY <1>1, WeightsAre
<1>3. \A st : Weight(OfStatus(st), QA, DOMAIN QA) \in Int
  BY <1>1, WeightInt, WeightType
<1> QED BY <1>1, <1>2, <1>3 DEF Number, Total, Maximum

(* The counts of the subjects agree with the statuses of the stored        *)
(* answers; the counters do so too, unless a question was listed twice.    *)
THEOREM CountsAgree == GradingSpec => []CountsMatchStatuses
<1>1. GradingInv => CountsMatchStatuses
  <2> SUFFICES ASSUME GradingInv PROVE CountsMatchStatuses
    OBVIOUS
  <2> DEFINE plainTexts == IF test.plain THEN Number("pending") ELSE 0
  <2>1. CountInv /\ AskedInv /\ SubjectInv
    BY DEF GradingInv
  <2>2. /\ Len(QA) \in Nat /\ Number("incorrect") \in Int /\ Number("missed") \in Int
        /\ Number("pending") \in Int /\ Number("correct") \in Int
    BY TotalsAre
  <2>3. ASSUME AsMarked
        PROVE  /\ total.errors = Number("incorrect") /\ total.missed = Number("missed")
               /\ total.pending = IF test.plain THEN 0 ELSE Number("pending")
               /\ Number("incorrect") + Number("missed") + Number("pending") + Number("correct") = Len(QA)
    BY <2>1, <2>3, TotalsAre DEF CountInv, SumsInv
  <2>4. AsMarked => total.pending + plainTexts = Number("pending")
    BY <2>2, <2>3
  <2>5. ASSUME Stored, ListedOnce PROVE Corrects = Number("correct") + plainTexts
    <3>1. AsMarked
      BY <2>5 DEF AsMarked
    <3>2. Cardinality(ToGrade) = Len(QA)
      <4>1. todo = {} /\ Len(QA) + Cardinality(todo) = Cardinality(ToGrade)
        BY <2>1, <2>5 DEF SubjectInv, AskedInv
      <4> QED BY <2>2, <4>1, FS_EmptySet
    <3>3. Corrects = Len(QA) - Number("incorrect") - Number("missed") - total.pending
      BY <2>3, <3>1, <3>2 DEF Corrects, ToGrade
    <3> QED BY <2>2, <2>3, <3>1, <3>3, SMTT(30)
  <2>6. Stored => /\ Number("correct") = SubjectSum(LAMBDA s : s.correct)
                  /\ Number("incorrect") = SubjectSum(LAMBDA s : s.incorrect)
                  /\ Number("missed") = SubjectSum(LAMBDA s : s.missed)
                  /\ Number("pending") = SubjectSum(LAMBDA s : s.pending)
    BY SubjectSums
  <2>7. total.evaluated <=> total.pending = 0
    BY <2>1 DEF CountInv
  <2> QED BY <2>3, <2>4, <2>5, <2>6, <2>7 DEF CountsMatchStatuses
<1> QED BY <1>1, GradingInvariant, PTL

(* The marks of the subjects add up to those of the stored answers, and    *)
(* the totals of the loop too, unless a question was listed twice.         *)
THEOREM MarksAgree == GradingSpec => []MarksAddUp
<1>1. GradingInv => MarksAddUp
  <2> SUFFICES ASSUME GradingInv PROVE MarksAddUp
    OBVIOUS
  <2>1. AsMarked => total.plus + total.minus = Obtained(QA, DOMAIN QA)
    BY TotalsAre DEF GradingInv, CountInv, SumsInv
  <2>2. Stored => /\ SubjectSum(LAMBDA s : s.mark) = Obtained(QA, DOMAIN QA)
                  /\ SubjectSum(LAMBDA s : s.maxMarks) = Maximum
    BY SubjectSums
  <2> QED BY <2>1, <2>2 DEF MarksAddUp
<1> QED BY <1>1, GradingInvariant, PTL

(* No answer obtains more than its maximum, and no attempt, unless a       *)
(* question was listed twice.                                              *)
THEOREM StaysWithinMaximum == GradingSpec => []WithinMaximum
<1>1. GradingInv => WithinMaximum
  <2> SUFFICES ASSUME GradingInv PROVE WithinMaximum
    OBVIOUS
  <2>1. QA \in Seq(Entries) /\ \A k \in DOMAIN QA : QA[k] \in FairEntries
    BY DEF GradingInv, LoopInv
  <2>2. \A e \in FairEntries : e.obtainMarks <= e.actualMarks /\ e.obtainMarks \in Int /\ e.actualMarks \in Int
    BY DEF FairEntries, EntryInv, Entries
  <2>3. \A e \in ToSet(QA) : e.obtainMarks <= e.actualMarks
    BY <2>1, <2>2 DEF ToSet
  <2> DEFINE f == [k \in DOMAIN QA |-> QA[k].obtainMarks]
             g == [k \in DOMAIN QA |-> QA[k].actualMarks]
  <2>4. \A k \in DOMAIN QA : f[k] \in Int /\ g[k] \in Int /\ f[k] <= g[k]
    BY <2>1, <2>2
  <2>5. IsFiniteSet(DOMAIN QA)
    BY <2>1, PlacesFinite
  <2> HIDE DEF f, g
  <2>6. SumFunctionOnSet(f, DOMAIN QA) <= SumFunctionOnSet(g, DOMAIN QA)
    BY <2>4, <2>5, SumLeq
  <2>7. Obtained(QA, DOMAIN QA) <= Maximum
    BY <2>6 DEF f, g, Obtained, Obtainable, Maximum
  <2>8. AsMarked => total.plus + total.minus = Obtained(QA, DOMAIN QA)
    BY TotalsAre DEF GradingInv, CountInv, SumsInv
  <2> QED BY <2>3, <2>7, <2>8 DEF WithinMaximum
<1> QED BY <1>1, GradingInvariant, PTL

(* Only an answer that is right in every part obtains its whole mark.      *)
THEOREM WholeMarkIsExact == GradingSpec => []WholeMarkMeansExact
<1>1. GradingInv => WholeMarkMeansExact
  <2> SUFFICES ASSUME GradingInv PROVE WholeMarkMeansExact
    OBVIOUS
  <2>1. \A k \in DOMAIN QA : QA[k] \in FairEntries
    BY DEF GradingInv, LoopInv
  <2>2. \A e \in ToSet(QA) : e \in FairEntries
    BY <2>1 DEF ToSet
  <2> QED BY <2>2 DEF FairEntries, EntryInv, Exact, WholeMarkMeansExact
<1> QED BY <1>1, GradingInvariant, PTL
=============================================================================
