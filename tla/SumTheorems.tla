---------------------------- MODULE SumTheorems ----------------------------
(***************************************************************************)
(* What SumFunctionOnSet of the module Functions adds up to, for any       *)
(* finite set and integer values.  The library defines it by a CHOOSE over *)
(* the subsets of the set; SetInduction, from the well-foundedness of the  *)
(* strict subset ordering, takes the place of an induction scheme.         *)
(***************************************************************************)
EXTENDS Functions, FiniteSets, FiniteSetTheorems, WellFoundedInduction, TLAPS

\* What holds of {} and of a set whenever it holds of it less any one of its
\* elements holds of every finite set.  Q is a set of sets, not an operator.
LEMMA SetInduction ==
  ASSUME NEW S, IsFiniteSet(S), NEW Q, {} \in Q,
         \A T \in SUBSET S : T # {} /\ (\A x \in T : T \ {x} \in Q) => T \in Q
  PROVE  S \in Q
<1> SUFFICES ASSUME S \notin Q PROVE FALSE
  OBVIOUS
<1> DEFINE Bad == {T \in SUBSET S : T \notin Q}
           R == StrictSubsetOrdering(S)
<1>1. IsWellFoundedOn(R, SUBSET S)
  <2>1. IsWellFoundedOn(StrictSubsetOrdering(S), FiniteSubsetsOf(S))
    BY ONLY FS_StrictSubsetOrderingWellFounded
  <2>2. FiniteSubsetsOf(S) = SUBSET S
    BY FS_FiniteSubsetsOfFinite
  <2>3. QED BY <2>1, <2>2
<1>2. PICK T \in Bad : \A U \in Bad : <<U, T>> \notin R
  <2>1. Bad # {} /\ Bad \subseteq SUBSET S
    OBVIOUS
  <2> HIDE DEF Bad, R
  <2>2. QED BY <1>1, <2>1, WFMin
<1>3. \A x \in T : <<T \ {x}, T>> \in R
  BY DEF StrictSubsetOrdering
<1>4. \A x \in T : T \ {x} \in Q
  BY <1>2, <1>3
<1>5. QED
  BY <1>2, <1>4

\* g is the recursive function by which MapThenFoldSet adds up f over the
\* subsets of S.
SumsUp(g, f, S) ==
  g = [s \in SUBSET S |->
         IF s = {} THEN 0
         ELSE f[CHOOSE x \in s : TRUE] + g[s \ {CHOOSE x \in s : TRUE}]]

\* Two such functions agree on a set both are defined for.
LEMMA SumsUpUnique ==
  ASSUME NEW S, IsFiniteSet(S), NEW f, NEW g, NEW h, NEW T,
         SumsUp(g, f, S), S \subseteq T, SumsUp(h, f, T)
  PROVE  g[S] = h[S]
<1> DEFINE Q == {s \in SUBSET S : g[s] = h[s]}
<1>1. {} \in Q
  BY DEF SumsUp
<1>2. ASSUME NEW s \in SUBSET S, s # {}, \A y \in s : s \ {y} \in Q
      PROVE  s \in Q
  <2> DEFINE c == CHOOSE y \in s : TRUE
  <2>1. c \in s
    BY <1>2
  <2>2. g[s] = f[c] + g[s \ {c}] /\ h[s] = f[c] + h[s \ {c}]
    BY <1>2 DEF SumsUp
  <2>3. QED BY <2>1, <2>2, <1>2
<1> HIDE DEF Q
<1>3. S \in Q
  BY <1>1, <1>2, SetInduction
<1>4. QED BY <1>3 DEF Q

\* Such a function for T, restricted, is one for a subset of T.
LEMMA SumsUpRestricted ==
  ASSUME NEW T, NEW f, NEW g, SumsUp(g, f, T), NEW S, S \subseteq T
  PROVE  SumsUp([s \in SUBSET S |-> g[s]], f, S)
<1> DEFINE k == [s \in SUBSET S |-> g[s]]
           c(s) == CHOOSE x \in s : TRUE
<1>1. ASSUME NEW s \in SUBSET S
      PROVE  k[s] = IF s = {} THEN 0 ELSE f[c(s)] + k[s \ {c(s)}]
  <2>1. s \in SUBSET T /\ s \ {c(s)} \in SUBSET S
    OBVIOUS
  <2>2. g[s] = IF s = {} THEN 0 ELSE f[c(s)] + g[s \ {c(s)}]
    BY <2>1 DEF SumsUp
  <2>3. QED BY <2>1, <2>2
<1>2. k = [s \in SUBSET S |-> IF s = {} THEN 0 ELSE f[c(s)] + k[s \ {c(s)}]]
  <2> HIDE DEF c
  <2> QED BY <1>1
<1>3. QED BY <1>2 DEF SumsUp

\* Two such functions agree wherever both are defined.
LEMMA SumsUpAgree ==
  ASSUME NEW S, IsFiniteSet(S), NEW f, NEW g, NEW h, NEW T, NEW U,
         S \subseteq T, SumsUp(g, f, T), S \subseteq U, SumsUp(h, f, U)
  PROVE  g[S] = h[S]
<1> DEFINE k == [s \in SUBSET S |-> g[s]]
<1>1. SumsUp(k, f, S)
  BY SumsUpRestricted
<1>2. k[S] = g[S]
  OBVIOUS
<1> HIDE DEF k
<1>3. k[S] = h[S] 
  BY <1>1, SumsUpUnique
<1>4. QED BY <1>2, <1>3

\* There is one for every finite set.
LEMMA SumsUpExists ==
  ASSUME NEW S, IsFiniteSet(S), NEW f
  PROVE  \E g : SumsUp(g, f, S)
<1> DEFINE Q == {T \in SUBSET S : \E g : SumsUp(g, f, T)}
<1>1. {} \in Q
  <2>1. SumsUp([s \in {{}} |-> 0], f, {})
    BY DEF SumsUp
  <2>2. QED BY <2>1
<1>2. ASSUME NEW T \in SUBSET S, T # {}, \A y \in T : T \ {y} \in Q
      PROVE  T \in Q
  <2>1. PICK G : \A y \in T : SumsUp(G[y], f, T \ {y})
    <3>1. \A y \in T : \E g : SumsUp(g, f, T \ {y})
      BY <1>2
    <3> HIDE DEF Q
    <3>2. \A y \in T : SumsUp([z \in T |-> CHOOSE g : SumsUp(g, f, T \ {z})][y], f, T \ {y})
      BY <3>1
    <3>3. QED BY <3>2
  <2> HIDE DEF Q
  <2> DEFINE c(s) == CHOOSE x \in s : TRUE
             h == [s \in SUBSET T |-> IF s = {} THEN 0 ELSE f[c(s)] + G[c(s)][s \ {c(s)}]]
  <2>2. ASSUME NEW s \in SUBSET T, s # {}
        PROVE  G[c(s)][s \ {c(s)}] = h[s \ {c(s)}]
    <3>1. PICK x \in s : x = c(s)
      BY <2>2
    <3>2. PICK t \in SUBSET T : t = s \ {x} /\ x \notin t
      <4> HIDE DEF h, c
      <4> WITNESS s \ {x} \in SUBSET T
      <4> QED OBVIOUS
    <3>3. SumsUp(G[x], f, T \ {x})
      BY <2>1
    <3>4. G[x][t] = IF t = {} THEN 0 ELSE f[c(t)] + G[x][t \ {c(t)}]
      <4> SUFFICES t \in SUBSET (T \ {x})
        BY <3>3 DEF SumsUp
      <4> QED BY <3>2
    <3>5. t # {} => G[x][t \ {c(t)}] = G[c(t)][t \ {c(t)}]
      <4> SUFFICES ASSUME t # {} PROVE G[x][t \ {c(t)}] = G[c(t)][t \ {c(t)}]
        OBVIOUS
      <4>1. PICK y \in t : y = c(t)
        OBVIOUS
      <4> DEFINE u == t \ {y}
      <4>2. u \subseteq T \ {x} /\ u \subseteq T \ {y} /\ y \in T
        BY <3>2
      <4>3. SumsUp(G[y], f, T \ {y})
        BY <2>1, <4>2
      <4>4. IsFiniteSet(u)
        <5>1. u \in SUBSET S
          OBVIOUS
        <5> HIDE DEF u
        <5>2. QED BY <5>1, FS_Subset
      <4> HIDE DEF u
      <4>5. G[x][u] = G[y][u]
        BY <3>3, <4>2, <4>3, <4>4, SumsUpAgree
      <4>6. QED BY <4>1, <4>5 DEF u
    <3>6. h[t] = IF t = {} THEN 0 ELSE f[c(t)] + G[c(t)][t \ {c(t)}]
      OBVIOUS
    <3> HIDE DEF h, c
    <3>7. G[x][t] = h[t]
      BY <3>4, <3>5, <3>6
    <3>8. QED BY <3>1, <3>2, <3>7
  <2>3. h = [s \in SUBSET T |-> IF s = {} THEN 0 ELSE f[c(s)] + h[s \ {c(s)}]]
    <3> HIDE DEF c
    <3>1. \A s \in SUBSET T : h[s] = IF s = {} THEN 0 ELSE f[c(s)] + h[s \ {c(s)}]
      BY <2>2
    <3>2. QED BY <3>1
  <2>4. SumsUp(h, f, T)
    BY <2>3 DEF SumsUp
  <2> HIDE DEF h
  <2>5. QED BY <2>4 DEF Q
<1> HIDE DEF Q
<1>3. S \in Q
  BY <1>1, <1>2, SetInduction
<1>4. QED BY <1>3 DEF Q

\* The library's sum is the value of such a function.
LEMMA SumIs ==
  ASSUME NEW S, IsFiniteSet(S), NEW f
  PROVE  \E g : SumsUp(g, f, S) /\ SumFunctionOnSet(f, S) = g[S]
<1>1. PICK h : SumsUp(h, f, S)
  BY SumsUpExists
<1>2. QED BY <1>1 DEF SumFunctionOnSet, FoldFunctionOnSet, MapThenFoldSet, SumsUp

\* The sum over no element is 0.
THEOREM SumEmpty == \A f : SumFunctionOnSet(f, {}) = 0
<1> SUFFICES ASSUME NEW f PROVE SumFunctionOnSet(f, {}) = 0
  OBVIOUS
<1>1. PICK g : SumsUp(g, f, {}) /\ SumFunctionOnSet(f, {}) = g[{}]
  BY SumIs, FS_EmptySet
<1>2. QED BY <1>1 DEF SumsUp

\* The sum takes the elements in the order in which CHOOSE finds them.
LEMMA SumChoice ==
  ASSUME NEW S, IsFiniteSet(S), S # {}, NEW f
  PROVE  LET x == CHOOSE y \in S : TRUE
         IN  SumFunctionOnSet(f, S) = f[x] + SumFunctionOnSet(f, S \ {x})
<1>1. PICK g : SumsUp(g, f, S) /\ SumFunctionOnSet(f, S) = g[S]
  BY SumIs
<1>2. PICK x \in S : x = CHOOSE y \in S : TRUE
  OBVIOUS
<1>3. g[S] = f[x] + g[S \ {x}]
  BY <1>1, <1>2 DEF SumsUp
<1>4. IsFiniteSet(S \ {x})
  BY FS_RemoveElement
<1>5. PICK h : SumsUp(h, f, S \ {x}) /\ SumFunctionOnSet(f, S \ {x}) = h[S \ {x}]
  BY SumIs, <1>4
<1>6. h[S \ {x}] = g[S \ {x}]
  BY <1>1, <1>4, <1>5, SumsUpAgree
<1>7. SumFunctionOnSet(f, S) = f[x] + SumFunctionOnSet(f, S \ {x})
  BY <1>1, <1>3, <1>5, <1>6
<1>8. QED BY <1>2, <1>7

\* A sum of integers is an integer.
THEOREM SumType ==
  ASSUME NEW S, IsFiniteSet(S), NEW f, \A x \in S : f[x] \in Int
  PROVE  SumFunctionOnSet(f, S) \in Int
<1> DEFINE Q == {T \in SUBSET S : SumFunctionOnSet(f, T) \in Int}
<1>1. {} \in Q
  BY SumEmpty
<1>2. ASSUME NEW T \in SUBSET S, T # {}, \A y \in T : T \ {y} \in Q
      PROVE  T \in Q
  <2>1. IsFiniteSet(T)
    BY FS_Subset
  <2>2. PICK x \in T : SumFunctionOnSet(f, T) = f[x] + SumFunctionOnSet(f, T \ {x})
    <3>1. PICK x \in T : x = CHOOSE y \in T : TRUE
      BY <1>2
    <3>2. QED BY <1>2, <2>1, <3>1, SumChoice
  <2>3. QED BY <1>2, <2>2
<1> HIDE DEF Q
<1>3. S \in Q
  BY <1>1, <1>2, SetInduction
<1>4. QED BY <1>3 DEF Q

\* The order does not matter: any element can be the first.
THEOREM SumRemove ==
  ASSUME NEW S, IsFiniteSet(S), NEW f, \A x \in S : f[x] \in Int, NEW a \in S
  PROVE  SumFunctionOnSet(f, S) = f[a] + SumFunctionOnSet(f, S \ {a})
<1> DEFINE sum(T) == SumFunctionOnSet(f, T)
           Q == {T \in SUBSET S : \A x \in T : sum(T) = f[x] + sum(T \ {x})}
<1>1. {} \in Q
  OBVIOUS
<1>2. ASSUME NEW T \in SUBSET S, T # {}, \A y \in T : T \ {y} \in Q
      PROVE  T \in Q
  <2>1. IsFiniteSet(T) /\ \A U \in SUBSET T : sum(U) \in Int
    <3>1. \A U \in SUBSET S : IsFiniteSet(U)
      BY FS_Subset
    <3>2. QED BY <3>1, SumType
  <2>2. PICK c \in T : sum(T) = f[c] + sum(T \ {c})
    <3>1. PICK c \in T : c = CHOOSE y \in T : TRUE
      BY <1>2
    <3>2. QED BY <1>2, <2>1, <3>1, SumChoice
  <2>3. ASSUME NEW x \in T, x # c
        PROVE  sum(T) = f[x] + sum(T \ {x})
    <3>1. PICK U \in SUBSET T : U = T \ {c, x}
      OBVIOUS
    <3>2. (T \ {c}) \ {x} = U /\ (T \ {x}) \ {c} = U
      BY <3>1
    <3>3. sum(T \ {c}) = f[x] + sum(U)
      BY <1>2, <2>3, <3>2
    <3>4. sum(T \ {x}) = f[c] + sum(U)
      BY <1>2, <2>3, <3>2
    <3>5. f[x] \in Int /\ f[c] \in Int /\ sum(U) \in Int
      BY <2>1
    <3>6. QED BY <2>2, <3>3, <3>4, <3>5
  <2>4. QED BY <2>2, <2>3
<1> HIDE DEF Q
<1>3. S \in Q
  BY <1>1, <1>2, SetInduction
<1>4. QED BY <1>3 DEF Q

\* An element more adds its value.
THEOREM SumAdd ==
  ASSUME NEW S, IsFiniteSet(S), NEW a, a \notin S,
         NEW f, \A x \in S \cup {a} : f[x] \in Int
  PROVE  SumFunctionOnSet(f, S \cup {a}) = SumFunctionOnSet(f, S) + f[a]
<1>1. IsFiniteSet(S \cup {a}) /\ (S \cup {a}) \ {a} = S
  BY FS_AddElement
<1>2. SumFunctionOnSet(f, S \cup {a}) = f[a] + SumFunctionOnSet(f, S)
  BY <1>1, SumRemove
<1>3. SumFunctionOnSet(f, S) \in Int
  BY SumType
<1>4. QED BY <1>2, <1>3

\* The sum depends on the values over the set only.
THEOREM SumSame ==
  ASSUME NEW S, IsFiniteSet(S), NEW f, NEW h, \A x \in S : f[x] = h[x]
  PROVE  SumFunctionOnSet(f, S) = SumFunctionOnSet(h, S)
<1> DEFINE Q == {T \in SUBSET S : SumFunctionOnSet(f, T) = SumFunctionOnSet(h, T)}
<1>1. {} \in Q
  BY SumEmpty
<1>2. ASSUME NEW T \in SUBSET S, T # {}, \A y \in T : T \ {y} \in Q
      PROVE  T \in Q
  <2>1. IsFiniteSet(T)
    BY FS_Subset
  <2> DEFINE c == CHOOSE x \in T : TRUE
  <2>2. c \in T
    BY <1>2
  <2>3. \A k : SumFunctionOnSet(k, T) = k[c] + SumFunctionOnSet(k, T \ {c})
    BY <1>2, <2>1, SumChoice
  <2> HIDE DEF c
  <2>4. SumFunctionOnSet(f, T) = f[c] + SumFunctionOnSet(f, T \ {c})
    BY <2>3
  <2>5. SumFunctionOnSet(h, T) = h[c] + SumFunctionOnSet(h, T \ {c})
    BY <2>3
  <2>6. QED BY <1>2, <2>2, <2>4, <2>5
<1> HIDE DEF Q
<1>3. S \in Q
  BY <1>1, <1>2, SetInduction
<1>4. QED BY <1>3 DEF Q

\* One value changed changes the sum by the difference.
THEOREM SumChanged ==
  ASSUME NEW S, IsFiniteSet(S), NEW a \in S, NEW f, NEW h,
         \A x \in S : f[x] \in Int /\ h[x] \in Int,
         \A x \in S \ {a} : f[x] = h[x]
  PROVE  SumFunctionOnSet(h, S) = SumFunctionOnSet(f, S) - f[a] + h[a]
<1>1. IsFiniteSet(S \ {a})
  BY FS_RemoveElement
<1>2. SumFunctionOnSet(h, S) = h[a] + SumFunctionOnSet(h, S \ {a})
  BY SumRemove
<1>3. SumFunctionOnSet(f, S) = f[a] + SumFunctionOnSet(f, S \ {a})
  BY SumRemove
<1>4. SumFunctionOnSet(h, S \ {a}) = SumFunctionOnSet(f, S \ {a})
  BY <1>1, SumSame
<1>5. SumFunctionOnSet(f, S \ {a}) \in Int
  BY <1>1, SumType
<1>6. f[a] \in Int /\ h[a] \in Int
  OBVIOUS
<1>7. QED BY <1>2, <1>3, <1>4, <1>5, <1>6

\* The sum over two disjoint sets is the sum of the two sums.
THEOREM SumUnion ==
  ASSUME NEW S, IsFiniteSet(S), NEW T, IsFiniteSet(T), S \cap T = {},
         NEW f, \A x \in S \cup T : f[x] \in Int
  PROVE  SumFunctionOnSet(f, S \cup T) = SumFunctionOnSet(f, S) + SumFunctionOnSet(f, T)
<1> DEFINE sum(U) == SumFunctionOnSet(f, U)
           Q == {U \in SUBSET T : sum(S \cup U) = sum(S) + sum(U)}
<1>1. {} \in Q
  <2>1. S \cup {} = S /\ sum(S) \in Int /\ sum({}) = 0
    BY SumEmpty, SumType
  <2>2. QED BY <2>1
<1>2. ASSUME NEW U \in SUBSET T, U # {}, \A y \in U : U \ {y} \in Q
      PROVE  U \in Q
  <2>1. PICK a \in U : TRUE
    BY <1>2
  <2> DEFINE V == U \ {a}
  <2>2. IsFiniteSet(V) /\ IsFiniteSet(U)
    BY FS_Subset
  <2>3. IsFiniteSet(S \cup U) /\ a \in S \cup U
    BY <2>2, FS_Union
  <2>4. sum(S \cup U) = f[a] + sum((S \cup U) \ {a})
    BY <2>3, SumRemove
  <2>5. (S \cup U) \ {a} = S \cup V
    OBVIOUS
  <2>6. sum(S \cup U) = f[a] + (sum(S) + sum(V))
    BY <1>2, <2>4, <2>5
  <2>7. sum(U) = f[a] + sum(V)
    BY <2>2, SumRemove
  <2>8. sum(S) \in Int /\ sum(V) \in Int /\ f[a] \in Int
    BY <2>2, SumType
  <2>9. sum(S \cup U) = sum(S) + sum(U)
    BY <2>6, <2>7, <2>8
  <2>10. QED BY <2>9
<1> HIDE DEF Q
<1>3. T \in Q
  BY <1>1, <1>2, SetInduction
<1>4. QED BY <1>3 DEF Q

\* A sum of values that are at most others is at most their sum.
THEOREM SumAtMost ==
  ASSUME NEW S, IsFiniteSet(S), NEW f, NEW h,
         \A x \in S : f[x] \in Int /\ h[x] \in Int /\ f[x] <= h[x]
  PROVE  SumFunctionOnSet(f, S) <= SumFunctionOnSet(h, S)
<1> DEFINE Q == {T \in SUBSET S : SumFunctionOnSet(f, T) <= SumFunctionOnSet(h, T)}
<1>1. {} \in Q
  BY SumEmpty
<1>2. ASSUME NEW T \in SUBSET S, T # {}, \A y \in T : T \ {y} \in Q
      PROVE  T \in Q
  <2>1. PICK a \in T : TRUE
    BY <1>2
  <2>2. IsFiniteSet(T) /\ IsFiniteSet(T \ {a})
    BY FS_Subset
  <2>3. SumFunctionOnSet(f, T) = f[a] + SumFunctionOnSet(f, T \ {a})
    BY <2>2, SumRemove
  <2>4. SumFunctionOnSet(h, T) = h[a] + SumFunctionOnSet(h, T \ {a})
    BY <2>2, SumRemove
  <2>5. SumFunctionOnSet(f, T \ {a}) \in Int /\ SumFunctionOnSet(h, T \ {a}) \in Int
    BY <2>2, SumType
  <2>6. SumFunctionOnSet(f, T \ {a}) <= SumFunctionOnSet(h, T \ {a})
    BY <1>2
  <2>7. f[a] \in Int /\ h[a] \in Int /\ f[a] <= h[a]
    OBVIOUS
  <2>8. QED BY <2>3, <2>4, <2>5, <2>6, <2>7
<1> HIDE DEF Q
<1>3. S \in Q
  BY <1>1, <1>2, SetInduction
<1>4. QED BY <1>3 DEF Q

\* SumFunction is the sum over the domain.
THEOREM SumWhole ==
  ASSUME NEW f
  PROVE  SumFunction(f) = SumFunctionOnSet(f, DOMAIN f)
BY DEF SumFunction, FoldFunction, SumFunctionOnSet

\* A sum of zeros is 0.
THEOREM SumZero ==
  ASSUME NEW S, IsFiniteSet(S), NEW f, \A x \in S : f[x] = 0
  PROVE  SumFunctionOnSet(f, S) = 0
<1> DEFINE Q == {T \in SUBSET S : SumFunctionOnSet(f, T) = 0}
<1>1. {} \in Q
  BY SumEmpty
<1>2. ASSUME NEW T \in SUBSET S, T # {}, \A y \in T : T \ {y} \in Q
      PROVE  T \in Q
  <2>1. IsFiniteSet(T)
    BY FS_Subset
  <2>2. PICK a \in T : TRUE
    BY <1>2
  <2>3. SumFunctionOnSet(f, T) = f[a] + SumFunctionOnSet(f, T \ {a})
    BY <2>1, SumRemove
  <2>4. QED BY <1>2, <2>3
<1> HIDE DEF Q
<1>3. S \in Q
  BY <1>1, <1>2, SetInduction
<1>4. QED BY <1>3 DEF Q

\* The sum over one element is its value.
THEOREM SumSingleton ==
  ASSUME NEW a, NEW f, f[a] \in Int
  PROVE  SumFunctionOnSet(f, {a}) = f[a]
<1>1. IsFiniteSet({a}) /\ {a} \ {a} = {}
  BY FS_Singleton
<1>2. SumFunctionOnSet(f, {a}) = f[a] + SumFunctionOnSet(f, {a} \ {a})
  <2> DEFINE S == {a}
  <2>1. \A x \in S : f[x] \in Int
    OBVIOUS
  <2> HIDE DEF S
  <2>2. SumFunctionOnSet(f, S) = f[a] + SumFunctionOnSet(f, S \ {a})
    BY <1>1, <2>1, SumRemove DEF S
  <2>3. QED BY <2>2 DEF S
<1>3. QED BY <1>1, <1>2, SumEmpty

\* A sum of natural numbers is one.
THEOREM SumNat ==
  ASSUME NEW S, IsFiniteSet(S), NEW f, \A x \in S : f[x] \in Nat
  PROVE  SumFunctionOnSet(f, S) \in Nat
<1> DEFINE Q == {T \in SUBSET S : SumFunctionOnSet(f, T) \in Nat}
<1>1. {} \in Q
  BY SumEmpty
<1>2. ASSUME NEW T \in SUBSET S, T # {}, \A y \in T : T \ {y} \in Q
      PROVE  T \in Q
  <2>1. IsFiniteSet(T)
    BY FS_Subset
  <2>2. PICK a \in T : TRUE
    BY <1>2
  <2>3. SumFunctionOnSet(f, T) = f[a] + SumFunctionOnSet(f, T \ {a})
    BY <2>1, SumRemove
  <2>4. QED BY <1>2, <2>3
<1> HIDE DEF Q
<1>3. S \in Q
  BY <1>1, <1>2, SetInduction
<1>4. QED BY <1>3 DEF Q

\* A bound in proportion on every value is one on the sums.
THEOREM SumInProportion ==
  ASSUME NEW S, IsFiniteSet(S), NEW f, NEW h, NEW c \in Int, NEW k \in Int,
         \A x \in S : f[x] \in Int /\ h[x] \in Int /\ f[x] * c <= k * h[x]
  PROVE  SumFunctionOnSet(f, S) * c <= k * SumFunctionOnSet(h, S)
<1> DEFINE Q == {T \in SUBSET S :
                   SumFunctionOnSet(f, T) * c <= k * SumFunctionOnSet(h, T)}
<1>1. {} \in Q
  BY SumEmpty
<1>2. ASSUME NEW T \in SUBSET S, T # {}, \A y \in T : T \ {y} \in Q
      PROVE  T \in Q
  <2>1. PICK a \in T : TRUE
    BY <1>2
  <2>2. IsFiniteSet(T) /\ IsFiniteSet(T \ {a})
    BY FS_Subset
  <2>3. PICK F \in Int, H \in Int : F = SumFunctionOnSet(f, T \ {a}) /\ H = SumFunctionOnSet(h, T \ {a})
    BY <2>2, SumType
  <2>4. SumFunctionOnSet(f, T) = f[a] + F
    BY <2>2, <2>3, SumRemove
  <2>5. SumFunctionOnSet(h, T) = h[a] + H
    BY <2>2, <2>3, SumRemove
  <2>6. F * c <= k * H
    BY <1>2, <2>3
  <2>7. PICK x \in Int, y \in Int : x = f[a] /\ y = h[a] /\ x * c <= k * y
    OBVIOUS
  <2>8. (x + F) * c <= k * (y + H)
    <3>1. (x + F) * c = x * c + F * c
      OBVIOUS
    <3>2. k * (y + H) = k * y + k * H
      OBVIOUS
    <3>3. x * c \in Int /\ F * c \in Int /\ k * y \in Int /\ k * H \in Int
      OBVIOUS
    <3>4. QED BY <2>6, <2>7, <3>1, <3>2, <3>3
  <2>9. QED BY <2>4, <2>5, <2>7, <2>8
<1> HIDE DEF Q
<1>3. S \in Q
  BY <1>1, <1>2, SetInduction
<1>4. QED BY <1>3 DEF Q

\* The sum over 1..n is the one over 1..(n - 1) and the last value.
THEOREM SumLast ==
  ASSUME NEW n \in Nat \ {0}, NEW f, \A i \in 1..n : f[i] \in Int
  PROVE  SumFunctionOnSet(f, 1..n) = SumFunctionOnSet(f, 1..(n - 1)) + f[n]
<1> DEFINE S == 1..(n - 1)
<1>1. 1..n = S \cup {n} /\ n \notin S
  OBVIOUS
<1>2. IsFiniteSet(S)
  BY FS_Interval
<1>3. \A x \in S \cup {n} : f[x] \in Int
  OBVIOUS
<1> HIDE DEF S
<1>4. SumFunctionOnSet(f, S \cup {n}) = SumFunctionOnSet(f, S) + f[n]
  BY <1>1, <1>2, <1>3, SumAdd
<1>5. QED BY <1>1, <1>4 DEF S
=============================================================================
