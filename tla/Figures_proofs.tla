----------------------------- MODULE Figures_proofs --------------------------
(***************************************************************************)
(* Proofs about what is computed: the exposure's rows and the three        *)
(* readings of the breach check, the explanation of an impact, the notice  *)
(* of a run, the reconciliation, the walk that makes the warehouse's daily *)
(* records, and the closes behind it, for books, portfolios, windows,      *)
(* chunks and downloads of any size.                                       *)
(* They begin with what the sums of the community modules do, for any      *)
(* finite set.                                                             *)
(***************************************************************************)
EXTENDS Breakdown, Tools, Simulation, History, TLAPS, FiniteSetTheorems, WellFoundedInduction, SequenceTheorems

-----------------------------------------------------------------------------
(* Sums over finite sets.                                                  *)

\* A nonempty set of naturals has a least element.
LEMMA LeastOf ==
  ASSUME NEW T \in SUBSET Nat, T # {}
  PROVE  \E t \in T : \A u \in T : t <= u
<1> DEFINE R == OpToRel(<, Nat)
<1>1. IsWellFoundedOn(R, Nat)
  BY NatLessThanWellFounded, Zenon
<1>2. \A i, j \in Nat : <<j, i>> \in R <=> j < i
  BY DEF OpToRel
<1> HIDE DEF R
<1>3. \E t \in T : \A u \in T : ~(<<u, t>> \in R)
  BY <1>1, WFMin
<1>4. PICK t \in T : \A u \in T : ~(<<u, t>> \in R)
  BY <1>3
<1>5. \A u \in T : ~(u < t)
  BY <1>2, <1>4
<1> QED
  BY <1>5

\* Of a nonempty set of finite sets, one has none of its own less an element.
LEMMA SmallestOf ==
  ASSUME NEW S, IsFiniteSet(S), NEW B \in SUBSET SUBSET S, B # {}
  PROVE  \E T \in B : \A x \in T : T \ {x} \notin B
<1> DEFINE Sizes == {Cardinality(T) : T \in B}
<1>1. \A T \in SUBSET S : IsFiniteSet(T) /\ Cardinality(T) \in Nat
  BY FS_Subset, FS_CardinalityType
<1>2. PICK T \in B : \A U \in B : Cardinality(T) <= Cardinality(U)
  <2>1. Sizes \in SUBSET Nat /\ Sizes # {}
    BY <1>1
  <2>2. PICK t \in Sizes : \A n \in Sizes : t <= n
    BY <2>1, LeastOf
  <2> QED
    BY <2>2
<1>3. \A x \in T : Cardinality(T \ {x}) = Cardinality(T) - 1
  BY <1>1, FS_RemoveElement
<1> QED
  BY <1>1, <1>2, <1>3

\* Induction over the subsets of a finite set, the property given as the set
\* of those that have it.
LEMMA FiniteInduction ==
  ASSUME NEW S, IsFiniteSet(S), NEW Q, {} \in Q,
         \A T \in SUBSET S : \A x \in S \ T : T \in Q => T \cup {x} \in Q
  PROVE  S \in Q
<1> SUFFICES ASSUME S \notin Q PROVE FALSE
  OBVIOUS
<1> DEFINE B == {T \in SUBSET S : T \notin Q}
<1>1. PICK T \in B : \A x \in T : T \ {x} \notin B
  <2>1. B \in SUBSET SUBSET S /\ B # {}
    OBVIOUS
  <2> HIDE DEF B
  <2> QED
    BY <2>1, SmallestOf
<1>2. PICK x \in T : TRUE
  BY <1>1
<1>3. T \ {x} \in SUBSET S /\ x \in S \ (T \ {x}) /\ (T \ {x}) \cup {x} = T /\ T \ {x} \in Q
  BY <1>1, <1>2
<1> QED
  BY <1>1, <1>3

\* How a fold takes its elements: one of every nonempty set.
IsChoice(c, S) == \A s \in SUBSET S : s # {} => c[s] \in s

\* Sums of all subsets, each from that of a smaller one.
IsTable(g, f, c, S) ==
  /\ g \in [SUBSET S -> Int] /\ g[{}] = 0
  /\ \A s \in SUBSET S : s # {} => g[s] = f[c[s]] + g[s \ {c[s]}]

\* The subsets with at most n elements, and a table of their sums.
UpTo(S, n) == {s \in SUBSET S : Cardinality(s) <= n}

IsTableUpTo(g, f, c, S, n) ==
  /\ g \in [UpTo(S, n) -> Int] /\ g[{}] = 0
  /\ \A s \in UpTo(S, n) : s # {} => g[s] = f[c[s]] + g[s \ {c[s]}]

\* There is such a table.
LEMMA TableExists ==
  ASSUME NEW S, IsFiniteSet(S), NEW f, \A x \in S : f[x] \in Int, NEW c, IsChoice(c, S)
  PROVE  \E g : IsTable(g, f, c, S)
<1> DEFINE Bad == {n \in Nat : ~ \E g : IsTableUpTo(g, f, c, S, n)}
<1>1. \A s \in SUBSET S : IsFiniteSet(s) /\ Cardinality(s) \in Nat
  BY FS_Subset, FS_CardinalityType
<1>2. \A s \in SUBSET S : s # {} => c[s] \in s /\ Cardinality(s \ {c[s]}) = Cardinality(s) - 1
  BY <1>1, FS_RemoveElement DEF IsChoice
<1>3. Bad = {}
  <2> SUFFICES ASSUME Bad # {} PROVE FALSE
    OBVIOUS
  <2>1. PICK n \in Bad : \A m \in Bad : n <= m
    BY LeastOf
  <2>2. n # 0
    <3>1. \A s \in SUBSET S : Cardinality(s) <= 0 => s = {}
      BY <1>1, FS_EmptySet
    <3>2. UpTo(S, 0) = {{}}
      <4>1. Cardinality({}) = 0
        BY FS_EmptySet
      <4> QED
        BY <3>1, <4>1 DEF UpTo
    <3>3. IsTableUpTo([s \in UpTo(S, 0) |-> 0], f, c, S, 0)
      BY <3>2 DEF IsTableUpTo
    <3> QED
      BY <2>1, <3>3
  <2>3. n \in Nat /\ n - 1 \in Nat
    BY <2>1, <2>2
  <2>4. PICK g : IsTableUpTo(g, f, c, S, n - 1)
    <3>1. n - 1 \notin Bad
      BY <2>1, <2>3
    <3> QED
      BY <2>3, <3>1
  <2> DEFINE h == [s \in UpTo(S, n) |-> IF s = {} THEN 0 ELSE f[c[s]] + g[s \ {c[s]}]]
  <2>5. \A s \in UpTo(S, n) : s # {} => c[s] \in S /\ s \ {c[s]} \in UpTo(S, n - 1)
    BY <1>1, <1>2, <2>3 DEF UpTo
  <2>6. h \in [UpTo(S, n) -> Int]
    BY <2>4, <2>5 DEF IsTableUpTo
  <2>7. {} \in UpTo(S, n) /\ h[{}] = 0
    BY <2>3, FS_EmptySet DEF UpTo
  <2>8. \A s \in UpTo(S, n - 1) : s \in UpTo(S, n) /\ h[s] = g[s]
    <3> TAKE s \in UpTo(S, n - 1)
    <3>1. s \in UpTo(S, n)
      BY <1>1, <2>3 DEF UpTo
    <3> QED
      BY <2>4, <3>1 DEF IsTableUpTo
  <2>9. IsTableUpTo(h, f, c, S, n)
    BY <2>5, <2>6, <2>7, <2>8 DEF IsTableUpTo
  <2> QED
    BY <2>1, <2>9
<1>4. PICK g : IsTableUpTo(g, f, c, S, Cardinality(S))
  <2>1. Cardinality(S) \in Nat
    BY FS_CardinalityType
  <2> QED
    BY <1>3, <2>1
<1>5. UpTo(S, Cardinality(S)) = SUBSET S
  BY <1>1, FS_Subset DEF UpTo
<1> QED
  BY <1>4, <1>5 DEF IsTable, IsTableUpTo

\* The sum of a set is any of its elements' and the rest's.
TakesAny(g, f, S) == \A s \in SUBSET S : \A x \in s : g[s] = f[x] + g[s \ {x}]

\* A table has it.
LEMMA TableTakesAny ==
  ASSUME NEW S, IsFiniteSet(S), NEW f, \A x \in S : f[x] \in Int, NEW c, IsChoice(c, S),
         NEW g, IsTable(g, f, c, S)
  PROVE  TakesAny(g, f, S)
<1> DEFINE B == {s \in SUBSET S : \E x \in s : g[s] # f[x] + g[s \ {x}]}
<1> SUFFICES ASSUME B # {} PROVE FALSE
  BY DEF TakesAny
<1>1. PICK T \in B : \A x \in T : T \ {x} \notin B
  <2>1. B \in SUBSET SUBSET S
    OBVIOUS
  <2> HIDE DEF B
  <2> QED
    BY <2>1, SmallestOf
<1>2. PICK x \in T : g[T] # f[x] + g[T \ {x}]
  BY <1>1
<1> DEFINE y == c[T]
<1>3. y \in T /\ g[T] = f[y] + g[T \ {y}]
  BY <1>1, <1>2 DEF IsTable, IsChoice
<1> HIDE DEF y
<1>4. x # y
  BY <1>2, <1>3
<1>5. T \ {x} \in SUBSET S /\ T \ {y} \in SUBSET S /\ y \in T \ {x} /\ x \in T \ {y}
  BY <1>1, <1>2, <1>3, <1>4
<1>6. g[T \ {y}] = f[x] + g[(T \ {y}) \ {x}] /\ g[T \ {x}] = f[y] + g[(T \ {x}) \ {y}]
  BY <1>1, <1>2, <1>3, <1>5
<1>7. (T \ {y}) \ {x} = (T \ {x}) \ {y} /\ (T \ {x}) \ {y} \in SUBSET S
  BY <1>5
<1>8. g[(T \ {x}) \ {y}] \in Int /\ f[x] \in Int /\ f[y] \in Int
  BY <1>1, <1>2, <1>3, <1>7 DEF IsTable
<1>9. g[T] = f[y] + (f[x] + g[(T \ {x}) \ {y}]) /\ g[T \ {x}] = f[y] + g[(T \ {x}) \ {y}]
  BY <1>3, <1>6, <1>7
<1> QED
  BY <1>2, <1>8, <1>9

\* Two tables of one function agree on what both have, however they choose.
LEMMA TablesAgree ==
  ASSUME NEW S, IsFiniteSet(S), NEW f, \A x \in S : f[x] \in Int,
         NEW T \in SUBSET S, NEW c, IsChoice(c, S), NEW d, IsChoice(d, T),
         NEW g, IsTable(g, f, c, S), NEW h, IsTable(h, f, d, T)
  PROVE  \A s \in SUBSET T : g[s] = h[s]
<1>0. \A s \in SUBSET S : \A x \in s : g[s] = f[x] + g[s \ {x}]
  <2>1. TakesAny(g, f, S)
    BY TableTakesAny
  <2> QED
    BY <2>1 DEF TakesAny
<1> DEFINE B == {s \in SUBSET T : g[s] # h[s]}
<1> SUFFICES ASSUME B # {} PROVE FALSE
  OBVIOUS
<1>1. IsFiniteSet(T)
  BY FS_Subset
<1>2. PICK s \in B : \A x \in s : s \ {x} \notin B
  <2>1. B \in SUBSET SUBSET T
    OBVIOUS
  <2> HIDE DEF B
  <2> QED
    BY <1>1, <2>1, SmallestOf
<1>3. s # {}
  BY <1>2 DEF IsTable
<1>4. d[s] \in s /\ h[s] = f[d[s]] + h[s \ {d[s]}]
  BY <1>2, <1>3 DEF IsTable, IsChoice
<1>5. g[s] = f[d[s]] + g[s \ {d[s]}]
  <2>1. s \in SUBSET S
    BY <1>2
  <2> QED
    BY <1>0, <1>4, <2>1
<1> QED
  BY <1>2, <1>4, <1>5

-----------------------------------------------------------------------------
(* The library's sum of a function over a finite set.                      *)

\* The values a fold computes, each from that of a smaller set.
Folds(g, f, c, S) ==
  g[{}] = 0 /\ \A s \in SUBSET S : s # {} => g[s] = f[c[s]] + g[s \ {c[s]}]

\* They are those of a table.
LEMMA FoldIsTable ==
  ASSUME NEW S, IsFiniteSet(S), NEW f, NEW c, IsChoice(c, S),
         NEW g, Folds(g, f, c, S), NEW h, IsTable(h, f, c, S)
  PROVE  \A s \in SUBSET S : g[s] = h[s]
<1> DEFINE B == {s \in SUBSET S : g[s] # h[s]}
<1> SUFFICES ASSUME B # {} PROVE FALSE
  OBVIOUS
<1>1. PICK T \in B : \A x \in T : T \ {x} \notin B
  <2>1. B \in SUBSET SUBSET S
    OBVIOUS
  <2> HIDE DEF B
  <2> QED
    BY <2>1, SmallestOf
<1>2. T # {}
  BY <1>1 DEF Folds, IsTable
<1>3. c[T] \in T /\ g[T] = f[c[T]] + g[T \ {c[T]}] /\ h[T] = f[c[T]] + h[T \ {c[T]}]
  BY <1>1, <1>2 DEF Folds, IsTable, IsChoice
<1> QED
  BY <1>1, <1>3

\* The choice the library's sum makes.
Chosen(S) == [s \in SUBSET S |-> CHOOSE x \in s : TRUE]

\* CHOOSE is such a rule.
LEMMA ChosenIsChoice ==
  ASSUME NEW S
  PROVE  IsChoice(Chosen(S), S) /\ \A s \in SUBSET S : Chosen(S)[s] = CHOOSE x \in s : TRUE
BY DEF IsChoice, Chosen

\* The library's sum is that of a table.
LEMMA SumIsTable ==
  ASSUME NEW S, IsFiniteSet(S), NEW f, \A x \in S : f[x] \in Int
  PROVE  IsChoice(Chosen(S), S) /\ \E g : IsTable(g, f, Chosen(S), S) /\ SumFunctionOnSet(f, S) = g[S]
<1> DEFINE c == Chosen(S)
           F(g) == [s \in SUBSET S |-> IF s = {} THEN 0
                                       ELSE f[CHOOSE x \in s : TRUE] + g[s \ {CHOOSE x \in s : TRUE}]]
           g == CHOOSE h : h = F(h)
<1>1. SumFunctionOnSet(f, S) = g[S]
  BY Zenon DEF SumFunctionOnSet, FoldFunctionOnSet, MapThenFoldSet
<1>2. IsChoice(c, S) /\ \A s \in SUBSET S : c[s] = CHOOSE x \in s : TRUE
  BY ChosenIsChoice
<1> HIDE DEF c
<1>3. PICK h : IsTable(h, f, c, S)
  BY <1>2, TableExists
<1>4. h = F(h)
  BY <1>2, <1>3 DEF IsTable
<1>5. g = F(g)
  BY <1>4, ZenonT(60)
<1> HIDE DEF g
<1>6. Folds(g, f, c, S)
  BY <1>2, <1>5 DEF Folds
<1>7. SumFunctionOnSet(f, S) = h[S]
  BY <1>1, <1>2, <1>3, <1>6, FoldIsTable
<1> QED
  BY <1>2, <1>3, <1>7 DEF c

\* However a fold chooses, it computes the sum.
LEMMA FoldIsSum ==
  ASSUME NEW S, IsFiniteSet(S), NEW f, \A x \in S : f[x] \in Int,
         NEW c, IsChoice(c, S), NEW g, Folds(g, f, c, S)
  PROVE  g[S] = SumFunctionOnSet(f, S)
<1>1. IsChoice(Chosen(S), S)
  BY SumIsTable
<1>2. PICK h : IsTable(h, f, Chosen(S), S) /\ SumFunctionOnSet(f, S) = h[S]
  BY SumIsTable
<1>3. PICK k : IsTable(k, f, c, S)
  BY TableExists
<1>4. g[S] = k[S]
  BY <1>3, FoldIsTable
<1>5. \A s \in SUBSET S : k[s] = h[s]
  BY <1>1, <1>2, <1>3, TablesAgree
<1> QED
  BY <1>2, <1>4, <1>5

IntOn(f, S) == \A x \in S : f[x] \in Int

\* The empty sum is 0.
LEMMA SumOfNone ==
  ASSUME NEW f
  PROVE  SumFunctionOnSet(f, {}) = 0
<1>1. IsFiniteSet({})
  BY FS_EmptySet
<1>2. PICK g : IsTable(g, f, Chosen({}), {}) /\ SumFunctionOnSet(f, {}) = g[{}]
  BY <1>1, SumIsTable
<1> QED
  BY <1>2 DEF IsTable

\* A sum takes any of its elements.
LEMMA SumTakes ==
  ASSUME NEW S, IsFiniteSet(S), NEW f, IntOn(f, S), NEW x \in S
  PROVE  SumFunctionOnSet(f, S) = f[x] + SumFunctionOnSet(f, S \ {x})
<1> DEFINE T == S \ {x}
<1>1. IsFiniteSet(T) /\ T \in SUBSET S /\ T \subseteq T
  BY FS_Subset
<1>2. (\A i \in S : f[i] \in Int) /\ (\A i \in T : f[i] \in Int)
  BY DEF IntOn
<1>3. IsChoice(Chosen(S), S)
  BY <1>2, SumIsTable
<1>4. PICK g : IsTable(g, f, Chosen(S), S) /\ SumFunctionOnSet(f, S) = g[S]
  BY <1>2, SumIsTable
<1> HIDE DEF T
<1>5. IsChoice(Chosen(T), T)
  BY <1>1, <1>2, SumIsTable
<1>6. PICK h : IsTable(h, f, Chosen(T), T) /\ SumFunctionOnSet(f, T) = h[T]
  BY <1>1, <1>2, SumIsTable
<1>7. \A s \in SUBSET T : g[s] = h[s]
  <2>1. \A i \in S : f[i] \in Int
    BY <1>2
  <2>2. IsTable(g, f, Chosen(S), S) /\ IsTable(h, f, Chosen(T), T)
    BY <1>4, <1>6
  <2>3. T \in SUBSET S
    BY <1>1
  <2> QED
    BY <1>3, <1>5, <2>1, <2>2, <2>3, TablesAgree
<1>8. TakesAny(g, f, S)
  BY <1>2, <1>3, <1>4, TableTakesAny
<1>9. g[S] = f[x] + g[T]
  BY <1>8 DEF TakesAny, T
<1> QED
  BY <1>1, <1>4, <1>6, <1>7, <1>9 DEF T

\* Sums of integers are integers.
LEMMA SumIsInt ==
  ASSUME NEW S, IsFiniteSet(S), NEW f, IntOn(f, S)
  PROVE  SumFunctionOnSet(f, S) \in Int
<1>1. \A i \in S : f[i] \in Int
  BY DEF IntOn
<1>2. PICK g : IsTable(g, f, Chosen(S), S) /\ SumFunctionOnSet(f, S) = g[S]
  BY <1>1, SumIsTable
<1> QED
  BY <1>2 DEF IsTable

\* One element more.
LEMMA SumPuts ==
  ASSUME NEW S, IsFiniteSet(S), NEW f, IntOn(f, S), NEW T \in SUBSET S, NEW x \in S \ T
  PROVE  /\ SumFunctionOnSet(f, T \cup {x}) = f[x] + SumFunctionOnSet(f, T)
         /\ SumFunctionOnSet(f, T) \in Int /\ f[x] \in Int
<1> DEFINE U == T \cup {x}
<1>1. IsFiniteSet(T) /\ IsFiniteSet(U)
  <2>1. U \in SUBSET S
    OBVIOUS
  <2> QED
    BY <2>1, FS_Subset
<1>2. IntOn(f, T) /\ IntOn(f, U) /\ x \in U /\ U \ {x} = T /\ f[x] \in Int
  BY DEF IntOn
<1> HIDE DEF U
<1>3. SumFunctionOnSet(f, U) = f[x] + SumFunctionOnSet(f, U \ {x})
  BY <1>1, <1>2, SumTakes
<1>4. SumFunctionOnSet(f, T) \in Int
  BY <1>1, <1>2, SumIsInt
<1> QED
  BY <1>2, <1>3, <1>4 DEF U

\* Functions that agree have the same sum.
LEMMA SumsAgree ==
  ASSUME NEW S, IsFiniteSet(S), NEW f, NEW h, IntOn(f, S), \A x \in S : f[x] = h[x]
  PROVE  SumFunctionOnSet(f, S) = SumFunctionOnSet(h, S)
<1> DEFINE Q == {T \in SUBSET S : SumFunctionOnSet(f, T) = SumFunctionOnSet(h, T)}
<1>1. {} \in Q
  BY SumOfNone
<1>2. ASSUME NEW T \in SUBSET S, NEW x \in S \ T, T \in Q PROVE T \cup {x} \in Q
  <2>1. IntOn(h, S)
    BY DEF IntOn
  <2>2. SumFunctionOnSet(f, T \cup {x}) = f[x] + SumFunctionOnSet(f, T)
    BY SumPuts
  <2>3. SumFunctionOnSet(h, T \cup {x}) = h[x] + SumFunctionOnSet(h, T)
    BY <2>1, SumPuts
  <2> QED
    BY <1>2, <2>2, <2>3
<1> HIDE DEF Q
<1>3. S \in Q
  BY <1>1, <1>2, FiniteInduction
<1> QED
  BY <1>3 DEF Q

\* A sum of sums.
LEMMA SumsAdd ==
  ASSUME NEW S, IsFiniteSet(S), NEW f, NEW h, NEW k, IntOn(f, S), IntOn(h, S),
         \A x \in S : k[x] = f[x] + h[x]
  PROVE  SumFunctionOnSet(k, S) = SumFunctionOnSet(f, S) + SumFunctionOnSet(h, S)
<1> DEFINE Q == {T \in SUBSET S :
                   SumFunctionOnSet(k, T) = SumFunctionOnSet(f, T) + SumFunctionOnSet(h, T)}
<1>1. {} \in Q
  BY SumOfNone
<1>2. ASSUME NEW T \in SUBSET S, NEW x \in S \ T, T \in Q PROVE T \cup {x} \in Q
  <2>1. IntOn(k, S)
    BY DEF IntOn
  <2>2. /\ SumFunctionOnSet(f, T \cup {x}) = f[x] + SumFunctionOnSet(f, T)
        /\ SumFunctionOnSet(f, T) \in Int /\ f[x] \in Int
    BY SumPuts
  <2>3. /\ SumFunctionOnSet(h, T \cup {x}) = h[x] + SumFunctionOnSet(h, T)
        /\ SumFunctionOnSet(h, T) \in Int /\ h[x] \in Int
    BY SumPuts
  <2>4. SumFunctionOnSet(k, T \cup {x}) = k[x] + SumFunctionOnSet(k, T)
    BY <2>1, SumPuts
  <2>5. SumFunctionOnSet(k, T) = SumFunctionOnSet(f, T) + SumFunctionOnSet(h, T) /\ k[x] = f[x] + h[x]
    BY <1>2
  <2>6. SumFunctionOnSet(k, T \cup {x}) = SumFunctionOnSet(f, T \cup {x}) + SumFunctionOnSet(h, T \cup {x})
    BY <2>2, <2>3, <2>4, <2>5
  <2> QED
    BY <2>6
<1> HIDE DEF Q
<1>3. S \in Q
  BY <1>1, <1>2, FiniteInduction
<1> QED
  BY <1>3 DEF Q

\* Sums over two sets without a common element.
LEMMA SumsJoin ==
  ASSUME NEW S, NEW R, IsFiniteSet(S), IsFiniteSet(R), S \cap R = {}, NEW f, IntOn(f, S \cup R)
  PROVE  SumFunctionOnSet(f, S \cup R) = SumFunctionOnSet(f, S) + SumFunctionOnSet(f, R)
<1> DEFINE Q == {T \in SUBSET S :
                   SumFunctionOnSet(f, T \cup R) = SumFunctionOnSet(f, T) + SumFunctionOnSet(f, R)}
<1>1. IntOn(f, S) /\ IntOn(f, R) /\ SumFunctionOnSet(f, R) \in Int
  <2>1. IntOn(f, S) /\ IntOn(f, R)
    BY DEF IntOn
  <2> QED
    BY <2>1, SumIsInt
<1>2. {} \in Q
  <2>1. SumFunctionOnSet(f, {}) = 0 /\ {} \cup R = R
    BY SumOfNone
  <2> QED
    BY <1>1, <2>1
<1>3. ASSUME NEW T \in SUBSET S, NEW x \in S \ T, T \in Q PROVE T \cup {x} \in Q
  <2> DEFINE U == S \cup R
             V == T \cup R
             W == T \cup {x}
  <2>1. IsFiniteSet(U) /\ IntOn(f, U) /\ V \in SUBSET U /\ x \in U \ V /\ W \cup R = V \cup {x}
    BY FS_Union
  <2>2. SumFunctionOnSet(f, W) = f[x] + SumFunctionOnSet(f, T) /\ SumFunctionOnSet(f, T) \in Int /\ f[x] \in Int
    <3>1. IntOn(f, S)
      BY <1>1
    <3> HIDE DEF Q
    <3> QED
      BY <3>1, SumPuts
  <2>3. SumFunctionOnSet(f, V) = SumFunctionOnSet(f, T) + SumFunctionOnSet(f, R)
    BY <1>3
  <2>4. W \in SUBSET S
    OBVIOUS
  <2> HIDE DEF U, V, W
  <2>5. SumFunctionOnSet(f, V \cup {x}) = f[x] + SumFunctionOnSet(f, V)
    BY <2>1, SumPuts
  <2>6. SumFunctionOnSet(f, W \cup R) = SumFunctionOnSet(f, W) + SumFunctionOnSet(f, R)
    <3>1. SumFunctionOnSet(f, W \cup R) = f[x] + SumFunctionOnSet(f, V)
      BY <2>1, <2>5
    <3> QED
      BY <1>1, <2>2, <2>3, <3>1
  <2>7. W \in Q
    BY <2>4, <2>6
  <2> QED
    BY <2>7 DEF W
<1> HIDE DEF Q
<1>4. S \in Q
  BY <1>2, <1>3, FiniteInduction
<1> QED
  BY <1>4 DEF Q

\* What a function makes of a finite set is finite.
LEMMA ImageIsFinite ==
  ASSUME NEW S, IsFiniteSet(S), NEW k
  PROVE  IsFiniteSet({k[x] : x \in S})
<1> DEFINE G == {k[x] : x \in S}
           s == [x \in S |-> k[x]]
<1>1. s \in Surjection(S, G)
  BY DEF Surjection
<1> HIDE DEF s, G
<1>2. IsFiniteSet(G)
  BY <1>1, FS_Surjection
<1> QED
  BY <1>2 DEF G

\* One to one, and onto.
Matches(b, S, R) ==
  /\ \A x \in S : b[x] \in R
  /\ \A x, y \in S : b[x] = b[y] => x = y
  /\ \A y \in R : \E x \in S : y = b[x]

\* A sum over another set, taken one to one from this one.
LEMMA SumMoves ==
  ASSUME NEW S, IsFiniteSet(S), NEW R, NEW b, Matches(b, S, R),
         NEW f, NEW h, IntOn(f, S), \A x \in S : f[x] = h[b[x]]
  PROVE  SumFunctionOnSet(h, R) = SumFunctionOnSet(f, S)
<1> USE DEF Matches
<1> DEFINE Im(T) == {b[x] : x \in T}
           Q == {T \in SUBSET S : SumFunctionOnSet(h, Im(T)) = SumFunctionOnSet(f, T)}
<1>1. {} \in Q
  <2>1. Im({}) = {}
    OBVIOUS
  <2> QED
    BY <2>1, SumOfNone
<1>2. ASSUME NEW T \in SUBSET S, NEW x \in S \ T, T \in Q PROVE T \cup {x} \in Q
  <2> DEFINE W == T \cup {x}
             I == Im(T)
             J == Im(W)
             y == b[x]
  <2>1. J = I \cup {y} /\ I \in SUBSET J /\ y \in J \ I /\ W \in SUBSET S /\ IntOn(h, J) /\ f[x] = h[y]
    BY DEF IntOn
  <2>2. IsFiniteSet(J)
    <3>1. IsFiniteSet(W)
      BY FS_Subset
    <3> HIDE DEF W
    <3> QED
      BY <3>1, ImageIsFinite DEF J
  <2>3. SumFunctionOnSet(h, I) = SumFunctionOnSet(f, T)
    BY <1>2
  <2>4. SumFunctionOnSet(f, W) = f[x] + SumFunctionOnSet(f, T)
    BY SumPuts
  <2> HIDE DEF W, I, J, y
  <2>5. SumFunctionOnSet(h, J) = h[y] + SumFunctionOnSet(h, I)
    BY <2>1, <2>2, SumPuts
  <2>6. SumFunctionOnSet(h, J) = SumFunctionOnSet(f, W)
    BY <2>1, <2>3, <2>4, <2>5
  <2>7. W \in Q
    BY <2>1, <2>6 DEF J
  <2> QED
    BY <2>7 DEF W
<1>3. Im(S) = R
  OBVIOUS
<1> HIDE DEF Q, Im
<1>4. S \in Q
  BY <1>1, <1>2, FiniteInduction
<1> QED
  BY <1>3, <1>4 DEF Q

\* Each group's own sum.
GroupSums(h, k, f, S) ==
  \A g \in {k[x] : x \in S} : h[g] = SumFunctionOnSet(f, {x \in S : k[x] = g})

\* A sum over groups of elements: k names each element's group, h has each
\* group's own sum.
LEMMA SumOfGroups ==
  ASSUME NEW S, IsFiniteSet(S), NEW k, NEW f, IntOn(f, S), NEW h, GroupSums(h, k, f, S)
  PROVE  SumFunctionOnSet(h, {k[x] : x \in S}) = SumFunctionOnSet(f, S)
<1> DEFINE G == {k[x] : x \in S}
           In(H) == {x \in S : k[x] \in H}
           Q == {H \in SUBSET G : SumFunctionOnSet(h, H) = SumFunctionOnSet(f, In(H))}
<1>1. IsFiniteSet(G)
  BY ImageIsFinite
<1>2. \A T \in SUBSET S : IsFiniteSet(T) /\ SumFunctionOnSet(f, T) \in Int
  <2> TAKE T \in SUBSET S
  <2>1. IsFiniteSet(T) /\ IntOn(f, T)
    BY FS_Subset DEF IntOn
  <2> QED
    BY <2>1, SumIsInt
<1>3. IntOn(h, G)
  BY <1>2 DEF IntOn, GroupSums
<1>4. {} \in Q
  <2>1. In({}) = {}
    OBVIOUS
  <2> QED
    BY <2>1, SumOfNone
<1>5. ASSUME NEW H \in SUBSET G, NEW g \in G \ H, H \in Q PROVE H \cup {g} \in Q
  <2> DEFINE A == In(H)
             B == {x \in S : k[x] = g}
             K == H \cup {g}
  <2>1. A \in SUBSET S /\ B \in SUBSET S /\ A \cap B = {} /\ In(K) = A \cup B /\ K \in SUBSET G
    OBVIOUS
  <2>2. h[g] = SumFunctionOnSet(f, B)
    BY DEF GroupSums
  <2>3. SumFunctionOnSet(h, H) = SumFunctionOnSet(f, A)
    BY <1>5
  <2> HIDE DEF A, B, G
  <2>4. SumFunctionOnSet(h, K) = h[g] + SumFunctionOnSet(h, H)
    BY <1>1, <1>3, SumPuts
  <2> HIDE DEF K, In
  <2>5. SumFunctionOnSet(f, A \cup B) = SumFunctionOnSet(f, A) + SumFunctionOnSet(f, B)
    <3>1. IsFiniteSet(A) /\ IsFiniteSet(B) /\ IntOn(f, A \cup B)
      BY <1>2, <2>1 DEF IntOn
    <3> QED
      BY <2>1, <3>1, SumsJoin
  <2>6. SumFunctionOnSet(f, A) \in Int /\ SumFunctionOnSet(f, B) \in Int
    BY <1>2, <2>1
  <2>7. SumFunctionOnSet(h, K) = SumFunctionOnSet(f, In(K))
    BY <2>1, <2>2, <2>3, <2>4, <2>5, <2>6
  <2>8. K \in Q
    BY <2>1, <2>7
  <2> QED
    BY <2>8 DEF K
<1>6. In(G) = S
  OBVIOUS
<1> HIDE DEF Q, In, G
<1>7. G \in Q
  BY <1>1, <1>4, <1>5, FiniteInduction
<1> QED
  BY <1>6, <1>7 DEF Q, G


-----------------------------------------------------------------------------
(* What is held and its value.                                             *)

\* The value after its haircut of every item.
Worth == [i \in Items |-> post_haircut(i.value_usd, i.haircut_pct)]

\* It is a whole number of units, as the query computes it.
LEMMA WorthIsInt == \A i \in Items : Worth[i] \in Int /\ Worth[i] = post_haircut(i.value_usd, i.haircut_pct)
<1> TAKE i \in Items
<1>1. i.value_usd \in Int /\ i.haircut_pct \in Int
  BY NumbersAssumption
<1>2. (i.value_usd * (100 - i.haircut_pct)) \div 100 \in Int
  BY <1>1
<1> QED
  BY <1>2 DEF Worth, post_haircut

\* The query's sum of some items.
LEMMA HeldIsSum ==
  ASSUME NEW T \in SUBSET Items, IsFiniteSet(T)
  PROVE  post_haircut_sum(T) = SumFunctionOnSet(Worth, T)
<1> DEFINE some(s) == CHOOSE x \in s : TRUE
           F(g) == [s \in SUBSET T |-> IF s = {} THEN 0
                      ELSE post_haircut((CHOOSE x \in s : TRUE).value_usd, (CHOOSE x \in s : TRUE).haircut_pct)
                             + g[s \ {CHOOSE x \in s : TRUE}]]
           g == CHOOSE h : h = F(h)
           c == Chosen(T)
<1>1. post_haircut_sum(T) = g[T]
  BY Zenon DEF post_haircut_sum, MapThenSumSet, MapThenFoldSet
<1>2. IsChoice(c, T) /\ \A s \in SUBSET T : c[s] = CHOOSE x \in s : TRUE
  BY ChosenIsChoice
<1>3. \A i \in T : Worth[i] \in Int
  BY WorthIsInt
<1> HIDE DEF c
<1>4. \A s \in SUBSET T : s # {} =>
        Worth[c[s]] = post_haircut((CHOOSE x \in s : TRUE).value_usd, (CHOOSE x \in s : TRUE).haircut_pct)
  BY <1>2, WorthIsInt DEF IsChoice
<1>5. PICK h : IsTable(h, Worth, c, T)
  BY <1>2, <1>3, TableExists
<1>6. h = F(h)
  <2> SUFFICES \A s \in SUBSET T : h[s] = F(h)[s]
    BY <1>5 DEF IsTable
  <2> TAKE s \in SUBSET T
  <2>1. CASE s = {}
    BY <1>5, <2>1 DEF IsTable
  <2>2. CASE s # {}
    BY <1>2, <1>4, <1>5, <2>2 DEF IsTable
  <2> QED
    BY <2>1, <2>2
<1>7. g = F(g)
  BY <1>6, ZenonT(60)
<1> HIDE DEF g
<1>8. Folds(g, Worth, c, T)
  <2>1. \A s \in SUBSET T : g[s] = F(g)[s]
    BY <1>7
  <2>2. g[{}] = 0
    BY <2>1
  <2>3. ASSUME NEW s \in SUBSET T, s # {} PROVE g[s] = Worth[c[s]] + g[s \ {c[s]}]
    BY <1>2, <1>4, <2>1, <2>3
  <2> QED
    BY <2>2, <2>3 DEF Folds
<1> QED
  BY <1>1, <1>2, <1>3, <1>8, FoldIsSum

\* The board's.
LEMMA BatchIsSum ==
  ASSUME items \subseteq Items, IsFiniteSet(items)
  PROVE  collateral_held_for_counterparties = SumFunctionOnSet(Worth, items)
<1> DEFINE T == items
           F(g) == [s \in SUBSET T |-> IF s = {} THEN 0
                      ELSE g[s \ {CHOOSE x \in s : TRUE}]
                             + post_haircut((CHOOSE x \in s : TRUE).value_usd, (CHOOSE x \in s : TRUE).haircut_pct)]
           g == CHOOSE h : h = F(h)
           c == Chosen(T)
<1>1. collateral_held_for_counterparties = g[T]
  BY Zenon DEF collateral_held_for_counterparties, FoldSet, MapThenFoldSet
<1>2. IsChoice(c, T) /\ \A s \in SUBSET T : c[s] = CHOOSE x \in s : TRUE
  BY ChosenIsChoice
<1>3. \A i \in T : Worth[i] \in Int
  BY WorthIsInt
<1> HIDE DEF c
<1>4. \A s \in SUBSET T : s # {} =>
        Worth[c[s]] = post_haircut((CHOOSE x \in s : TRUE).value_usd, (CHOOSE x \in s : TRUE).haircut_pct)
  BY <1>2, WorthIsInt DEF IsChoice
<1>5. PICK h : IsTable(h, Worth, c, T)
  BY <1>2, <1>3, TableExists
<1>6. h = F(h)
  <2> SUFFICES \A s \in SUBSET T : h[s] = F(h)[s]
    BY <1>5 DEF IsTable
  <2> TAKE s \in SUBSET T
  <2>1. CASE s = {}
    BY <1>5, <2>1 DEF IsTable
  <2>2. CASE s # {}
    <3>1. c[s] \in s /\ h[s] = Worth[c[s]] + h[s \ {c[s]}] /\ h[s \ {c[s]}] \in Int /\ Worth[c[s]] \in Int
      BY <1>2, <1>3, <1>5, <2>2 DEF IsTable, IsChoice
    <3>2. h[s] = h[s \ {c[s]}] + Worth[c[s]]
      BY <3>1
    <3> QED
      BY <1>2, <1>4, <2>2, <3>2
  <2> QED
    BY <2>1, <2>2
<1>7. g = F(g)
  BY <1>6, ZenonT(60)
<1> HIDE DEF g
<1>8. \A s \in SUBSET T : g[s] = h[s]
  <2> DEFINE B == {s \in SUBSET T : g[s] # h[s]}
  <2> SUFFICES ASSUME B # {} PROVE FALSE
    OBVIOUS
  <2>1. PICK U \in B : \A x \in U : U \ {x} \notin B
    <3>1. B \in SUBSET SUBSET T
      OBVIOUS
    <3> HIDE DEF B
    <3> QED
      BY <3>1, SmallestOf
  <2>2. g[U] = F(g)[U] /\ h[U] = F(h)[U]
    BY <1>6, <1>7
  <2>3. U # {}
    BY <2>1, <2>2
  <2>4. c[U] \in U /\ c[U] = CHOOSE x \in U : TRUE
    BY <1>2, <2>1, <2>3 DEF IsChoice
  <2>5. g[U \ {c[U]}] = h[U \ {c[U]}]
    BY <2>1, <2>4
  <2> QED
    BY <2>1, <2>2, <2>3, <2>4, <2>5
<1>9. Folds(h, Worth, c, T)
  BY <1>5 DEF IsTable, Folds
<1>10. h[T] = SumFunctionOnSet(Worth, T)
  BY <1>2, <1>3, <1>9, FoldIsSum
<1> QED
  BY <1>1, <1>8, <1>10

-----------------------------------------------------------------------------
(* Positions and exposures.                                                *)

Held(cp) == {k \in DOMAIN Book : Book[k].cp = cp}
TickersOf(cp) == {Book[k].ticker : k \in Held(cp)}

\* What load_positions returns: the counterparty's quantity of each ticker it
\* holds.
LEMMA LoadedPositions ==
  ASSUME NEW cp \in CPs
  PROVE  /\ TickersOf(cp) # {} /\ TickersOf(cp) \subseteq Tickers /\ IsFiniteSet(TickersOf(cp)) /\ IsFiniteSet(Held(cp))
         /\ load_positions(cp) \in [TickersOf(cp) -> Int]
         /\ \A k \in Held(cp) : load_positions(cp)[Book[k].ticker] = Book[k].quantity
<1>1. TickersOf(cp) # {} /\ TickersOf(cp) \subseteq Tickers
  BY DEF TickersOf, Held, Tickers, CPs
<1>2. IsFiniteSet(Held(cp)) /\ IsFiniteSet(TickersOf(cp))
  <2>1. IsFiniteSet(Held(cp))
    BY BookAssumption, FS_Subset DEF Held
  <2> DEFINE name == [k \in DOMAIN Book |-> Book[k].ticker]
  <2>2. TickersOf(cp) = {name[k] : k \in Held(cp)}
    BY DEF TickersOf, Held
  <2> HIDE DEF name
  <2> QED
    BY <2>1, <2>2, ImageIsFinite
<1>3. {Book[k].ticker : k \in {j \in DOMAIN Book : Book[j].cp = cp}} = TickersOf(cp)
  BY DEF TickersOf, Held
<1> DEFINE at(t) == CHOOSE k \in DOMAIN Book : Book[k].cp = cp /\ Book[k].ticker = t
<1>4. load_positions(cp) = [t \in TickersOf(cp) |-> Book[at(t)].quantity]
  BY <1>3 DEF load_positions
<1>5. ASSUME NEW k \in Held(cp) PROVE at(Book[k].ticker) = k
  <2>1. k \in DOMAIN Book /\ Book[k].cp = cp
    BY DEF Held
  <2>2. /\ at(Book[k].ticker) \in DOMAIN Book /\ Book[at(Book[k].ticker)].cp = cp
        /\ Book[at(Book[k].ticker)].ticker = Book[k].ticker
    BY <2>1
  <2> HIDE DEF at
  <2> QED
    BY <2>1, <2>2, BookAssumption
<1>6. \A k \in Held(cp) : Book[k].ticker \in TickersOf(cp) /\ Book[k].quantity \in Int
  BY BookAssumption DEF TickersOf, Held
<1>7. \A t \in TickersOf(cp) : \E k \in Held(cp) : t = Book[k].ticker
  BY DEF TickersOf
<1> HIDE DEF at
<1>8. \A t \in TickersOf(cp) : Book[at(t)].quantity \in Int
  BY <1>5, <1>6, <1>7
<1> QED
  BY <1>1, <1>2, <1>4, <1>5, <1>6, <1>8

\* The value of positions in D at some prices.
LEMMA MtmIsSum ==
  ASSUME NEW D, IsFiniteSet(D), NEW q \in [D -> Int], NEW price, \A t \in D : price[t] \in Int
  PROVE  /\ compute_mtm(q, price) \in [D -> Int]
         /\ \A t \in D : compute_mtm(q, price)[t] = q[t] * price[t]
         /\ total_mtm(compute_mtm(q, price)) = SumFunctionOnSet(compute_mtm(q, price), D)
         /\ total_mtm(compute_mtm(q, price)) \in Int
<1> DEFINE m == compute_mtm(q, price)
<1>1. m = [t \in D |-> q[t] * price[t]]
  BY DEF compute_mtm
<1>2. \A t \in D : q[t] * price[t] \in Int
  OBVIOUS
<1>3. m \in [D -> Int] /\ DOMAIN m = D /\ \A t \in D : m[t] = q[t] * price[t]
  BY <1>1, <1>2
<1> HIDE DEF m
<1>4. total_mtm(m) = SumFunctionOnSet(m, D)
  BY <1>3 DEF total_mtm, SumFunction
<1>5. SumFunctionOnSet(m, D) \in Int
  <2>1. IntOn(m, D)
    BY <1>3 DEF IntOn
  <2> QED
    BY <2>1, SumIsInt
<1> QED
  BY <1>3, <1>4, <1>5 DEF m

\* What the initial margin adds up, before the multiplier.
Margins(m) == [t \in DOMAIN m |-> Size(m[t]) * RISK_WEIGHTS[t]]

\* The initial margin is one sum over the tickers, times the VIX multiplier.
LEMMA MarginIsSum ==
  ASSUME NEW D, IsFiniteSet(D), NEW m \in [D -> Int], \A t \in D : RISK_WEIGHTS[t] \in Nat, NEW v \in Int
  PROVE  /\ Margins(m) \in [D -> Int]
         /\ compute_initial_margin(m, v) = SumFunctionOnSet(Margins(m), D) * vix_multiplier(v)
         /\ SumFunctionOnSet(Margins(m), D) \in Int /\ vix_multiplier(v) \in Int
         /\ compute_initial_margin(m, v) \in Int
<1>1. \A t \in D : Size(m[t]) * RISK_WEIGHTS[t] \in Int
  <2> TAKE t \in D
  <2>1. Size(m[t]) \in Int /\ RISK_WEIGHTS[t] \in Int
    BY DEF Size
  <2> QED
    BY <2>1
<1>2. Margins(m) \in [D -> Int] /\ DOMAIN Margins(m) = D
  BY <1>1 DEF Margins
<1>3. compute_initial_margin(m, v) = SumFunctionOnSet(Margins(m), D) * vix_multiplier(v)
  <2>1. compute_initial_margin(m, v) = SumFunction(Margins(m)) * vix_multiplier(v)
    BY DEF compute_initial_margin, Margins
  <2> QED
    BY <1>2, <2>1 DEF SumFunction
<1>4. SumFunctionOnSet(Margins(m), D) \in Int
  <2>1. IntOn(Margins(m), D)
    BY <1>2 DEF IntOn
  <2> QED
    BY <2>1, SumIsInt
<1>5. vix_multiplier(v) \in Int
  BY DEF vix_multiplier, Largest, Smallest, VIX_BASELINE
<1> QED
  BY <1>2, <1>3, <1>4, <1>5

-----------------------------------------------------------------------------
(* The rows.                                                               *)

\* A shock is measured to the price the ticker now has.
ExposureInv ==
  /\ quotes \in [Tickers -> Prices \cup {NoPrice}]
  /\ latest \in [Tickers -> Prices \cup {NoPrice}]
  /\ closes \in [Tickers -> Prices \cup {NoPrice}]
  /\ vix \in VixLevels \cup {NoVix}
  /\ rating \in Ratings \cup {NoRating}
  /\ items \subseteq Items /\ IsFiniteSet(items)
  /\ documents \in CSAs \cup {NoTerms}
  /\ cached \in CSAs \cup {NoTerms, Uncached}
  /\ \/ move = NoMove
     \/ move \in [ticker : Tickers, from : Prices, to : Prices] /\ move.to = latest[move.ticker]

\* Nothing is posted at first.
LEMMA InitExposure == Init => ExposureInv
<1> SUFFICES ASSUME Init PROVE ExposureInv
  OBVIOUS
<1>1. IsFiniteSet({})
  BY FS_EmptySet
<1> QED
  BY <1>1 DEF Init, ExposureInv

\* A tick stores a price.
LEMMA TickExposure ==
  ASSUME ExposureInv, NEW t \in Tickers, NEW p \in Prices, Tick(t, p)
  PROVE  ExposureInv'
<1>1. latest' \in [Tickers -> Prices \cup {NoPrice}] /\ latest'[t] = p
  BY DEF Tick, ExposureInv
<1>2. move' = NoMove \/ (move' \in [ticker : Tickers, from : Prices, to : Prices] /\ move'.to = latest'[move'.ticker])
  <2>1. CASE closes[t] = NoPrice
    BY <2>1 DEF Tick
  <2>2. CASE closes[t] # NoPrice
    BY <1>1, <2>2 DEF Tick, ExposureInv
  <2> QED
    BY <2>1, <2>2
<1> QED
  BY <1>1, <1>2 DEF Tick, ExposureInv, account

\* The feed quotes prices, or none.
LEMMA QuoteExposure ==
  ASSUME ExposureInv, NEW t \in Moving, NEW p \in Prices \cup {NoPrice}, Quote(t, p)
  PROVE  ExposureInv'
<1>1. quotes' \in [Tickers -> Prices \cup {NoPrice}]
  BY DEF Quote, ExposureInv
<1> QED
  BY <1>1 DEF Quote, ExposureInv, account

\* A day's close is a price that was stored.
LEMMA NextDayExposure ==
  ASSUME ExposureInv, NEW t \in Tickers, NextDay(t)
  PROVE  ExposureInv'
BY DEF NextDay, ExposureInv, account

\* The other rows are of their sets.
LEMMA RowExposure ==
  ASSUME ExposureInv,
         \/ \E v \in VixLevels : PublishVix(v)
         \/ \E r \in Ratings : Rate(r)
         \/ \E csa \in CSAs : Ingest(csa)
         \/ ViewBoard
         \/ RestartBoard
  PROVE  ExposureInv'
<1>1. ASSUME NEW v \in VixLevels, PublishVix(v) PROVE ExposureInv'
  BY <1>1 DEF PublishVix, ExposureInv, account
<1>2. ASSUME NEW r \in Ratings, Rate(r) PROVE ExposureInv'
  BY <1>2 DEF Rate, ExposureInv, market
<1>3. ASSUME NEW csa \in CSAs, Ingest(csa) PROVE ExposureInv'
  BY <1>3 DEF Ingest, ExposureInv, market
<1>4. ASSUME ViewBoard PROVE ExposureInv'
  BY <1>4 DEF ViewBoard, ExposureInv, market, account
<1>5. ASSUME RestartBoard PROVE ExposureInv'
  BY <1>5 DEF RestartBoard, ExposureInv, market, account
<1> QED
  BY <1>1, <1>2, <1>3, <1>4, <1>5

\* One more item is posted.
LEMMA PostExposure ==
  ASSUME ExposureInv, NEW i \in Items, Post(i)
  PROVE  ExposureInv'
<1>1. IsFiniteSet(items \cup {i})
  BY FS_AddElement DEF ExposureInv
<1> QED
  BY <1>1 DEF Post, ExposureInv, market

\* Every step keeps the rows typed and the collateral finite.
LEMMA NextExposure ==
  ASSUME ExposureInv, [Next]_vars
  PROVE  ExposureInv'
<1>1. ASSUME NEW t \in Tickers, NextDay(t) PROVE ExposureInv'
  BY <1>1, NextDayExposure
<1>2. ASSUME NEW t \in Tickers, NEW p \in Prices, Tick(t, p) PROVE ExposureInv'
  BY <1>2, TickExposure
<1>3. ASSUME NEW i \in Items, Post(i) PROVE ExposureInv'
  BY <1>3, PostExposure
<1>4. CASE UNCHANGED vars
  BY <1>4 DEF vars, ExposureInv
<1>5. ASSUME NEW t \in Moving, NEW p \in Prices \cup {NoPrice}, Quote(t, p) PROVE ExposureInv'
  BY <1>5, QuoteExposure
<1> QED
  BY <1>1, <1>2, <1>3, <1>4, <1>5, RowExposure DEF Next

\* The rows have their types, a shock's price is the ticker's, and the
\* collateral is finite.
THEOREM ExposureInductive == Spec => []ExposureInv
<1>1. Init => ExposureInv
  BY InitExposure
<1>2. ExposureInv /\ [Next]_vars => ExposureInv'
  BY NextExposure
<1> QED
  BY <1>1, <1>2, PTL DEF Spec

-----------------------------------------------------------------------------
(* What a run computes from them.                                          *)

\* What a run that can price its portfolio reads is numbers.
LEMMA PricedRows ==
  ASSUME ExposureInv, NEW cp \in CPs, compute_exposure_ok(cp)
  PROVE  \A t \in TickersOf(cp) :
           /\ t \in DOMAIN get_prices /\ get_prices[t] \in Int /\ get_prices[t] = quotes[t]
           /\ t \in DOMAIN latest_closes_before /\ latest_closes_before[t] \in Int
           /\ RISK_WEIGHTS[t] \in Nat
<1>1. DOMAIN load_positions(cp) = TickersOf(cp)
  BY LoadedPositions
<1>2. TickersOf(cp) \subseteq DOMAIN get_prices /\ TickersOf(cp) \subseteq DOMAIN latest_closes_before
  BY <1>1 DEF compute_exposure_ok, CanPrice
<1>3. \A t \in DOMAIN get_prices : t \in Tickers /\ get_prices[t] = quotes[t]
  BY DEF get_prices, Known, Restrict
<1>4. \A t \in DOMAIN latest_closes_before : t \in Tickers /\ latest_closes_before[t] = closes[t]
  BY DEF latest_closes_before, Known, Restrict
<1>5. \A t \in Tickers : quotes[t] \in Int /\ closes[t] \in Int
  BY NumbersAssumption DEF ExposureInv, NoPrice
<1>6. \A t \in TickersOf(cp) : RISK_WEIGHTS[t] \in Nat
  BY BookAssumption DEF TickersOf, Held
<1> QED
  BY <1>2, <1>3, <1>4, <1>5, <1>6

\* So is the VIX, the one the run falls back to included.
LEMMA VixIsInt == ExposureInv => vix \in Int
BY NumbersAssumption DEF ExposureInv, NoVix

\* Its exposure at any prices of what it holds.
LEMMA ExposureIsSum ==
  ASSUME ExposureInv, NEW cp \in CPs, compute_exposure_ok(cp),
         NEW price, \A t \in TickersOf(cp) : price[t] \in Int
  PROVE  LET D == TickersOf(cp)
             m == compute_mtm(load_positions(cp), price)
             n == compute_mtm(load_positions(cp), latest_closes_before)
         IN /\ m \in [D -> Int] /\ \A t \in D : m[t] = load_positions(cp)[t] * price[t]
            /\ n \in [D -> Int] /\ \A t \in D : n[t] = load_positions(cp)[t] * latest_closes_before[t]
            /\ SumFunctionOnSet(m, D) \in Int /\ SumFunctionOnSet(n, D) \in Int
            /\ Margins(m) \in [D -> Int] /\ SumFunctionOnSet(Margins(m), D) \in Int
            /\ vix_multiplier(vix) \in Int
            /\ compute_variation_margin(m, n) \in Int /\ compute_initial_margin(m, vix) \in Int
            /\ compute_exposure(cp, price) =
                 UNIT * (SumFunctionOnSet(m, D) - SumFunctionOnSet(n, D))
                   + SumFunctionOnSet(Margins(m), D) * vix_multiplier(vix)
            /\ compute_exposure(cp, price) \in Int
<1> DEFINE D == TickersOf(cp)
           q == load_positions(cp)
           m == compute_mtm(q, price)
           n == compute_mtm(q, latest_closes_before)
<1>1. IsFiniteSet(D) /\ q \in [D -> Int]
  BY LoadedPositions
<1>2. \A t \in D : latest_closes_before[t] \in Int /\ RISK_WEIGHTS[t] \in Nat
  BY PricedRows
<1>3. vix \in Int
  BY VixIsInt
<1>4. compute_exposure(cp, price) = UNIT * (total_mtm(m) - total_mtm(n)) + compute_initial_margin(m, vix)
  BY DEF compute_exposure, compute_variation_margin
<1>5. compute_variation_margin(m, n) = UNIT * (total_mtm(m) - total_mtm(n)) /\ UNIT \in Int
  BY DEF compute_variation_margin, UNIT, VIX_BASELINE
<1>6. \A t \in D : price[t] \in Int
  OBVIOUS
<1> HIDE DEF D, q
<1>7. /\ m \in [D -> Int] /\ \A t \in D : m[t] = q[t] * price[t]
      /\ total_mtm(m) = SumFunctionOnSet(m, D) /\ total_mtm(m) \in Int
  BY <1>1, <1>6, MtmIsSum
<1>8. /\ n \in [D -> Int] /\ \A t \in D : n[t] = q[t] * latest_closes_before[t]
      /\ total_mtm(n) = SumFunctionOnSet(n, D) /\ total_mtm(n) \in Int
  BY <1>1, <1>2, MtmIsSum
<1> HIDE DEF m, n
<1>9. /\ Margins(m) \in [D -> Int]
      /\ compute_initial_margin(m, vix) = SumFunctionOnSet(Margins(m), D) * vix_multiplier(vix)
      /\ SumFunctionOnSet(Margins(m), D) \in Int /\ vix_multiplier(vix) \in Int
      /\ compute_initial_margin(m, vix) \in Int
  BY <1>1, <1>2, <1>3, <1>7, MarginIsSum
<1>10. compute_variation_margin(m, n) \in Int /\ compute_exposure(cp, price) \in Int
  BY <1>4, <1>5, <1>7, <1>8, <1>9
<1> QED
  BY <1>4, <1>7, <1>8, <1>9, <1>10 DEF D, m, n, q

-----------------------------------------------------------------------------
(* The board.                                                              *)

\* The query of one counterparty and that of all compute the same sum.
LEMMA HeldIsWorth ==
  ASSUME ExposureInv
  PROVE  /\ collateral_held = SumFunctionOnSet(Worth, items)
         /\ collateral_held_for_counterparties = SumFunctionOnSet(Worth, items)
         /\ collateral_held \in Int
<1>1. items \in SUBSET Items /\ IsFiniteSet(items)
  BY DEF ExposureInv
<1>2. collateral_held = SumFunctionOnSet(Worth, items)
  BY <1>1, HeldIsSum DEF collateral_held
<1>3. collateral_held_for_counterparties = SumFunctionOnSet(Worth, items)
  BY <1>1, BatchIsSum
<1>4. IntOn(Worth, items)
  BY <1>1, WorthIsInt DEF IntOn
<1> QED
  BY <1>1, <1>2, <1>3, <1>4, SumIsInt

\* A trigger can only lower the threshold.
LEMMA ThresholdIsWithin ==
  ASSUME NEW csa \in CSAs, NEW r
  PROVE  effective_threshold(csa, r) \in Nat /\ effective_threshold(csa, r) <= csa.threshold
<1> DEFINE reduced == {c.reduced_threshold : c \in fired(csa, r)}
<1>1. csa.threshold \in Nat
  BY NumbersAssumption
<1>2. \A a \in reduced : a \in Nat /\ a <= csa.threshold
  <2>1. \A c \in fired(csa, r) : c \in csa.rating_triggers
    BY DEF fired
  <2>2. \A c \in csa.rating_triggers : c.reduced_threshold \in Nat /\ c.reduced_threshold <= csa.threshold
    <3>1. csa.rating_triggers \in SUBSET [below_grade : Nat, reduced_threshold : Nat]
      BY NumbersAssumption
    <3>2. \A c \in csa.rating_triggers : c.reduced_threshold <= csa.threshold
      BY NumbersAssumption
    <3> QED
      BY <3>1, <3>2
  <2> QED
    BY <2>1, <2>2
<1>3. effective_threshold(csa, r) =
        IF reduced = {} THEN csa.threshold ELSE CHOOSE a \in reduced : \A b \in reduced : a <= b
  BY DEF effective_threshold
<1> HIDE DEF reduced
<1>4. CASE reduced = {}
  BY <1>1, <1>3, <1>4
<1>5. CASE reduced # {}
  <2>1. \E a \in reduced : \A b \in reduced : a <= b
    BY <1>2, <1>5, LeastOf
  <2>2. effective_threshold(csa, r) \in reduced
    BY <1>3, <1>5, <2>1
  <2> QED
    BY <1>2, <2>2
<1> QED
  BY <1>4, <1>5

\* The call never falls when the threshold does.
LEMMA CallFollowsThreshold ==
  ASSUME NEW e \in Int, NEW h \in Int, NEW lower \in Int, NEW upper \in Int, lower <= upper, NEW mta \in Nat
  PROVE  evaluate_breach(e, h, upper, mta).call_amount <= evaluate_breach(e, h, lower, mta).call_amount
BY DEF evaluate_breach, required_support, Largest

\* The exposure of a portfolio that can be priced is a whole number of units.
LEMMA EvaluableExposure ==
  ASSUME ExposureInv, compute_exposure_ok(CP)
  PROVE  compute_exposure(CP, get_prices) \in Int
<1>1. CP \in CPs
  BY BookAssumption
<1>2. \A t \in TickersOf(CP) : get_prices[t] \in Int
  BY <1>1, PricedRows
<1> QED
  BY <1>1, <1>2, ExposureIsSum

\* While the feed quotes what is stored for the book, both price it alike.
LEMMA FeedIsStored ==
  ASSUME \A t \in DOMAIN load_positions(CP) : quotes[t] = latest[t]
  PROVE  /\ CanPrice(load_positions(CP), get_prices) <=> CanPrice(load_positions(CP), latest_prices)
         /\ CanPrice(load_positions(CP), get_prices) =>
              compute_exposure(CP, get_prices) = compute_exposure(CP, latest_prices)
<1> DEFINE q == load_positions(CP)
<1>1. \A t \in DOMAIN q : t \in DOMAIN get_prices <=> t \in DOMAIN latest_prices
  BY DEF get_prices, latest_prices, Known, Restrict
<1>2. \A t \in DOMAIN q : t \in DOMAIN get_prices => get_prices[t] = latest_prices[t]
  BY <1>1 DEF get_prices, latest_prices, Known, Restrict
<1>3. ASSUME CanPrice(q, get_prices) PROVE compute_mtm(q, get_prices) = compute_mtm(q, latest_prices)
  <2>1. \A t \in DOMAIN q : get_prices[t] = latest_prices[t]
    BY <1>2, <1>3 DEF CanPrice
  <2> HIDE DEF q
  <2> QED
    BY <2>1 DEF compute_mtm
<1>4. CanPrice(q, get_prices) <=> CanPrice(q, latest_prices)
  <2> HIDE DEF q
  <2> QED
    BY <1>1 DEF CanPrice
<1> QED
  BY <1>3, <1>4 DEF compute_exposure

\* The board is available exactly when a run could evaluate, and never
\* shows a call a run would not raise, or a larger one, whatever the rows
\* and the terms, as long as the feed quotes what is stored: its thresholds
\* are the documents' before any trigger.
LEMMA BoardIsWithin == ExposureInv => BoardWithinRun
<1> SUFFICES ASSUME ExposureInv, csa_terms = documents,
                    \A t \in DOMAIN load_positions(CP) : quotes[t] = latest[t]
             PROVE  /\ Evaluable <=> board_exposure.status # "unavailable"
                    /\ Evaluable => board_exposure.call_amount <= evaluate_breach_node(documents).call_amount
  BY DEF BoardWithinRun
<1>1. Evaluable <=> board_available
  BY FeedIsStored DEF Evaluable, board_available, compute_exposure_ok, CanPrice
<1>2. ASSUME ~Evaluable PROVE board_exposure.status = "unavailable"
  BY <1>1, <1>2 DEF board_exposure, Unavailable
<1> DEFINE e == compute_exposure(CP, latest_prices)
           h == collateral_held_for_counterparties
           b == evaluate_breach(e, h, documents.threshold, documents.mta)
<1>3. ASSUME Evaluable
      PROVE  /\ board_exposure.call_amount = b.call_amount
             /\ board_exposure.status \in {"breached", "at_risk", "healthy"}
  <2>1. board_exposure = [status |-> classify_status(e, documents.threshold, b), call_amount |-> b.call_amount]
    BY <1>1, <1>3 DEF board_exposure
  <2> HIDE DEF b, e, h
  <2> QED
    BY <2>1 DEF classify_status
<1>4. ASSUME Evaluable PROVE b.call_amount <= evaluate_breach_node(documents).call_amount
  <2>1. documents \in CSAs /\ documents.threshold \in Nat /\ documents.mta \in Nat
    BY <1>4, NumbersAssumption DEF Evaluable, ExposureInv
  <2>2. effective_threshold(documents, rating) \in Int /\ effective_threshold(documents, rating) <= documents.threshold
    BY <2>1, ThresholdIsWithin
  <2>3. e = compute_exposure(CP, get_prices) /\ e \in Int /\ h \in Int /\ h = collateral_held
    BY <1>4, EvaluableExposure, FeedIsStored, HeldIsWorth DEF Evaluable, compute_exposure_ok
  <2>4. evaluate_breach_node(documents) = evaluate_breach(e, h, effective_threshold(documents, rating), documents.mta)
    BY <2>3 DEF evaluate_breach_node
  <2> HIDE DEF e, h
  <2>5. evaluate_breach(e, h, documents.threshold, documents.mta).call_amount
          <= evaluate_breach(e, h, effective_threshold(documents, rating), documents.mta).call_amount
    <3>1. documents.threshold \in Int
      BY <2>1
    <3> QED
      BY <2>1, <2>2, <2>3, <3>1, CallFollowsThreshold
  <2> QED
    BY <2>4, <2>5
<1> QED
  BY <1>2, <1>3, <1>4

\* With the terms it has not cached from older documents, and the feed quoting
\* the prices stored for the book, the board is available exactly when a run
\* could evaluate, and never shows a call that a run would not raise, or a
\* larger one.
THEOREM BoardHolds == Spec => []BoardWithinRun
BY ExposureInductive, BoardIsWithin, PTL

-----------------------------------------------------------------------------
(* The event's own move.                                                   *)

\* One ticker's sum.
LEMMA SumOfOne ==
  ASSUME NEW t, NEW f, f[t] \in Int
  PROVE  SumFunctionOnSet(f, {t}) = f[t]
<1>1. IsFiniteSet({t}) /\ IntOn(f, {t}) /\ {t} \ {t} = {}
  BY FS_Singleton DEF IntOn
<1>2. SumFunctionOnSet(f, {t}) = f[t] + SumFunctionOnSet(f, {t} \ {t})
  BY <1>1, SumTakes
<1> QED
  BY <1>1, <1>2, SumOfNone

\* Sums that differ in one element.
LEMMA SumsDiffer ==
  ASSUME NEW D, IsFiniteSet(D), NEW t \in D, NEW f, NEW g, IntOn(f, D), IntOn(g, D),
         \A u \in D \ {t} : f[u] = g[u]
  PROVE  /\ SumFunctionOnSet(f, D) - SumFunctionOnSet(g, D) = f[t] - g[t]
         /\ SumFunctionOnSet(f, D) \in Int /\ SumFunctionOnSet(g, D) \in Int
<1> DEFINE R == D \ {t}
<1>1. IsFiniteSet(R) /\ IntOn(f, R) /\ f[t] \in Int /\ g[t] \in Int
  BY FS_Subset DEF IntOn
<1>2. SumFunctionOnSet(f, D) = f[t] + SumFunctionOnSet(f, R) /\ SumFunctionOnSet(g, D) = g[t] + SumFunctionOnSet(g, R)
  BY SumTakes
<1>3. SumFunctionOnSet(f, R) = SumFunctionOnSet(g, R) /\ SumFunctionOnSet(f, R) \in Int
  <2> \A u \in R : f[u] = g[u]
    OBVIOUS
  <2> HIDE DEF R
  <2> QED
    BY <1>1, SumsAgree, SumIsInt
<1> HIDE DEF R
<1> QED
  BY <1>1, <1>2, <1>3

\* Differences keep their sign and size under one multiplier.
LEMMA Multiplied ==
  ASSUME NEW a \in Int, NEW b \in Int, NEW c \in Int, NEW d \in Int, a - b = c - d, NEW j \in Int
  PROVE  a * j - b * j = c * j - d * j
<1>1. a = b + (c - d)
  OBVIOUS
<1>2. a * j = b * j + (c - d) * j
  BY <1>1
<1>3. (c - d) * j = c * j - d * j
  OBVIOUS
<1>4. a * j \in Int /\ b * j \in Int /\ c * j \in Int /\ d * j \in Int
  OBVIOUS
<1> QED
  BY <1>2, <1>3, <1>4

\* What an event did to the exposure is what the whole book's exposure would
\* be without it, subtracted.
LEMMA ImpactIsDifference == ExposureInv => ImpactIsTheDifference
<1> SUFFICES ASSUME ExposureInv, Evaluable, move # NoMove, move.ticker \in DOMAIN load_positions(CP)
             PROVE  event_impact_for = compute_exposure(CP, [get_prices EXCEPT ![move.ticker] = move.to])
                         - compute_exposure(CP, [get_prices EXCEPT ![move.ticker] = move.from])
  BY DEF ImpactIsTheDifference
<1> DEFINE D == TickersOf(CP)
           q == load_positions(CP)
           t == move.ticker
           p == get_prices
           p1 == [get_prices EXCEPT ![t] = move.to]
           p0 == [get_prices EXCEPT ![t] = move.from]
           m1 == compute_mtm(q, p1)
           m0 == compute_mtm(q, p0)
           n == compute_mtm(q, latest_closes_before)
           k == vix_multiplier(vix)
<1>1. CP \in CPs /\ compute_exposure_ok(CP)
  BY BookAssumption DEF Evaluable
<1>2. IsFiniteSet(D) /\ q \in [D -> Int] /\ t \in D
  BY <1>1, LoadedPositions
<1>3. \A u \in D : u \in DOMAIN p /\ p[u] \in Int
  BY <1>1, PricedRows
<1>4. move.from \in Int /\ move.to \in Int
  <2>1. move \in [ticker : Tickers, from : Prices, to : Prices]
    BY DEF ExposureInv
  <2>2. \A price \in Prices : price \in Int
    BY NumbersAssumption
  <2> QED
    BY <2>1, <2>2
<1>5. /\ p0[t] = move.from /\ p1[t] = move.to
      /\ \A u \in D : p0[u] \in Int /\ p1[u] \in Int /\ (u # t => p0[u] = p1[u])
  BY <1>2, <1>3, <1>4
<1>6. /\ m1 \in [D -> Int] /\ \A u \in D : m1[u] = q[u] * p1[u]
      /\ Margins(m1) \in [D -> Int] /\ SumFunctionOnSet(n, D) \in Int /\ k \in Int
      /\ compute_exposure(CP, p1) = UNIT * (SumFunctionOnSet(m1, D) - SumFunctionOnSet(n, D))
                                       + SumFunctionOnSet(Margins(m1), D) * k
  <2> HIDE DEF p1
  <2> QED
    BY <1>1, <1>5, ExposureIsSum
<1>7. /\ m0 \in [D -> Int] /\ \A u \in D : m0[u] = q[u] * p0[u]
      /\ Margins(m0) \in [D -> Int]
      /\ compute_exposure(CP, p0) = UNIT * (SumFunctionOnSet(m0, D) - SumFunctionOnSet(n, D))
                                       + SumFunctionOnSet(Margins(m0), D) * k
  <2> HIDE DEF p0
  <2> QED
    BY <1>1, <1>5, ExposureIsSum
<1> DEFINE x1 == q[t] * move.to
           x0 == q[t] * move.from
           w1 == Size(x1) * RISK_WEIGHTS[t]
           w0 == Size(x0) * RISK_WEIGHTS[t]
<1>8. m1[t] = x1 /\ m0[t] = x0 /\ Margins(m1)[t] = w1 /\ Margins(m0)[t] = w0
  BY <1>2, <1>5, <1>6, <1>7 DEF Margins
<1>9. \A u \in D \ {t} : m1[u] = m0[u] /\ Margins(m1)[u] = Margins(m0)[u]
  <2> HIDE DEF m1, m0, p1, p0, D, q, t
  <2>1. \A u \in D \ {t} : m1[u] = m0[u]
    BY <1>5, <1>6, <1>7
  <2> QED
    BY <1>6, <1>7, <2>1 DEF Margins
\* The event's: one ticker's positions.
<1> DEFINE a == Restrict(q, DOMAIN q \cap DOMAIN [u \in {t} |-> move.to])
           e1 == compute_mtm(a, [u \in {t} |-> move.to])
           e0 == compute_mtm(a, [u \in {t} |-> move.from])
<1>10. a \in [{t} -> Int] /\ a[t] = q[t]
  BY <1>2 DEF Restrict
<1>11. /\ e1 = [u \in {t} |-> x1] /\ e0 = [u \in {t} |-> x0]
       /\ x1 \in Int /\ x0 \in Int /\ w1 \in Int /\ w0 \in Int
  <2>1. e1 = [u \in {t} |-> x1] /\ e0 = [u \in {t} |-> x0]
    BY <1>4, <1>10 DEF compute_mtm
  <2>2. x1 \in Int /\ x0 \in Int
    BY <1>2, <1>3, <1>4
  <2>3. RISK_WEIGHTS[t] \in Int
    BY <1>1, <1>2, PricedRows
  <2>4. Size(x1) \in Int /\ Size(x0) \in Int
    BY <2>2 DEF Size
  <2> QED
    BY <2>1, <2>2, <2>3, <2>4
<1>12. event_impact_for = UNIT * (total_mtm(e1) - total_mtm(e0))
                            + compute_initial_margin(e1, vix) - compute_initial_margin(e0, vix)
  BY DEF event_impact_for, event_exposure_impact, compute_variation_margin
<1> HIDE DEF D, q, t, p, p1, p0, m1, m0, n, k, x1, x0, w1, w0, a, e1, e0
<1>13. total_mtm(e1) = x1 /\ total_mtm(e0) = x0
  BY <1>11, SumOfOne DEF total_mtm, SumFunction
<1>14. compute_initial_margin(e1, vix) = w1 * k /\ compute_initial_margin(e0, vix) = w0 * k
  <2>1. compute_initial_margin(e1, vix) = SumFunction(Margins(e1)) * k /\ compute_initial_margin(e0, vix) = SumFunction(Margins(e0)) * k
    BY DEF compute_initial_margin, Margins, k
  <2>2. Margins(e1) = [u \in {t} |-> w1] /\ Margins(e0) = [u \in {t} |-> w0]
    BY <1>11 DEF Margins, w1, w0
  <2> QED
    BY <1>11, <2>1, <2>2, SumOfOne DEF SumFunction
<1>15. /\ SumFunctionOnSet(m1, D) - SumFunctionOnSet(m0, D) = x1 - x0
       /\ SumFunctionOnSet(m1, D) \in Int /\ SumFunctionOnSet(m0, D) \in Int
  <2>1. IntOn(m1, D) /\ IntOn(m0, D)
    BY <1>6, <1>7 DEF IntOn
  <2> QED
    BY <1>2, <1>8, <1>9, <2>1, SumsDiffer
<1>16. /\ SumFunctionOnSet(Margins(m1), D) - SumFunctionOnSet(Margins(m0), D) = w1 - w0
       /\ SumFunctionOnSet(Margins(m1), D) \in Int /\ SumFunctionOnSet(Margins(m0), D) \in Int
  <2>1. IntOn(Margins(m1), D) /\ IntOn(Margins(m0), D)
    BY <1>6, <1>7 DEF IntOn
  <2> QED
    BY <1>2, <1>8, <1>9, <2>1, SumsDiffer
<1>17. SumFunctionOnSet(Margins(m1), D) * k - SumFunctionOnSet(Margins(m0), D) * k = w1 * k - w0 * k
  BY <1>6, <1>11, <1>16, Multiplied
<1>18. UNIT * (x1 - x0) + w1 * k - w0 * k =
         (UNIT * (SumFunctionOnSet(m1, D) - SumFunctionOnSet(n, D)) + SumFunctionOnSet(Margins(m1), D) * k)
           - (UNIT * (SumFunctionOnSet(m0, D) - SumFunctionOnSet(n, D)) + SumFunctionOnSet(Margins(m0), D) * k)
  <2>1. /\ SumFunctionOnSet(Margins(m1), D) * k \in Int /\ SumFunctionOnSet(Margins(m0), D) * k \in Int
        /\ w1 * k \in Int /\ w0 * k \in Int
    BY <1>6, <1>11, <1>16
  <2> QED
    BY <1>6, <1>11, <1>15, <1>17, <2>1 DEF UNIT, VIX_BASELINE
<1>19. event_impact_for = compute_exposure(CP, p1) - compute_exposure(CP, p0)
  BY <1>6, <1>7, <1>12, <1>13, <1>14, <1>18
<1> QED
  BY <1>19 DEF p1, p0, t

\* A shock's measured impact is what the whole book's exposure moved by.
THEOREM ImpactHolds == Spec => []ImpactIsTheDifference
BY ExposureInductive, ImpactIsDifference, PTL

-----------------------------------------------------------------------------
(* The twins.                                                              *)

\* One counterparty's bin is the sum over its tickers.
LEMMA BinIsSum ==
  ASSUME NEW cp \in CPs, NEW h, \A t \in TickersOf(cp) : h[t] \in Int,
         NEW weight, \A k \in Held(cp) : weight[k] = h[Book[k].ticker]
  PROVE  bincount(Book, CPs, weight)[cp] = SumFunctionOnSet(h, TickersOf(cp))
<1> DEFINE b == [k \in DOMAIN Book |-> Book[k].ticker]
           S == Held(cp)
           R == TickersOf(cp)
<1>1. bincount(Book, CPs, weight)[cp] = SumFunctionOnSet(weight, S)
  BY DEF bincount, Held
<1>2. IsFiniteSet(S)
  BY LoadedPositions
<1>3. \A k \in S : b[k] = Book[k].ticker /\ b[k] \in R
  BY DEF TickersOf, Held
<1>4. \A k, l \in S : b[k] = b[l] => k = l
  BY BookAssumption DEF Held
<1>5. \A t \in R : \E k \in S : t = b[k]
  BY <1>3 DEF TickersOf
<1>6. IntOn(weight, S) /\ \A k \in S : weight[k] = h[b[k]]
  BY <1>3 DEF IntOn
<1>7. Matches(b, S, R)
  BY <1>3, <1>4, <1>5 DEF Matches
<1> HIDE DEF b, S, R
<1>8. SumFunctionOnSet(h, R) = SumFunctionOnSet(weight, S)
  BY <1>2, <1>6, <1>7, SumMoves
<1> QED
  BY <1>1, <1>8 DEF R, S

TwinVm ==
  vc_variation_margin(vc_portfolio_mtm(Book, CPs, get_prices), vc_portfolio_mtm(Book, CPs, latest_closes_before))
TwinIm == vc_initial_margin(Book, CPs, get_prices, vix)

\* The twin's margins add up to the engine's exposure.
LEMMA TwinExposure ==
  ASSUME ExposureInv, NEW cp \in CPs, compute_exposure_ok(cp)
  PROVE  TwinVm[cp] + TwinIm[cp] = compute_exposure(cp, get_prices)
<1> DEFINE D == TickersOf(cp)
           q == load_positions(cp)
           m == compute_mtm(q, get_prices)
           n == compute_mtm(q, latest_closes_before)
<1>1. /\ m \in [D -> Int] /\ \A t \in D : m[t] = q[t] * get_prices[t]
      /\ n \in [D -> Int] /\ \A t \in D : n[t] = q[t] * latest_closes_before[t]
      /\ Margins(m) \in [D -> Int]
      /\ compute_exposure(cp, get_prices) =
           UNIT * (SumFunctionOnSet(m, D) - SumFunctionOnSet(n, D)) + SumFunctionOnSet(Margins(m), D) * vix_multiplier(vix)
  <2>1. \A t \in D : get_prices[t] \in Int
    BY PricedRows
  <2> QED
    BY <2>1, ExposureIsSum
<1>2. \A k \in Held(cp) : Book[k].ticker \in D /\ k \in DOMAIN Book /\ q[Book[k].ticker] = Book[k].quantity
  BY LoadedPositions DEF TickersOf, Held
<1> DEFINE wm == [k \in DOMAIN Book |-> Book[k].quantity * get_prices[Book[k].ticker]]
           wn == [k \in DOMAIN Book |-> Book[k].quantity * latest_closes_before[Book[k].ticker]]
           wi == [k \in DOMAIN Book |->
                    Size(Book[k].quantity * get_prices[Book[k].ticker]) * RISK_WEIGHTS[Book[k].ticker]]
<1>3. TwinVm[cp] = UNIT * (bincount(Book, CPs, wm)[cp] - bincount(Book, CPs, wn)[cp])
  BY DEF TwinVm, vc_variation_margin, vc_portfolio_mtm, bincount
<1>4. TwinIm[cp] = bincount(Book, CPs, wi)[cp] * vix_multiplier(vix)
  BY DEF TwinIm, vc_initial_margin
<1> HIDE DEF q, m, n
<1>5. \A k \in Held(cp) : wm[k] = m[Book[k].ticker] /\ wn[k] = n[Book[k].ticker]
  BY <1>1, <1>2
<1>6. \A k \in Held(cp) : wi[k] = Margins(m)[Book[k].ticker]
  <2> TAKE k \in Held(cp)
  <2>1. wi[k] = Size(wm[k]) * RISK_WEIGHTS[Book[k].ticker]
    BY <1>2
  <2>2. Margins(m)[Book[k].ticker] = Size(m[Book[k].ticker]) * RISK_WEIGHTS[Book[k].ticker]
    BY <1>1, <1>2 DEF Margins
  <2> QED
    BY <1>5, <2>1, <2>2
<1> HIDE DEF wm, wn, wi
<1>7. bincount(Book, CPs, wm)[cp] = SumFunctionOnSet(m, D)
  BY <1>1, <1>5, BinIsSum
<1>8. bincount(Book, CPs, wn)[cp] = SumFunctionOnSet(n, D)
  BY <1>1, <1>5, BinIsSum
<1>9. bincount(Book, CPs, wi)[cp] = SumFunctionOnSet(Margins(m), D)
  BY <1>1, <1>6, BinIsSum
<1> QED
  BY <1>1, <1>3, <1>4, <1>7, <1>8, <1>9

\* One trigger, the same threshold.
LEMMA TwinThreshold ==
  ASSUME ExposureInv, NEW csa \in CSAs, NEW r \in csa.rating_triggers
  PROVE  LET one == [csa EXCEPT !.rating_triggers = {r}]
         IN /\ effective_threshold(one, rating) =
                 vc_effective_threshold(one.threshold, rating, r.below_grade, r.reduced_threshold)
            /\ one.mta = csa.mta
<1> DEFINE one == [csa EXCEPT !.rating_triggers = {r}]
           reduced == {c.reduced_threshold : c \in fired(one, rating)}
<1>1. /\ csa \in [threshold : Nat, mta : Nat, rating_triggers : SUBSET [below_grade : Nat, reduced_threshold : Nat]]
      /\ r.below_grade \in Nat /\ rating \in Int
  <2>1. csa \in [threshold : Nat, mta : Nat, rating_triggers : SUBSET [below_grade : Nat, reduced_threshold : Nat]]
    BY NumbersAssumption
  <2>2. rating \in Int
    BY NumbersAssumption DEF ExposureInv, NoRating
  <2> QED
    BY <2>1, <2>2
<1>2. one.rating_triggers = {r} /\ one.mta = csa.mta
  BY <1>1
<1>3. effective_threshold(one, rating) =
        IF reduced = {} THEN one.threshold ELSE CHOOSE a \in reduced : \A b \in reduced : a <= b
  BY DEF effective_threshold
<1>4. CASE rating > r.below_grade
  <2>1. fired(one, rating) = {r}
    BY <1>2, <1>4 DEF fired
  <2>2. reduced = {r.reduced_threshold}
    BY <2>1
  <2>3. r.reduced_threshold \in Nat
    BY <1>1
  <2> HIDE DEF reduced, one
  <2>4. effective_threshold(one, rating) = r.reduced_threshold
    BY <1>3, <2>2, <2>3
  <2>5. rating >= 0
    BY <1>1, <1>4
  <2> QED
    BY <1>2, <1>4, <2>4, <2>5 DEF vc_effective_threshold, one
<1>5. CASE ~(rating > r.below_grade)
  <2>1. fired(one, rating) = {}
    BY <1>2, <1>5 DEF fired
  <2>2. reduced = {}
    BY <2>1
  <2> QED
    BY <1>2, <1>3, <1>5, <2>2 DEF vc_effective_threshold
<1> QED
  BY <1>4, <1>5

\* The twins agree on every state the rows can be in.
LEMMA TwinsDo == ExposureInv => TwinsAgree
<1> SUFFICES ASSUME ExposureInv, Evaluable, \A cp \in CPs : compute_exposure_ok(cp)
             PROVE  /\ \A cp \in CPs : TwinVm[cp] + TwinIm[cp] = compute_exposure(cp, get_prices)
                    /\ \A r \in documents.rating_triggers :
                         LET csa == [documents EXCEPT !.rating_triggers = {r}]
                             threshold == vc_effective_threshold(csa.threshold, rating, r.below_grade, r.reduced_threshold)
                             twin == vc_evaluate_breach(TwinVm[CP] + TwinIm[CP], collateral_held, threshold, csa.mta)
                         IN /\ threshold = effective_threshold(csa, rating)
                            /\ [breached |-> twin.breached, call_amount |-> twin.call_amount] = evaluate_breach_node(csa)
  BY DEF TwinsAgree, TwinVm, TwinIm
<1>1. \A cp \in CPs : TwinVm[cp] + TwinIm[cp] = compute_exposure(cp, get_prices)
  BY TwinExposure
<1>2. CP \in CPs /\ documents \in CSAs
  BY BookAssumption DEF Evaluable, ExposureInv
<1>3. ASSUME NEW r \in documents.rating_triggers
      PROVE  LET csa == [documents EXCEPT !.rating_triggers = {r}]
                 threshold == vc_effective_threshold(csa.threshold, rating, r.below_grade, r.reduced_threshold)
                 twin == vc_evaluate_breach(TwinVm[CP] + TwinIm[CP], collateral_held, threshold, csa.mta)
             IN /\ threshold = effective_threshold(csa, rating)
                /\ [breached |-> twin.breached, call_amount |-> twin.call_amount] = evaluate_breach_node(csa)
  <2> DEFINE csa == [documents EXCEPT !.rating_triggers = {r}]
             threshold == vc_effective_threshold(csa.threshold, rating, r.below_grade, r.reduced_threshold)
             twin == vc_evaluate_breach(TwinVm[CP] + TwinIm[CP], collateral_held, threshold, csa.mta)
  <2>1. threshold = effective_threshold(csa, rating)
    BY <1>2, TwinThreshold
  <2>2. evaluate_breach_node(csa) = evaluate_breach(TwinVm[CP] + TwinIm[CP], collateral_held, threshold, csa.mta)
    BY <1>1, <1>2, <2>1 DEF evaluate_breach_node
  <2> HIDE DEF threshold, csa
  <2>3. [breached |-> twin.breached, call_amount |-> twin.call_amount]
          = evaluate_breach(TwinVm[CP] + TwinIm[CP], collateral_held, threshold, csa.mta)
    BY DEF vc_evaluate_breach, evaluate_breach, required_support
  <2> QED
    BY <2>1, <2>2, <2>3 DEF threshold, csa
<1> QED
  BY <1>1, <1>3

\* The backfill's arrays give every counterparty the exposure, and this one
\* the threshold and the call, that the calculation engine gives it.
THEOREM TwinsHold == Spec => []TwinsAgree
BY ExposureInductive, TwinsDo, PTL

-----------------------------------------------------------------------------
(* The notice.                                                             *)

\* The sum of some lines.
LEMMA LinesIsSum ==
  ASSUME NEW L, IsFiniteSet(L), NEW v, \A l \in L : v[l] \in Int /\ v[l] = l.value_after_haircut
  PROVE  lines_sum(L) = SumFunctionOnSet(v, L)
<1> DEFINE F(g) == [s \in SUBSET L |-> IF s = {} THEN 0
                      ELSE (CHOOSE x \in s : TRUE).value_after_haircut + g[s \ {CHOOSE x \in s : TRUE}]]
           g == CHOOSE h : h = F(h)
           c == Chosen(L)
<1>1. lines_sum(L) = g[L]
  BY Zenon DEF lines_sum, MapThenSumSet, MapThenFoldSet
<1>2. IsChoice(c, L) /\ \A s \in SUBSET L : c[s] = CHOOSE x \in s : TRUE
  BY ChosenIsChoice
<1> HIDE DEF c
<1>3. \A l \in L : v[l] \in Int
  OBVIOUS
<1>4. \A s \in SUBSET L : s # {} => v[c[s]] = (CHOOSE x \in s : TRUE).value_after_haircut
  BY <1>2 DEF IsChoice
<1>5. PICK h : IsTable(h, v, c, L)
  BY <1>2, <1>3, TableExists
<1>6. h = F(h)
  <2> SUFFICES \A s \in SUBSET L : h[s] = F(h)[s]
    BY <1>5 DEF IsTable
  <2> TAKE s \in SUBSET L
  <2>1. CASE s = {}
    BY <1>5, <2>1 DEF IsTable
  <2>2. CASE s # {}
    BY <1>2, <1>4, <1>5, <2>2 DEF IsTable
  <2> QED
    BY <2>1, <2>2
<1>7. g = F(g)
  <2> HIDE DEF F
  <2> QED
    BY <1>6, Zenon
<1> HIDE DEF g
<1>8. Folds(g, v, c, L)
  <2>1. \A s \in SUBSET L : g[s] = F(g)[s]
    BY <1>7
  <2>2. g[{}] = 0
    BY <2>1
  <2>3. ASSUME NEW s \in SUBSET L, s # {} PROVE g[s] = v[c[s]] + g[s \ {c[s]}]
    BY <1>2, <1>4, <2>1, <2>3
  <2> QED
    BY <2>2, <2>3 DEF Folds
<1> QED
  BY <1>1, <1>2, <1>3, <1>8, FoldIsSum

\* The lines add up to the collateral they break down.
LEMMA LinesAddUp ==
  ASSUME ExposureInv
  PROVE  lines_sum(collateral_lines) = collateral_held
<1> DEFINE k == [i \in Items |-> <<i.collateral_type, i.haircut_pct>>]
           G == {k[i] : i \in items}
           group(g) == {i \in items : k[i] = g}
           h == [g \in G |-> SumFunctionOnSet(Worth, group(g))]
           line == [g \in G |-> [collateral_type |-> g[1], haircut_pct |-> g[2], value_after_haircut |-> h[g]]]
           L == {line[g] : g \in G}
           v == [l \in L |-> l.value_after_haircut]
<1>1. items \in SUBSET Items /\ IsFiniteSet(items) /\ IntOn(Worth, items)
  BY WorthIsInt DEF ExposureInv, IntOn
<1>2. \A i \in items : k[i] = <<i.collateral_type, i.haircut_pct>>
  BY <1>1
<1>3. \A g : {i \in items : <<i.collateral_type, i.haircut_pct>> = g} = group(g)
  BY <1>2
<1>4. {<<i.collateral_type, i.haircut_pct>> : i \in items} = G
  BY <1>2
<1>5. \A g : group(g) \in SUBSET Items /\ IsFiniteSet(group(g)) /\ IntOn(Worth, group(g))
  BY <1>1, FS_Subset DEF IntOn
<1>6. \A g : post_haircut_sum(group(g)) = SumFunctionOnSet(Worth, group(g)) /\ SumFunctionOnSet(Worth, group(g)) \in Int
  <2> TAKE g
  <2> HIDE DEF group
  <2> QED
    BY <1>5, HeldIsSum, SumIsInt
<1>7. collateral_lines = L
  <2> DEFINE raw(g) == [collateral_type |-> g[1], haircut_pct |-> g[2],
                        value_after_haircut |-> post_haircut_sum({i \in items : <<i.collateral_type, i.haircut_pct>> = g})]
  <2>1. collateral_lines = {raw(g) : g \in {<<i.collateral_type, i.haircut_pct>> : i \in items}}
    BY DEF collateral_lines
  <2>2. \A g \in G : raw(g) = line[g]
    <3> TAKE g \in G
    <3>1. raw(g).value_after_haircut = post_haircut_sum(group(g))
      BY <1>3, Zenon
    <3>2. h[g] = post_haircut_sum(group(g))
      BY <1>6
    <3> HIDE DEF h
    <3> QED
      BY <3>1, <3>2
  <2> HIDE DEF raw, line
  <2> QED
    BY <1>4, <2>1, <2>2
<1>8. \A g \in G : g = <<g[1], g[2]>> /\ h[g] \in Int /\ line[g].value_after_haircut = h[g]
                  /\ line[g].collateral_type = g[1] /\ line[g].haircut_pct = g[2]
  <2>1. \A g \in G : g = <<g[1], g[2]>>
    <3> TAKE g \in G
    <3>1. PICK i \in items : g = k[i]
      OBVIOUS
    <3> HIDE DEF k, G
    <3>2. g = <<i.collateral_type, i.haircut_pct>>
      BY <1>2, <3>1
    <3> QED
      BY <3>2
  <2>2. \A g \in G : h[g] \in Int
    BY <1>6
  <2> HIDE DEF h
  <2> QED
    BY <2>1, <2>2
<1>9. IsFiniteSet(G) /\ IsFiniteSet(L)
  <2>1. IsFiniteSet(G)
    <3> HIDE DEF k
    <3> QED
      BY <1>1, ImageIsFinite
  <2> HIDE DEF G, line
  <2> QED
    BY <2>1, ImageIsFinite
<1>10. Matches(line, G, L)
  <2>1. ASSUME NEW g \in G, NEW e \in G, line[g] = line[e] PROVE g = e
    <3> HIDE DEF line, G
    <3>1. line[g].collateral_type = g[1] /\ line[g].haircut_pct = g[2]
      BY <1>8
    <3>3. line[e].collateral_type = e[1] /\ line[e].haircut_pct = e[2]
      BY <1>8
    <3>2. g = <<g[1], g[2]>> /\ e = <<e[1], e[2]>>
      BY <1>8
    <3> QED
      BY <2>1, <3>1, <3>2, <3>3
  <2> HIDE DEF line
  <2> QED
    BY <2>1 DEF Matches
<1>11. \A l \in L : v[l] = l.value_after_haircut /\ v[l] \in Int
  <2> TAKE l \in L
  <2>1. PICK g \in G : l = line[g]
    OBVIOUS
  <2>2. v[l] = l.value_after_haircut
    OBVIOUS
  <2> HIDE DEF line, v, L, G, h
  <2> QED
    BY <1>8, <2>1, <2>2
<1>12. \A g \in G : h[g] = v[line[g]]
  <2>1. \A g \in G : line[g] \in L
    OBVIOUS
  <2> HIDE DEF L, line, h
  <2> QED
    BY <1>8, <2>1
<1>13. GroupSums(h, k, Worth, items)
  BY DEF GroupSums
<1>14. IntOn(h, G)
  BY <1>8 DEF IntOn
<1> HIDE DEF k, h, line, L, v
<1>15. SumFunctionOnSet(h, G) = SumFunctionOnSet(Worth, items)
  BY <1>1, <1>13, SumOfGroups
<1> HIDE DEF G
<1>16. SumFunctionOnSet(v, L) = SumFunctionOnSet(h, G)
  BY <1>9, <1>10, <1>12, <1>14, SumMoves
<1>17. lines_sum(L) = SumFunctionOnSet(v, L)
  BY <1>9, <1>11, LinesIsSum
<1> QED
  BY <1>7, <1>15, <1>16, <1>17, HeldIsWorth

-----------------------------------------------------------------------------
(* A run and its notice.                                                   *)

Runs ==
  [stage : {"idle", "terms", "evaluate", "lines", "approval", "approved", "notice"},
   vm : Int, im : Int, csa : CSAs \cup {NoTerms}, threshold : Int, held : Int, lines : Int, torn : BOOLEAN,
   call : Int, amount : Adjustments \cup Int, impact : SUBSET Int, older : BOOLEAN,
   notice : [vm : Int, im : Int, threshold : Int, held : Int, mta : Int, call : Int,
             adjusted : SUBSET (Adjustments \cup Int), lines : Int]]

\* The call is the one the kept numbers give.
CallIsTheirs == run.call = evaluate_breach(run.vm + run.im, run.held, run.threshold, run.csa.mta).call_amount

\* What a run keeps at each stage: terms from the CSA documents; the
\* collateral as it is, until a line is posted between the two queries; the
\* call those give; and lines that add up to the collateral it kept.
BreakdownInv ==
  /\ run \in Runs
  /\ run.stage \in {"evaluate", "lines", "approval", "approved"} => run.csa \in CSAs
  /\ run.stage = "lines" /\ ~run.torn => run.held = collateral_held
  /\ run.stage \in {"lines", "approval", "approved"} => CallIsTheirs
  /\ run.stage \in {"approval", "approved"} => run.call > 0 /\ (run.torn \/ run.lines = run.held)
  /\ NoticeAddsUp

\* The feed and the other rows, while a run is under way: every change but a posting,
\* which is PostMeanwhile's.
RowsChange ==
  /\ \/ \E t \in Tickers : NextDay(t) \/ \E p \in Prices : Tick(t, p)
     \/ \E t \in Moving, p \in Prices \cup {NoPrice} : Quote(t, p)
     \/ \E v \in VixLevels : PublishVix(v)
     \/ \E r \in Ratings : Rate(r)
     \/ \E csa \in CSAs : Ingest(csa)
     \/ ViewBoard
     \/ RestartBoard
  /\ UNCHANGED run

NoticeSpec == Init /\ BreakdownInit /\ [][BreakdownNext \/ RowsChange]_<<vars, run>>

\* No run has started.
LEMMA InitBreakdown == BreakdownInit => BreakdownInv
<1> SUFFICES ASSUME BreakdownInit PROVE BreakdownInv
  OBVIOUS
<1>1. NoRun \in Runs /\ NoRun.stage = "idle"
  BY DEF NoRun, Runs, NoRows, NoImpact
<1>2. run \in Runs /\ run.stage = "idle"
  <2>1. [NoRun EXCEPT !.older = TRUE] \in Runs /\ [NoRun EXCEPT !.older = TRUE].stage = "idle"
    BY <1>1 DEF Runs
  <2> QED
    BY <1>1, <2>1 DEF BreakdownInit
<1> QED
  BY <1>2 DEF BreakdownInv, NoticeAddsUp

\* What an event did to the exposure is a number.
LEMMA ImpactIsInt ==
  ASSUME ExposureInv, compute_exposure_ok(CP), move # NoMove
  PROVE  event_impact_for \in Int
<1> DEFINE D == TickersOf(CP)
           q == load_positions(CP)
           t == move.ticker
           A == DOMAIN q \cap DOMAIN [u \in {t} |-> move.to]
           a == Restrict(q, A)
           p1 == [u \in {t} |-> move.to]
           p0 == [u \in {t} |-> move.from]
           e1 == compute_mtm(a, p1)
           e0 == compute_mtm(a, p0)
<1>1. CP \in CPs
  BY BookAssumption
<1>2. IsFiniteSet(D) /\ q \in [D -> Int]
  BY <1>1, LoadedPositions
<1>3. A \in SUBSET D /\ A \in SUBSET {t}
  BY <1>2
<1>4. IsFiniteSet(A) /\ a \in [A -> Int]
  BY <1>2, <1>3, FS_Subset DEF Restrict
<1>5. \A u \in A : p1[u] \in Int /\ p0[u] \in Int /\ RISK_WEIGHTS[u] \in Nat
  <2>1. move.from \in Prices /\ move.to \in Prices
    BY DEF ExposureInv
  <2>2. \A p \in Prices : p \in Int
    BY NumbersAssumption
  <2>3. \A u \in D : RISK_WEIGHTS[u] \in Nat
    BY <1>1, PricedRows
  <2> HIDE DEF A
  <2> QED
    BY <1>3, <2>1, <2>2, <2>3
<1>6. vix \in Int
  BY VixIsInt
<1>7. event_impact_for = UNIT * (total_mtm(e1) - total_mtm(e0))
                            + compute_initial_margin(e1, vix) - compute_initial_margin(e0, vix)
  BY DEF event_impact_for, event_exposure_impact, compute_variation_margin
<1> HIDE DEF A, a, p1, p0
<1>8. e1 \in [A -> Int] /\ total_mtm(e1) \in Int /\ e0 \in [A -> Int] /\ total_mtm(e0) \in Int
  <2>1. (\A u \in A : p1[u] \in Int) /\ (\A u \in A : p0[u] \in Int)
    BY <1>5
  <2> QED
    BY <1>4, <2>1, MtmIsSum
<1> HIDE DEF e1, e0
<1>9. compute_initial_margin(e1, vix) \in Int /\ compute_initial_margin(e0, vix) \in Int
  <2>1. \A u \in A : RISK_WEIGHTS[u] \in Nat
    BY <1>5
  <2> QED
    BY <1>4, <1>6, <1>8, <2>1, MarginIsSum
<1> QED
  BY <1>7, <1>8, <1>9 DEF UNIT, VIX_BASELINE

\* The run's figures are of one reading of the rows.
LEMMA ComputeBreakdown ==
  ASSUME ExposureInv, BreakdownInv, ComputeExposure
  PROVE  BreakdownInv'
<1> DEFINE today == compute_mtm(load_positions(CP), get_prices)
           prior == compute_mtm(load_positions(CP), latest_closes_before)
           vm == compute_variation_margin(today, prior)
           im == compute_initial_margin(today, vix)
           impact == IF move = NoMove THEN NoImpact ELSE {event_impact_for}
<1>1. compute_exposure_ok(CP) /\ CP \in CPs
  BY BookAssumption DEF ComputeExposure
<1>2. vm \in Int /\ im \in Int
  <2>1. \A t \in TickersOf(CP) : get_prices[t] \in Int
    BY <1>1, PricedRows
  <2> QED
    BY <1>1, <2>1, ExposureIsSum
<1>3. impact \in SUBSET Int
  BY <1>1, ImpactIsInt DEF NoImpact
<1>4. run' = [run EXCEPT !.stage = "terms", !.vm = vm, !.im = im, !.impact = impact]
  BY DEF ComputeExposure
<1> HIDE DEF vm, im, impact
<1>5. run' \in Runs /\ run'.stage = "terms"
  BY <1>2, <1>3, <1>4 DEF BreakdownInv, Runs
<1> QED
  BY <1>5 DEF BreakdownInv, NoticeAddsUp

\* The terms are some CSA's.
LEMMA FetchBreakdown ==
  ASSUME ExposureInv, BreakdownInv, FetchTerms
  PROVE  BreakdownInv'
<1>1. documents \in CSAs
  BY DEF FetchTerms, ExposureInv
<1>2. run' \in Runs /\ run'.stage = "evaluate" /\ run'.csa \in CSAs
  BY <1>1 DEF FetchTerms, BreakdownInv, Runs
<1> QED
  BY <1>2 DEF BreakdownInv, NoticeAddsUp

\* The call is what these figures, this threshold and what is held say.
LEMMA EvaluateBreakdown ==
  ASSUME ExposureInv, BreakdownInv, EvaluateBreach
  PROVE  BreakdownInv'
<1> DEFINE th == effective_threshold(run.csa, rating)
           call == evaluate_breach(run.vm + run.im, collateral_held, th, run.csa.mta).call_amount
<1>1. run.csa \in CSAs /\ th \in Nat
  BY ThresholdIsWithin DEF EvaluateBreach, BreakdownInv
<1>2. run \in Runs /\ collateral_held \in Int
  BY HeldIsWorth DEF BreakdownInv
<1>3. run' = [run EXCEPT !.stage = "lines", !.held = collateral_held, !.threshold = th, !.torn = FALSE, !.call = call]
  BY DEF EvaluateBreach
<1>4. call \in Int
  <2>1. run.vm + run.im \in Int
    BY <1>2 DEF Runs
  <2> HIDE DEF th
  <2> QED
    BY <1>1, <1>2, <2>1 DEF evaluate_breach, required_support, Largest
<1>5. collateral_held' = collateral_held
  BY DEF EvaluateBreach, runVars, collateral_held
<1>6. /\ run' \in Runs /\ run'.stage = "lines" /\ run'.csa = run.csa /\ run'.held = collateral_held
      /\ run'.vm = run.vm /\ run'.im = run.im /\ run'.threshold = th /\ run'.call = call
  <2>1. th \in Int
    BY <1>1
  <2> HIDE DEF th, call
  <2>2. run' \in Runs
    BY <1>2, <1>3, <1>4, <2>1 DEF Runs
  <2> QED
    BY <1>2, <1>3, <2>2 DEF Runs
<1>7. CallIsTheirs'
  BY <1>6 DEF CallIsTheirs
<1> QED
  BY <1>1, <1>5, <1>6, <1>7 DEF BreakdownInv, NoticeAddsUp

\* The lines add up to what is held when they are read.
LEMMA LinesBreakdown ==
  ASSUME ExposureInv, BreakdownInv, ReadLines
  PROVE  BreakdownInv'
<1>1. run \in Runs /\ run.stage = "lines" /\ run.csa \in CSAs /\ CallIsTheirs
  BY DEF BreakdownInv, ReadLines
<1>2. CASE run.call > 0 /\ material
  <2>1. run' = [run EXCEPT !.stage = "approval", !.lines = collateral_held]
    BY <1>2, LinesAddUp DEF ReadLines
  <2>2. collateral_held \in Int
    BY HeldIsWorth
  <2>3. /\ run' \in Runs /\ run'.stage = "approval" /\ run'.csa = run.csa /\ run'.held = run.held
        /\ run'.vm = run.vm /\ run'.im = run.im /\ run'.threshold = run.threshold /\ run'.call = run.call
        /\ run'.torn = run.torn /\ run'.lines = collateral_held
    BY <1>1, <2>1, <2>2 DEF Runs
  <2>4. CallIsTheirs'
    BY <1>1, <2>3 DEF CallIsTheirs
  <2>5. run.torn \/ run.held = collateral_held
    BY <1>1 DEF BreakdownInv
  <2> QED
    BY <1>1, <1>2, <2>3, <2>4, <2>5 DEF BreakdownInv, NoticeAddsUp
<1>3. CASE ~(run.call > 0 /\ material)
  <2>1. run' = [NoRun EXCEPT !.older = run.older]
    BY <1>3 DEF ReadLines
  <2>2. NoRun \in Runs /\ NoRun.stage = "idle"
    BY DEF NoRun, Runs, NoRows, NoImpact
  <2>3. run' \in Runs /\ run'.stage = "idle"
    BY <1>1, <2>1, <2>2 DEF Runs
  <2> QED
    BY <2>3 DEF BreakdownInv, NoticeAddsUp
<1> QED
  BY <1>2, <1>3

\* What is posted later does not change what the run has read.
LEMMA PostBreakdown ==
  ASSUME ExposureInv, BreakdownInv, NEW i \in Items, PostMeanwhile(i)
  PROVE  BreakdownInv'
<1>1. run \in Runs /\ run' = [run EXCEPT !.torn = @ \/ run.stage = "lines"]
  BY DEF BreakdownInv, PostMeanwhile
<1>2. /\ run' \in Runs /\ run'.stage = run.stage /\ run'.csa = run.csa /\ run'.held = run.held
      /\ run'.vm = run.vm /\ run'.im = run.im /\ run'.threshold = run.threshold /\ run'.call = run.call
      /\ run'.lines = run.lines /\ run'.notice = run.notice /\ run'.older = run.older
      /\ (run.torn => run'.torn) /\ (run.stage = "lines" => run'.torn)
  BY <1>1 DEF Runs
<1>3. CallIsTheirs => CallIsTheirs'
  BY <1>2 DEF CallIsTheirs
<1>4. NoticeAddsUp'
  BY <1>2 DEF BreakdownInv, NoticeAddsUp
<1> QED
  BY <1>2, <1>3, <1>4 DEF BreakdownInv

\* Approving keeps the figures and records the amount.
LEMMA ApproveBreakdown ==
  ASSUME ExposureInv, BreakdownInv, NEW amount \in Adjustments \cup {run.call}, Approve(amount)
  PROVE  BreakdownInv'
<1>1. run \in Runs /\ run.stage = "approval" /\ run' = [run EXCEPT !.stage = "approved", !.amount = amount]
  BY DEF BreakdownInv, Approve
<1>2. amount \in Adjustments \cup Int
  BY <1>1 DEF Runs
<1>3. /\ run' \in Runs /\ run'.stage = "approved" /\ run'.csa = run.csa /\ run'.held = run.held
      /\ run'.vm = run.vm /\ run'.im = run.im /\ run'.threshold = run.threshold /\ run'.call = run.call
      /\ run'.lines = run.lines /\ run'.torn = run.torn
  BY <1>1, <1>2 DEF Runs
<1>4. CallIsTheirs => CallIsTheirs'
  BY <1>3 DEF CallIsTheirs
<1> QED
  BY <1>1, <1>3, <1>4 DEF BreakdownInv, NoticeAddsUp

\* A call above zero is the requirement less the collateral, and reaches the MTA.
LEMMA CallIsDue ==
  ASSUME NEW e \in Int, NEW h \in Int, NEW th \in Int, NEW mta \in Int,
         evaluate_breach(e, h, th, mta).call_amount > 0
  PROVE  /\ evaluate_breach(e, h, th, mta).call_amount = required_support(e, th) - h
         /\ evaluate_breach(e, h, th, mta).call_amount >= mta
<1>1. required_support(e, th) \in Int
  BY DEF required_support, Largest
<1> QED
  BY <1>1 DEF evaluate_breach

\* The notice is built of what the run has read.
LEMMA NoticeBreakdown ==
  ASSUME ExposureInv, BreakdownInv, BuildNotice
  PROVE  BreakdownInv'
<1> DEFINE shown == breakdown(run)
           adj == IF run.amount # run.call THEN {run.amount} ELSE {}
           n == [vm |-> run.vm, im |-> run.im, threshold |-> shown.threshold, held |-> shown.held,
                 mta |-> run.csa.mta, call |-> run.call, lines |-> shown.lines, adjusted |-> adj]
<1>1. /\ run \in Runs /\ run.stage = "approved" /\ run.csa \in CSAs /\ CallIsTheirs
      /\ run.call > 0 /\ (run.torn \/ run.lines = run.held)
  BY DEF BreakdownInv, BuildNotice
<1>2. run.csa.mta \in Nat
  BY <1>1, NumbersAssumption
<1>3. shown.threshold \in Int /\ shown.held \in Int /\ shown.lines \in Int
  <2>1. collateral_held \in Int /\ lines_sum(collateral_lines) \in Int /\ effective_threshold(run.csa, rating) \in Int
    BY <1>1, HeldIsWorth, LinesAddUp, ThresholdIsWithin
  <2> QED
    BY <1>1, <2>1 DEF breakdown, Runs
<1>4. ~run.older => shown.threshold = run.threshold /\ shown.held = run.held /\ shown.lines = run.lines
  BY DEF breakdown
<1>5. run' = [run EXCEPT !.stage = "notice", !.notice = n]
  BY DEF BuildNotice
<1> HIDE DEF shown
<1>6. adj \in SUBSET (Adjustments \cup Int)
  BY <1>1 DEF Runs
<1> HIDE DEF adj
<1>7. /\ n \in [vm : Int, im : Int, threshold : Int, held : Int, mta : Int, call : Int,
                 adjusted : SUBSET (Adjustments \cup Int), lines : Int]
      /\ n.vm = run.vm /\ n.im = run.im /\ n.threshold = shown.threshold /\ n.held = shown.held
      /\ n.mta = run.csa.mta /\ n.call = run.call /\ n.lines = shown.lines
  BY <1>1, <1>2, <1>3, <1>6 DEF Runs
<1> HIDE DEF n
<1>8. run' \in Runs /\ run'.stage = "notice" /\ run'.notice = n /\ run'.older = run.older /\ run'.torn = run.torn
  BY <1>1, <1>5, <1>7 DEF Runs
<1>9. run.call = required_support(run.vm + run.im, run.threshold) - run.held /\ run.call >= run.csa.mta
  <2>1. run.vm + run.im \in Int /\ run.held \in Int /\ run.threshold \in Int
    BY <1>1 DEF Runs
  <2> QED
    BY <1>1, <1>2, <2>1, CallIsDue DEF CallIsTheirs
<1>10. NoticeAddsUp'
  <2> SUFFICES ASSUME ~run.older
               PROVE  /\ n.call = required_support(n.vm + n.im, n.threshold) - n.held
                      /\ n.call >= n.mta /\ n.call > 0
                      /\ run.torn \/ n.lines = n.held
    BY <1>8 DEF NoticeAddsUp
  <2> QED
    BY <1>1, <1>4, <1>7, <1>9
<1> QED
  BY <1>8, <1>10 DEF BreakdownInv

\* Rows that change leave the run's own figures alone.
LEMMA RowsBreakdown ==
  ASSUME BreakdownInv, UNCHANGED <<run, items>>
  PROVE  BreakdownInv'
<1>1. collateral_held' = collateral_held
  BY DEF collateral_held
<1> QED
  BY <1>1 DEF BreakdownInv, NoticeAddsUp, CallIsTheirs

\* Every step of the run, and every change of the rows below it, keeps both.
LEMMA NextBreakdown ==
  ASSUME ExposureInv, BreakdownInv, [BreakdownNext \/ RowsChange]_<<vars, run>>
  PROVE  ExposureInv' /\ BreakdownInv'
<1>1. ASSUME UNCHANGED runVars PROVE ExposureInv'
  BY <1>1 DEF runVars, ExposureInv
<1>2. ASSUME ComputeExposure PROVE ExposureInv' /\ BreakdownInv'
  BY <1>1, <1>2, ComputeBreakdown DEF ComputeExposure
<1>3. ASSUME FetchTerms PROVE ExposureInv' /\ BreakdownInv'
  BY <1>1, <1>3, FetchBreakdown DEF FetchTerms
<1>4. ASSUME EvaluateBreach PROVE ExposureInv' /\ BreakdownInv'
  BY <1>1, <1>4, EvaluateBreakdown DEF EvaluateBreach
<1>5. ASSUME ReadLines PROVE ExposureInv' /\ BreakdownInv'
  BY <1>1, <1>5, LinesBreakdown DEF ReadLines
<1>6. ASSUME BuildNotice PROVE ExposureInv' /\ BreakdownInv'
  BY <1>1, <1>6, NoticeBreakdown DEF BuildNotice
<1>7. ASSUME NEW amount \in Adjustments \cup {run.call}, Approve(amount) PROVE ExposureInv' /\ BreakdownInv'
  BY <1>1, <1>7, ApproveBreakdown DEF Approve
<1>8. ASSUME NEW i \in Items, PostMeanwhile(i) PROVE ExposureInv' /\ BreakdownInv'
  BY <1>8, PostExposure, PostBreakdown DEF PostMeanwhile
<1>9. ASSUME NEW t \in Tickers, NEW p \in Prices, Tick(t, p), run' = run PROVE ExposureInv' /\ BreakdownInv'
  BY <1>9, TickExposure, RowsBreakdown DEF Tick, account
<1>10. ASSUME NEW t \in Tickers, NextDay(t), run' = run PROVE ExposureInv' /\ BreakdownInv'
  BY <1>10, NextDayExposure, RowsBreakdown DEF NextDay, account
<1>11. ASSUME \/ \E v \in VixLevels : PublishVix(v)
              \/ \E r \in Ratings : Rate(r)
              \/ \E csa \in CSAs : Ingest(csa)
              \/ ViewBoard
              \/ RestartBoard,
              run' = run
       PROVE  ExposureInv' /\ BreakdownInv'
  <2>1. items' = items
    BY <1>11 DEF PublishVix, Rate, Ingest, ViewBoard, RestartBoard, account
  <2> QED
    BY <1>11, <2>1, RowExposure, RowsBreakdown
<1>12. ASSUME NEW t \in Moving, NEW p \in Prices \cup {NoPrice}, Quote(t, p), run' = run
       PROVE  ExposureInv' /\ BreakdownInv'
  BY <1>12, QuoteExposure, RowsBreakdown DEF Quote, account
<1>13. ASSUME RowsChange PROVE ExposureInv' /\ BreakdownInv'
  BY <1>9, <1>10, <1>11, <1>13, <1>12 DEF RowsChange
<1>14. ASSUME BreakdownNext PROVE ExposureInv' /\ BreakdownInv'
  <2>1. Moving \subseteq Tickers
    BY NumbersAssumption
  <2> QED
    BY <1>2, <1>3, <1>4, <1>5, <1>6, <1>7, <1>8, <1>9, <1>11, <1>14, <1>12, <2>1 DEF BreakdownNext
<1>15. ASSUME UNCHANGED <<vars, run>> PROVE ExposureInv' /\ BreakdownInv'
  BY <1>15, RowsBreakdown DEF vars, ExposureInv
<1> QED
  BY <1>13, <1>14, <1>15

\* What a run kept stays its own while the rows go on changing.
THEOREM BreakdownInductive == NoticeSpec => [](ExposureInv /\ BreakdownInv)
<1>1. Init /\ BreakdownInit => ExposureInv /\ BreakdownInv
  BY InitExposure, InitBreakdown
<1>2. (ExposureInv /\ BreakdownInv) /\ [BreakdownNext \/ RowsChange]_<<vars, run>> => (ExposureInv /\ BreakdownInv)'
  BY NextBreakdown
<1> QED
  BY <1>1, <1>2, PTL DEF NoticeSpec

\* The rows of a notice lead from one to the next, whatever changed between
\* the run's nodes, its approval and the sending.
THEOREM NoticeHolds == NoticeSpec => []NoticeAddsUp
<1>1. BreakdownInv => NoticeAddsUp
  BY DEF BreakdownInv
<1> QED
  BY <1>1, BreakdownInductive, PTL

-----------------------------------------------------------------------------
(* The reconciliation.                                                     *)

\* A nonempty finite set of naturals has a greatest element.
LEMMA GreatestOf ==
  ASSUME NEW n \in Nat, NEW T \in SUBSET (1..n), T # {}
  PROVE  Max(T) \in T
<1> DEFINE R == {n - x : x \in T}
<1>1. R \in SUBSET Nat /\ R # {}
  <2>1. \A x \in T : n - x \in Nat
    OBVIOUS
  <2> QED
    BY <2>1
<1>2. PICK r \in R : \A u \in R : r <= u
  BY <1>1, LeastOf
<1>3. PICK x \in T : r = n - x
  BY <1>2
<1>4. ASSUME NEW y \in T PROVE x >= y
  <2>1. n - y \in R
    OBVIOUS
  <2>2. n - x <= n - y
    BY <1>2, <1>3, <2>1
  <2> QED
    BY <2>2
<1> QED
  BY <1>3, <1>4 DEF Max

\* The sum of a sequence is that of the function it is.
LEMMA SumOfIsSum ==
  ASSUME NEW s \in Seq(Int)
  PROVE  SumOf(s) = SumFunctionOnSet(s, DOMAIN s)
<1> DEFINE T == DOMAIN s
           F(g) == [u \in SUBSET T |-> IF u = {} THEN 0 ELSE g[u \ {Max(u)}] + s[Max(u)]]
           g == CHOOSE h : h = F(h)
           c == [u \in SUBSET T |-> Max(u)]
<1>1. SumOf(s) = g[T]
  BY Zenon DEF SumOf, FoldLeft, MapThenFoldSet
<1>2. Len(s) \in Nat /\ T = 1..Len(s) /\ \A i \in T : s[i] \in Int
  OBVIOUS
<1>3. IsFiniteSet(T)
  BY <1>2, FS_Interval
<1>4. IsChoice(c, T) /\ \A u \in SUBSET T : c[u] = Max(u)
  BY <1>2, GreatestOf DEF IsChoice
<1> HIDE DEF c, T
<1>5. PICK h : IsTable(h, s, c, T)
  BY <1>2, <1>3, <1>4, TableExists
<1>6. h = F(h)
  <2> SUFFICES \A u \in SUBSET T : h[u] = F(h)[u]
    BY <1>5 DEF IsTable
  <2> TAKE u \in SUBSET T
  <2>1. CASE u = {}
    BY <1>5, <2>1 DEF IsTable
  <2>2. CASE u # {}
    <3>1. c[u] \in u /\ h[u] = s[c[u]] + h[u \ {c[u]}] /\ h[u \ {c[u]}] \in Int /\ s[c[u]] \in Int
      BY <1>2, <1>4, <1>5, <2>2 DEF IsTable, IsChoice
    <3>2. h[u] = h[u \ {c[u]}] + s[c[u]]
      BY <3>1
    <3> QED
      BY <1>4, <2>2, <3>2
  <2> QED
    BY <2>1, <2>2
<1>7. g = F(g)
  BY <1>6, ZenonT(60)
<1> HIDE DEF g
<1>8. \A u \in SUBSET T : g[u] = h[u]
  <2> DEFINE B == {u \in SUBSET T : g[u] # h[u]}
  <2> SUFFICES ASSUME B # {} PROVE FALSE
    OBVIOUS
  <2>1. PICK U \in B : \A x \in U : U \ {x} \notin B
    <3>1. B \in SUBSET SUBSET T
      OBVIOUS
    <3> HIDE DEF B
    <3> QED
      BY <1>3, <3>1, SmallestOf
  <2>2. g[U] = F(g)[U] /\ h[U] = F(h)[U]
    BY <1>6, <1>7
  <2>3. U # {}
    BY <2>1, <2>2
  <2>4. c[U] \in U /\ c[U] = Max(U)
    BY <1>4, <2>1, <2>3 DEF IsChoice
  <2>5. g[U \ {c[U]}] = h[U \ {c[U]}]
    BY <2>1, <2>4
  <2> QED
    BY <2>1, <2>2, <2>3, <2>4, <2>5
<1>9. Folds(h, s, c, T)
  BY <1>5 DEF IsTable, Folds
<1>10. h[T] = SumFunctionOnSet(s, T)
  BY <1>2, <1>3, <1>4, <1>9, FoldIsSum
<1> QED
  BY <1>1, <1>8, <1>10 DEF T

\* A sum of zeros.
LEMMA SumOfZeros ==
  ASSUME NEW S, IsFiniteSet(S), NEW f, \A x \in S : f[x] = 0
  PROVE  SumFunctionOnSet(f, S) = 0
<1> DEFINE Q == {T \in SUBSET S : SumFunctionOnSet(f, T) = 0}
<1>1. {} \in Q
  BY SumOfNone
<1>2. IntOn(f, S)
  BY DEF IntOn
<1>3. ASSUME NEW T \in SUBSET S, NEW x \in S \ T, T \in Q PROVE T \cup {x} \in Q
  <2>1. SumFunctionOnSet(f, T \cup {x}) = f[x] + SumFunctionOnSet(f, T)
    BY <1>2, SumPuts
  <2> QED
    BY <1>3, <2>1
<1> HIDE DEF Q
<1>4. S \in Q
  BY <1>1, <1>3, FiniteInduction
<1> QED
  BY <1>4 DEF Q

\* What is zero outside a part sums to the part's sum.
LEMMA SumOfPart ==
  ASSUME NEW S, IsFiniteSet(S), NEW R \in SUBSET S, NEW f, IntOn(f, S), \A x \in S \ R : f[x] = 0
  PROVE  SumFunctionOnSet(f, S) = SumFunctionOnSet(f, R) /\ SumFunctionOnSet(f, S) \in Int
<1> DEFINE Z == S \ R
<1>1. IsFiniteSet(R) /\ IsFiniteSet(Z) /\ R \cap Z = {} /\ R \cup Z = S /\ IntOn(f, R)
  BY FS_Subset DEF IntOn
<1>2. \A x \in Z : f[x] = 0
  OBVIOUS
<1> HIDE DEF Z
<1>3. SumFunctionOnSet(f, R \cup Z) = SumFunctionOnSet(f, R) + SumFunctionOnSet(f, Z)
  BY <1>1, SumsJoin
<1>4. SumFunctionOnSet(f, Z) = 0
  BY <1>1, <1>2, SumOfZeros
<1>5. SumFunctionOnSet(f, R) \in Int
  BY <1>1, SumIsInt
<1>6. SumFunctionOnSet(f, S) = SumFunctionOnSet(f, R) + 0
  BY <1>1, <1>3, <1>4
<1> QED
  BY <1>5, <1>6

\* A book: positions, one a ticker.
IsBook(holdings) ==
  /\ holdings \in Seq([ticker : DOMAIN Price, quantity : Int])
  /\ \A i, j \in DOMAIN holdings : holdings[i].ticker = holdings[j].ticker => i = j

TickersIn(holdings) == {holdings[i].ticker : i \in DOMAIN holdings}
Of(holdings, t) == IF t \in DOMAIN holdings THEN holdings[t] ELSE 0

\* A book's total is its tickers' quantities, each at its price.
LEMMA TotalIsSum ==
  ASSUME NEW holdings, IsBook(holdings), NEW h,
         \A t \in TickersIn(holdings) : h[t] = by_ticker(holdings)[t] * Price[t]
  PROVE  /\ IsFiniteSet(TickersIn(holdings)) /\ DOMAIN by_ticker(holdings) = TickersIn(holdings)
         /\ \A t \in TickersIn(holdings) : by_ticker(holdings)[t] \in Int /\ Price[t] \in Int
         /\ total(holdings) = SumFunctionOnSet(h, TickersIn(holdings))
<1> DEFINE T == TickersIn(holdings)
           I == DOMAIN holdings
           b == [i \in I |-> holdings[i].ticker]
           f == [i \in I |-> holdings[i].quantity * Price[holdings[i].ticker]]
           at(t) == CHOOSE i \in I : /\ holdings[i].ticker = t
                                    /\ \A j \in I : holdings[j].ticker = t => j <= i
<1>1. /\ Len(holdings) \in Nat /\ I = 1..Len(holdings)
      /\ \A i \in I : holdings[i].ticker \in DOMAIN Price /\ holdings[i].quantity \in Int /\ Price[holdings[i].ticker] \in Int
  <2>1. holdings \in Seq([ticker : DOMAIN Price, quantity : Int])
    BY DEF IsBook
  <2>2. Len(holdings) \in Nat /\ I = 1..Len(holdings) /\ \A i \in I : holdings[i] \in [ticker : DOMAIN Price, quantity : Int]
    <3>1. Len(holdings) \in Nat /\ I = 1..Len(holdings)
      BY <2>1
    <3>2. \A i \in 1..Len(holdings) : holdings[i] \in [ticker : DOMAIN Price, quantity : Int]
      BY <2>1, ElementOfSeq
    <3> QED
      BY <3>1, <3>2
  <2>3. \A i \in I : holdings[i].ticker \in DOMAIN Price /\ holdings[i].quantity \in Int
    BY <2>2
  <2> HIDE DEF I
  <2> QED
    BY <2>2, <2>3, PositionsAssumption
<1>2. IsFiniteSet(I)
  <2>1. I = 1..Len(holdings) /\ Len(holdings) \in Int
    BY <1>1
  <2>2. IsFiniteSet(1..Len(holdings))
    BY <2>1, FS_Interval
  <2> HIDE DEF I
  <2> QED
    BY <2>1, <2>2
<1>3. T = {b[i] : i \in I} /\ \A i \in I : b[i] = holdings[i].ticker
  BY DEF TickersIn
<1>4. IsFiniteSet(T)
  <2> HIDE DEF T, b, I
  <2> QED
    BY <1>2, <1>3, ImageIsFinite
<1>5. by_ticker(holdings) = [t \in T |-> holdings[at(t)].quantity]
  BY DEF by_ticker, TickersIn
<1>6. \A i, j \in I : holdings[i].ticker = holdings[j].ticker => i = j
  BY DEF IsBook
<1>7. ASSUME NEW i \in I PROVE at(holdings[i].ticker) = i
  <2>1. \A j \in I : holdings[j].ticker = holdings[i].ticker => j <= i
    BY <1>1, <1>6
  <2>2. at(holdings[i].ticker) \in I /\ holdings[at(holdings[i].ticker)].ticker = holdings[i].ticker
    BY <2>1
  <2> HIDE DEF at, I
  <2> QED
    BY <1>6, <2>2
<1> HIDE DEF at
<1>8. \A i \in I : b[i] \in T /\ by_ticker(holdings)[b[i]] = holdings[i].quantity
  BY <1>3, <1>5, <1>7
<1>9. \A t \in T : \E i \in I : t = b[i]
  BY <1>3
<1>10. \A t \in T : by_ticker(holdings)[t] \in Int /\ Price[t] \in Int
  <2> HIDE DEF T, b, I
  <2> QED
    BY <1>1, <1>3, <1>8, <1>9
<1>11. f \in Seq(Int) /\ DOMAIN f = I /\ \A i \in I : f[i] \in Int
  <2>1. \A i \in I : holdings[i].quantity * Price[holdings[i].ticker] \in Int
    BY <1>1
  <2> QED
    BY <1>1, <2>1
<1>12. total(holdings) = SumFunctionOnSet(f, I)
  <2>1. total(holdings) = SumOf(f)
    BY DEF total
  <2> HIDE DEF f
  <2> QED
    BY <1>11, <2>1, SumOfIsSum
<1>13. \A i \in I : f[i] = h[b[i]]
  <2> TAKE i \in I
  <2>1. f[i] = holdings[i].quantity * Price[holdings[i].ticker] /\ b[i] = holdings[i].ticker
    OBVIOUS
  <2>2. h[b[i]] = by_ticker(holdings)[b[i]] * Price[b[i]]
    BY <1>8
  <2> QED
    BY <1>8, <2>1, <2>2
<1>14. Matches(b, I, T)
  <2> HIDE DEF b, T, I
  <2> QED
    BY <1>3, <1>6, <1>8, <1>9 DEF Matches
<1>15. IntOn(f, I)
  BY <1>11 DEF IntOn
<1> HIDE DEF f, b, T, I
<1>16. SumFunctionOnSet(h, T) = SumFunctionOnSet(f, I)
  BY <1>2, <1>13, <1>14, <1>15, SumMoves
<1> QED
  BY <1>4, <1>5, <1>10, <1>12, <1>16 DEF T

\* The lines of a report on some tickers.
ItemsOf(o, c, X) == {[ticker |-> t, our_quantity |-> o[t], counterparty_quantity |-> c[t]] : t \in X}

\* The breaks' worth is the sum over the tickers they name.
LEMMA WorthIsSum ==
  ASSUME NEW X, IsFiniteSet(X), NEW o, NEW c,
         NEW d, \A t \in X : d[t] \in Int /\ d[t] = (o[t] - c[t]) * Price[t]
  PROVE  worth(ItemsOf(o, c, X)) = SumFunctionOnSet(d, X)
<1> USE DEF ItemsOf
<1> DEFINE rec == [t \in X |-> [ticker |-> t, our_quantity |-> o[t], counterparty_quantity |-> c[t]]]
           L == {rec[t] : t \in X}
           v == [l \in L |-> (l.our_quantity - l.counterparty_quantity) * Price[l.ticker]]
<1>1. L = {[ticker |-> t, our_quantity |-> o[t], counterparty_quantity |-> c[t]] : t \in X}
  OBVIOUS
<1>2. \A t \in X : rec[t].ticker = t /\ rec[t].our_quantity = o[t] /\ rec[t].counterparty_quantity = c[t]
  OBVIOUS
<1>3. IsFiniteSet(L)
  <2> HIDE DEF rec
  <2> QED
    BY ImageIsFinite
<1>4. Matches(rec, X, L)
  <2>1. \A t, u \in X : rec[t] = rec[u] => t = u
    BY <1>2
  <2> HIDE DEF rec
  <2> QED
    BY <2>1 DEF Matches
<1> HIDE DEF rec
<1>5. \A t \in X : rec[t] \in L /\ v[rec[t]] = d[t]
  BY <1>2
<1>6. \A l \in L : v[l] \in Int /\ v[l] = (l.our_quantity - l.counterparty_quantity) * Price[l.ticker]
  BY <1>5
<1>7. IntOn(d, X)
  BY DEF IntOn
<1> HIDE DEF L, v
<1>8. SumFunctionOnSet(v, L) = SumFunctionOnSet(d, X)
  BY <1>4, <1>5, <1>7, SumMoves
<1>9. worth(L) = SumFunctionOnSet(v, L)
  <2> DEFINE F(g) == [s \in SUBSET L |-> IF s = {} THEN 0
                        ELSE ((CHOOSE x \in s : TRUE).our_quantity - (CHOOSE x \in s : TRUE).counterparty_quantity)
                                 * Price[(CHOOSE x \in s : TRUE).ticker]
                               + g[s \ {CHOOSE x \in s : TRUE}]]
             g == CHOOSE h : h = F(h)
             k == Chosen(L)
  <2>1. worth(L) = g[L]
    BY Zenon DEF worth, MapThenSumSet, MapThenFoldSet
  <2>2. IsChoice(k, L) /\ \A s \in SUBSET L : k[s] = CHOOSE x \in s : TRUE
    BY ChosenIsChoice
  <2> HIDE DEF k
  <2>3. \A l \in L : v[l] \in Int
    BY <1>6
  <2>4. \A s \in SUBSET L : s # {} =>
          v[k[s]] = ((CHOOSE x \in s : TRUE).our_quantity - (CHOOSE x \in s : TRUE).counterparty_quantity)
                       * Price[(CHOOSE x \in s : TRUE).ticker]
    BY <1>6, <2>2 DEF IsChoice
  <2>5. PICK h : IsTable(h, v, k, L)
    BY <1>3, <2>2, <2>3, TableExists
  <2>6. h = F(h)
    <3> SUFFICES \A s \in SUBSET L : h[s] = F(h)[s]
      BY <2>5 DEF IsTable
    <3> TAKE s \in SUBSET L
    <3>1. CASE s = {}
      BY <2>5, <3>1 DEF IsTable
    <3>2. CASE s # {}
      BY <2>2, <2>4, <2>5, <3>2 DEF IsTable
    <3> QED
      BY <3>1, <3>2
  <2>7. g = F(g)
    <3> HIDE DEF F
    <3> QED
      BY <2>6, Zenon
  <2> HIDE DEF g
  <2>8. Folds(g, v, k, L)
    <3>1. \A s \in SUBSET L : g[s] = F(g)[s]
      BY <2>7
    <3>2. g[{}] = 0
      BY <3>1
    <3>3. ASSUME NEW s \in SUBSET L, s # {} PROVE g[s] = v[k[s]] + g[s \ {k[s]}]
      BY <2>2, <2>4, <3>1, <3>3
    <3> QED
      BY <3>2, <3>3 DEF Folds
  <2> QED
    BY <1>3, <2>1, <2>2, <2>3, <2>8, FoldIsSum
<1> QED
  BY <1>1, <1>8, <1>9

\* Between two books, one position a ticker, the breaks found explain all of
\* the difference in their totals, however many positions each has.
LEMMA GapIsExplained ==
  ASSUME IsBook(ours), IsBook(theirs)
  PROVE  BreaksExplainTheGap
<1> SUFFICES ASSUME ~reconcile.agreed
             PROVE  worth(reconcile.break_items) = total(ours) - total(theirs)
  BY DEF BreaksExplainTheGap
<1> DEFINE mine == by_ticker(ours)
           yours == by_ticker(theirs)
           M == TickersIn(ours)
           Y == TickersIn(theirs)
           U == M \cup Y
           X == {u \in U : u \notin M \cap Y \/ mine[u] # yours[u]}
           o == [t \in U |-> Of(mine, t)]
           c == [t \in U |-> Of(yours, t)]
           m == [t \in U |-> o[t] * Price[t]]
           y == [t \in U |-> c[t] * Price[t]]
           d == [t \in U |-> (o[t] - c[t]) * Price[t]]
<1>1. /\ IsFiniteSet(M) /\ DOMAIN mine = M
      /\ \A t \in M : mine[t] \in Int /\ Price[t] \in Int
  <2> DEFINE h == [t \in M |-> mine[t] * Price[t]]
  <2>1. \A t \in TickersIn(ours) : h[t] = by_ticker(ours)[t] * Price[t]
    OBVIOUS
  <2> HIDE DEF h
  <2> QED
    BY <2>1, TotalIsSum
<1>2. /\ IsFiniteSet(Y) /\ DOMAIN yours = Y
      /\ \A t \in Y : yours[t] \in Int /\ Price[t] \in Int
  <2> DEFINE h == [t \in Y |-> yours[t] * Price[t]]
  <2>1. \A t \in TickersIn(theirs) : h[t] = by_ticker(theirs)[t] * Price[t]
    OBVIOUS
  <2> HIDE DEF h
  <2> QED
    BY <2>1, TotalIsSum
<1>3. \A t \in U : /\ o[t] = (IF t \in M THEN mine[t] ELSE 0) /\ c[t] = (IF t \in Y THEN yours[t] ELSE 0)
                  /\ o[t] \in Int /\ c[t] \in Int /\ Price[t] \in Int
  <2> HIDE DEF M, Y, mine, yours
  <2> QED
    BY <1>1, <1>2 DEF Of
<1>4. IsFiniteSet(U) /\ X \in SUBSET U /\ IsFiniteSet(X)
  <2>1. IsFiniteSet(U)
    <3> HIDE DEF M, Y
    <3> QED
      BY <1>1, <1>2, FS_Union
  <2> HIDE DEF U
  <2> QED
    BY <2>1, FS_Subset
<1>5. reconcile.break_items = {[ticker |-> t, our_quantity |-> o[t], counterparty_quantity |-> c[t]] : t \in X}
  <2>1. reconcile.break_items = diff_trades
    BY DEF reconcile
  <2>2. diff_trades = {[ticker |-> t, our_quantity |-> Of(mine, t), counterparty_quantity |-> Of(yours, t)] :
                         t \in {u \in DOMAIN mine \cup DOMAIN yours :
                                  u \notin DOMAIN mine \cap DOMAIN yours \/ mine[u] # yours[u]}}
    BY DEF diff_trades, Of
  <2>3. diff_trades = {[ticker |-> t, our_quantity |-> Of(mine, t), counterparty_quantity |-> Of(yours, t)] : t \in X}
    BY <1>1, <1>2, <2>2
  <2>4. \A t \in X : Of(mine, t) = o[t] /\ Of(yours, t) = c[t]
    OBVIOUS
  <2> HIDE DEF X, o, c, mine, yours
  <2> QED
    BY <2>1, <2>3, <2>4
<1>6. \A t \in U : m[t] = o[t] * Price[t] /\ y[t] = c[t] * Price[t] /\ d[t] = (o[t] - c[t]) * Price[t]
  OBVIOUS
<1> HIDE DEF mine, yours, M, Y, o, c, m, y, d
<1>7. \A t \in U : m[t] \in Int /\ y[t] \in Int /\ d[t] \in Int /\ m[t] = d[t] + y[t]
  <2> TAKE t \in U
  <2> HIDE DEF U
  <2>1. o[t] \in Int /\ c[t] \in Int /\ Price[t] \in Int
    BY <1>3
  <2>2. (o[t] - c[t]) * Price[t] = o[t] * Price[t] - c[t] * Price[t] /\ o[t] * Price[t] \in Int /\ c[t] * Price[t] \in Int
    BY <2>1
  <2> QED
    BY <1>6, <2>2
<1>8. \A t \in M : m[t] = mine[t] * Price[t]
  BY <1>3, <1>6
<1>9. \A t \in Y : y[t] = yours[t] * Price[t]
  BY <1>3, <1>6
<1>10. total(ours) = SumFunctionOnSet(m, M)
  BY <1>8, TotalIsSum DEF M, mine
<1>11. total(theirs) = SumFunctionOnSet(y, Y)
  BY <1>9, TotalIsSum DEF Y, yours
<1>12. \A t \in U : (t \notin M => m[t] = 0) /\ (t \notin Y => y[t] = 0) /\ (t \notin X => d[t] = 0)
  <2> TAKE t \in U
  <2>1. ASSUME t \notin M PROVE m[t] = 0
    BY <1>3, <1>6, <2>1
  <2>2. ASSUME t \notin Y PROVE y[t] = 0
    BY <1>3, <1>6, <2>2
  <2>3. ASSUME t \notin X PROVE d[t] = 0
    <3>1. o[t] = c[t] /\ o[t] \in Int /\ Price[t] \in Int
      BY <1>3, <2>3
    <3>2. o[t] - c[t] = 0
      BY <3>1
    <3>3. d[t] = 0 * Price[t]
      BY <1>6, <3>2
    <3> QED
      BY <3>1, <3>3
  <2> QED
    BY <2>1, <2>2, <2>3
<1>13. M \in SUBSET U /\ Y \in SUBSET U /\ IntOn(m, U) /\ IntOn(y, U) /\ IntOn(d, U)
  BY <1>7 DEF IntOn
<1> HIDE DEF U, X
<1>14. SumFunctionOnSet(m, U) = SumFunctionOnSet(m, M)
  BY <1>4, <1>12, <1>13, SumOfPart
<1>15. SumFunctionOnSet(y, U) = SumFunctionOnSet(y, Y) /\ SumFunctionOnSet(y, U) \in Int
  BY <1>4, <1>12, <1>13, SumOfPart
<1>16. SumFunctionOnSet(d, U) = SumFunctionOnSet(d, X) /\ SumFunctionOnSet(d, U) \in Int
  BY <1>4, <1>12, <1>13, SumOfPart
<1>17. SumFunctionOnSet(m, U) = SumFunctionOnSet(d, U) + SumFunctionOnSet(y, U)
  BY <1>4, <1>7, <1>13, SumsAdd
<1>18. worth(reconcile.break_items) = SumFunctionOnSet(d, X)
  <2>1. \A t \in X : d[t] \in Int /\ d[t] = (o[t] - c[t]) * Price[t]
    BY <1>4, <1>6, <1>7
  <2>2. worth(ItemsOf(o, c, X)) = SumFunctionOnSet(d, X)
    BY <1>4, <2>1, WorthIsSum
  <2> QED
    BY <1>5, <2>2 DEF ItemsOf
<1> QED
  BY <1>10, <1>11, <1>14, <1>15, <1>16, <1>17, <1>18

\* A request of the reconciliation, with any number of positions.
Reconciles ==
  /\ IsBook(ours)
  /\ theirs \in Seq([ticker : DOMAIN Price, quantity : Int])

\* For our positions and the counterparty's view of them, of any length and
\* with any quantities and prices: when the totals differ beyond the
\* tolerance, the breaks that diff_trades names are worth the difference.
THEOREM GapHolds == Reconciles /\ [][UNCHANGED toolVars]_toolVars => []BreaksExplainTheGap
<1>1. Reconciles => BreaksExplainTheGap
  <2> SUFFICES ASSUME Reconciles,
                      \A i, j \in DOMAIN theirs : theirs[i].ticker = theirs[j].ticker => i = j
               PROVE  BreaksExplainTheGap
    BY DEF BreaksExplainTheGap
  <2>1. IsBook(ours) /\ IsBook(theirs)
    BY DEF Reconciles, IsBook
  <2> QED
    BY <2>1, GapIsExplained
<1>2. Reconciles /\ [UNCHANGED toolVars]_toolVars => Reconciles'
  BY DEF Reconciles, IsBook, toolVars
<1> QED
  BY <1>1, <1>2, PTL

-----------------------------------------------------------------------------
(* Lists in ascending order.                                               *)

\* A nonempty set of naturals with a bound has a greatest element.
LEMMA BoundedGreatest ==
  ASSUME NEW n \in Nat, NEW T \in SUBSET (0..n), T # {}
  PROVE  \E x \in T : \A y \in T : y <= x
<1> DEFINE R == {n - x : x \in T}
<1>1. R \in SUBSET Nat /\ R # {}
  <2>1. \A x \in T : n - x \in Nat
    OBVIOUS
  <2> QED
    BY <2>1
<1>2. PICK r \in R : \A u \in R : r <= u
  BY <1>1, LeastOf
<1>3. PICK x \in T : r = n - x
  BY <1>2
<1>4. ASSUME NEW y \in T PROVE y <= x
  <2>1. n - y \in R
    OBVIOUS
  <2>2. n - x <= n - y
    BY <1>2, <1>3, <2>1
  <2> QED
    BY <2>2
<1> QED
  BY <1>3, <1>4

\* What a list of the elements of a set in ascending order is.
IsAscending(s, S) ==
  /\ s \in [1..Cardinality(S) -> S] /\ Ascends(s)
  /\ \A x \in S : \E i \in DOMAIN s : s[i] = x

\* A finite set of naturals has such a list.
LEMMA AscendingExists ==
  ASSUME NEW n \in Nat, NEW S \in SUBSET (0..n)
  PROVE  \E s \in [1..Cardinality(S) -> S] : Ascends(s)
<1>1. IsFiniteSet(S)
  <2>1. IsFiniteSet(0..n)
    BY FS_Interval
  <2> QED
    BY <2>1, FS_Subset
<1> DEFINE B == {T \in SUBSET S : ~\E s \in [1..Cardinality(T) -> T] : Ascends(s)}
<1>2. SUFFICES ASSUME B # {} PROVE FALSE
  OBVIOUS
<1>3. PICK T \in B : \A x \in T : T \ {x} \notin B
  BY <1>1, <1>2, SmallestOf
<1>4. T \in SUBSET S /\ ~\E s \in [1..Cardinality(T) -> T] : Ascends(s)
  OBVIOUS
<1>5. IsFiniteSet(T) /\ Cardinality(T) \in Nat
  BY <1>1, <1>4, FS_Subset, FS_CardinalityType
<1>6. CASE T = {}
  <2>1. Cardinality(T) = 0
    BY <1>6, FS_EmptySet
  <2>2. [i \in 1..0 |-> i] \in [1..Cardinality(T) -> T] /\ Ascends([i \in 1..0 |-> i])
    BY <2>1 DEF Ascends
  <2> QED
    BY <1>4, <2>2
<1>7. CASE T # {}
  <2>1. PICK x \in T : \A y \in T : y <= x
    BY <1>4, <1>7, BoundedGreatest
  <2> DEFINE U == T \ {x}
             m == Cardinality(U)
  <2>2. Cardinality(T) = m + 1 /\ m \in Nat
    <3>1. IsFiniteSet(U) /\ m = Cardinality(T) - 1
      BY <1>5, <2>1, FS_RemoveElement
    <3>2. m \in Nat
      BY <3>1, FS_CardinalityType
    <3> QED
      BY <1>5, <3>1, <3>2
  <2>3. U \notin B /\ U \in SUBSET S
    BY <1>3, <1>4
  <2>4. PICK s \in [1..m -> U] : Ascends(s)
    BY <2>3
  <2> DEFINE r == [i \in 1..(m + 1) |-> IF i = m + 1 THEN x ELSE s[i]]
  <2>5. r \in [1..(m + 1) -> T]
    <3>1. \A i \in 1..(m + 1) : i # m + 1 => i \in 1..m
      BY <2>2
    <3> HIDE DEF m
    <3> QED
      BY <2>4, <3>1
  <2>6. ASSUME NEW i \in 1..(m + 1), NEW j \in 1..(m + 1), i < j PROVE r[i] < r[j]
    <3>1. i \in 1..m /\ s[i] \in U /\ s[i] \in Nat /\ x \in Nat
      <4>1. i \in 1..m
        BY <2>2, <2>6
      <4>2. \A y \in T : y \in Nat
        BY <1>4
      <4> QED
        BY <2>4, <4>1, <4>2
    <3>2. CASE j = m + 1
      <4>1. r[i] = s[i] /\ r[j] = x
        BY <2>2, <3>1, <3>2
      <4>2. s[i] <= x /\ s[i] # x
        BY <2>1, <3>1
      <4> QED
        BY <3>1, <4>1, <4>2
    <3>3. CASE j # m + 1
      <4>1. j \in 1..m
        BY <2>2, <3>3
      <4>2. r[i] = s[i] /\ r[j] = s[j]
        BY <2>2, <3>1, <3>3, <4>1
      <4>3. DOMAIN s = 1..m
        BY <2>4
      <4> QED
        BY <2>4, <2>6, <3>1, <4>1, <4>2, <4>3 DEF Ascends
    <3> QED
      BY <3>2, <3>3
  <2>7. Ascends(r)
    <3>1. DOMAIN r = 1..(m + 1)
      BY <2>5
    <3> HIDE DEF r
    <3> QED
      BY <2>6, <3>1 DEF Ascends
  <2> HIDE DEF r
  <2> QED
    BY <1>4, <2>2, <2>5, <2>7
<1> QED
  BY <1>6, <1>7

\* ascending lists the elements of the set in ascending order.
LEMMA AscendingIs ==
  ASSUME NEW n \in Nat, NEW S \in SUBSET (0..n)
  PROVE  Cardinality(S) \in Nat /\ IsAscending(ascending(S), S)
<1> DEFINE s == ascending(S)
           m == Cardinality(S)
<1>1. IsFiniteSet(S) /\ m \in Nat
  <2>1. IsFiniteSet(0..n)
    BY FS_Interval
  <2>2. IsFiniteSet(S)
    BY <2>1, FS_Subset
  <2> QED
    BY <2>2, FS_CardinalityType
<1>2. s \in [1..m -> S] /\ Ascends(s)
  BY AscendingExists DEF ascending
<1> HIDE DEF s
<1>a. \A x \in S : x \in Nat
  OBVIOUS
<1>3. s \in Injection(1..m, S)
  <2>1. ASSUME NEW i \in 1..m, NEW j \in 1..m, s[i] = s[j] PROVE i = j
    <3>1. s[i] \in Nat /\ s[j] \in Nat
      <4>1. s[i] \in S /\ s[j] \in S
        BY <1>2
      <4> QED
        BY <1>a, <4>1
    <3>2. ~(i < j) /\ ~(j < i)
      BY <1>2, <2>1, <3>1 DEF Ascends
    <3> QED
      BY <1>1, <3>2
  <2> QED
    BY <1>2, <2>1 DEF Injection, IsInjective
<1>4. IsFiniteSet(1..m) /\ Cardinality(1..m) = m
  BY <1>1, FS_Interval
<1>5. s \in Surjection(1..m, S)
  BY <1>1, <1>3, <1>4, FS_Injection
<1>6. \A x \in S : \E i \in 1..m : s[i] = x
  BY <1>5 DEF Surjection
<1> HIDE DEF m
<1> QED
  BY <1>1, <1>2, <1>6 DEF IsAscending, s, m

-----------------------------------------------------------------------------
(* The book.                                                               *)

\* The versions that cover a day.
Covering(versions, date) ==
  {n \in DOMAIN versions : versions[n].valid_from <= date /\ date <= versions[n].valid_to}

\* Of a CSA's versions exactly one covers a day of the window.
LEMMA OneCovers ==
  ASSUME NEW reviews \in SUBSET ReviewDays,
         NEW terms \in [{SIM_START_DATE} \cup ReviewDays -> [threshold : Thresholds, mta : MTAs]],
         NEW date \in Window
  PROVE  \E n \in DOMAIN csa_versions(reviews, terms) :
           /\ Covering(csa_versions(reviews, terms), date) = {n}
           /\ csa_versions(reviews, terms)[n].threshold \in Nat
           /\ csa_versions(reviews, terms)[n].mta \in Nat
<1> DEFINE S == {SIM_START_DATE} \cup reviews
           m == Cardinality(S)
           s == ascending(S)
           v == csa_versions(reviews, terms)
<1>1. SIM_START_DATE \in Nat /\ SIM_END_DATE \in Nat /\ SIM_START_DATE <= SIM_END_DATE
  BY DatesAssumption
<1>2. S \in SUBSET (0..SIM_END_DATE) /\ \A x \in S : x \in Nat /\ SIM_START_DATE <= x /\ x <= SIM_END_DATE
  <2>1. reviews \subseteq (SIM_START_DATE + 1)..SIM_END_DATE
    BY DatesAssumption
  <2> QED
    BY <1>1, <2>1
<1>3. m \in Nat /\ IsAscending(s, S)
  BY <1>1, <1>2, AscendingIs
<1>4. date \in Nat /\ SIM_START_DATE <= date /\ date <= SIM_END_DATE
  BY <1>1 DEF Window
<1> HIDE DEF s, m
<1>5. s \in [1..m -> S] /\ DOMAIN s = 1..m /\ \A i, j \in 1..m : i < j => s[i] < s[j]
  BY <1>3 DEF IsAscending, Ascends, m
<1>6. PICK k \in 1..m : s[k] = SIM_START_DATE
  <2>1. SIM_START_DATE \in S
    OBVIOUS
  <2> HIDE DEF S
  <2> QED
    BY <1>3, <1>5, <2>1 DEF IsAscending
<1>7. \A i \in 1..m : s[i] \in S /\ s[i] \in Nat
  <2> HIDE DEF S
  <2> QED
    BY <1>2, <1>5
<1> DEFINE P == {i \in 1..m : s[i] <= date}
<1>8. PICK n \in P : \A i \in P : i <= n
  <2>1. k \in P
    BY <1>4, <1>6
  <2>2. P \in SUBSET (0..m) /\ P # {}
    BY <1>3, <2>1
  <2> HIDE DEF P
  <2> QED
    BY <1>3, <2>2, BoundedGreatest
<1>9. /\ v = [i \in DOMAIN s |->
                [version |-> i, valid_from |-> s[i],
                 valid_to |-> IF i = Len(s) THEN OPEN_END ELSE s[i + 1] - 1,
                 threshold |-> terms[s[i]].threshold, mta |-> terms[s[i]].mta]]
  BY DEF csa_versions, s
<1>10. Len(s) = m
  <2>1. s \in Seq(S)
    BY <1>3, <1>5
  <2> QED
    BY <1>3, <1>5, <2>1, LenProperties
<1> HIDE DEF v
<1>11. /\ DOMAIN v = 1..m
       /\ \A i \in 1..m : /\ v[i].valid_from = s[i]
                          /\ v[i].valid_to = IF i = m THEN OPEN_END ELSE s[i + 1] - 1
                          /\ v[i].threshold = terms[s[i]].threshold /\ v[i].mta = terms[s[i]].mta
  BY <1>5, <1>9, <1>10
<1>12. n \in 1..m /\ s[n] <= date /\ n \in Nat
  BY <1>8
<1>13. n \in Covering(v, date)
  <2>1. CASE n = m
    BY <1>1, <1>4, <1>11, <1>12, <2>1 DEF Covering, OPEN_END
  <2>2. CASE n # m
    <3>1. n + 1 \in 1..m
      BY <1>3, <1>12, <2>2
    <3>2. ~(s[n + 1] <= date)
      BY <1>8, <1>12, <3>1
    <3>3. date <= s[n + 1] - 1
      BY <1>4, <1>7, <3>1, <3>2
    <3> QED
      BY <1>11, <1>12, <2>2, <3>3 DEF Covering
  <2> QED
    BY <2>1, <2>2
<1>14. ASSUME NEW i \in Covering(v, date) PROVE i = n
  <2>1. i \in 1..m /\ s[i] <= date /\ date <= v[i].valid_to /\ i \in Nat
    BY <1>11 DEF Covering
  <2>2. i <= n
    BY <1>8, <2>1
  <2>3. ASSUME i < n PROVE FALSE
    <3>1. i # m /\ i + 1 \in 1..m /\ (i + 1 = n \/ i + 1 < n)
      BY <1>3, <1>12, <2>1, <2>3
    <3>2. date <= s[i + 1] - 1
      BY <1>11, <2>1, <3>1
    <3>3. s[i + 1] <= s[n]
      BY <1>5, <1>7, <1>12, <3>1
    <3> QED
      BY <1>4, <1>7, <1>12, <3>1, <3>2, <3>3
  <2> QED
    BY <1>12, <2>1, <2>2, <2>3
<1>15. Covering(v, date) = {n}
  BY <1>13, <1>14
<1>16. terms[s[n]] \in [threshold : Thresholds, mta : MTAs]
  <2>1. S \subseteq {SIM_START_DATE} \cup ReviewDays
    OBVIOUS
  <2> HIDE DEF S
  <2> QED
    BY <1>7, <1>12, <2>1
<1>17. v[n].threshold \in Nat /\ v[n].mta \in Nat
  BY <1>11, <1>12, <1>16, TermsAssumption
<1> QED
  BY <1>11, <1>12, <1>15, <1>17 DEF v

\* A counterparty's terms on a day of the window: numbers, and of the one
\* version in force.
LEMMA TermsHold ==
  ASSUME NEW cp \in generate_counterparty, NEW date \in Window
  PROVE  /\ threshold_on(cp, date) \in Nat /\ csa_on(cp, date).mta \in Nat /\ cp.collateral_factor \in Nat
         /\ {v.version : v \in {w \in ToSet(cp.csa_versions) : w.valid_from <= date /\ date <= w.valid_to}}
              = {csa_on(cp, date).version}
<1>1. PICK reviews \in SUBSET ReviewDays,
           terms \in [{SIM_START_DATE} \cup ReviewDays -> [threshold : Thresholds, mta : MTAs]],
           path \in rating_paths, f \in Factors :
        cp = [csa_versions |-> csa_versions(reviews, terms), ratings |-> path, collateral_factor |-> f]
  <2> DEFINE A == SUBSET ReviewDays
             B == [{SIM_START_DATE} \cup ReviewDays -> [threshold : Thresholds, mta : MTAs]]
  <2>1. generate_counterparty =
          {[csa_versions |-> csa_versions(reviews, terms), ratings |-> path, collateral_factor |-> f] :
           reviews \in A, terms \in B, path \in rating_paths, f \in Factors}
    BY DEF generate_counterparty
  <2> HIDE DEF A, B
  <2>2. \E reviews \in A, terms \in B, path \in rating_paths, f \in Factors :
          cp = [csa_versions |-> csa_versions(reviews, terms), ratings |-> path, collateral_factor |-> f]
    BY <2>1
  <2> QED
    BY <2>2 DEF A, B
<1> DEFINE v == cp.csa_versions
<1>2. v = csa_versions(reviews, terms) /\ cp.collateral_factor = f
  BY <1>1
<1>3. PICK n \in DOMAIN v : Covering(v, date) = {n} /\ v[n].threshold \in Nat /\ v[n].mta \in Nat
  BY <1>2, OneCovers
<1> HIDE DEF v
<1>4. csa_on(cp, date) = v[n]
  <2> DEFINE c == {i \in DOMAIN cp.csa_versions :
                     cp.csa_versions[i].valid_from <= date /\ date <= cp.csa_versions[i].valid_to}
  <2>1. c = {n}
    BY <1>3 DEF Covering, v
  <2>2. csa_on(cp, date) = IF c # {} THEN cp.csa_versions[CHOOSE i \in c : \A j \in c : i <= j]
                           ELSE IF date < cp.csa_versions[1].valid_from THEN cp.csa_versions[1]
                                ELSE Last(cp.csa_versions)
    BY DEF csa_on
  <2> HIDE DEF c
  <2>3. n <= n
    <3>1. n \in DOMAIN v
      OBVIOUS
    <3>2. v = csa_versions(reviews, terms)
      BY <1>2
    <3>3. DOMAIN v \subseteq Nat
      <4>1. SIM_END_DATE \in Nat /\ {SIM_START_DATE} \cup reviews \in SUBSET (0..SIM_END_DATE)
        BY DatesAssumption
      <4>2. DOMAIN ascending({SIM_START_DATE} \cup reviews) \subseteq Nat
        <5> DEFINE S == {SIM_START_DATE} \cup reviews
        <5>1. IsAscending(ascending(S), S)
          BY <4>1, AscendingIs
        <5> HIDE DEF S
        <5>2. DOMAIN ascending(S) \subseteq Nat
          BY <5>1 DEF IsAscending
        <5> QED
          BY <5>2 DEF S
      <4> QED
        BY <3>2, <4>2 DEF csa_versions
    <3> QED
      BY <3>1, <3>3
  <2>4. (CHOOSE i \in c : \A j \in c : i <= j) = n
    BY <2>1, <2>3
  <2> QED
    BY <2>1, <2>2, <2>4 DEF v
<1>5. {x.version : x \in {w \in ToSet(v) : w.valid_from <= date /\ date <= w.valid_to}} = {v[n].version}
  <2>1. {w \in ToSet(v) : w.valid_from <= date /\ date <= w.valid_to} = {v[n]}
    <3>1. \A w : w \in ToSet(v) <=> \E i \in DOMAIN v : w = v[i]
      BY DEF ToSet
    <3>2. \A i \in DOMAIN v : v[i].valid_from <= date /\ date <= v[i].valid_to <=> i = n
      BY <1>3 DEF Covering
    <3> QED
      BY <3>1, <3>2
  <2> QED
    BY <2>1
<1>6. threshold_on(cp, date) \in Nat
  BY <1>3, <1>4 DEF threshold_on, vc_effective_threshold
<1> QED
  BY <1>2, <1>3, <1>4, <1>5, <1>6, TermsAssumption DEF v

-----------------------------------------------------------------------------
(* The walk.                                                               *)

\* Day by day: what the run shows, and that nothing is open before the first
\* day of the window, after which no day is skipped.
WalkInv ==
  /\ TypeOK /\ OpenCallCovers /\ ReturnsKeepSupport /\ OneVersionInForce
  /\ book \in [Counterparties -> generate_counterparty]
  /\ Len(wanted) \in Nat
  /\ IF started THEN ~Before(walked) ELSE \A c \in Counterparties : settle_day[c] = -1

\* The day that is walked next is one of the window.
LEMMA DayIsInWindow ==
  ASSUME walked \in Days, Walking, ~Before(walked + 1)
  PROVE  /\ walked + 1 \in Days /\ walked + 1 \in Nat /\ walked \in Nat /\ walked + 1 # -1
         /\ Dates[walked + 1] \in Window
<1>1. Len(Dates) \in Nat /\ Days = 1..Len(Dates) /\ \A i \in 1..Len(Dates) : Dates[i] \in Nat
  BY DatesAssumption, LenProperties, ElementOfSeq DEF Days
<1> QED
  BY <1>1, DatesAssumption DEF Walking, Before, Window

\* A day's row: what is held that day, what is required, and a call for the
\* difference.
LEMMA RowIs ==
  ASSUME WalkInv, Walking, ~Before(walked + 1),
         NEW exposure \in [Counterparties -> Exposures], NEW c \in Counterparties
  PROVE  LET r == row(c, walked + 1, exposure)
         IN /\ r.as_of = Dates[walked + 1]
            /\ r.csa_version = csa_on(book[c], Dates[walked + 1]).version
            /\ r.exposure \in Int /\ r.threshold \in Nat
            /\ r.required = required_support(r.exposure, r.threshold) /\ r.required \in Nat
            /\ r.collateral \in Nat /\ r.call_due \in Nat
            /\ r.call_raised => ~still_open(c, walked + 1) /\ r.collateral + r.call_due = r.required
            /\ still_open(c, walked + 1) => r.collateral = collateral[c]
            /\ r.call_raised \in BOOLEAN
<1> DEFINE now == walked + 1
           e == exposure[c]
           th == threshold_on(book[c], Dates[now])
           mta == csa_on(book[c], Dates[now]).mta
           h == held(now, exposure)[c]
           b == vc_evaluate_breach(e, h, th, mta)
           r == row(c, now, exposure)
<1>1. walked \in Days /\ now \in Nat /\ Dates[now] \in Window
  BY DayIsInWindow DEF WalkInv, TypeOK
<1>2. e \in Int
  BY TermsAssumption
<1>3. th \in Nat /\ mta \in Nat /\ book[c].collateral_factor \in Nat
  <2>1. book[c] \in generate_counterparty
    BY DEF WalkInv
  <2> QED
    BY <1>1, <2>1, TermsHold
<1>4. settle_day[c] \in Int /\ collateral[c] \in Nat /\ pending[c] \in Nat
  <2>1. Len(Dates) \in Nat /\ Days = 1..Len(Dates)
    BY DatesAssumption, LenProperties DEF Days
  <2>2. settle_day \in [Counterparties -> {-1} \cup Days \cup {Len(Dates) + 1, Len(Dates) + 2}]
    BY DEF WalkInv, TypeOK
  <2>3. settle_day[c] \in {-1} \cup Days \cup {Len(Dates) + 1, Len(Dates) + 2}
    BY <2>2
  <2>4. collateral[c] \in Nat /\ pending[c] \in Nat
    BY DEF WalkInv, TypeOK
  <2> QED
    BY <2>1, <2>3, <2>4
<1>5. h \in Nat /\ (still_open(c, now) => h = collateral[c])
  <2>1. CASE started
    <3>1. h = collateral[c] + IF settle_day[c] = now THEN pending[c] ELSE 0
      BY <2>1 DEF held, settled, settling
    <3> QED
      BY <1>4, <3>1 DEF still_open, settling
  <2>2. CASE ~started
    <3>1. h = opening(c, required_support(e, th))
      BY <2>2 DEF held
    <3>2. required_support(e, th) \in Nat
      BY <1>2, <1>3 DEF required_support, Largest
    <3>3. (required_support(e, th) * book[c].collateral_factor) \div 100 \in Int
      <4>1. required_support(e, th) * book[c].collateral_factor \in Int
        BY <1>3, <3>2
      <4> QED
        BY <4>1
    <3>4. h \in Nat
      BY <3>1, <3>3, TermsAssumption DEF opening, Largest
    <3>5. settle_day[c] = -1
      BY <2>2 DEF WalkInv
    <3> QED
      BY <3>4, <3>5 DEF still_open
  <2> QED
    BY <2>1, <2>2
<1>6. r = [as_of |-> Dates[now], exposure |-> e, threshold |-> th, collateral |-> h, required |-> b.required,
           call_due |-> b.call_amount, breached |-> b.breached,
           call_raised |-> b.breached /\ ~still_open(c, now),
           csa_version |-> csa_on(book[c], Dates[now]).version]
  BY DEF row
<1> HIDE DEF e, th, mta, h, r
<1>7. /\ b.required = required_support(e, th) /\ b.required \in Nat
      /\ b.call_amount \in Nat
      /\ b.breached => h + b.call_amount = b.required
      /\ b.breached \in BOOLEAN
  <2> DEFINE q == required_support(e, th)
             due == q - h > 0 /\ q - h >= mta
  <2>1. b = [breached |-> due, call_amount |-> IF due THEN q - h ELSE 0, required |-> q]
    BY Zenon DEF vc_evaluate_breach, required_support
  <2>2. q \in Nat
    BY <1>2, <1>3 DEF required_support, Largest
  <2> HIDE DEF q, b
  <2>3. b.breached = due /\ b.call_amount = (IF due THEN q - h ELSE 0) /\ b.required = q
    BY <2>1
  <2>4. b.breached \in BOOLEAN
    BY <2>3
  <2>5. b.call_amount \in Nat /\ (b.breached => h + b.call_amount = b.required)
    <3>1. CASE due
      <4>1. b.call_amount = q - h
        BY <2>3, <3>1
      <4> QED
        BY <1>5, <2>2, <2>3, <3>1, <4>1
    <3>2. CASE ~due
      <4>1. b.call_amount = 0 /\ ~b.breached
        BY <2>3, <3>2
      <4> QED
        BY <4>1
    <3> QED
      BY <3>1, <3>2
  <2> QED
    BY <2>2, <2>3, <2>4, <2>5 DEF q
<1> HIDE DEF b
<1>8. /\ r.as_of = Dates[now] /\ r.exposure = e /\ r.threshold = th /\ r.collateral = h /\ r.required = b.required
      /\ r.call_due = b.call_amount /\ r.call_raised = (b.breached /\ ~still_open(c, now))
      /\ r.csa_version = csa_on(book[c], Dates[now]).version
  BY <1>6
<1>9. r.call_raised \in BOOLEAN
  BY <1>8
<1> QED
  BY <1>2, <1>3, <1>5, <1>7, <1>8, <1>9 DEF r

\* What goes back at a month's end leaves what is required, and nothing goes
\* back while a call is open.
LEMMA ReturnIs ==
  ASSUME NEW c, NEW now, NEW r, r.collateral \in Nat, r.required \in Nat, NEW open \in BOOLEAN
  PROVE  \/ returned(c, now, r, open) = 0
         \/ ~open /\ returned(c, now, r, open) = r.collateral - r.required /\ returned(c, now, r, open) > 0
<1> DEFINE mta == csa_on(book[c], r.as_of).mta
<1>1. \/ return_amount(r.collateral, r.required, mta) = 0
      \/ /\ return_amount(r.collateral, r.required, mta) = r.collateral - r.required
         /\ r.collateral - r.required > 0
  BY DEF return_amount
<1> QED
  BY <1>1 DEF returned

\* The chunk a day is written to, or past: the first that does not end before.
LEMMA PositionIs ==
  ASSUME Len(wanted) \in Nat, position \in 1..(Len(wanted) + 1), NEW date
  PROVE  LET p == next_position(date)
         IN /\ p \in position..(Len(wanted) + 1)
            /\ p <= Len(wanted) => date <= wanted[p].end
            /\ \A q \in position..Len(wanted) : q < p => ~(date <= wanted[q].end)
<1> DEFINE ahead == {p \in position..Len(wanted) : date <= wanted[p].end}
           p == next_position(date)
<1>1. p = IF ahead = {} THEN Len(wanted) + 1 ELSE CHOOSE i \in ahead : \A j \in ahead : i <= j
  BY DEF next_position
<1>2. CASE ahead = {}
  <2>1. p = Len(wanted) + 1
    BY <1>1, <1>2
  <2>2. \A q \in position..Len(wanted) : ~(date <= wanted[q].end)
    BY <1>2
  <2> HIDE DEF p
  <2> QED
    BY <2>1, <2>2 DEF p
<1>3. CASE ahead # {}
  <2>1. ahead \in SUBSET Nat
    OBVIOUS
  <2>2. \E i \in ahead : \A j \in ahead : i <= j
    <3> HIDE DEF ahead
    <3> QED
      BY <1>3, <2>1, LeastOf
  <2>3. p \in ahead /\ \A j \in ahead : p <= j
    <3> HIDE DEF ahead
    <3> QED
      BY <1>1, <1>3, <2>2
  <2> HIDE DEF p
  <2>4. p \in position..Len(wanted) /\ date <= wanted[p].end
    BY <2>3
  <2>5. \A q \in position..Len(wanted) : q < p => ~(date <= wanted[q].end)
    BY <2>3, <2>4
  <2> QED
    BY <2>4, <2>5 DEF p
<1> QED
  BY <1>2, <1>3

\* A day before the window changes nothing but the day walked.
LEMMA SkipWalk ==
  ASSUME WalkInv, Skip
  PROVE  WalkInv'
<1>1. Len(Dates) \in Nat /\ Days = 1..Len(Dates) /\ \A i \in 1..Len(Dates) : Dates[i] \in Nat
  BY DatesAssumption, LenProperties, ElementOfSeq DEF Days
<1>2. walked \in 1..Len(Dates) /\ walked + 1 \in 1..Len(Dates) /\ SIM_START_DATE \in Nat
  BY <1>1, DatesAssumption DEF Skip, Walking, WalkInv, TypeOK
<1>3. ~started
  <2>1. ASSUME started PROVE FALSE
    <3>1. ~(Dates[walked] < SIM_START_DATE) /\ Dates[walked + 1] < SIM_START_DATE
      BY <2>1 DEF WalkInv, Skip, Before
    <3>2. Dates[walked] < Dates[walked + 1]
      BY <1>1, <1>2, DatesAssumption
    <3> QED
      BY <1>1, <1>2, <3>1, <3>2
  <2> QED
    BY <2>1
<1>4. walked' = walked + 1 /\ UNCHANGED <<book, wanted, started, collateral, pending, settle_day, day, calls, position>>
  BY DEF Skip
<1>5. \A c \in Counterparties : settle_day[c] = -1 /\ pending[c] = 0
  BY <1>3 DEF WalkInv, OpenCallCovers
<1>6. TypeOK'
  BY <1>1, <1>2, <1>4 DEF WalkInv, TypeOK
<1>7. OpenCallCovers'
  BY <1>4, <1>5 DEF OpenCallCovers
<1>8. ReturnsKeepSupport' /\ OneVersionInForce'
  BY <1>4 DEF WalkInv, ReturnsKeepSupport, OneVersionInForce, NoDay
<1> QED
  BY <1>3, <1>4, <1>5, <1>6, <1>7, <1>8 DEF WalkInv

\* A day of the window keeps what the walk keeps.
LEMMA StepWalk ==
  ASSUME WalkInv, Step
  PROVE  WalkInv'
<1> DEFINE now == walked + 1
<1>1. Walking /\ ~Before(now) /\ walked' = now /\ WriteDay(now) /\ UNCHANGED <<book, wanted>>
  BY DEF Step
<1>2. /\ now \in Days /\ now \in Nat /\ walked \in Nat /\ Dates[now] \in Window
  BY <1>1, DayIsInWindow DEF WalkInv, TypeOK
<1>3. PICK exposure \in [Counterparties -> Exposures], sla_met \in [Counterparties -> BOOLEAN] :
        Walk(now, exposure, sla_met)
  BY DEF Step
<1> DEFINE rows == [c \in Counterparties |-> row(c, now, exposure)]
           raised == {c \in Counterparties : rows[c].call_raised}
           new == [c \in raised |-> call_row(c, now, rows[c], sla_met[c])]
           open(c) == c \in raised \/ still_open(c, now)
           back(c) == returned(c, now, rows[c], open(c))
<1>4. /\ day' = rows
      /\ calls' = calls \cup {new[c] : c \in raised}
      /\ pending' = [c \in Counterparties |-> IF c \in raised THEN rows[c].call_due
                                              ELSE IF c \in settling(now) THEN 0 ELSE pending[c]]
      /\ settle_day' = [c \in Counterparties |-> IF c \in raised THEN new[c].settle_day
                                                 ELSE IF c \in settling(now) THEN -1 ELSE settle_day[c]]
      /\ collateral' = [c \in Counterparties |-> rows[c].collateral - back(c)]
      /\ started' = TRUE
  BY <1>3 DEF Walk
<1>5. ASSUME NEW c \in Counterparties
      PROVE  /\ rows[c].as_of = Dates[now]
             /\ rows[c].csa_version = csa_on(book[c], Dates[now]).version
             /\ rows[c].exposure \in Int /\ rows[c].threshold \in Nat
             /\ rows[c].required = required_support(rows[c].exposure, rows[c].threshold) /\ rows[c].required \in Nat
             /\ rows[c].collateral \in Nat /\ rows[c].call_due \in Nat
             /\ c \in raised => ~still_open(c, now) /\ rows[c].collateral + rows[c].call_due = rows[c].required
             /\ still_open(c, now) => rows[c].collateral = collateral[c]
             /\ open(c) \in BOOLEAN
             /\ rows[c].call_raised \in BOOLEAN
  <2>1. rows[c] = row(c, now, exposure)
    OBVIOUS
  <2>2. /\ row(c, now, exposure).as_of = Dates[now]
        /\ row(c, now, exposure).csa_version = csa_on(book[c], Dates[now]).version
        /\ row(c, now, exposure).exposure \in Int /\ row(c, now, exposure).threshold \in Nat
        /\ row(c, now, exposure).required
             = required_support(row(c, now, exposure).exposure, row(c, now, exposure).threshold)
        /\ row(c, now, exposure).required \in Nat
        /\ row(c, now, exposure).collateral \in Nat /\ row(c, now, exposure).call_due \in Nat
        /\ row(c, now, exposure).call_raised =>
             ~still_open(c, now) /\ row(c, now, exposure).collateral + row(c, now, exposure).call_due
                                      = row(c, now, exposure).required
        /\ still_open(c, now) => row(c, now, exposure).collateral = collateral[c]
        /\ row(c, now, exposure).call_raised \in BOOLEAN
    BY <1>1, RowIs
  <2>3. c \in raised <=> rows[c].call_raised
    OBVIOUS
  <2>4. open(c) \in BOOLEAN
    BY DEF still_open
  <2> HIDE DEF rows, open
  <2> QED
    BY <2>1, <2>2, <2>3, <2>4
<1>6. ASSUME NEW c \in raised
      PROVE  /\ new[c].cp = c /\ new[c].amount = rows[c].call_due /\ new[c].exposure = rows[c].exposure
             /\ new[c].threshold = rows[c].threshold /\ new[c].settle_day \in {now + 1, now + 2}
  BY DEF call_row
<1> HIDE DEF rows, raised, new
<1>7. raised \subseteq Counterparties
  BY DEF raised
<1>8. ASSUME NEW c \in Counterparties
      PROVE  \/ back(c) = 0
             \/ ~open(c) /\ back(c) = rows[c].collateral - rows[c].required /\ back(c) > 0
  <2>1. rows[c].collateral \in Nat /\ rows[c].required \in Nat /\ open(c) \in BOOLEAN
    BY <1>5
  <2> HIDE DEF open
  <2>2. \/ returned(c, now, rows[c], open(c)) = 0
        \/ /\ ~open(c) /\ returned(c, now, rows[c], open(c)) = rows[c].collateral - rows[c].required
           /\ returned(c, now, rows[c], open(c)) > 0
    BY <2>1, ReturnIs, Zenon
  <2> QED
    BY <2>2
<1> HIDE DEF open, back
<1>9. ASSUME NEW c \in Counterparties
      PROVE  settle_day[c] \in {-1} \cup Days \cup {Len(Dates) + 1, Len(Dates) + 2} /\ pending[c] \in Nat
  BY DEF WalkInv, TypeOK
<1>10. Len(Dates) \in Nat /\ Days = 1..Len(Dates)
  BY DatesAssumption, LenProperties DEF Days
<1>11. position' \in 1..(Len(wanted) + 1)
  <2>1. Len(wanted) \in Nat /\ position \in 1..(Len(wanted) + 1)
    BY DEF WalkInv, TypeOK
  <2>2. position' = next_position(Dates[now])
    BY <1>1 DEF WriteDay
  <2>3. next_position(Dates[now]) \in position..(Len(wanted) + 1)
    BY <2>1, PositionIs
  <2> QED
    BY <2>1, <2>2, <2>3
<1>12. ASSUME NEW c \in Counterparties
       PROVE  /\ collateral'[c] \in Nat /\ pending'[c] \in Nat
              /\ settle_day'[c] \in {-1} \cup Days \cup {Len(Dates) + 1, Len(Dates) + 2}
  <2>1. collateral'[c] \in Nat
    <3>1. collateral'[c] = rows[c].collateral - back(c)
      BY <1>4
    <3> QED
      BY <1>5, <1>8, <3>1
  <2>2. pending'[c] \in Nat
    BY <1>4, <1>5, <1>9
  <2>3. CASE c \in raised
    <3>1. settle_day'[c] \in {now + 1, now + 2}
      BY <1>4, <1>6, <2>3
    <3> QED
      BY <1>2, <1>10, <2>1, <2>2, <3>1
  <2>4. CASE c \notin raised
    BY <1>4, <1>9, <2>1, <2>2, <2>4
  <2> QED
    BY <2>3, <2>4
<1>13. TypeOK'
  <2>1. /\ collateral' \in [Counterparties -> Nat] /\ pending' \in [Counterparties -> Nat]
        /\ settle_day' \in [Counterparties -> {-1} \cup Days \cup {Len(Dates) + 1, Len(Dates) + 2}]
    BY <1>4, <1>12
  <2> QED
    BY <1>1, <1>2, <1>4, <1>11, <2>1 DEF TypeOK
<1>14. ASSUME NEW c \in Counterparties
       PROVE  IF settle_day'[c] = -1 THEN pending'[c] = 0
              ELSE /\ settle_day'[c] > walked'
                   /\ \E k \in calls' :
                        /\ k.cp = c /\ k.settle_day = settle_day'[c] /\ k.amount = pending'[c]
                        /\ collateral'[c] + pending'[c] = required_support(k.exposure, k.threshold)
  <2>1. CASE c \in raised
    <3>1. settle_day'[c] = new[c].settle_day /\ pending'[c] = rows[c].call_due
      BY <1>4, <2>1
    <3>2. settle_day'[c] > walked' /\ settle_day'[c] # -1
      BY <1>1, <1>2, <1>6, <2>1, <3>1
    <3>3. back(c) = 0
      BY <1>8, <2>1 DEF open
    <3>4. collateral'[c] = rows[c].collateral
      BY <1>4, <1>5, <3>3
    <3>5. new[c] \in calls'
      BY <1>4, <2>1
    <3>6. collateral'[c] + pending'[c] = required_support(new[c].exposure, new[c].threshold)
      BY <1>5, <1>6, <2>1, <3>1, <3>4
    <3> QED
      BY <1>6, <2>1, <3>1, <3>2, <3>5, <3>6
  <2>2. CASE c \notin raised /\ c \in settling(now)
    BY <1>4, <2>2
  <2>3. CASE c \notin raised /\ c \notin settling(now)
    <3>1. settle_day'[c] = settle_day[c] /\ pending'[c] = pending[c]
      BY <1>4, <2>3
    <3>2. CASE settle_day[c] = -1
      BY <3>1, <3>2 DEF WalkInv, OpenCallCovers
    <3>3. CASE settle_day[c] # -1
      <4>1. PICK k \in calls :
              /\ k.cp = c /\ k.settle_day = settle_day[c] /\ k.amount = pending[c]
              /\ collateral[c] + pending[c] = required_support(k.exposure, k.threshold)
        BY <3>3 DEF WalkInv, OpenCallCovers
      <4>2. settle_day[c] > walked /\ settle_day[c] # now /\ settle_day[c] \in Int
        <5>1. settle_day[c] > walked
          BY <3>3 DEF WalkInv, OpenCallCovers
        <5> QED
          BY <1>9, <1>10, <2>3, <5>1 DEF settling
      <4>3. still_open(c, now)
        BY <1>2, <2>3, <4>2 DEF still_open
      <4>4. back(c) = 0
        BY <1>8, <4>3 DEF open
      <4>5. collateral'[c] = collateral[c]
        BY <1>4, <1>5, <4>3, <4>4
      <4>6. k \in calls'
        BY <1>4
      <4>7. settle_day'[c] > walked'
        BY <1>1, <1>2, <3>1, <4>2
      <4> QED
        BY <3>1, <3>3, <4>1, <4>5, <4>6, <4>7
    <3> QED
      BY <3>2, <3>3
  <2> QED
    BY <2>1, <2>2, <2>3
<1>15. OpenCallCovers'
  BY <1>14 DEF OpenCallCovers
<1>16. ReturnsKeepSupport'
  <2>1. ASSUME NEW c \in Counterparties, collateral'[c] < rows[c].collateral
        PROVE  collateral'[c] >= rows[c].required /\ settle_day'[c] = -1
    <3>1. collateral'[c] = rows[c].collateral - back(c)
      BY <1>4
    <3>2. ~open(c) /\ back(c) = rows[c].collateral - rows[c].required
      BY <1>5, <1>8, <2>1, <3>1
    <3>3. collateral'[c] = rows[c].required
      BY <1>5, <3>1, <3>2
    <3>4. c \notin raised /\ ~still_open(c, now)
      BY <3>2 DEF open
    <3>5. settle_day'[c] = IF c \in settling(now) THEN -1 ELSE settle_day[c]
      BY <1>4, <3>4
    <3>6. settle_day'[c] = -1
      BY <1>9, <1>10, <3>4, <3>5 DEF still_open
    <3> QED
      BY <1>5, <3>3, <3>6
  <2> QED
    BY <1>4, <2>1 DEF ReturnsKeepSupport
<1>17. OneVersionInForce'
  <2>1. ASSUME NEW c \in Counterparties
        PROVE  {v.version : v \in {w \in ToSet(book[c].csa_versions) :
                                     w.valid_from <= rows[c].as_of /\ rows[c].as_of <= w.valid_to}}
                 = {rows[c].csa_version}
    <3>1. book[c] \in generate_counterparty
      BY DEF WalkInv
    <3>2. rows[c].as_of = Dates[now] /\ rows[c].csa_version = csa_on(book[c], Dates[now]).version
      BY <1>5
    <3> QED
      BY <1>2, <3>1, <3>2, TermsHold
  <2>2. day' = rows /\ book' = book
    BY <1>1, <1>4
  <2> QED
    BY <2>1, <2>2 DEF OneVersionInForce
<1> QED
  BY <1>1, <1>4, <1>13, <1>15, <1>16, <1>17 DEF WalkInv, Before

-----------------------------------------------------------------------------
(* The chunk files.                                                        *)

Names == {Quarter(d) : d \in Window}

\* A least and a greatest element of a set of days of the window.
LEMMA WindowEnds ==
  ASSUME NEW D \in SUBSET Window, D # {}
  PROVE  Min(D) \in D /\ Max(D) \in D /\ \A d \in D : Min(D) <= d /\ d <= Max(D)
<1>1. SIM_END_DATE \in Nat /\ D \in SUBSET (0..SIM_END_DATE) /\ D \in SUBSET Nat
  BY DatesAssumption DEF Window
<1>2. \E x \in D : \A y \in D : x <= y
  BY <1>1, LeastOf
<1>3. \E x \in D : \A y \in D : y <= x
  BY <1>1, BoundedGreatest
<1>4. \E x \in D : \A y \in D : x >= y
  <2>1. PICK x \in D : \A y \in D : y <= x
    BY <1>3
  <2>2. \A y \in D : x >= y
    BY <1>1, <2>1
  <2> QED
    BY <2>2
<1>5. Min(D) \in D /\ \A y \in D : Min(D) <= y
  BY <1>2 DEF Min
<1>6. Max(D) \in D /\ \A y \in D : Max(D) >= y
  BY <1>4 DEF Max
<1>7. \A y \in D : y <= Max(D)
  BY <1>1, <1>6
<1> QED
  BY <1>5, <1>6, <1>7

\* A chunk is its quarter's part of the window.
LEMMA ChunkIs ==
  ASSUME NEW c \in all_chunks
  PROVE  /\ c.name \in Names /\ c.start \in Window /\ c.end \in Window
         /\ c.start <= c.end
         /\ Quarter(c.start) = c.name /\ Quarter(c.end) = c.name
         /\ \A d \in Window : Quarter(d) = c.name => c.start <= d
<1>1. PICK q \in Names :
        c = [name |-> q, start |-> Min({d \in Window : Quarter(d) = q}), end |-> Max({d \in Window : Quarter(d) = q})]
  BY DEF all_chunks, Names
<1> DEFINE D == {d \in Window : Quarter(d) = q}
<1>2. D \in SUBSET Window /\ D # {}
  BY DEF Names
<1>3. c.name = q /\ c.start = Min(D) /\ c.end = Max(D)
  BY <1>1
<1>4. \A d \in Window : d \in D <=> Quarter(d) = q
  OBVIOUS
<1> HIDE DEF D
<1>5. Min(D) \in D /\ Max(D) \in D /\ \A d \in D : Min(D) <= d /\ d <= Max(D)
  BY <1>2, WindowEnds
<1> QED
  BY <1>2, <1>3, <1>4, <1>5

\* Chunks do not overlap.
LEMMA ChunksApart ==
  ASSUME NEW c \in all_chunks, NEW e \in all_chunks, c.start < e.start
  PROVE  c.end < e.start
<1>1. \A d \in Window : d \in Nat
  BY DatesAssumption DEF Window
<1>2. /\ c.start \in Window /\ c.end \in Window /\ e.start \in Window
      /\ Quarter(c.start) = c.name /\ Quarter(c.end) = c.name /\ Quarter(e.start) = e.name
  BY ChunkIs
<1>3. SUFFICES ASSUME ~(c.end < e.start) PROVE FALSE
  OBVIOUS
<1>4. e.start <= c.end /\ c.start <= e.start
  BY <1>1, <1>2, <1>3
<1>5. Quarter(e.start) <= Quarter(c.end) /\ Quarter(c.start) <= Quarter(e.start)
      /\ Quarter(e.start) \in Nat /\ Quarter(c.end) \in Nat
  BY <1>2, <1>4, QuarterAssumption
<1>6. c.name = e.name
  BY <1>2, <1>5
<1>7. e.start <= c.start
  BY <1>2, <1>6, ChunkIs
<1> QED
  BY <1>1, <1>2, <1>7

\* The chunks of a run in order, none overlapping the next.
Listed(w) ==
  /\ Len(w) \in Nat /\ DOMAIN w = 1..Len(w)
  /\ \A p \in 1..Len(w) :
       /\ w[p].name \in Names /\ w[p].start \in Nat /\ w[p].end \in Nat
       /\ SIM_START_DATE <= w[p].start /\ w[p].start <= w[p].end /\ w[p].end <= SIM_END_DATE
  /\ \A p, q \in 1..Len(w) : p < q => w[p].end < w[q].start

\* in_order lists them so.
LEMMA InOrder ==
  ASSUME NEW chunks \in SUBSET all_chunks
  PROVE  Listed(in_order(chunks))
<1> DEFINE S == {c.start : c \in chunks}
           s == ascending(S)
           w == in_order(chunks)
           m == Cardinality(S)
<1>1. SIM_START_DATE \in Nat /\ SIM_END_DATE \in Nat
  BY DatesAssumption
<1>2. S \in SUBSET (0..SIM_END_DATE)
  <2>1. \A c \in chunks : c.start \in 0..SIM_END_DATE
    BY <1>1, ChunkIs DEF Window
  <2> QED
    BY <2>1
<1>3. m \in Nat /\ IsAscending(s, S)
  BY <1>1, <1>2, AscendingIs
<1>4. w = [n \in DOMAIN s |-> CHOOSE c \in chunks : c.start = s[n]]
  BY DEF in_order
<1> HIDE DEF s, m, w
<1>5. s \in [1..m -> S] /\ DOMAIN s = 1..m /\ \A i, j \in 1..m : i < j => s[i] < s[j]
  BY <1>3 DEF IsAscending, Ascends, m
<1>6. ASSUME NEW n \in 1..m PROVE w[n] \in chunks /\ w[n].start = s[n]
  <2>1. s[n] \in S
    BY <1>5
  <2>2. \E c \in chunks : c.start = s[n]
    BY <2>1
  <2>3. w[n] = CHOOSE c \in chunks : c.start = s[n]
    BY <1>4, <1>5
  <2> QED
    BY <2>2, <2>3
<1>7. Len(w) = m /\ DOMAIN w = 1..m
  <2>1. w = [n \in 1..m |-> w[n]] /\ DOMAIN w = 1..m
    BY <1>4, <1>5
  <2>2. w \in [1..m -> chunks]
    BY <1>6, <2>1
  <2>3. w \in Seq(chunks)
    BY <1>3, <2>2
  <2> QED
    BY <1>3, <2>1, <2>3, LenProperties
<1>8. ASSUME NEW p \in 1..m
      PROVE  /\ w[p].name \in Names /\ w[p].start \in Nat /\ w[p].end \in Nat
             /\ SIM_START_DATE <= w[p].start /\ w[p].start <= w[p].end /\ w[p].end <= SIM_END_DATE
  <2>1. w[p] \in all_chunks
    BY <1>6
  <2>2. w[p].name \in Names /\ w[p].start \in Window /\ w[p].end \in Window /\ w[p].start <= w[p].end
    BY <2>1, ChunkIs
  <2> QED
    BY <1>1, <2>2 DEF Window
<1>9. ASSUME NEW p \in 1..m, NEW q \in 1..m, p < q PROVE w[p].end < w[q].start
  <2>1. w[p] \in all_chunks /\ w[q] \in all_chunks
    BY <1>6
  <2>2. w[p].start < w[q].start
    BY <1>5, <1>6, <1>9
  <2> QED
    BY <2>1, <2>2, ChunksApart
<1> QED
  BY <1>3, <1>7, <1>8, <1>9 DEF Listed, w

\* Appending to a list.
LEMMA Appended ==
  ASSUME NEW T, NEW s \in Seq(T), NEW e \in T
  PROVE  /\ Append(s, e) \in Seq(T)
         /\ DOMAIN Append(s, e) = DOMAIN s \cup {Len(s) + 1} /\ DOMAIN s = 1..Len(s) /\ Len(s) \in Nat
         /\ Append(s, e)[Len(s) + 1] = e /\ \A i \in DOMAIN s : Append(s, e)[i] = s[i]
         /\ ToSet(Append(s, e)) = ToSet(s) \cup {e}
<1>1. Len(s) \in Nat /\ DOMAIN s = 1..Len(s)
  BY LenProperties
<1>2. Append(s, e) \in Seq(T) /\ Len(Append(s, e)) = Len(s) + 1
  OBVIOUS
<1>3. DOMAIN Append(s, e) = 1..(Len(s) + 1)
  BY <1>1, <1>2, LenProperties
<1>4. Append(s, e)[Len(s) + 1] = e /\ \A i \in 1..Len(s) : Append(s, e)[i] = s[i]
  BY <1>1
<1>5. DOMAIN Append(s, e) = DOMAIN s \cup {Len(s) + 1}
  BY <1>1, <1>3
<1>6. ToSet(Append(s, e)) = ToSet(s) \cup {e}
  <2> DEFINE a == Append(s, e)
  <2>1. DOMAIN a = DOMAIN s \cup {Len(s) + 1} /\ a[Len(s) + 1] = e /\ \A i \in DOMAIN s : a[i] = s[i]
    BY <1>1, <1>4, <1>5
  <2> HIDE DEF a
  <2>2. ToSet(a) = ToSet(s) \cup {e}
    BY <2>1 DEF ToSet
  <2> QED
    BY <2>2 DEF a
<1> QED
  BY <1>1, <1>2, <1>4, <1>5, <1>6

\* An ascending list stays one when something greater is appended.
LEMMA AscendsOn ==
  ASSUME NEW s \in Seq(Nat), Ascends(s), NEW e \in Nat, \A i \in ToSet(s) : i < e
  PROVE  Ascends(Append(s, e))
<1> DEFINE a == Append(s, e)
<1>1. /\ DOMAIN a = DOMAIN s \cup {Len(s) + 1} /\ DOMAIN s = 1..Len(s) /\ Len(s) \in Nat
      /\ a[Len(s) + 1] = e /\ \A i \in DOMAIN s : a[i] = s[i]
  BY Appended
<1> HIDE DEF a
<1>2. ASSUME NEW i \in DOMAIN a, NEW j \in DOMAIN a, i < j PROVE a[i] < a[j]
  <2>1. i \in DOMAIN s
    BY <1>1, <1>2
  <2>2. CASE j \in DOMAIN s
    BY <1>1, <1>2, <2>1, <2>2 DEF Ascends
  <2>3. CASE j = Len(s) + 1
    <3>1. s[i] \in ToSet(s)
      BY <2>1 DEF ToSet
    <3> QED
      BY <1>1, <2>1, <2>3, <3>1
  <2> QED
    BY <1>1, <2>2, <2>3
<1> QED
  BY <1>2 DEF Ascends, a

\* The days of the p-th chunk, the first of the prices aside, and those of
\* them that were walked.
DaysOf(p) == TradingDays(wanted[p]) \ {1}
Reached(p) == {i \in DaysOf(p) : i <= walked}

HasFile(p) == \E n \in DOMAIN yielded : yielded[n].chunk = wanted[p].name

\* The open file holds what was walked of its chunk, or the walk has ended
\* and it is closed; the chunks before it have ended; what was closed is
\* whole, and earlier than what is open.
FilesInv ==
  /\ walked \in Days /\ Listed(wanted) /\ position \in 1..(Len(wanted) + 1)
  /\ file \in Seq(Nat) /\ yielded \in Seq([chunk : Names, days : Seq(Nat)])
  /\ Ascends(file)
  /\ position > Len(wanted) => file = NoFile
  /\ position <= Len(wanted) =>
       /\ \A i \in 2..walked : Dates[i] <= wanted[position].end
       /\ ToSet(file) = Reached(position) \/ (~Walking /\ file = NoFile /\ HasFile(position))
  /\ \A q \in 1..Len(wanted) : q < position =>
       wanted[q].end < Dates[walked] /\ (DaysOf(q) # {} => HasFile(q))
  /\ \A n \in DOMAIN yielded :
       /\ \E p \in 1..Len(wanted) : yielded[n].chunk = wanted[p].name /\ ToSet(yielded[n].days) = DaysOf(p)
       /\ yielded[n].days # NoFile /\ Ascends(yielded[n].days)
       /\ \A i \in ToSet(yielded[n].days) : i <= walked /\ \A j \in ToSet(file) : i < j
  /\ \A m, n \in DOMAIN yielded : m < n =>
       \A i \in ToSet(yielded[m].days), j \in ToSet(yielded[n].days) : i < j

\* The days are in calendar order.
LEMMA InCalendarOrder ==
  /\ Len(Dates) \in Nat /\ Days = 1..Len(Dates)
  /\ \A i \in Days : Dates[i] \in Nat
  /\ \A i, j \in Days : i < j => Dates[i] < Dates[j]
  /\ SIM_START_DATE \in Nat /\ SIM_END_DATE \in Nat
BY DatesAssumption, LenProperties, ElementOfSeq DEF Days

\* Nothing is open or written at first.
LEMMA InitFiles == WalkInit => FilesInv
<1> SUFFICES ASSUME WalkInit PROVE FilesInv
  OBVIOUS
<1>1. PICK chunks \in SUBSET all_chunks : wanted = in_order(chunks)
  BY DEF WalkInit
<1>2. Listed(wanted)
  BY <1>1, InOrder
<1>3. Len(wanted) \in Nat
  BY <1>2 DEF Listed
<1>4. walked = 1 /\ position = 1 /\ file = <<>> /\ yielded = <<>>
  BY DEF WalkInit, NoFile
<1>5. 1 \in Days
  <2>1. Len(Dates) # 0
    BY DatesAssumption, EmptySeq
  <2> QED
    BY <2>1, InCalendarOrder
<1>6. DOMAIN yielded = {} /\ ToSet(file) = {}
  BY <1>4 DEF ToSet
<1>7. Reached(1) = {}
  <2>1. \A i \in DaysOf(1) : i \in Nat /\ i # 1 /\ i # 0
    BY InCalendarOrder DEF DaysOf, TradingDays
  <2> QED
    BY <1>4, <2>1 DEF Reached
<1>8. Ascends(file)
  BY <1>4 DEF Ascends
<1>9. file \in Seq(Nat) /\ yielded \in Seq([chunk : Names, days : Seq(Nat)])
  BY <1>4, EmptySeq
<1>10. position \in 1..(Len(wanted) + 1) /\ file = NoFile
  BY <1>3, <1>4 DEF NoFile
<1>11. \A i \in 2..walked : FALSE
  BY <1>4
<1>12. \A q \in 1..Len(wanted) : ~(q < position)
  BY <1>3, <1>4
<1>13. ToSet(file) = Reached(position)
  BY <1>4, <1>6, <1>7
<1> QED
  BY <1>2, <1>4, <1>5, <1>6, <1>8, <1>9, <1>10, <1>11, <1>12, <1>13 DEF FilesInv

\* A day of a chunk that ended before some day is before it.
LEMMA BeforeDay ==
  ASSUME Listed(wanted), NEW q \in 1..Len(wanted), NEW now \in Days, wanted[q].end < Dates[now], NEW i \in DaysOf(q)
  PROVE  i \in Days /\ i < now /\ i # 1 /\ wanted[q].start <= Dates[i] /\ Dates[i] <= wanted[q].end
<1>1. i \in Days /\ i # 1 /\ Dates[i] \in wanted[q].start..wanted[q].end
  BY DEF DaysOf, TradingDays
<1>2. wanted[q].start \in Nat /\ wanted[q].end \in Nat
  BY DEF Listed
<1>3. Dates[i] \in Nat /\ Dates[now] \in Nat /\ i \in Nat /\ now \in Nat
  BY <1>1, InCalendarOrder
<1>4. ~(now = i) /\ ~(now < i)
  BY <1>1, <1>2, <1>3, InCalendarOrder
<1> QED
  BY <1>1, <1>2, <1>3, <1>4

\* A day that is skipped is before every chunk.
LEMMA SkipFiles ==
  ASSUME FilesInv, Skip
  PROVE  FilesInv'
<1> DEFINE now == walked + 1
<1>1. Walking /\ Before(now) /\ walked' = now /\ UNCHANGED <<wanted, position, file, yielded>>
  BY DEF Skip
<1>2. now \in Days /\ walked \in Days /\ now \in Nat /\ walked \in Nat /\ position <= Len(wanted) /\ walked < now
  BY <1>1, InCalendarOrder DEF Walking, FilesInv
<1>3. Dates[walked] < Dates[now] /\ Dates[now] < SIM_START_DATE /\ Dates[now] \in Nat /\ Dates[walked] \in Nat
  BY <1>1, <1>2, InCalendarOrder DEF Before
<1>4. Listed(wanted) /\ position \in 1..Len(wanted)
  <2>1. Listed(wanted) /\ position \in 1..(Len(wanted) + 1)
    BY DEF FilesInv
  <2>2. Len(wanted) \in Nat
    BY <2>1 DEF Listed
  <2> QED
    BY <1>2, <2>1, <2>2
<1>5. wanted[position].start \in Nat /\ wanted[position].end \in Nat
      /\ SIM_START_DATE <= wanted[position].start /\ wanted[position].start <= wanted[position].end
  BY <1>4 DEF Listed
<1>6. \A i \in 2..now : Dates[i] <= wanted[position].end
  <2>1. ASSUME NEW i \in 2..now PROVE Dates[i] <= wanted[position].end
    <3>1. CASE i = now
      BY <1>3, <1>5, <3>1, InCalendarOrder
    <3>2. CASE i # now
      BY <1>2, <1>4, <3>2 DEF FilesInv
    <3> QED
      BY <3>1, <3>2
  <2> QED
    BY <2>1
<1>7. {i \in DaysOf(position) : i <= now} = Reached(position)
  <2>1. now \notin DaysOf(position)
    BY <1>3, <1>5, InCalendarOrder DEF DaysOf, TradingDays
  <2>2. \A i \in DaysOf(position) : i \in Nat
    BY InCalendarOrder DEF DaysOf, TradingDays
  <2>3. \A i \in DaysOf(position) : i <= now <=> i <= walked
    BY <1>2, <2>1, <2>2
  <2> QED
    BY <2>3 DEF Reached
<1>8. ToSet(file) = Reached(position)
  BY <1>1, <1>2 DEF FilesInv
<1>9. \A q \in 1..Len(wanted) : q < position => wanted[q].end < Dates[now]
  <2>1. ASSUME NEW q \in 1..Len(wanted), q < position PROVE wanted[q].end < Dates[now]
    <3>1. wanted[q].end < Dates[walked] /\ wanted[q].end \in Nat
      BY <1>4, <2>1 DEF FilesInv, Listed
    <3> QED
      BY <1>3, <3>1
  <2> QED
    BY <2>1
<1>10. yielded' = yielded /\ wanted' = wanted /\ file' = file /\ position' = position /\ walked' = now
  BY <1>1
<1>11. \A n \in DOMAIN yielded : \A i \in ToSet(yielded[n].days) : i <= now
  <2>1. ASSUME NEW n \in DOMAIN yielded, NEW i \in ToSet(yielded[n].days) PROVE i <= now
    <3>1. i <= walked
      BY <2>1 DEF FilesInv
    <3>2. PICK p \in 1..Len(wanted) : ToSet(yielded[n].days) = DaysOf(p)
      BY <2>1 DEF FilesInv
    <3>3. i \in Nat
      BY <2>1, <3>2, InCalendarOrder DEF DaysOf, TradingDays
    <3> QED
      BY <1>2, <3>1, <3>3
  <2> QED
    BY <2>1
<1>12. (ToSet(file) = Reached(position))'
  <2>1. Reached(position)' = {i \in DaysOf(position) : i <= now}
    BY <1>10 DEF Reached, DaysOf
  <2> QED
    BY <1>7, <1>8, <1>10, <2>1
<1>13. /\ (walked \in Days /\ Listed(wanted) /\ position \in 1..(Len(wanted) + 1))'
       /\ (file \in Seq(Nat) /\ yielded \in Seq([chunk : Names, days : Seq(Nat)]) /\ Ascends(file))'
       /\ (position > Len(wanted) => file = NoFile)'
  BY <1>2, <1>10 DEF FilesInv, NoFile
<1>14. (\A i \in 2..walked : Dates[i] <= wanted[position].end)'
  BY <1>6, <1>10
<1>15. (\A q \in 1..Len(wanted) : q < position =>
          wanted[q].end < Dates[walked] /\ (DaysOf(q) # {} => HasFile(q)))'
  BY <1>9, <1>10 DEF FilesInv, HasFile, DaysOf
<1>16. (\A n \in DOMAIN yielded :
          /\ \E p \in 1..Len(wanted) : yielded[n].chunk = wanted[p].name /\ ToSet(yielded[n].days) = DaysOf(p)
          /\ yielded[n].days # NoFile /\ Ascends(yielded[n].days)
          /\ \A i \in ToSet(yielded[n].days) : i <= walked /\ \A j \in ToSet(file) : i < j)'
  BY <1>10, <1>11 DEF FilesInv, DaysOf, NoFile
<1>17. (\A m, n \in DOMAIN yielded : m < n =>
          \A i \in ToSet(yielded[m].days), j \in ToSet(yielded[n].days) : i < j)'
  BY <1>10 DEF FilesInv
<1> QED
  BY <1>12, <1>13, <1>14, <1>15, <1>16, <1>17 DEF FilesInv

\* A day of a chunk that ended by the end of the walk was walked.
LEMMA AllWalked ==
  ASSUME FilesInv, ~Walking, position <= Len(wanted), NEW q \in 1..Len(wanted), NEW i \in DaysOf(q)
  PROVE  i <= walked
<1>1. i \in Days /\ Dates[i] \in wanted[q].start..wanted[q].end
  BY DEF DaysOf, TradingDays
<1>2. wanted[q].start \in Nat /\ wanted[q].end \in Nat /\ wanted[q].end <= SIM_END_DATE /\ SIM_END_DATE \in Nat
  BY InCalendarOrder DEF FilesInv, Listed
<1>3. i \in Nat /\ walked \in Nat /\ walked \in Days /\ Dates[i] \in Nat
  BY <1>1, InCalendarOrder DEF FilesInv
<1>4. SUFFICES ASSUME walked < i PROVE FALSE
  BY <1>3
<1>5. walked + 1 \in Days /\ (walked + 1 = i \/ walked + 1 < i)
  BY <1>1, <1>3, <1>4, InCalendarOrder
<1>6. Dates[walked + 1] <= Dates[i]
  BY <1>1, <1>3, <1>5, InCalendarOrder
<1>7. Dates[walked + 1] <= SIM_END_DATE
  BY <1>1, <1>2, <1>3, <1>5, <1>6, InCalendarOrder
<1> QED
  BY <1>5, <1>7 DEF Walking

\* Closed files are whole chunks of walked days, one after the other in time.
AreWhole(y) ==
  /\ y \in Seq([chunk : Names, days : Seq(Nat)])
  /\ \A n \in DOMAIN y :
       /\ \E p \in 1..Len(wanted) : y[n].chunk = wanted[p].name /\ ToSet(y[n].days) = DaysOf(p)
       /\ y[n].days # NoFile /\ Ascends(y[n].days)
       /\ \A i \in ToSet(y[n].days) : i <= walked
  /\ \A m, n \in DOMAIN y : m < n => \A i \in ToSet(y[m].days), j \in ToSet(y[n].days) : i < j

\* They hold the q-th chunk.
Holds(y, q) == \E n \in DOMAIN y : y[n].chunk = wanted[q].name

\* A file that is closed is whole.
LEMMA ClosedFiles ==
  ASSUME FilesInv, file # NoFile, position \in 1..Len(wanted), ToSet(file) = DaysOf(position),
         NEW y, y = Append(yielded, [chunk |-> wanted[position].name, days |-> file])
  PROVE  AreWhole(y) /\ \A q \in 1..Len(wanted) : HasFile(q) \/ q = position => Holds(y, q)
<1> USE DEF AreWhole, Holds
<1> DEFINE e == [chunk |-> wanted[position].name, days |-> file]
           T == [chunk : Names, days : Seq(Nat)]
           k == Len(yielded) + 1
<1>1. e \in T /\ yielded \in Seq(T) /\ e.chunk = wanted[position].name /\ e.days = file
  BY DEF FilesInv, Listed
<1>2. /\ y \in Seq(T) /\ DOMAIN y = DOMAIN yielded \cup {k} /\ DOMAIN yielded = 1..Len(yielded) /\ Len(yielded) \in Nat
      /\ y[k] = e /\ \A i \in DOMAIN yielded : y[i] = yielded[i]
  <2> HIDE DEF T, e
  <2> QED
    BY <1>1, Appended DEF e
<1> HIDE DEF e, T
<1>3. \A i \in ToSet(file) : i \in Nat /\ i <= walked
  <2>1. \A i \in DaysOf(position) : i \in Nat
    BY InCalendarOrder DEF DaysOf, TradingDays
  <2>2. ToSet(file) = Reached(position)
    BY DEF FilesInv
  <2> QED
    BY <2>1, <2>2 DEF Reached
<1>4. ASSUME NEW n \in DOMAIN y
      PROVE  /\ \E p \in 1..Len(wanted) : y[n].chunk = wanted[p].name /\ ToSet(y[n].days) = DaysOf(p)
             /\ y[n].days # NoFile /\ Ascends(y[n].days)
             /\ \A i \in ToSet(y[n].days) : i <= walked
  <2>1. CASE n \in DOMAIN yielded
    BY <1>2, <2>1 DEF FilesInv
  <2>2. CASE n = k
    BY <1>1, <1>2, <1>3, <2>2 DEF FilesInv
  <2> QED
    BY <1>2, <2>1, <2>2
<1>6. ASSUME NEW m \in DOMAIN y, NEW n \in DOMAIN y, m < n,
             NEW i \in ToSet(y[m].days), NEW j \in ToSet(y[n].days)
      PROVE  i < j
  <2>1. m \in DOMAIN yielded /\ y[m] = yielded[m]
    BY <1>2, <1>6
  <2>2. CASE n \in DOMAIN yielded
    BY <1>2, <1>6, <2>1, <2>2 DEF FilesInv
  <2>3. CASE n = k
    BY <1>1, <1>2, <1>6, <2>1, <2>3 DEF FilesInv
  <2> QED
    BY <1>2, <2>2, <2>3
<1>7. ASSUME NEW q \in 1..Len(wanted), HasFile(q) \/ q = position
      PROVE  \E n \in DOMAIN y : y[n].chunk = wanted[q].name
  <2>1. CASE HasFile(q)
    BY <1>2, <2>1 DEF HasFile
  <2>2. CASE q = position
    BY <1>1, <1>2, <2>2
  <2> QED
    BY <1>7, <2>1, <2>2
<1> QED
  BY <1>2, <1>4, <1>6, <1>7 DEF T

\* The last file is closed when the walk has ended.
LEMMA CloseFiles ==
  ASSUME FilesInv, Close
  PROVE  FilesInv'
<1>1. ~Walking /\ file # NoFile /\ file' = NoFile /\ UNCHANGED <<wanted, walked, position>>
      /\ yielded' = Append(yielded, [chunk |-> wanted[position].name, days |-> file])
  BY DEF Close
<1>2. Len(wanted) \in Nat /\ position \in 1..Len(wanted) /\ position <= Len(wanted)
  BY <1>1 DEF FilesInv, Listed
<1>3. ToSet(file) = DaysOf(position)
  <2>1. ToSet(file) = Reached(position)
    BY <1>1, <1>2 DEF FilesInv
  <2>2. \A i \in DaysOf(position) : i <= walked
    BY <1>1, <1>2, AllWalked
  <2> QED
    BY <2>1, <2>2 DEF Reached
<1> DEFINE y == Append(yielded, [chunk |-> wanted[position].name, days |-> file])
<1> HIDE DEF y
<1>5. /\ y \in Seq([chunk : Names, days : Seq(Nat)])
      /\ \A q \in 1..Len(wanted) : HasFile(q) \/ q = position => \E n \in DOMAIN y : y[n].chunk = wanted[q].name
      /\ \A n \in DOMAIN y :
           /\ \E p \in 1..Len(wanted) : y[n].chunk = wanted[p].name /\ ToSet(y[n].days) = DaysOf(p)
           /\ y[n].days # NoFile /\ Ascends(y[n].days)
           /\ \A i \in ToSet(y[n].days) : i <= walked
      /\ \A m, n \in DOMAIN y : m < n => \A i \in ToSet(y[m].days), j \in ToSet(y[n].days) : i < j
  <2>1. AreWhole(y) /\ \A q \in 1..Len(wanted) : HasFile(q) \/ q = position => Holds(y, q)
    BY <1>1, <1>2, <1>3, ClosedFiles DEF y
  <2> QED
    BY <2>1 DEF AreWhole, Holds
<1>6. yielded' = y /\ wanted' = wanted /\ walked' = walked /\ position' = position /\ file' = <<>>
  BY <1>1 DEF y, NoFile
<1>7. file' \in Seq(Nat) /\ Ascends(file') /\ ToSet(file') = {} /\ file' = NoFile'
  BY <1>1, <1>6, EmptySeq DEF Ascends, ToSet, NoFile
<1>8. \A q \in 1..Len(wanted) : (HasFile(q) \/ q = position => HasFile(q)')
  <2>1. ASSUME NEW q \in 1..Len(wanted), HasFile(q) \/ q = position PROVE HasFile(q)'
    <3>1. \E n \in DOMAIN y : y[n].chunk = wanted[q].name
      BY <1>5, <2>1
    <3> QED
      BY <1>6, <3>1 DEF HasFile
  <2> QED
    BY <2>1
<1>9. (Walking <=> Walking')
  BY <1>6 DEF Walking
<1>10. HasFile(position)'
  BY <1>2, <1>6, <1>8 DEF HasFile
<1>11. (\A q \in 1..Len(wanted) : q < position =>
          wanted[q].end < Dates[walked] /\ (DaysOf(q) # {} => HasFile(q)))'
  <2>2. \A q : DaysOf(q)' = DaysOf(q)
    BY <1>6 DEF DaysOf
  <2>3. \A q : (HasFile(q))' <=> \E n \in DOMAIN y : y[n].chunk = wanted[q].name
    BY <1>6 DEF HasFile
  <2>4. ASSUME NEW q \in 1..Len(wanted), q < position
        PROVE  wanted[q].end < Dates[walked] /\ (DaysOf(q) # {} => \E n \in DOMAIN y : y[n].chunk = wanted[q].name)
    BY <1>5, <2>4 DEF FilesInv
  <2> QED
    BY <1>6, <2>2, <2>3, <2>4
<1>12. (\A n \in DOMAIN yielded :
          /\ \E p \in 1..Len(wanted) : yielded[n].chunk = wanted[p].name /\ ToSet(yielded[n].days) = DaysOf(p)
          /\ yielded[n].days # NoFile /\ Ascends(yielded[n].days)
          /\ \A i \in ToSet(yielded[n].days) : i <= walked /\ \A j \in ToSet(file) : i < j)'
  <2>1. \A p : DaysOf(p)' = DaysOf(p)
    BY <1>6 DEF DaysOf
  <2> QED
    BY <1>5, <1>6, <1>7, <2>1 DEF NoFile
<1>13. (\A m, n \in DOMAIN yielded : m < n =>
          \A i \in ToSet(yielded[m].days), j \in ToSet(yielded[n].days) : i < j)'
  BY <1>5, <1>6
<1>14. (position <= Len(wanted) =>
         /\ \A i \in 2..walked : Dates[i] <= wanted[position].end
         /\ ToSet(file) = Reached(position) \/ (~Walking /\ file = NoFile /\ HasFile(position)))'
  <2>1. \A i \in 2..walked : Dates[i] <= wanted[position].end
    BY <1>2 DEF FilesInv
  <2> QED
    BY <1>1, <1>6, <1>7, <1>9, <1>10, <2>1
<1>15. /\ (walked \in Days /\ Listed(wanted) /\ position \in 1..(Len(wanted) + 1))'
       /\ (yielded \in Seq([chunk : Names, days : Seq(Nat)]))'
  BY <1>5, <1>6 DEF FilesInv
<1> QED
  BY <1>7, <1>11, <1>12, <1>13, <1>14, <1>15 DEF FilesInv

\* A day is written to its chunk's file, after the files of the chunks it is
\* past are closed.
LEMMA StepFiles ==
  ASSUME FilesInv, Step
  PROVE  FilesInv'
<1> DEFINE now == walked + 1
           p == next_position(Dates[now])
           e == [chunk |-> wanted[position].name, days |-> file]
<1>1. Walking /\ ~Before(now) /\ walked' = now /\ WriteDay(now) /\ wanted' = wanted
  BY DEF Step
<1>2. /\ Listed(wanted) /\ Len(wanted) \in Nat /\ position \in 1..Len(wanted) /\ position <= Len(wanted)
  <2>1. Listed(wanted) /\ position \in 1..(Len(wanted) + 1) /\ position <= Len(wanted)
    BY <1>1 DEF FilesInv, Walking
  <2>2. Len(wanted) \in Nat
    BY <2>1 DEF Listed
  <2> QED
    BY <2>1, <2>2
<1>3. /\ walked \in Days /\ now \in Days /\ walked \in Nat /\ now \in Nat /\ now # 1 /\ walked < now
      /\ Dates[walked] < Dates[now] /\ Dates[now] \in Nat /\ Dates[walked] \in Nat
  <2>1. walked \in Days /\ now \in Days
    BY <1>1 DEF FilesInv, Walking
  <2>2. walked \in Nat /\ walked # 0 /\ now \in Nat
    BY <2>1, InCalendarOrder
  <2> QED
    BY <2>1, <2>2, InCalendarOrder
<1>4. /\ p \in position..(Len(wanted) + 1)
      /\ p <= Len(wanted) => Dates[now] <= wanted[p].end
      /\ \A q \in position..Len(wanted) : q < p => ~(Dates[now] <= wanted[q].end)
  BY <1>2, PositionIs
<1>5. /\ position' = p
      /\ yielded' = IF p # position /\ file # NoFile THEN Append(yielded, e) ELSE yielded
      /\ file' = LET open == IF p = position THEN file ELSE NoFile
                 IN IF p > Len(wanted) \/ Dates[now] < wanted[p].start THEN open ELSE Append(open, now)
  BY <1>1 DEF WriteDay, closed
<1> HIDE DEF p
<1>6. ToSet(file) = Reached(position)
  BY <1>1, <1>2 DEF FilesInv
<1>7. \A i \in ToSet(file) : i \in Nat /\ i <= walked /\ i < now
  <2>1. \A i \in DaysOf(position) : i \in Nat
    BY InCalendarOrder DEF DaysOf, TradingDays
  <2>2. \A i \in ToSet(file) : i \in Nat /\ i <= walked
    BY <1>6, <2>1 DEF Reached
  <2> QED
    BY <1>3, <2>2
<1>8. \A q \in 1..Len(wanted) :
        /\ wanted[q].start \in Nat /\ wanted[q].end \in Nat /\ wanted[q].start <= wanted[q].end
        /\ \A r \in 1..Len(wanted) : q < r => wanted[q].end < wanted[r].start
  BY <1>2 DEF Listed
<1>9. \A q \in 1..Len(wanted) : q < p => wanted[q].end < Dates[now]
  <2> SUFFICES ASSUME NEW q \in 1..Len(wanted), q < p PROVE wanted[q].end < Dates[now]
    OBVIOUS
  <2>1. CASE q < position
    <3>1. wanted[q].end < Dates[walked]
      BY <2>1 DEF FilesInv
    <3> QED
      BY <1>3, <1>8, <3>1
  <2>2. CASE ~(q < position)
    <3>1. q \in position..Len(wanted)
      BY <1>2, <2>2
    <3> QED
      BY <1>3, <1>4, <1>8, <3>1
  <2> QED
    BY <2>1, <2>2
<1>10. \A i \in 2..walked : Dates[i] <= wanted[position].end /\ Dates[i] \in Nat /\ i \in Days
  <2>1. \A i \in 2..walked : i \in Days
    BY <1>3, InCalendarOrder
  <2> QED
    BY <1>2, <2>1, InCalendarOrder DEF FilesInv
<1>11. ASSUME NEW q \in 1..Len(wanted), position < q, NEW i \in DaysOf(q)
       PROVE  i \in Nat /\ ~(i <= walked)
  <2>1. i \in Days /\ i \in Nat /\ i # 1 /\ i # 0 /\ wanted[q].start <= Dates[i] /\ Dates[i] \in Nat
    BY <1>8, InCalendarOrder DEF DaysOf, TradingDays
  <2>2. ASSUME i <= walked PROVE FALSE
    <3>1. Dates[i] <= wanted[position].end
      BY <1>3, <1>10, <2>1, <2>2
    <3>2. wanted[position].end < wanted[q].start
      BY <1>2, <1>8, <1>11
    <3> QED
      BY <1>2, <1>8, <2>1, <3>1, <3>2
  <2> QED
    BY <2>1, <2>2
<1>12. p # position => ToSet(file) = DaysOf(position)
  <2>1. ASSUME p # position PROVE DaysOf(position) = Reached(position)
    <3>1. position < p
      BY <1>2, <1>4, <2>1
    <3>2. wanted[position].end < Dates[now]
      BY <1>2, <1>9, <3>1
    <3>3. \A i \in DaysOf(position) : i \in Days /\ i < now
      BY <1>2, <1>3, <3>2, BeforeDay
    <3>4. \A i \in DaysOf(position) : i <= walked
      BY <1>3, <3>3, InCalendarOrder
    <3> QED
      BY <3>4 DEF Reached
  <2> QED
    BY <1>6, <2>1
\* What is closed.
<1>13. /\ yielded' \in Seq([chunk : Names, days : Seq(Nat)])
       /\ \A q \in 1..Len(wanted) : HasFile(q) => \E n \in DOMAIN yielded' : yielded'[n].chunk = wanted[q].name
       /\ p # position /\ file # NoFile => \E n \in DOMAIN yielded' : yielded'[n].chunk = wanted[position].name
       /\ \A n \in DOMAIN yielded' :
            /\ \E r \in 1..Len(wanted) : yielded'[n].chunk = wanted[r].name /\ ToSet(yielded'[n].days) = DaysOf(r)
            /\ yielded'[n].days # NoFile /\ Ascends(yielded'[n].days)
            /\ \A i \in ToSet(yielded'[n].days) : i <= walked
       /\ \A m, n \in DOMAIN yielded' : m < n =>
            \A i \in ToSet(yielded'[m].days), j \in ToSet(yielded'[n].days) : i < j
  <2>1. CASE p # position /\ file # NoFile
    <3>1. yielded' = Append(yielded, e) /\ ToSet(file) = DaysOf(position)
      BY <1>5, <1>12, <2>1
    <3>2. yielded' = Append(yielded, [chunk |-> wanted[position].name, days |-> file])
      BY <3>1
    <3>3. file # NoFile /\ position \in 1..Len(wanted) /\ ToSet(file) = DaysOf(position)
      BY <1>2, <2>1, <3>1
    <3>4. AreWhole(yielded') /\ \A q \in 1..Len(wanted) : HasFile(q) \/ q = position => Holds(yielded', q)
      BY <3>2, <3>3, ClosedFiles
    <3>5. \A q \in 1..Len(wanted) : HasFile(q) => \E n \in DOMAIN yielded' : yielded'[n].chunk = wanted[q].name
      BY <3>4 DEF Holds
    <3>6. \E n \in DOMAIN yielded' : yielded'[n].chunk = wanted[position].name
      BY <3>3, <3>4 DEF Holds
    <3> HIDE DEF e
    <3> QED
      BY <3>4, <3>5, <3>6 DEF AreWhole
  <2>2. CASE ~(p # position /\ file # NoFile)
    <3>1. yielded' = yielded
      BY <1>5, <2>2
    <3> QED
      BY <2>2, <3>1 DEF FilesInv, HasFile
  <2> QED
    BY <2>1, <2>2
\* What is open.
<1> DEFINE open == IF p = position THEN file ELSE NoFile
           written == p <= Len(wanted) /\ wanted[p].start <= Dates[now]
<1>14. file' = IF written THEN Append(open, now) ELSE open
  <2>1. p \in Nat
    BY <1>2, <1>4
  <2>2. p <= Len(wanted) => wanted[p].start \in Nat
    BY <1>2, <1>4, <1>8, <2>1
  <2>3. p > Len(wanted) \/ Dates[now] < wanted[p].start <=> ~written
    BY <1>2, <1>3, <2>1, <2>2
  <2> QED
    BY <1>5, <2>3
<1>15. open \in Seq(Nat) /\ Ascends(open) /\ (\A i \in ToSet(open) : i \in Nat /\ i <= walked /\ i < now)
  <2>1. CASE p = position
    BY <1>7, <2>1 DEF FilesInv
  <2>2. CASE p # position
    <3>1. open = <<>>
      BY <2>2 DEF NoFile
    <3>2. <<>> \in Seq(Nat) /\ ToSet(<<>>) = {} /\ Ascends(<<>>)
      BY EmptySeq DEF ToSet, Ascends
    <3> QED
      BY <3>1, <3>2
  <2> QED
    BY <2>1, <2>2
<1>16. ToSet(open) = IF p = position THEN Reached(position) ELSE {}
  BY <1>6 DEF NoFile, ToSet
<1>17. p \in 1..Len(wanted) => {i \in DaysOf(p) : i <= walked} = ToSet(open)
  <2>1. CASE p = position
    BY <1>16, <2>1 DEF Reached
  <2>2. CASE p # position
    <3>1. p \in 1..Len(wanted) => position < p
      BY <1>2, <1>4, <2>2
    <3> QED
      BY <1>11, <1>16, <2>2, <3>1
  <2> QED
    BY <2>1, <2>2
<1> HIDE DEF open
<1>18. file' \in Seq(Nat) /\ Ascends(file') /\ ToSet(file') = IF written THEN ToSet(open) \cup {now} ELSE ToSet(open)
  <2>1. CASE written
    BY <1>3, <1>14, <1>15, <2>1, Appended, AscendsOn
  <2>2. CASE ~written
    BY <1>14, <1>15, <2>2
  <2> QED
    BY <2>1, <2>2
<1>19. p \in 1..Len(wanted) => ToSet(file') = {i \in DaysOf(p) : i <= now}
  <2> SUFFICES ASSUME p \in 1..Len(wanted) PROVE ToSet(file') = {i \in DaysOf(p) : i <= now}
    OBVIOUS
  <2>1. now \in DaysOf(p) <=> written
    BY <1>2, <1>3, <1>4, <1>8 DEF DaysOf, TradingDays
  <2>2. \A i \in DaysOf(p) : i <= now <=> (i <= walked \/ i = now)
    <3>1. \A i \in DaysOf(p) : i \in Nat
      BY InCalendarOrder DEF DaysOf, TradingDays
    <3> QED
      BY <1>3, <3>1
  <2> QED
    BY <1>3, <1>17, <1>18, <2>1, <2>2
<1> HIDE DEF written
<1>20. \A i \in ToSet(file') : i \in ToSet(open) \/ i = now
  BY <1>18
\* The invariant.
<1>21. /\ (walked \in Days /\ Listed(wanted) /\ position \in 1..(Len(wanted) + 1))'
       /\ (file \in Seq(Nat) /\ yielded \in Seq([chunk : Names, days : Seq(Nat)]) /\ Ascends(file))'
  <2>1. p \in 1..(Len(wanted) + 1)
    BY <1>2, <1>4
  <2> QED
    BY <1>1, <1>2, <1>3, <1>5, <1>13, <1>18, <2>1
<1>22. (position > Len(wanted) => file = NoFile)'
  <2>1. ASSUME p > Len(wanted) PROVE file' = NoFile
    <3>1. p # position /\ ~written
      BY <1>2, <1>4, <2>1 DEF written
    <3> QED
      BY <1>14, <3>1 DEF open
  <2> QED
    BY <1>1, <1>5, <2>1 DEF NoFile
<1>23. (position <= Len(wanted) =>
         /\ \A i \in 2..walked : Dates[i] <= wanted[position].end
         /\ ToSet(file) = Reached(position) \/ (~Walking /\ file = NoFile /\ HasFile(position)))'
  <2> SUFFICES ASSUME p <= Len(wanted)
               PROVE  /\ \A i \in 2..now : Dates[i] <= wanted[p].end
                      /\ ToSet(file') = {i \in DaysOf(p) : i <= now}
    BY <1>1, <1>5 DEF Reached, DaysOf
  <2>1. p \in 1..Len(wanted)
    BY <1>2, <1>4
  <2>2. ASSUME NEW i \in 2..now PROVE Dates[i] <= wanted[p].end
    <3>1. CASE i = now
      BY <1>4, <2>1, <3>1
    <3>2. CASE i # now
      <4>1. i \in Days /\ i < now
        BY <1>3, <3>2, InCalendarOrder
      <4>2. Dates[i] < Dates[now] /\ Dates[i] \in Nat /\ Dates[now] <= wanted[p].end
        BY <1>3, <1>4, <2>1, <4>1, InCalendarOrder
      <4> QED
        BY <1>3, <1>8, <2>1, <4>2
    <3> QED
      BY <3>1, <3>2
  <2> QED
    BY <1>19, <2>1, <2>2
<1>24. (\A q \in 1..Len(wanted) : q < position =>
          wanted[q].end < Dates[walked] /\ (DaysOf(q) # {} => HasFile(q)))'
  <2>1. ASSUME NEW q \in 1..Len(wanted), q < p, DaysOf(q) # {}
        PROVE  \E n \in DOMAIN yielded' : yielded'[n].chunk = wanted[q].name
    <3>1. CASE q < position
      <4>1. HasFile(q)
        BY <2>1, <3>1 DEF FilesInv
      <4> QED
        BY <1>13, <4>1
    <3>2. CASE q = position
      <4>1. p # position /\ ToSet(file) # {}
        BY <1>2, <1>12, <2>1, <3>2
      <4>2. file # NoFile
        BY <4>1 DEF NoFile, ToSet
      <4> QED
        BY <1>13, <3>2, <4>1, <4>2
    <3>3. CASE position < q
      <4>1. PICK i \in DaysOf(q) : TRUE
        BY <2>1
      <4>2. ~(i <= walked) /\ i \in Nat
        BY <1>11, <3>3
      <4>3. wanted[q].end < Dates[now]
        BY <1>9, <2>1
      <4>4. i < now
        BY <1>2, <1>3, <4>3, BeforeDay
      <4> QED
        BY <1>3, <4>2, <4>4
    <3> QED
      BY <1>2, <3>1, <3>2, <3>3
  <2>2. \A q : DaysOf(q)' = DaysOf(q)
    BY <1>1 DEF DaysOf
  <2>3. \A q : HasFile(q)' <=> \E n \in DOMAIN yielded' : yielded'[n].chunk = wanted[q].name
    BY <1>1 DEF HasFile
  <2> QED
    BY <1>1, <1>5, <1>9, <2>1, <2>2, <2>3
<1>25. (\A n \in DOMAIN yielded :
          /\ \E r \in 1..Len(wanted) : yielded[n].chunk = wanted[r].name /\ ToSet(yielded[n].days) = DaysOf(r)
          /\ yielded[n].days # NoFile /\ Ascends(yielded[n].days)
          /\ \A i \in ToSet(yielded[n].days) : i <= walked /\ \A j \in ToSet(file) : i < j)'
  <2>1. ASSUME NEW n \in DOMAIN yielded', NEW i \in ToSet(yielded'[n].days)
        PROVE  i <= now /\ \A j \in ToSet(file') : i < j
    <3>1. i <= walked
      BY <1>13, <2>1
    <3>2. PICK r \in 1..Len(wanted) : ToSet(yielded'[n].days) = DaysOf(r)
      BY <1>13, <2>1
    <3>3. i \in Nat /\ i < now
      BY <1>3, <2>1, <3>1, <3>2, InCalendarOrder DEF DaysOf, TradingDays
    <3>4. ASSUME NEW j \in ToSet(open) PROVE i < j
      <4>1. p = position
        BY <1>16, <3>4
      <4>2. yielded' = yielded /\ open = file
        BY <1>5, <4>1 DEF open
      <4> QED
        BY <2>1, <3>4, <4>2 DEF FilesInv
    <3> QED
      BY <1>3, <1>20, <3>3, <3>4
  <2>2. \A r : DaysOf(r)' = DaysOf(r)
    BY <1>1 DEF DaysOf
  <2> QED
    BY <1>1, <1>13, <2>1, <2>2 DEF NoFile
<1>26. (\A m, n \in DOMAIN yielded : m < n =>
          \A i \in ToSet(yielded[m].days), j \in ToSet(yielded[n].days) : i < j)'
  BY <1>13
<1> QED
  BY <1>21, <1>22, <1>23, <1>24, <1>25, <1>26 DEF FilesInv

\* What is written is complete.
LEMMA FilesAreComplete == FilesInv => ChunksAreComplete
<1> SUFFICES ASSUME FilesInv PROVE ChunksAreComplete
  OBVIOUS
<1>1. Listed(wanted) /\ Len(wanted) \in Nat /\ DOMAIN wanted = 1..Len(wanted) /\ position \in 1..(Len(wanted) + 1)
  BY DEF FilesInv, Listed
<1>2. \A c : c \in ToSet(wanted) <=> \E p \in 1..Len(wanted) : c = wanted[p]
  BY <1>1 DEF ToSet
<1>3. ASSUME NEW n \in DOMAIN yielded
      PROVE  /\ \E c \in ToSet(wanted) : yielded[n].chunk = c.name /\ ToSet(yielded[n].days) = TradingDays(c) \ {1}
             /\ yielded[n].days # NoFile /\ Ascends(yielded[n].days)
  <2>1. PICK p \in 1..Len(wanted) : yielded[n].chunk = wanted[p].name /\ ToSet(yielded[n].days) = DaysOf(p)
    BY DEF FilesInv
  <2>2. wanted[p] \in ToSet(wanted)
    BY <1>2
  <2> QED
    BY <2>1, <2>2 DEF FilesInv, DaysOf
<1>4. ASSUME ~Walking, file = NoFile, NEW q \in 1..Len(wanted), DaysOf(q) # {} PROVE HasFile(q)
  <2>1. CASE q < position
    BY <1>4, <2>1 DEF FilesInv
  <2>2. CASE q = position
    <3>1. position <= Len(wanted)
      BY <1>1, <2>2
    <3>2. \A i \in DaysOf(q) : i <= walked
      BY <1>4, <3>1, AllWalked
    <3>3. ToSet(file) = {}
      BY <1>4 DEF NoFile, ToSet
    <3>4. Reached(position) # {}
      BY <1>4, <2>2, <3>2 DEF Reached
    <3> QED
      BY <2>2, <3>1, <3>3, <3>4 DEF FilesInv
  <2>3. CASE position < q
    <3>1. position <= Len(wanted) /\ position \in 1..Len(wanted)
      BY <1>1, <2>3
    <3>2. PICK i \in DaysOf(q) : TRUE
      BY <1>4
    <3>3. i <= walked
      BY <1>4, <3>1, AllWalked
    <3>4. i \in Days /\ i \in Nat /\ i # 1 /\ i # 0 /\ walked \in Nat /\ Dates[i] \in wanted[q].start..wanted[q].end
      BY InCalendarOrder DEF DaysOf, TradingDays, FilesInv
    <3>5. Dates[i] <= wanted[position].end
      <4>1. i \in 2..walked
        BY <3>3, <3>4
      <4>2. \A j \in 2..walked : Dates[j] <= wanted[position].end
        BY <3>1 DEF FilesInv
      <4> QED
        BY <4>1, <4>2
    <3>6. /\ wanted[position].end < wanted[q].start /\ wanted[position].end \in Nat
          /\ wanted[q].start \in Nat /\ wanted[q].end \in Nat
      BY <1>1, <2>3, <3>1 DEF Listed
    <3> QED
      BY <3>4, <3>5, <3>6
  <2> QED
    BY <1>1, <2>1, <2>2, <2>3
<1>5. ~Walking /\ file = NoFile =>
       \A c \in ToSet(wanted) : TradingDays(c) \ {1} # {} => \E n \in DOMAIN yielded : yielded[n].chunk = c.name
  BY <1>2, <1>4 DEF DaysOf, HasFile
<1> QED
  BY <1>3, <1>5 DEF ChunksAreComplete, FilesInv

\* The walk as it begins.
LEMMA InitWalk == WalkInit => WalkInv
<1> SUFFICES ASSUME WalkInit PROVE WalkInv
  OBVIOUS
<1>1. FilesInv
  BY InitFiles
<1>2. Len(wanted) \in Nat /\ position \in 1..(Len(wanted) + 1) /\ walked \in Days
  BY <1>1 DEF FilesInv, Listed
<1>3. /\ book \in [Counterparties -> generate_counterparty] /\ started = FALSE
      /\ collateral = [c \in Counterparties |-> 0] /\ pending = [c \in Counterparties |-> 0]
      /\ settle_day = [c \in Counterparties |-> -1] /\ day = NoDay
  BY DEF WalkInit
<1>4. TypeOK
  BY <1>2, <1>3 DEF TypeOK
<1>5. OpenCallCovers /\ ReturnsKeepSupport /\ OneVersionInForce
  BY <1>3 DEF OpenCallCovers, ReturnsKeepSupport, OneVersionInForce
<1> QED
  BY <1>2, <1>3, <1>4, <1>5 DEF WalkInv

\* Closing a file changes nothing of the walk.
LEMMA CloseWalk ==
  ASSUME WalkInv, UNCHANGED <<book, wanted, walked, started, collateral, pending, settle_day, day, calls, position>>
  PROVE  WalkInv'
<1>1. TypeOK'
  BY DEF WalkInv, TypeOK, NoDay
<1>2. OpenCallCovers'
  BY DEF WalkInv, OpenCallCovers
<1>3. ReturnsKeepSupport'
  BY DEF WalkInv, ReturnsKeepSupport
<1>4. OneVersionInForce'
  BY DEF WalkInv, OneVersionInForce
<1>5. /\ (book \in [Counterparties -> generate_counterparty] /\ Len(wanted) \in Nat)'
      /\ (IF started THEN ~Before(walked) ELSE \A c \in Counterparties : settle_day[c] = -1)'
  BY DEF WalkInv, Before
<1> QED
  BY <1>1, <1>2, <1>3, <1>4, <1>5 DEF WalkInv

\* So does every step, for what is shown and for what is written.
LEMMA NextWalk ==
  ASSUME WalkInv, FilesInv, [WalkNext]_walkVars
  PROVE  WalkInv' /\ FilesInv'
<1>1. CASE Skip
  BY <1>1, SkipWalk, SkipFiles
<1>2. CASE Step
  BY <1>2, StepWalk, StepFiles
<1>3. CASE Close
  <2>1. UNCHANGED <<book, wanted, walked, started, collateral, pending, settle_day, day, calls, position>>
    BY <1>3 DEF Close
  <2> QED
    BY <1>3, <2>1, CloseWalk, CloseFiles
<1>4. CASE UNCHANGED walkVars
  <2>1. /\ UNCHANGED <<book, wanted, walked, started, collateral, pending, settle_day, day, calls, position>>
        /\ UNCHANGED <<file, yielded>>
    BY <1>4 DEF walkVars
  <2>2. WalkInv'
    BY <2>1, CloseWalk
  <2>3. FilesInv'
    <3>1. /\ Walking' = Walking /\ Listed(wanted)' = Listed(wanted)
          /\ \A q : DaysOf(q)' = DaysOf(q) /\ Reached(q)' = Reached(q) /\ HasFile(q)' = HasFile(q)
      BY <2>1 DEF Walking, Listed, DaysOf, Reached, HasFile
    <3> QED
      BY <2>1, <3>1 DEF FilesInv
  <2> QED
    BY <2>2, <2>3
<1> QED
  BY <1>1, <1>2, <1>3, <1>4 DEF WalkNext

\* The inductive invariant of the walk and of the files cut from it.
THEOREM WalkInductive == WalkSpec => [](WalkInv /\ FilesInv)
<1>1. WalkInit => WalkInv /\ FilesInv
  BY InitWalk, InitFiles
<1>2. WalkInv /\ FilesInv /\ [WalkNext]_walkVars => (WalkInv /\ FilesInv)'
  BY NextWalk
<1> QED
  BY <1>1, <1>2, PTL DEF WalkSpec

\* For any calendar, book, exposures and outcomes of the SLA: an open call is
\* the one its row describes and its delivery restores what was required when
\* it was raised, a return never takes what the day requires, and every row
\* names the only CSA version in force on its day.
THEOREM WalkHolds == WalkSpec => []WalkIsConsistent
<1>1. WalkInv => WalkIsConsistent
  BY DEF WalkInv, WalkIsConsistent
<1> QED
  BY <1>1, WalkInductive, PTL

\* For any calendar and any of its quarters asked for: every file holds the
\* trading days of its chunk, each once and in order, and at the end every
\* chunk with a trading day has its file.
THEOREM ChunksHold == WalkSpec => []ChunksAreComplete
BY FilesAreComplete, WalkInductive, PTL

-----------------------------------------------------------------------------
(* The price matrix.                                                       *)

\* The days a column has a close on, up to a day, the newest of them, and what
\* the fill makes of the column on that day.
ClosedBy(column, i) == {j \in 1..i : column[j] # NaN}
Newest(column, i) == CHOOSE j \in ClosedBy(column, i) : \A k \in ClosedBy(column, i) : k <= j
GapAt(column, i) == IF ClosedBy(column, i) = {} THEN i ELSE i - Newest(column, i)
FillAt(column, i) ==
  IF ClosedBy(column, i) = {} \/ GapAt(column, i) > MAX_FILL_DAYS THEN NaN ELSE column[Newest(column, i)]

\* There is a newest close if there is one.
LEMMA NewestIs ==
  ASSUME NEW column, NEW i \in Nat
  PROVE  ClosedBy(column, i) # {} =>
           /\ Newest(column, i) \in ClosedBy(column, i) /\ Newest(column, i) \in 1..i
           /\ \A k \in ClosedBy(column, i) : k <= Newest(column, i)
<1> DEFINE T == ClosedBy(column, i)
<1> SUFFICES ASSUME T # {}
             PROVE  Newest(column, i) \in T /\ Newest(column, i) \in 1..i /\ \A k \in T : k <= Newest(column, i)
  OBVIOUS
<1>1. T \in SUBSET (0..i) /\ T \in SUBSET (1..i)
  BY DEF ClosedBy
<1>2. \E x \in T : \A y \in T : y <= x
  <2> HIDE DEF T
  <2> QED
    BY <1>1, BoundedGreatest
<1>3. Newest(column, i) \in T /\ \A k \in T : k <= Newest(column, i)
  <2>1. Newest(column, i) = CHOOSE j \in T : \A k \in T : k <= j
    BY DEF Newest
  <2> HIDE DEF T
  <2> QED
    BY <1>2, <2>1
<1> QED
  BY <1>1, <1>3

\* On a day of a close the newest is that day's, on another the day before's.
LEMMA NewestSteps ==
  ASSUME NEW column, NEW i \in Nat \ {0}
  PROVE  /\ column[i] # NaN => ClosedBy(column, i) # {} /\ Newest(column, i) = i
         /\ column[i] = NaN /\ i # 1 => ClosedBy(column, i) = ClosedBy(column, i - 1)
         /\ column[i] = NaN /\ i = 1 => ClosedBy(column, i) = {}
<1>1. ASSUME column[i] # NaN PROVE ClosedBy(column, i) # {} /\ Newest(column, i) = i
  <2>1. i \in ClosedBy(column, i)
    BY <1>1 DEF ClosedBy
  <2>2. i <= Newest(column, i) /\ Newest(column, i) \in 1..i
    BY <2>1, NewestIs
  <2> QED
    BY <2>1, <2>2
<1>2. ASSUME column[i] = NaN, i # 1 PROVE ClosedBy(column, i) = ClosedBy(column, i - 1)
  BY <1>2 DEF ClosedBy
<1>3. ASSUME column[i] = NaN, i = 1 PROVE ClosedBy(column, i) = {}
  BY <1>3 DEF ClosedBy
<1> QED
  BY <1>1, <1>2, <1>3

\* How the days missing in a row and the filled closes depend on the day before.
GapStep(g, column, i) == IF column[i] # NaN THEN 0 ELSE 1 + IF i = 1 THEN 0 ELSE g[i - 1]
FillStep(f, column, i) ==
  IF column[i] # NaN THEN column[i]
  ELSE IF (\E j \in ClosedBy(column, i) : j < i) /\ GapAt(column, i) <= MAX_FILL_DAYS THEN f[i - 1] ELSE NaN

\* The days missing in a row are one more than the day before.
LEMMA GapAtSteps ==
  ASSUME NEW column, NEW i \in Nat \ {0}
  PROVE  /\ GapAt(column, i) \in Nat
         /\ GapAt(column, i) = IF column[i] # NaN THEN 0 ELSE 1 + IF i = 1 THEN 0 ELSE GapAt(column, i - 1)
<1>1. CASE column[i] # NaN
  BY <1>1, NewestSteps DEF GapAt
<1>2. CASE column[i] = NaN /\ i = 1
  BY <1>2, NewestSteps DEF GapAt
<1>3. CASE column[i] = NaN /\ i # 1
  <2>1. ClosedBy(column, i) = ClosedBy(column, i - 1) /\ Newest(column, i) = Newest(column, i - 1)
    BY <1>3, NewestSteps DEF Newest
  <2>2. i - 1 \in Nat /\ (ClosedBy(column, i - 1) # {} => Newest(column, i - 1) \in 1..(i - 1))
    BY <1>3, NewestIs
  <2> QED
    BY <1>3, <2>1, <2>2 DEF GapAt
<1> QED
  BY <1>1, <1>2, <1>3

\* A day without a close has what the day before has, up to the limit.
LEMMA FillAtSteps ==
  ASSUME NEW column, NEW i \in Nat \ {0}, MAX_FILL_DAYS \in Nat
  PROVE  FillAt(column, i) =
           IF column[i] # NaN THEN column[i]
           ELSE IF (\E j \in ClosedBy(column, i) : j < i) /\ GapAt(column, i) <= MAX_FILL_DAYS
                THEN FillAt(column, i - 1) ELSE NaN
<1>1. CASE column[i] # NaN
  <2>1. ClosedBy(column, i) # {} /\ Newest(column, i) = i /\ GapAt(column, i) = 0
    BY <1>1, NewestSteps, GapAtSteps
  <2> QED
    BY <1>1, <2>1 DEF FillAt
<1>2. CASE column[i] = NaN /\ i = 1
  <2>1. ClosedBy(column, i) = {}
    BY <1>2, NewestSteps
  <2> QED
    BY <1>2, <2>1 DEF FillAt
<1>3. CASE column[i] = NaN /\ i # 1
  <2>1. ClosedBy(column, i) = ClosedBy(column, i - 1) /\ Newest(column, i) = Newest(column, i - 1)
    BY <1>3, NewestSteps DEF Newest
  <2>2. GapAt(column, i) = 1 + GapAt(column, i - 1) /\ i - 1 \in Nat \ {0}
    BY <1>3, GapAtSteps
  <2>3. GapAt(column, i - 1) \in Nat
    BY <2>2, GapAtSteps
  <2>4. \A j \in ClosedBy(column, i) : j < i
    BY <2>1 DEF ClosedBy
  <2>5. GapAt(column, i) <= MAX_FILL_DAYS => GapAt(column, i - 1) <= MAX_FILL_DAYS
    BY <2>2, <2>3
  <2>6. GapAt(column, i) > MAX_FILL_DAYS <=> ~(GapAt(column, i) <= MAX_FILL_DAYS)
    BY <2>2, <2>3
  <2>7. GapAt(column, i - 1) > MAX_FILL_DAYS <=> ~(GapAt(column, i - 1) <= MAX_FILL_DAYS)
    BY <2>3
  <2> QED
    BY <1>3, <2>1, <2>4, <2>5, <2>6, <2>7, Zenon DEF FillAt
<1> QED
  BY <1>1, <1>2, <1>3

\* Two columns that satisfy the same recursion agree.
LEMMA SameColumn ==
  ASSUME NEW n \in Nat, NEW f, NEW g,
         \A i \in 1..n : f[i] = g[i] \/ (i # 1 /\ f[i - 1] # g[i - 1])
  PROVE  \A i \in 1..n : f[i] = g[i]
<1> DEFINE B == {i \in 1..n : f[i] # g[i]}
<1> SUFFICES ASSUME B # {} PROVE FALSE
  OBVIOUS
<1>1. PICK i \in B : \A j \in B : i <= j
  <2>1. B \in SUBSET Nat
    OBVIOUS
  <2> HIDE DEF B
  <2> QED
    BY <2>1, LeastOf
<1>2. i # 1 /\ f[i - 1] # g[i - 1] /\ i \in 1..n
  BY <1>1
<1>3. i - 1 \in B /\ ~(i <= i - 1)
  BY <1>2
<1> QED
  BY <1>1, <1>3

\* What the fill makes of a column: its newest close, if it is recent.
LEMMA FillIs ==
  ASSUME NEW n \in Nat, NEW column, DOMAIN column = 1..n
  PROVE  /\ DOMAIN _forward_fill(column) = 1..n
         /\ \A i \in 1..n : _forward_fill(column)[i] = FillAt(column, i)
<1> DEFINE closed_on == {i \in DOMAIN column : column[i] # NaN}
           G(g) == [i \in DOMAIN column |->
                      IF i \in closed_on THEN 0 ELSE 1 + IF i = 1 THEN 0 ELSE g[i - 1]]
           gap == CHOOSE g : g = G(g)
           F(f) == [i \in DOMAIN column |->
                      IF i \in closed_on THEN column[i]
                      ELSE IF (\E j \in closed_on : j < i) /\ gap[i] <= MAX_FILL_DAYS THEN f[i - 1] ELSE NaN]
           fill == CHOOSE f : f = F(f)
           gaps == [i \in 1..n |-> GapAt(column, i)]
           fills == [i \in 1..n |-> FillAt(column, i)]
<1>1. _forward_fill(column) = fill
  BY Zenon DEF _forward_fill
<1>2. \A i \in 1..n : i \in Nat \ {0} /\ (i # 1 => i - 1 \in 1..n) /\ (i \in closed_on <=> column[i] # NaN)
  OBVIOUS
<1>3. ASSUME NEW g PROVE DOMAIN G(g) = 1..n /\ \A i \in 1..n :
        G(g)[i] = IF column[i] # NaN THEN 0 ELSE 1 + IF i = 1 THEN 0 ELSE g[i - 1]
  BY <1>2
<1>4. gaps = G(gaps)
  <2>1. \A i \in 1..n : gaps[i] = IF column[i] # NaN THEN 0 ELSE 1 + IF i = 1 THEN 0 ELSE gaps[i - 1]
    <3> TAKE i \in 1..n
    <3>1. GapAt(column, i) = IF column[i] # NaN THEN 0 ELSE 1 + IF i = 1 THEN 0 ELSE GapAt(column, i - 1)
      BY <1>2, GapAtSteps
    <3>2. gaps[i] = GapAt(column, i) /\ (i # 1 => gaps[i - 1] = GapAt(column, i - 1))
      BY <1>2
    <3> HIDE DEF gaps
    <3> QED
      BY <3>1, <3>2
  <2>2. DOMAIN gaps = 1..n
    OBVIOUS
  <2> HIDE DEF gaps, G
  <2>3. \A i \in 1..n : gaps[i] = G(gaps)[i]
    BY <1>3, <2>1
  <2>4. gaps = [i \in 1..n |-> gaps[i]] /\ G(gaps) = [i \in 1..n |-> G(gaps)[i]]
    BY <1>3, <2>2 DEF gaps, G
  <2> QED
    BY <2>3, <2>4
<1>5. gap = G(gap)
  BY <1>4, ZenonT(60)
<1> HIDE DEF gap
<1>6. \A i \in 1..n : gap[i] = GapAt(column, i)
  <2>1. \A i \in 1..n : gap[i] = IF column[i] # NaN THEN 0 ELSE 1 + IF i = 1 THEN 0 ELSE gap[i - 1]
    BY <1>3, <1>5
  <2>2. \A i \in 1..n : gaps[i] = IF column[i] # NaN THEN 0 ELSE 1 + IF i = 1 THEN 0 ELSE gaps[i - 1]
    BY <1>3, <1>4
  <2>3. \A i \in 1..n : gaps[i] = GapAt(column, i)
    OBVIOUS
  <2> HIDE DEF gaps
  <2>4. \A i \in 1..n : gap[i] = gaps[i] \/ (i # 1 /\ gap[i - 1] # gaps[i - 1])
    BY <2>1, <2>2
  <2>5. \A i \in 1..n : gap[i] = gaps[i]
    BY <2>4, SameColumn
  <2> QED
    BY <2>3, <2>5
<1>7. ASSUME NEW f PROVE DOMAIN F(f) = 1..n /\ \A i \in 1..n :
        F(f)[i] = IF column[i] # NaN THEN column[i]
                  ELSE IF (\E j \in ClosedBy(column, i) : j < i) /\ GapAt(column, i) <= MAX_FILL_DAYS
                       THEN f[i - 1] ELSE NaN
  <2>1. ASSUME NEW i \in 1..n
        PROVE  (\E j \in closed_on : j < i) <=> (\E j \in ClosedBy(column, i) : j < i)
    BY <2>1 DEF ClosedBy
  <2>2. ASSUME NEW i \in 1..n
        PROVE  F(f)[i] = IF column[i] # NaN THEN column[i]
                         ELSE IF (\E j \in ClosedBy(column, i) : j < i) /\ GapAt(column, i) <= MAX_FILL_DAYS
                              THEN f[i - 1] ELSE NaN
    <3>1. F(f)[i] = IF i \in closed_on THEN column[i]
                    ELSE IF (\E j \in closed_on : j < i) /\ gap[i] <= MAX_FILL_DAYS THEN f[i - 1] ELSE NaN
      BY <2>2
    <3> HIDE DEF F, closed_on
    <3> QED
      BY <1>2, <1>6, <2>1, <3>1
  <2> QED
    BY <2>2
<1>8. fills = F(fills)
  <2>1. \A i \in 1..n : fills[i] =
          IF column[i] # NaN THEN column[i]
          ELSE IF (\E j \in ClosedBy(column, i) : j < i) /\ GapAt(column, i) <= MAX_FILL_DAYS
               THEN fills[i - 1] ELSE NaN
    <3> TAKE i \in 1..n
    <3>1. FillAt(column, i) =
            IF column[i] # NaN THEN column[i]
            ELSE IF (\E j \in ClosedBy(column, i) : j < i) /\ GapAt(column, i) <= MAX_FILL_DAYS
                 THEN FillAt(column, i - 1) ELSE NaN
      BY <1>2, FillAtSteps, LimitsAssumption
    <3>2. fills[i] = FillAt(column, i) /\ (i # 1 => fills[i - 1] = FillAt(column, i - 1))
      BY <1>2
    <3>3. (\E j \in ClosedBy(column, i) : j < i) => i # 1
      BY DEF ClosedBy
    <3> HIDE DEF fills
    <3> QED
      BY <3>1, <3>2, <3>3
  <2>2. DOMAIN fills = 1..n
    OBVIOUS
  <2> HIDE DEF fills, F
  <2>3. \A i \in 1..n : fills[i] = F(fills)[i]
    BY <1>7, <2>1
  <2>4. fills = [i \in 1..n |-> fills[i]] /\ F(fills) = [i \in 1..n |-> F(fills)[i]]
    BY <1>7, <2>2 DEF fills, F
  <2> QED
    BY <2>3, <2>4
<1>9. fill = F(fill)
  BY <1>8, Zenon
<1> HIDE DEF fill, F
<1>10. \A i \in 1..n : fill[i] = fills[i] \/ (i # 1 /\ fill[i - 1] # fills[i - 1])
  <2>1. \A i \in 1..n : (\E j \in ClosedBy(column, i) : j < i) => i # 1
    BY DEF ClosedBy
  <2> HIDE DEF fills
  <2> QED
    BY <1>7, <1>8, <1>9, <2>1
<1>11. \A i \in 1..n : fill[i] = fills[i]
  <2> HIDE DEF fills
  <2> QED
    BY <1>10, SameColumn
<1>12. DOMAIN fill = 1..n
  BY <1>7, <1>9
<1> QED
  BY <1>1, <1>11, <1>12

\* What downloads can bring.
Results == {[s \in D |-> printed[s]] : D \in SUBSET ToSet(Symbols)}

\* A download brings closes as they were printed.
LEMMA ResultIs ==
  ASSUME NEW r \in Results
  PROVE  DOMAIN r \subseteq ToSet(Symbols) /\ \A s \in DOMAIN r : r[s] = printed[s]
BY DEF Results

Printed == DOMAIN printed = ToSet(Symbols) /\ \A s \in ToSet(Symbols) : printed[s] \in Series[s]

\* A finite set of naturals has a bound.
LEMMA HasBound ==
  ASSUME NEW S \in SUBSET Nat, IsFiniteSet(S)
  PROVE  \E n \in Nat : S \in SUBSET (0..n)
<1> DEFINE Q == {T \in SUBSET S : \E n \in Nat : T \in SUBSET (0..n)}
<1>1. {} \in Q
  OBVIOUS
<1>2. ASSUME NEW T \in SUBSET S, NEW x \in S \ T, T \in Q PROVE T \cup {x} \in Q
  <2>1. PICK n \in Nat : T \in SUBSET (0..n)
    BY <1>2
  <2>2. x \in Nat
    OBVIOUS
  <2>3. T \cup {x} \in SUBSET (0..(n + x)) /\ n + x \in Nat
    <3>1. ASSUME NEW y \in T PROVE y \in 0..(n + x)
      BY <2>1, <2>2
    <3>2. x \in 0..(n + x) /\ n + x \in Nat
      BY <2>1, <2>2
    <3> QED
      BY <3>1, <3>2
  <2> QED
    BY <2>3
<1> HIDE DEF Q
<1>3. S \in Q
  BY <1>1, <1>2, FiniteInduction
<1> QED
  BY <1>3 DEF Q

\* The matrix's trading days are in a list, each of them a day of VIX.
LEMMA DatesAre ==
  ASSUME Printed, NEW r \in Results, VIX_SYMBOL \in DOMAIN r, NEW present
  PROVE  LET days == trading_days(r, present)
             m == Cardinality(days)
         IN m \in Nat /\ ascending(days) \in [1..m -> Nat \ {0}]
<1> DEFINE days == trading_days(r, present)
           m == Cardinality(days)
<1>1. r[VIX_SYMBOL] \in Series[VIX_SYMBOL] /\ VIX_SYMBOL \in ToSet(Symbols)
  BY ResultIs DEF Printed
<1>2. r[VIX_SYMBOL] \subseteq Nat \ {0} /\ IsFiniteSet(r[VIX_SYMBOL])
  BY <1>1, SymbolsAssumption
<1>3. days \subseteq r[VIX_SYMBOL]
  BY DEF trading_days
<1>4. IsFiniteSet(days) /\ days \in SUBSET Nat /\ days \subseteq Nat \ {0}
  BY <1>2, <1>3, FS_Subset
<1> HIDE DEF days
<1>5. PICK n \in Nat : days \in SUBSET (0..n)
  BY <1>4, HasBound
<1>6. m \in Nat /\ IsAscending(ascending(days), days)
  BY <1>5, AscendingIs
<1>7. ascending(days) \in [1..m -> days]
  BY <1>6 DEF IsAscending
<1>8. ascending(days) \in [1..m -> Nat \ {0}]
  BY <1>4, <1>7
<1> QED
  BY <1>6, <1>8 DEF days

\* Each price of some inputs is the newest close, if it is recent.
Recent(o) ==
  \A t \in DOMAIN o.closes, i \in DOMAIN o.dates :
    LET past == {j \in 1..i : o.dates[j] \in printed[t] /\ i - j <= MAX_FILL_DAYS}
    IN o.closes[t][i] = IF past = {} THEN NaN
                        ELSE o.dates[CHOOSE j \in past : \A k \in past : k <= j]

\* The column of a ticker that closed on some days, and the days up to a date
\* on which its close is recent.
IsColumn(column, dates, days) ==
  column = [j \in DOMAIN dates |-> IF dates[j] \in days THEN dates[j] ELSE NaN]
IsPast(past, dates, days, i) == past = {j \in 1..i : dates[j] \in days /\ i - j <= MAX_FILL_DAYS}
LastOf(past) == CHOOSE j \in past : \A k \in past : k <= j

\* What the fill makes of such a column is recent.
LEMMA FillIsRecent ==
  ASSUME NEW m \in Nat, NEW dates \in [1..m -> Nat \ {0}], NEW days, NEW i \in 1..m,
         NEW column, IsColumn(column, dates, days), NEW past, IsPast(past, dates, days, i)
  PROVE  FillAt(column, i) = IF past = {} THEN NaN ELSE dates[LastOf(past)]
<1> USE DEF IsColumn, IsPast
<1> DEFINE T == ClosedBy(column, i)
           new == Newest(column, i)
<1>1. \A j \in 1..m : (column[j] # NaN <=> dates[j] \in days) /\ (dates[j] \in days => column[j] = dates[j])
  BY DEF NaN
<1>2. \A j : j \in T <=> j \in 1..i /\ dates[j] \in days
  <2>1. \A j \in 1..i : j \in 1..m
    OBVIOUS
  <2> QED
    BY <1>1, <2>1 DEF ClosedBy
<1> HIDE DEF T
<1>3. \A j : j \in past <=> j \in T /\ i - j <= MAX_FILL_DAYS
  BY <1>2
<1>4. i \in Nat /\ MAX_FILL_DAYS \in Nat
  BY LimitsAssumption
<1>5. CASE T = {}
  <2>1. past = {}
    BY <1>3, <1>5
  <2> QED
    BY <1>5, <2>1 DEF FillAt, T
<1>6. CASE T # {}
  <2>1. new \in T /\ new \in 1..i /\ \A k \in T : k <= new
    BY <1>4, <1>6, NewestIs DEF T
  <2>2. GapAt(column, i) = i - new
    BY <1>6 DEF GapAt, T
  <2> HIDE DEF new
  <2>3. CASE i - new <= MAX_FILL_DAYS
    <3>1. new \in past /\ \A k \in past : k <= new
      BY <1>3, <2>1, <2>3
    <3>2. \A j \in past : (\A k \in past : k <= j) => j = new
      <4>1. \A j \in past : j \in Nat
        OBVIOUS
      <4> QED
        BY <2>1, <3>1, <4>1
    <3>3. new = LastOf(past)
      BY <3>1, <3>2 DEF LastOf
    <3>4. FillAt(column, i) = column[new]
      <4>1. ~(GapAt(column, i) > MAX_FILL_DAYS)
        BY <1>4, <2>1, <2>2, <2>3
      <4> QED
        BY <1>6, <4>1 DEF FillAt, T, new
    <3>5. column[new] = dates[new]
      BY <1>1, <1>2, <2>1
    <3>6. past # {}
      BY <3>1
    <3> QED
      BY <3>3, <3>4, <3>5, <3>6
  <2>4. CASE ~(i - new <= MAX_FILL_DAYS)
    <3>1. past = {}
      <4>1. ASSUME NEW j \in past PROVE FALSE
        <5>1. j \in 1..i
          OBVIOUS
        <5>2. j \in past
          OBVIOUS
        <5>3. j \in T /\ i - j <= MAX_FILL_DAYS
          BY <1>3, <5>2
        <5>4. j <= new
          BY <2>1, <5>3
        <5> QED
          BY <1>4, <2>1, <2>4, <5>1, <5>3, <5>4
      <4> QED
        BY <4>1
    <3>2. GapAt(column, i) > MAX_FILL_DAYS
      BY <1>4, <2>1, <2>2, <2>4
    <3> QED
      BY <3>1, <3>2 DEF FillAt
  <2> QED
    BY <2>3, <2>4
<1> QED
  BY <1>5, <1>6

\* What a backfill makes of downloaded closes is recent.
LEMMA PreparedIsRecent ==
  ASSUME Printed, NEW r \in Results, prepare_inputs(r).ok
  PROVE  Recent(prepare_inputs(r))
<1> DEFINE present == DOMAIN r \cap Constituents
           days == trading_days(r, present)
           dates == ascending(days)
           m == Cardinality(days)
           o == prepare_inputs(r)
           column(t) == [i \in DOMAIN dates |-> IF dates[i] \in r[t] THEN dates[i] ELSE NaN]
           made == [ok |-> TRUE, dates |-> dates, closes |-> build_matrix(r, present, dates),
                    book |-> first_close(build_matrix(r, present, dates))]
<1>1. VIX_SYMBOL \in DOMAIN r /\ o = made
  <2>1. IF VIX_SYMBOL \notin DOMAIN r \/ present = {} \/ dates = <<>> THEN o = Failed ELSE o = made
    BY Zenon DEF prepare_inputs
  <2> HIDE DEF present, dates, made
  <2>2. o # Failed
    BY DEF Failed
  <2> QED
    BY <2>1, <2>2
<1>2. m \in Nat /\ dates \in [1..m -> Nat \ {0}]
  <2> HIDE DEF present
  <2> QED
    BY <1>1, DatesAre
<1>3. o.dates = dates /\ DOMAIN o.closes = present /\ \A t \in present : o.closes[t] = _forward_fill(column(t))
  BY <1>1 DEF build_matrix
<1> HIDE DEF o, dates, m, days, made
<1>4. DOMAIN o.dates = 1..m
  BY <1>2, <1>3
<1>5. SUFFICES ASSUME NEW t \in DOMAIN o.closes, NEW i \in DOMAIN o.dates
               PROVE  LET past == {j \in 1..i : o.dates[j] \in printed[t] /\ i - j <= MAX_FILL_DAYS}
                      IN o.closes[t][i] = IF past = {} THEN NaN
                                          ELSE o.dates[CHOOSE j \in past : \A k \in past : k <= j]
  BY DEF Recent, o
<1>6. t \in present /\ t \in DOMAIN r /\ i \in 1..m
  BY <1>3, <1>4, <1>5
<1>7. r[t] = printed[t]
  BY <1>6, ResultIs
<1>8. column(t) = [j \in 1..m |-> IF dates[j] \in printed[t] THEN dates[j] ELSE NaN]
  BY <1>2, <1>7
<1>9. DOMAIN column(t) = 1..m
  BY <1>8
<1>10. o.closes[t] = _forward_fill(column(t))
  BY <1>3, <1>6
<1>11. _forward_fill(column(t))[i] = FillAt(column(t), i)
  <2> HIDE DEF column
  <2> QED
    BY <1>2, <1>6, <1>9, FillIs
<1>12. LET past == {j \in 1..i : dates[j] \in printed[t] /\ i - j <= MAX_FILL_DAYS}
       IN FillAt(column(t), i) = IF past = {} THEN NaN ELSE dates[CHOOSE j \in past : \A k \in past : k <= j]
  <2> DEFINE past == {j \in 1..i : dates[j] \in printed[t] /\ i - j <= MAX_FILL_DAYS}
  <2>a. IsColumn(column(t), dates, printed[t])
    BY <1>2, <1>8 DEF IsColumn
  <2>b. IsPast(past, dates, printed[t], i)
    BY DEF IsPast
  <2> HIDE DEF column, past
  <2>1. FillAt(column(t), i) = IF past = {} THEN NaN ELSE dates[LastOf(past)]
    BY <1>2, <1>6, <2>a, <2>b, FillIsRecent
  <2> QED
    BY <2>1 DEF past, LastOf
<1> HIDE DEF column
<1> QED
  BY <1>3, <1>10, <1>11, <1>12

-----------------------------------------------------------------------------
(* The backfills.                                                          *)

\* The attempts in vain so far for the i-th symbol, if it did not come.
Tried(i) ==
  IF i <= backfill.offset THEN MAX_ATTEMPTS
  ELSE IF i <= backfill.offset + BATCH_SIZE THEN backfill.attempt - 1 ELSE 0

\* A download is of closes as they were printed, and counts its attempts; the
\* file holds what came, and every backfill since it was written got what
\* prepare_inputs makes of it.
HistoryInv ==
  /\ Printed
  /\ cache \in [state : {"none", "torn", "whole"}, closes : Results]
  /\ backfill \in [at : {"idle", "download", "save", "prepare"}, offset : Nat, attempt : Nat, result : Results]
  /\ refused \in [ToSet(Symbols) -> Nat]
  /\ backfill.at = "download" =>
       /\ cache.state = "none" /\ backfill.attempt \in 1..MAX_ATTEMPTS
       /\ \A i \in DOMAIN Symbols : Symbols[i] \in DOMAIN backfill.result \/ refused[Symbols[i]] = Tried(i)
  /\ backfill.at = "save" =>
       /\ cache.state = "torn" /\ outcomes = {}
       /\ \A s \in ToSet(Symbols) : s \in DOMAIN backfill.result \/ refused[s] = MAX_ATTEMPTS
  /\ backfill.at = "prepare" => cache.state = "whole" /\ backfill.result = cache.closes
  /\ cache.state = "none" => outcomes = {}
  /\ cache.state = "torn" => outcomes \subseteq {Failed}
  /\ cache.state = "whole" =>
       /\ outcomes \subseteq {prepare_inputs(cache.closes)}
       /\ \A s \in ToSet(Symbols) : s \in DOMAIN cache.closes \/ refused[s] = MAX_ATTEMPTS

\* No closes are a result too.
LEMMA NoneIsResult == NoCloses \in Results
<1>1. [s \in {} |-> printed[s]] \in Results
  BY DEF Results
<1>2. NoCloses = [s \in {} |-> printed[s]]
  BY DEF NoCloses
<1> QED
  BY <1>1, <1>2

\* Nothing is downloaded at first.
LEMMA InitHistory == HistoryInit => HistoryInv
<1> SUFFICES ASSUME HistoryInit PROVE HistoryInv
  OBVIOUS
<1>1. Printed
  BY DEF HistoryInit, Printed
<1>2. cache \in [state : {"none", "torn", "whole"}, closes : Results] /\ cache.state = "none"
  BY NoneIsResult DEF HistoryInit, NoCache
<1>3. backfill \in [at : {"idle", "download", "save", "prepare"}, offset : Nat, attempt : Nat, result : Results]
      /\ backfill.at = "idle"
  BY NoneIsResult DEF HistoryInit, Idle
<1>4. refused \in [ToSet(Symbols) -> Nat] /\ outcomes = {}
  BY DEF HistoryInit
<1> QED
  BY <1>1, <1>2, <1>3, <1>4 DEF HistoryInv

\* Such a history is repeatable.
LEMMA HistoryIsRepeatable == HistoryInv => BookIsRepeatable
<1> SUFFICES ASSUME HistoryInv PROVE BookIsRepeatable
  OBVIOUS
<1>1. cache.closes \in Results /\ cache.state \in {"none", "torn", "whole"}
  BY DEF HistoryInv
<1>2. \E o : outcomes \subseteq {o} /\ (o = Failed \/ o = prepare_inputs(cache.closes))
  BY <1>1 DEF HistoryInv
<1>3. PricesAreRecent
  <2> SUFFICES ASSUME NEW o \in outcomes, o.ok PROVE Recent(o)
    BY DEF PricesAreRecent, Recent
  <2>1. o # Failed
    BY DEF Failed
  <2>2. o = prepare_inputs(cache.closes)
    BY <1>2, <2>1
  <2> QED
    BY <1>1, <2>2, PreparedIsRecent DEF HistoryInv
<1>4. SameBookUntilDeleted
  <2>1. PICK o : outcomes \subseteq {o}
    BY <1>2
  <2>2. IsFiniteSet({o}) /\ Cardinality({o}) = 1
    BY FS_Singleton
  <2>3. Cardinality(outcomes) <= Cardinality({o})
    BY <2>1, <2>2, FS_Subset
  <2> QED
    BY <2>2, <2>3 DEF SameBookUntilDeleted
<1>5. LeftOutAfterRetries
  <2> SUFFICES ASSUME cache.state = "whole", NEW s \in ToSet(Symbols)
               PROVE  IF s \in DOMAIN cache.closes THEN cache.closes[s] = printed[s] ELSE refused[s] = MAX_ATTEMPTS
    BY DEF LeftOutAfterRetries
  <2>1. s \in DOMAIN cache.closes \/ refused[s] = MAX_ATTEMPTS
    BY DEF HistoryInv
  <2>2. \A x \in DOMAIN cache.closes : cache.closes[x] = printed[x]
    BY <1>1, ResultIs
  <2> QED
    BY <2>1, <2>2
<1> QED
  BY <1>3, <1>4, <1>5 DEF BookIsRepeatable

\* A backfill that ends leaves what it got with what the others got.
LEMMA IdleIsRecord ==
  Idle \in [at : {"idle", "download", "save", "prepare"}, offset : Nat, attempt : Nat, result : Results]
  /\ Idle.at = "idle"
BY NoneIsResult DEF Idle

\* A backfill starts: the file is read, or a download begins with no attempts made.
LEMMA LoadKeeps ==
  ASSUME HistoryInv, LoadHistory
  PROVE  HistoryInv'
<1> USE DEF HistoryInv
<1>1. /\ UNCHANGED <<printed, cache>> /\ backfill.at = "idle"
      /\ cache.state \in {"none", "torn", "whole"} /\ cache.closes \in Results
  BY DEF LoadHistory
<1>2. Printed' /\ Results' = Results /\ (prepare_inputs(cache.closes))' = prepare_inputs(cache.closes)
  BY <1>1 DEF Printed, Results
<1>3. CASE cache.state = "none"
  <2>1. /\ backfill' = [at |-> "download", offset |-> 0, attempt |-> 1, result |-> NoCloses]
        /\ refused' = [s \in DOMAIN refused |-> 0] /\ outcomes' = outcomes
    BY <1>3 DEF LoadHistory
  <2>2. refused' \in [ToSet(Symbols) -> Nat] /\ \A s \in ToSet(Symbols) : refused'[s] = 0
    BY <2>1
  <2>3. \A i \in DOMAIN Symbols : i \in Nat \ {0} /\ Symbols[i] \in ToSet(Symbols)
    BY SymbolsAssumption DEF ToSet
  <2>4. \A i \in DOMAIN Symbols : Tried(i)' = 0
    BY <2>1, <2>3 DEF Tried
  <2>5. backfill'.attempt \in 1..MAX_ATTEMPTS
    BY <2>1, LimitsAssumption
  <2>6. backfill' \in [at : {"idle", "download", "save", "prepare"}, offset : Nat, attempt : Nat, result : Results]
    BY <2>1, NoneIsResult
  <2>7. backfill'.at = "download"
    BY <2>1
  <2> QED
    BY <1>1, <1>2, <1>3, <2>1, <2>2, <2>3, <2>4, <2>5, <2>6, <2>7
<1>4. CASE cache.state = "whole"
  <2>1. backfill' = [Idle EXCEPT !.at = "prepare", !.result = cache.closes] /\ UNCHANGED <<outcomes, refused>>
    BY <1>4 DEF LoadHistory
  <2>2. /\ backfill' \in [at : {"idle", "download", "save", "prepare"}, offset : Nat, attempt : Nat, result : Results]
        /\ backfill'.at = "prepare" /\ backfill'.result = cache.closes
    BY <1>1, <2>1, IdleIsRecord DEF Idle
  <2> QED
    BY <1>1, <1>2, <1>4, <2>1, <2>2
<1>5. CASE cache.state = "torn"
  <2>1. backfill' = Idle /\ outcomes' = outcomes \cup {Failed} /\ refused' = refused
    BY <1>5 DEF LoadHistory, Ends
  <2> QED
    BY <1>1, <1>2, <1>5, <2>1, IdleIsRecord
<1> QED
  BY <1>1, <1>3, <1>4, <1>5

\* A batch asks for the symbols at its places in the list.
LEMMA InBatch ==
  ASSUME NEW offset \in Nat, NEW i \in DOMAIN Symbols
  PROVE  Symbols[i] \in batch(offset) <=> offset < i /\ i <= offset + BATCH_SIZE
BY SymbolsAssumption DEF batch, IsInjective

\* An attempt adds what came to the result, and to what it asked for in vain one
\* attempt; at the last of them the next batch begins.
LEMMA DownloadKeeps ==
  ASSUME HistoryInv, DownloadCloses
  PROVE  HistoryInv'
<1> USE DEF HistoryInv
<1> DEFINE lacking == batch(backfill.offset) \ DOMAIN backfill.result
           got == DOMAIN backfill.result
<1>1. PICK came \in SUBSET {s \in lacking : printed[s] # {}} :
        /\ backfill' = NextAttempt([s \in got \cup came |-> printed[s]])
        /\ refused' = [s \in DOMAIN refused |-> refused[s] + IF s \in lacking \ came THEN 1 ELSE 0]
  BY DEF DownloadCloses
<1>2. UNCHANGED <<printed, cache, outcomes, runs, kills>> /\ backfill.at = "download" /\ cache.state = "none"
  BY DEF DownloadCloses
<1>3. Printed' /\ Results' = Results
  BY <1>2 DEF Printed, Results
<1> DEFINE new == [s \in got \cup came |-> printed[s]]
<1>4. /\ backfill.offset \in Nat /\ backfill.attempt \in 1..MAX_ATTEMPTS /\ BATCH_SIZE \in Nat \ {0}
      /\ MAX_ATTEMPTS \in Nat \ {0} /\ got \subseteq ToSet(Symbols) /\ DOMAIN refused = ToSet(Symbols)
      /\ outcomes = {}
  <2>1. backfill.result \in Results
    OBVIOUS
  <2> QED
    BY <1>2, <2>1, ResultIs, LimitsAssumption
<1>5. \A i \in DOMAIN Symbols : i \in Nat \ {0} /\ Symbols[i] \in ToSet(Symbols)
  BY SymbolsAssumption DEF ToSet
<1>6. came \subseteq ToSet(Symbols) /\ came \subseteq batch(backfill.offset)
  <2>1. batch(backfill.offset) \subseteq ToSet(Symbols)
    BY <1>5 DEF batch
  <2> QED
    BY <2>1
<1>7. new \in Results /\ DOMAIN new = got \cup came
  BY <1>4, <1>6 DEF Results
<1>8. refused' \in [ToSet(Symbols) -> Nat]
      /\ \A s \in ToSet(Symbols) : refused'[s] = refused[s] + IF s \in lacking \ came THEN 1 ELSE 0
  BY <1>1, <1>4
<1> DEFINE done == batch(backfill.offset) \subseteq DOMAIN new \/ backfill.attempt = MAX_ATTEMPTS
<1> HIDE DEF new
<1>9. backfill' = IF done THEN [backfill EXCEPT !.offset = @ + BATCH_SIZE, !.attempt = 1, !.result = new]
                  ELSE [backfill EXCEPT !.attempt = @ + 1, !.result = new]
  BY <1>1 DEF NextAttempt, new
<1>10. /\ backfill' \in [at : {"idle", "download", "save", "prepare"}, offset : Nat, attempt : Nat, result : Results]
       /\ backfill'.at = "download" /\ backfill'.result = new
       /\ backfill'.offset = backfill.offset + IF done THEN BATCH_SIZE ELSE 0
       /\ backfill'.attempt = IF done THEN 1 ELSE backfill.attempt + 1
  <2> HIDE DEF done
  <2>a. backfill \in [at : {"idle", "download", "save", "prepare"}, offset : Nat, attempt : Nat, result : Results]
    OBVIOUS
  <2> HIDE DEF HistoryInv
  <2>1. CASE done
    <3>1. backfill' = [at |-> "download", offset |-> backfill.offset + BATCH_SIZE, attempt |-> 1, result |-> new]
      BY <1>2, <1>9, <2>1, <2>a
    <3>2. backfill.offset + BATCH_SIZE \in Nat
      BY <1>4
    <3> QED
      BY <1>7, <2>1, <3>1, <3>2
  <2>2. CASE ~done
    <3>1. backfill' = [at |-> "download", offset |-> backfill.offset, attempt |-> backfill.attempt + 1, result |-> new]
      BY <1>2, <1>9, <2>2, <2>a
    <3>2. backfill.attempt + 1 \in Nat
      BY <1>4
    <3> QED
      BY <1>4, <1>7, <2>2, <3>1, <3>2
  <2> QED
    BY <2>1, <2>2
<1>11. backfill'.attempt \in 1..MAX_ATTEMPTS
  BY <1>4, <1>10
<1>12. ASSUME NEW i \in DOMAIN Symbols, Symbols[i] \notin DOMAIN new
       PROVE  refused'[Symbols[i]] = Tried(i)'
  <2> DEFINE s == Symbols[i]
             k == backfill.offset
  <2>1. s \in batch(k) <=> k < i /\ i <= k + BATCH_SIZE
    BY <1>4, InBatch
  <2>2. refused[s] = Tried(i) /\ s \notin got /\ s \notin came /\ s \in ToSet(Symbols) /\ i \in Nat
    BY <1>2, <1>5, <1>7, <1>12
  <2>3. refused'[s] = refused[s] + IF s \in batch(k) THEN 1 ELSE 0
    BY <1>8, <2>2
  <2>4. s \in batch(k) /\ done => backfill.attempt = MAX_ATTEMPTS
    BY <1>12
  <2>5. Tried(i) = IF i <= k THEN MAX_ATTEMPTS ELSE IF i <= k + BATCH_SIZE THEN backfill.attempt - 1 ELSE 0
    BY DEF Tried
  <2>6. Tried(i)' = IF i <= backfill'.offset THEN MAX_ATTEMPTS
                    ELSE IF i <= backfill'.offset + BATCH_SIZE THEN backfill'.attempt - 1 ELSE 0
    BY DEF Tried
  <2> HIDE DEF s, done, k
  <2>7. k = backfill.offset
    BY DEF k
  <2>8. refused'[s] = Tried(i)'
    BY <1>4, <1>10, <2>1, <2>2, <2>3, <2>4, <2>5, <2>6, <2>7
  <2> QED
    BY <2>8 DEF s
<1> QED
  BY <1>2, <1>3, <1>4, <1>8, <1>10, <1>11, <1>12

\* What the invariant says of a step that leaves the printed closes alone.
LEMMA SamePrint ==
  ASSUME HistoryInv, UNCHANGED printed
  PROVE  Printed' /\ Results' = Results
BY DEF HistoryInv, Printed, Results

\* When the file is opened every symbol came or was asked for often enough.
LEMMA OpenKeeps ==
  ASSUME HistoryInv, OpenCache
  PROVE  HistoryInv'
<1> USE DEF HistoryInv
<1>1. /\ backfill.at = "download" /\ backfill.offset >= Len(Symbols) /\ cache.state = "none" /\ outcomes = {}
      /\ cache' = [state |-> "torn", closes |-> NoCloses] /\ backfill' = [backfill EXCEPT !.at = "save"]
      /\ UNCHANGED <<printed, outcomes, refused>>
  BY DEF OpenCache
<1>2. \A s \in ToSet(Symbols) : \E i \in DOMAIN Symbols : s = Symbols[i] /\ i \in Nat /\ i <= Len(Symbols)
  BY SymbolsAssumption DEF ToSet
<1>3. ASSUME NEW s \in ToSet(Symbols), s \notin DOMAIN backfill.result
      PROVE  refused[s] = MAX_ATTEMPTS
  <2>1. PICK i \in DOMAIN Symbols : s = Symbols[i] /\ i \in Nat /\ i <= Len(Symbols)
    BY <1>2
  <2>2. backfill.offset \in Nat /\ Len(Symbols) \in Nat
    BY SymbolsAssumption
  <2>3. i <= backfill.offset
    BY <1>1, <2>1, <2>2
  <2>4. refused[s] = Tried(i)
    BY <1>1, <1>3, <2>1
  <2> QED
    BY <2>3, <2>4 DEF Tried
<1>4. /\ backfill' \in [at : {"idle", "download", "save", "prepare"}, offset : Nat, attempt : Nat, result : Results]
      /\ backfill'.at = "save" /\ backfill'.result = backfill.result
  BY <1>1
<1>5. cache' \in [state : {"none", "torn", "whole"}, closes : Results] /\ cache'.state = "torn"
  BY <1>1, NoneIsResult
<1> QED
  BY <1>1, <1>3, <1>4, <1>5, SamePrint

\* The file holds what came.
LEMMA SaveKeeps ==
  ASSUME HistoryInv, SaveCache
  PROVE  HistoryInv'
<1> USE DEF HistoryInv
<1>1. /\ backfill.at = "save" /\ outcomes = {}
      /\ cache' = [state |-> "whole", closes |-> backfill.result]
      /\ backfill' = [backfill EXCEPT !.at = "prepare"]
      /\ UNCHANGED <<printed, outcomes, refused>>
  BY DEF SaveCache
<1>2. /\ backfill' \in [at : {"idle", "download", "save", "prepare"}, offset : Nat, attempt : Nat, result : Results]
      /\ backfill'.at = "prepare" /\ backfill'.result = backfill.result
  BY <1>1
<1>3. cache' \in [state : {"none", "torn", "whole"}, closes : Results]
      /\ cache'.state = "whole" /\ cache'.closes = backfill.result
  BY <1>1
<1>4. \A s \in ToSet(Symbols) : s \in DOMAIN backfill.result \/ refused[s] = MAX_ATTEMPTS
  BY <1>1
<1> QED
  BY <1>1, <1>2, <1>3, <1>4, SamePrint

\* What a backfill gets is what the file gives every other one.
LEMMA PrepareKeeps ==
  ASSUME HistoryInv, Prepare
  PROVE  HistoryInv'
<1> USE DEF HistoryInv
<1>1. /\ backfill.at = "prepare" /\ cache.state = "whole" /\ backfill.result = cache.closes
      /\ backfill' = Idle /\ outcomes' = outcomes \cup {prepare_inputs(cache.closes)}
      /\ UNCHANGED <<printed, cache, refused>>
  BY DEF Prepare, Ends
<1>2. (prepare_inputs(cache.closes))' = prepare_inputs(cache.closes)
  BY <1>1
<1>3. outcomes' \subseteq {prepare_inputs(cache.closes)}
  BY <1>1
<1> QED
  BY <1>1, <1>2, <1>3, SamePrint, IdleIsRecord

\* A kill leaves the file as it is, torn or whole.
LEMMA KillKeeps ==
  ASSUME HistoryInv, Kill
  PROVE  HistoryInv'
<1> USE DEF HistoryInv
<1>1. backfill' = Idle /\ UNCHANGED <<printed, cache, outcomes, refused>>
  BY DEF Kill
<1>2. (prepare_inputs(cache.closes))' = prepare_inputs(cache.closes)
  BY <1>1
<1> QED
  BY <1>1, <1>2, SamePrint, IdleIsRecord

\* Without a file nothing was got from it.
LEMMA DeleteKeeps ==
  ASSUME HistoryInv, DeleteCache
  PROVE  HistoryInv'
<1> USE DEF HistoryInv
<1>1. backfill.at = "idle" /\ cache' = NoCache /\ outcomes' = {} /\ UNCHANGED <<printed, backfill, refused>>
  BY DEF DeleteCache
<1>2. cache' \in [state : {"none", "torn", "whole"}, closes : Results] /\ cache'.state = "none"
  BY <1>1, NoneIsResult DEF NoCache
<1> QED
  BY <1>1, <1>2, SamePrint

\* The invariant holds in every state of the backfills, for any tickers,
\* closes, batch size, attempts and fill limit.
THEOREM HistoryInductive == HistorySpec => []HistoryInv
<1>1. HistoryInit => HistoryInv
  BY InitHistory
<1>2. HistoryInv /\ [HistoryNext]_historyVars => HistoryInv'
  <2> SUFFICES ASSUME HistoryInv, [HistoryNext]_historyVars PROVE HistoryInv'
    OBVIOUS
  <2>1. CASE UNCHANGED historyVars
    BY <2>1 DEF historyVars, HistoryInv, Printed, Results, Tried
  <2>2. CASE HistoryNext
    BY <2>2, LoadKeeps, DownloadKeeps, OpenKeeps, SaveKeeps, PrepareKeeps, KillKeeps, DeleteKeeps DEF HistoryNext
  <2> QED
    BY <2>1, <2>2
<1> QED
  BY <1>1, <1>2, PTL DEF HistorySpec

\* Every price is the ticker's newest close, if it is recent; every backfill on
\* one cache file gets the same prices and book, or fails the same way; and a
\* symbol left out of the file was asked for often enough.
THEOREM HistoryHolds == HistorySpec => []BookIsRepeatable
<1>1. HistoryInv => BookIsRepeatable
  BY HistoryIsRepeatable
<1> QED
  BY <1>1, HistoryInductive, PTL

=============================================================================
