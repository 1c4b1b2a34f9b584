-------------------------- MODULE FiniteTheorems ---------------------------
(***************************************************************************)
(* What the finite computations of the models return, for every input: sums *)
(* over sets (balances, stakes, supplies, the gas of a program), loops that *)
(* carry a state from round to round, loops that filter a sequence, the    *)
(* binary search and the insertions of a sort, and with them the rules of a *)
(* mempool in TxPolicy.  The library's induction needs an operator as a    *)
(* parameter, so a fact about all finite sets, or all rounds of a loop, is *)
(* proved by minimal counterexample: of those it fails for one is the least *)
(* (Minimal), and that one cannot fail either.                             *)
(***************************************************************************)
EXTENDS TxPolicy, FiniteSets, Functions, FiniteSetTheorems, TLAPS

\* The element a fold takes first.
First(s) == CHOOSE x \in s : TRUE

\* The sums of f over all subsets of S, as the fold computes them.
IsTable(g, f, S) ==
  g = [s \in SUBSET S |-> IF s = {} THEN 0 ELSE f[First(s)] + g[s \ {First(s)}]]

\* The table of these sums (TableExists shows that there is one).
Table(f, S) == CHOOSE g : IsTable(g, f, S)

\* Among some subsets of a finite set, one has no other below it.
LEMMA Minimal ==
  ASSUME NEW S, IsFiniteSet(S), NEW C \in SUBSET SUBSET S, C # {}
  PROVE  \E T \in C : \A U \in SUBSET T : U # T => U \notin C
<1>1. IsWellFoundedOn(StrictSubsetOrdering(S), SUBSET S)
  BY FS_StrictSubsetOrderingWellFounded, FS_FiniteSubsetsOfFinite
<1>2. PICK T \in C : \A U \in C : <<U, T>> \notin StrictSubsetOrdering(S)
  BY <1>1, WFMin
<1>. QED
  BY <1>2 DEF StrictSubsetOrdering

\* A nonempty set of natural numbers has a least member.
LEMMA LeastNumber ==
  ASSUME NEW Bad \in SUBSET Nat, Bad # {}
  PROVE  \E k \in Bad : \A j \in Bad : ~(j < k)
<1>1. PICK n \in Bad : TRUE
  OBVIOUS
<1>. DEFINE Below(k) == {i \in 0 .. n : i < k}
            C == {T \in SUBSET (0 .. n) : \E k \in Bad : k \in 0 .. n /\ T = Below(k)}
<1>2. n \in Nat /\ IsFiniteSet(0 .. n) /\ n \in 0 .. n
  <2>1. n \in Nat
    BY <1>1
  <2>. QED
    BY <2>1, FS_Interval
<1>3. Below(n) \in C
  BY <1>1, <1>2
<1>4. C \in SUBSET SUBSET (0 .. n)
  OBVIOUS
<1>5. PICK T \in C : \A U \in SUBSET T : U # T => U \notin C
  <2>. HIDE DEF C
  <2>1. C # {}
    BY <1>3
  <2>2. IsFiniteSet(0 .. n)
    BY <1>2
  <2>. DEFINE S == 0 .. n
  <2>3. IsFiniteSet(S) /\ C \in SUBSET SUBSET S
    BY <2>2, <1>4
  <2>. HIDE DEF S
  <2>. QED
    BY <2>1, <2>3, Minimal
<1>6. PICK k \in Bad : k \in 0 .. n /\ T = Below(k)
  BY <1>5
<1>7. ASSUME NEW j \in Bad, j < k
      PROVE  FALSE
  <2>1. j \in Nat /\ k \in Nat /\ j \in 0 .. n
    BY <1>2, <1>6, <1>7
  <2>2. Below(j) \in C
    BY <2>1
  <2>3. j \in Below(k) /\ j \notin Below(j)
    BY <1>7, <2>1
  <2>4. \A i \in Below(j) : i \in Below(k)
    BY <1>7, <2>1, <1>2
  <2>. HIDE DEF Below, C
  <2>5. Below(j) \in SUBSET T /\ Below(j) # T
    BY <1>6, <2>3, <2>4
  <2>. QED
    BY <1>5, <2>2, <2>5
<1>. QED
  BY <1>7

\* The first element is one.
LEMMA FirstIn ==
  ASSUME NEW s, s # {}
  PROVE  First(s) \in s
BY DEF First

\* An entry of a table follows from the one without the first element.
LEMMA TableAt ==
  ASSUME NEW f, NEW S, NEW g, IsTable(g, f, S), NEW s \in SUBSET S
  PROVE  g[s] = IF s = {} THEN 0 ELSE f[First(s)] + g[s \ {First(s)}]
BY DEF IsTable

\* The sum of the community modules is an entry of the table.
LEMMA SumIsTable ==
  ASSUME NEW f, NEW S
  PROVE  SumFunctionOnSet(f, S) = Table(f, S)[S]
BY Zenon DEF SumFunctionOnSet, FoldFunctionOnSet, MapThenFoldSet, IsTable, Table, First

\* Two tables agree wherever both are defined.
LEMMA TablesAgree ==
  ASSUME NEW f, NEW S, IsFiniteSet(S), NEW R \in SUBSET S,
         NEW g, IsTable(g, f, R), NEW h, IsTable(h, f, S)
  PROVE  \A T \in SUBSET R : g[T] = h[T]
<1>. DEFINE C == {T \in SUBSET R : g[T] # h[T]}
<1>. SUFFICES ASSUME C # {} PROVE FALSE
  OBVIOUS
<1>1. PICK T \in C : \A U \in SUBSET T : U # T => U \notin C
  <2>1. C \in SUBSET SUBSET S
    OBVIOUS
  <2>. HIDE DEF C
  <2>. QED
    BY <2>1, Minimal
<1>2. T \in SUBSET R /\ T \in SUBSET S /\ g[T] # h[T]
  OBVIOUS
<1>3. T # {}
  <2>1. g[{}] = 0 /\ h[{}] = 0
    <3>1. {} \in SUBSET R /\ {} \in SUBSET S
      OBVIOUS
    <3>. QED
      BY <3>1, TableAt
  <2>. QED
    BY <1>2, <2>1
<1>. DEFINE U == T \ {First(T)}
<1>4. U \in SUBSET T /\ U # T
  BY <1>3, FirstIn
<1>5. g[U] = h[U]
  BY <1>1, <1>2, <1>4
<1>. QED
  BY <1>2, <1>3, <1>5, TableAt

\* Every finite set has a table: the recursion is well defined.
LEMMA TableExists ==
  ASSUME NEW f, NEW S, IsFiniteSet(S)
  PROVE  IsTable(Table(f, S), f, S)
<1>. DEFINE C == {T \in SUBSET S : ~ \E g : IsTable(g, f, T)}
<1>1. SUFFICES ASSUME C # {} PROVE FALSE
  <2>1. \E g : IsTable(g, f, S)
    BY <1>1
  <2>. QED
    BY <2>1 DEF Table
<1>2. PICK T \in C : \A U \in SUBSET T : U # T => U \notin C
  <2>1. C \in SUBSET SUBSET S
    OBVIOUS
  <2>. HIDE DEF C
  <2>. QED
    BY <1>1, <2>1, Minimal
<1>. DEFINE V(U) == Table(f, U)[U]
            h == [s \in SUBSET T |-> IF s = {} THEN 0
                                     ELSE f[First(s)] + V(s \ {First(s)})]
<1>3. ASSUME NEW U \in SUBSET T, U # T
      PROVE  IsTable(Table(f, U), f, U) /\ IsFiniteSet(U)
  <2>1. \E g : IsTable(g, f, U)
    BY <1>2, <1>3
  <2>. QED
    BY <2>1, <1>2, FS_Subset DEF Table
<1>4. ASSUME NEW U \in SUBSET T, U # T
      PROVE  h[U] = V(U)
  <2>1. CASE U = {}
    BY <2>1, <1>3, <1>4, TableAt
  <2>2. CASE U # {}
    <3>. DEFINE R == U \ {First(U)}
    <3>1. R \in SUBSET U /\ R # T
      BY <1>4, <2>2, FirstIn
    <3>2. V(U) = f[First(U)] + Table(f, U)[R]
      BY <1>3, <1>4, <2>2, TableAt
    <3>3. V(R) = Table(f, U)[R]
      <4>1. IsTable(Table(f, U), f, U) /\ IsFiniteSet(U) /\ IsTable(Table(f, R), f, R)
        BY <1>3, <1>4, <3>1
      <4>. HIDE DEF R
      <4>. QED
        BY <4>1, <3>1, TablesAgree
    <3>4. h[U] = f[First(U)] + V(R)
      BY <2>2
    <3>. QED
      BY <3>2, <3>3, <3>4
  <2>. QED
    BY <2>1, <2>2
<1>5. IsTable(h, f, T)
  <2>1. ASSUME NEW s \in SUBSET T, s # {}
        PROVE  h[s \ {First(s)}] = V(s \ {First(s)})
    BY <1>4, <2>1, FirstIn
  <2>2. h = [s \in SUBSET T |-> IF s = {} THEN 0 ELSE f[First(s)] + h[s \ {First(s)}]]
    BY <2>1
  <2>. QED
    BY <2>2 DEF IsTable
<1>. QED
  BY <1>2, <1>5

\* Nothing adds up to zero.
LEMMA SumOfNone ==
  ASSUME NEW f
  PROVE  SumFunctionOnSet(f, {}) = 0
<1>1. IsFiniteSet({})
  BY FS_EmptySet
<1>. QED
  BY <1>1, SumIsTable, TableExists, TableAt

\* A sum is the first element's part and the sum of the rest.
LEMMA SumStep ==
  ASSUME NEW f, NEW S, IsFiniteSet(S), S # {}
  PROVE  SumFunctionOnSet(f, S) = f[First(S)] + SumFunctionOnSet(f, S \ {First(S)})
<1>. DEFINE R == S \ {First(S)}
<1>1. R \in SUBSET S /\ IsFiniteSet(R)
  BY FS_Subset
<1>2. Table(f, S)[S] = f[First(S)] + Table(f, S)[R]
  BY TableExists, TableAt
<1>3. Table(f, R)[R] = Table(f, S)[R]
  <2>. HIDE DEF R
  <2>. QED
    BY <1>1, TableExists, TablesAgree
<1>. QED
  BY <1>2, <1>3, SumIsTable

\* A sum of integers is an integer.
LEMMA SumIsInt ==
  ASSUME NEW f, NEW S, IsFiniteSet(S), \A x \in S : f[x] \in Int
  PROVE  SumFunctionOnSet(f, S) \in Int
<1>. DEFINE C == {T \in SUBSET S : SumFunctionOnSet(f, T) \notin Int}
<1>1. SUFFICES ASSUME C # {} PROVE FALSE
  OBVIOUS
<1>2. PICK T \in C : \A U \in SUBSET T : U # T => U \notin C
  <2>1. C \in SUBSET SUBSET S
    OBVIOUS
  <2>. HIDE DEF C
  <2>. QED
    BY <1>1, <2>1, Minimal
<1>3. T # {}
  BY SumOfNone
<1>4. First(T) \in T /\ IsFiniteSet(T)
  BY <1>3, FirstIn, FS_Subset
<1>5. SumFunctionOnSet(f, T) = f[First(T)] + SumFunctionOnSet(f, T \ {First(T)})
  BY <1>3, <1>4, SumStep
<1>6. SumFunctionOnSet(f, T \ {First(T)}) \in Int
  BY <1>2, <1>4
<1>. QED
  BY <1>4, <1>5, <1>6

\* Sums of the same parts are the same.
LEMMA SumsAgree ==
  ASSUME NEW f, NEW g, NEW S, IsFiniteSet(S), \A x \in S : f[x] = g[x]
  PROVE  SumFunctionOnSet(f, S) = SumFunctionOnSet(g, S)
<1>. DEFINE C == {T \in SUBSET S : SumFunctionOnSet(f, T) # SumFunctionOnSet(g, T)}
<1>1. SUFFICES ASSUME C # {} PROVE FALSE
  OBVIOUS
<1>2. PICK T \in C : \A U \in SUBSET T : U # T => U \notin C
  <2>1. C \in SUBSET SUBSET S
    OBVIOUS
  <2>. HIDE DEF C
  <2>. QED
    BY <1>1, <2>1, Minimal
<1>3. T # {}
  BY SumOfNone
<1>4. First(T) \in T /\ IsFiniteSet(T)
  BY <1>3, FirstIn, FS_Subset
<1>5. /\ SumFunctionOnSet(f, T) = f[First(T)] + SumFunctionOnSet(f, T \ {First(T)})
      /\ SumFunctionOnSet(g, T) = g[First(T)] + SumFunctionOnSet(g, T \ {First(T)})
  BY <1>3, <1>4, SumStep
<1>6. SumFunctionOnSet(f, T \ {First(T)}) = SumFunctionOnSet(g, T \ {First(T)})
  BY <1>2, <1>4
<1>. QED
  BY <1>4, <1>5, <1>6

\* Any element can be taken out of a sum, not only the first.
LEMMA SumWithout ==
  ASSUME NEW f, NEW S, IsFiniteSet(S), \A x \in S : f[x] \in Int, NEW x \in S
  PROVE  SumFunctionOnSet(f, S) = f[x] + SumFunctionOnSet(f, S \ {x})
<1>. DEFINE Wrong(T, y) == SumFunctionOnSet(f, T) # f[y] + SumFunctionOnSet(f, T \ {y})
            C == {T \in SUBSET S : \E y \in T : Wrong(T, y)}
<1>1. SUFFICES ASSUME C # {} PROVE FALSE
  OBVIOUS
<1>2. PICK T \in C : \A U \in SUBSET T : U # T => U \notin C
  <2>1. C \in SUBSET SUBSET S
    OBVIOUS
  <2>. HIDE DEF C
  <2>. QED
    BY <1>1, <2>1, Minimal
<1>3. PICK y \in T : Wrong(T, y)
  OBVIOUS
<1>. DEFINE z == First(T)
            U == T \ {z, y}
<1>4. z \in T /\ IsFiniteSet(T) /\ IsFiniteSet(U)
  BY FirstIn, FS_Subset
<1>5. SumFunctionOnSet(f, T) = f[z] + SumFunctionOnSet(f, T \ {z})
  BY <1>4, SumStep
<1>6. z # y
  BY <1>3, <1>5
<1>7. SumFunctionOnSet(f, T \ {z}) = f[y] + SumFunctionOnSet(f, U)
  <2>1. T \ {z} \in SUBSET T /\ T \ {z} # T /\ y \in T \ {z} /\ (T \ {z}) \ {y} = U
    BY <1>4, <1>6
  <2>. QED
    BY <1>2, <2>1
<1>8. SumFunctionOnSet(f, T \ {y}) = f[z] + SumFunctionOnSet(f, U)
  <2>1. T \ {y} \in SUBSET T /\ T \ {y} # T /\ z \in T \ {y} /\ (T \ {y}) \ {z} = U
    BY <1>4, <1>6
  <2>. QED
    BY <1>2, <2>1
<1>9. SumFunctionOnSet(f, U) \in Int /\ f[z] \in Int /\ f[y] \in Int
  BY <1>4, SumIsInt
<1>. QED
  BY <1>3, <1>5, <1>7, <1>8, <1>9

\* A new element adds its part.
LEMMA SumWith ==
  ASSUME NEW f, NEW S, IsFiniteSet(S), NEW y, y \notin S, \A x \in S \cup {y} : f[x] \in Int
  PROVE  SumFunctionOnSet(f, S \cup {y}) = f[y] + SumFunctionOnSet(f, S)
<1>1. IsFiniteSet(S \cup {y}) /\ (S \cup {y}) \ {y} = S
  BY FS_AddElement
<1>. QED
  BY <1>1, SumWithout

\* Where one part changes, the sum changes by as much.
LEMMA SumChanged ==
  ASSUME NEW f, NEW g, NEW S, IsFiniteSet(S),
         \A x \in S : f[x] \in Int /\ g[x] \in Int,
         NEW y \in S, \A x \in S \ {y} : g[x] = f[x]
  PROVE  SumFunctionOnSet(g, S) = SumFunctionOnSet(f, S) + g[y] - f[y]
<1>. DEFINE R == S \ {y}
<1>1. IsFiniteSet(R) /\ SumFunctionOnSet(f, R) \in Int
  BY FS_Subset, SumIsInt
<1>2. SumFunctionOnSet(f, S) = f[y] + SumFunctionOnSet(f, R)
  BY SumWithout
<1>3. SumFunctionOnSet(g, S) = g[y] + SumFunctionOnSet(g, R)
  BY SumWithout
<1>4. SumFunctionOnSet(g, R) = SumFunctionOnSet(f, R)
  <2>. HIDE DEF R
  <2>. QED
    BY <1>1, SumsAgree DEF R
<1>5. f[y] \in Int /\ g[y] \in Int
  OBVIOUS
<1>. QED
  BY <1>1, <1>2, <1>3, <1>4, <1>5

\* A sum of sums can be taken apart.
LEMMA SumOfSums ==
  ASSUME NEW f, NEW g, NEW h, NEW S, IsFiniteSet(S),
         \A x \in S : f[x] \in Int /\ g[x] \in Int /\ h[x] = f[x] + g[x]
  PROVE  SumFunctionOnSet(h, S) = SumFunctionOnSet(f, S) + SumFunctionOnSet(g, S)
<1>. DEFINE C == {T \in SUBSET S : SumFunctionOnSet(h, T)
                                     # SumFunctionOnSet(f, T) + SumFunctionOnSet(g, T)}
<1>1. SUFFICES ASSUME C # {} PROVE FALSE
  OBVIOUS
<1>2. PICK T \in C : \A U \in SUBSET T : U # T => U \notin C
  <2>1. C \in SUBSET SUBSET S
    OBVIOUS
  <2>. HIDE DEF C
  <2>. QED
    BY <1>1, <2>1, Minimal
<1>3. T # {}
  <2>. SUFFICES ASSUME T = {} PROVE FALSE
    OBVIOUS
  <2>1. SumFunctionOnSet(h, T) # SumFunctionOnSet(f, T) + SumFunctionOnSet(g, T)
    OBVIOUS
  <2>2. SumFunctionOnSet(h, T) = 0 /\ SumFunctionOnSet(f, T) = 0 /\ SumFunctionOnSet(g, T) = 0
    BY SumOfNone
  <2>. QED
    BY <2>1, <2>2
<1>. DEFINE x == First(T)
            U == T \ {x}
<1>4. x \in T /\ IsFiniteSet(T) /\ U \in SUBSET T /\ U # T /\ U \in SUBSET S
  BY <1>3, FirstIn, FS_Subset
<1>5. /\ SumFunctionOnSet(f, T) = f[x] + SumFunctionOnSet(f, U)
      /\ SumFunctionOnSet(g, T) = g[x] + SumFunctionOnSet(g, U)
      /\ SumFunctionOnSet(h, T) = h[x] + SumFunctionOnSet(h, U)
  BY <1>3, <1>4, SumStep
<1>6. SumFunctionOnSet(h, U) = SumFunctionOnSet(f, U) + SumFunctionOnSet(g, U)
  BY <1>2, <1>4
<1>7. SumFunctionOnSet(f, U) \in Int /\ SumFunctionOnSet(g, U) \in Int
  BY <1>4, SumIsInt, FS_Subset
<1>8. f[x] \in Int /\ g[x] \in Int /\ h[x] = f[x] + g[x]
  BY <1>4
<1>9. SumFunctionOnSet(h, T) # SumFunctionOnSet(f, T) + SumFunctionOnSet(g, T)
  OBVIOUS
<1>. HIDE DEF x, U, C
<1>. QED
  BY <1>5, <1>6, <1>7, <1>8, <1>9

\* A sum over a set is the sums over a part and over the rest.
LEMMA SumOfParts ==
  ASSUME NEW f, NEW S, IsFiniteSet(S), \A x \in S : f[x] \in Int, NEW R \in SUBSET S
  PROVE  SumFunctionOnSet(f, S) = SumFunctionOnSet(f, R) + SumFunctionOnSet(f, S \ R)
<1>. DEFINE C == {T \in SUBSET R : SumFunctionOnSet(f, (S \ R) \cup T)
                                     # SumFunctionOnSet(f, T) + SumFunctionOnSet(f, S \ R)}
<1>0. SumFunctionOnSet(f, S \ R) \in Int /\ IsFiniteSet(R)
  BY FS_Subset, SumIsInt
<1>1. SUFFICES ASSUME C # {} PROVE FALSE
  <2>1. (S \ R) \cup R = S
    OBVIOUS
  <2>. QED
    BY <2>1, <1>1
<1>2. PICK T \in C : \A U \in SUBSET T : U # T => U \notin C
  <2>1. C \in SUBSET SUBSET R
    OBVIOUS
  <2>. HIDE DEF C
  <2>. QED
    BY <1>0, <1>1, <2>1, Minimal
<1>3. T # {}
  <2>. SUFFICES ASSUME T = {} PROVE FALSE
    OBVIOUS
  <2>1. SumFunctionOnSet(f, (S \ R) \cup T) # SumFunctionOnSet(f, T) + SumFunctionOnSet(f, S \ R)
    OBVIOUS
  <2>2. (S \ R) \cup T = S \ R /\ SumFunctionOnSet(f, T) = 0
    BY SumOfNone
  <2>. HIDE DEF C
  <2>. QED
    BY <1>0, <2>1, <2>2
<1>. DEFINE x == First(T)
            U == T \ {x}
<1>4. x \in T /\ IsFiniteSet(T) /\ U \in SUBSET T /\ U # T /\ U \in SUBSET R /\ IsFiniteSet(U)
  BY <1>0, <1>3, FirstIn, FS_Subset
<1>5. SumFunctionOnSet(f, T) = f[x] + SumFunctionOnSet(f, U)
  BY <1>3, <1>4, SumStep
<1>6. SumFunctionOnSet(f, (S \ R) \cup T) = f[x] + SumFunctionOnSet(f, (S \ R) \cup U)
  <2>. DEFINE W == (S \ R) \cup T
  <2>1. W \in SUBSET S /\ x \in W /\ W \ {x} = (S \ R) \cup U /\ IsFiniteSet(W)
    BY <1>4, FS_Subset
  <2>. HIDE DEF W, x, U
  <2>2. \A w \in W : f[w] \in Int
    BY <2>1
  <2>3. SumFunctionOnSet(f, W) = f[x] + SumFunctionOnSet(f, W \ {x})
    BY <2>1, <2>2, SumWithout
  <2>. QED
    BY <2>1, <2>3 DEF W
<1>7. SumFunctionOnSet(f, (S \ R) \cup U) = SumFunctionOnSet(f, U) + SumFunctionOnSet(f, S \ R)
  BY <1>2, <1>4
<1>8. f[x] \in Int /\ SumFunctionOnSet(f, U) \in Int
  BY <1>4, SumIsInt
<1>9. SumFunctionOnSet(f, (S \ R) \cup T) # SumFunctionOnSet(f, T) + SumFunctionOnSet(f, S \ R)
  OBVIOUS
<1>. HIDE DEF x, U, C
<1>. QED
  BY <1>0, <1>5, <1>6, <1>7, <1>8, <1>9

\* Equal parts add up to a multiple.
LEMMA SumOfConstant ==
  ASSUME NEW f, NEW S, IsFiniteSet(S), NEW k \in Int, \A x \in S : f[x] = k
  PROVE  SumFunctionOnSet(f, S) = k * Cardinality(S)
<1>. DEFINE C == {T \in SUBSET S : SumFunctionOnSet(f, T) # k * Cardinality(T)}
<1>1. SUFFICES ASSUME C # {} PROVE FALSE
  OBVIOUS
<1>2. PICK T \in C : \A U \in SUBSET T : U # T => U \notin C
  <2>1. C \in SUBSET SUBSET S
    OBVIOUS
  <2>. HIDE DEF C
  <2>. QED
    BY <1>1, <2>1, Minimal
<1>3. T # {}
  <2>1. k * 0 = 0
    OBVIOUS
  <2>. QED
    BY <2>1, SumOfNone, FS_EmptySet
<1>. DEFINE x == First(T)
            U == T \ {x}
<1>4. x \in T /\ IsFiniteSet(T) /\ U \in SUBSET T /\ U # T
  BY <1>3, FirstIn, FS_Subset
<1>5. SumFunctionOnSet(f, T) = f[x] + SumFunctionOnSet(f, U)
  BY <1>3, <1>4, SumStep
<1>6. SumFunctionOnSet(f, U) = k * Cardinality(U)
  BY <1>2, <1>4
<1>7. Cardinality(U) = Cardinality(T) - 1 /\ Cardinality(T) \in Nat
  BY <1>4, FS_RemoveElement, FS_CardinalityType
<1>8. f[x] = k
  BY <1>4
<1>9. SumFunctionOnSet(f, T) # k * Cardinality(T)
  OBVIOUS
<1>. DEFINE n == Cardinality(T)
<1>10. k + k * (n - 1) = k * n
  BY <1>7
<1>. HIDE DEF x, U, C
<1>. QED
  BY <1>5, <1>6, <1>7, <1>8, <1>9, <1>10

\* Larger parts have a larger sum.
LEMMA SumMonotone ==
  ASSUME NEW f, NEW g, NEW S, IsFiniteSet(S),
         \A x \in S : f[x] \in Int /\ g[x] \in Int /\ f[x] <= g[x]
  PROVE  SumFunctionOnSet(f, S) <= SumFunctionOnSet(g, S)
<1>. DEFINE C == {T \in SUBSET S : ~ (SumFunctionOnSet(f, T) <= SumFunctionOnSet(g, T))}
<1>1. SUFFICES ASSUME C # {} PROVE FALSE
  OBVIOUS
<1>2. PICK T \in C : \A U \in SUBSET T : U # T => U \notin C
  <2>1. C \in SUBSET SUBSET S
    OBVIOUS
  <2>. HIDE DEF C
  <2>. QED
    BY <1>1, <2>1, Minimal
<1>3. T # {}
  BY SumOfNone
<1>. DEFINE x == First(T)
            U == T \ {x}
<1>4. x \in T /\ IsFiniteSet(T) /\ U \in SUBSET T /\ U # T
  BY <1>3, FirstIn, FS_Subset
<1>5. /\ SumFunctionOnSet(f, T) = f[x] + SumFunctionOnSet(f, U)
      /\ SumFunctionOnSet(g, T) = g[x] + SumFunctionOnSet(g, U)
  BY <1>3, <1>4, SumStep
<1>6. SumFunctionOnSet(f, U) <= SumFunctionOnSet(g, U)
  BY <1>2, <1>4
<1>7. SumFunctionOnSet(f, U) \in Int /\ SumFunctionOnSet(g, U) \in Int
  BY <1>4, SumIsInt, FS_Subset
<1>8. f[x] \in Int /\ g[x] \in Int /\ f[x] <= g[x]
  BY <1>4
<1>9. ~ (SumFunctionOnSet(f, T) <= SumFunctionOnSet(g, T))
  OBVIOUS
<1>. HIDE DEF x, U, C
<1>. QED
  BY <1>5, <1>6, <1>7, <1>8, <1>9

\* A sum of natural numbers is one.
LEMMA SumIsNat ==
  ASSUME NEW f, NEW S, IsFiniteSet(S), \A x \in S : f[x] \in Nat
  PROVE  SumFunctionOnSet(f, S) \in Nat
<1>. DEFINE zero == [x \in S |-> 0]
<1>1. SumFunctionOnSet(zero, S) = 0 * Cardinality(S)
  <2>. HIDE DEF zero
  <2>. QED
    BY SumOfConstant DEF zero
<1>2. SumFunctionOnSet(zero, S) <= SumFunctionOnSet(f, S)
  <2>. HIDE DEF zero
  <2>. QED
    BY SumMonotone DEF zero
<1>3. 0 * Cardinality(S) = 0
  BY FS_CardinalityType
<1>. QED
  BY <1>1, <1>2, <1>3, SumIsInt

\* Sums by groups add up to the sum of everything.
LEMMA SumOfGroups ==
  ASSUME NEW A, IsFiniteSet(A), NEW S, IsFiniteSet(S), NEW f, NEW key, NEW h, NEW part,
         \A x \in S : f[x] \in Int /\ key[x] \in A,
         \A a \in A : /\ part[a] \in SUBSET S
                      /\ \A x \in S : x \in part[a] <=> key[x] = a
                      /\ h[a] = SumFunctionOnSet(f, part[a])
  PROVE  SumFunctionOnSet(h, A) = SumFunctionOnSet(f, S)
<1>. DEFINE Group(T) == [a \in A |-> SumFunctionOnSet(f, {x \in T : key[x] = a})]
            C == {T \in SUBSET S : SumFunctionOnSet(Group(T), A) # SumFunctionOnSet(f, T)}
<1>0. SumFunctionOnSet(h, A) = SumFunctionOnSet(Group(S), A)
  <2>. DEFINE g == Group(S)
  <2>1. \A a \in A : h[a] = g[a]
    <3>1. \A a \in A : part[a] = {x \in S : key[x] = a}
      OBVIOUS
    <3>. QED
      BY <3>1
  <2>2. SumFunctionOnSet(h, A) = SumFunctionOnSet(g, A)
    <3>. HIDE DEF g
    <3>. QED
      BY <2>1, SumsAgree
  <2>. QED
    BY <2>2
<1>1. SUFFICES ASSUME C # {} PROVE FALSE
  BY <1>0
<1>2. PICK T \in C : \A U \in SUBSET T : U # T => U \notin C
  <2>1. C \in SUBSET SUBSET S
    OBVIOUS
  <2>. HIDE DEF C
  <2>. QED
    BY <1>1, <2>1, Minimal
<1>3. T # {}
  <2>1. SUFFICES ASSUME T = {} PROVE FALSE
    OBVIOUS
  <2>. DEFINE g == Group(T)
  <2>2. \A a \in A : g[a] = 0
    <3>1. \A a \in A : {x \in T : key[x] = a} = {}
      BY <2>1
    <3>. QED
      BY <3>1, SumOfNone
  <2>3. 0 * Cardinality(A) = 0
    BY FS_CardinalityType
  <2>4. SumFunctionOnSet(g, A) = 0
    <3>. HIDE DEF g
    <3>. QED
      BY <2>2, <2>3, SumOfConstant
  <2>. QED
    BY <2>1, <2>4, SumOfNone
<1>. DEFINE y == First(T)
            U == T \ {y}
            b == key[y]
            g == Group(T)
            e == Group(U)
<1>4. y \in T /\ IsFiniteSet(T) /\ U \in SUBSET T /\ U # T /\ b \in A /\ U \in SUBSET S
  BY <1>3, FirstIn, FS_Subset
<1>5. SumFunctionOnSet(f, T) = f[y] + SumFunctionOnSet(f, U)
  BY <1>3, <1>4, SumStep
<1>6. SumFunctionOnSet(e, A) = SumFunctionOnSet(f, U)
  BY <1>2, <1>4
<1>7. \A a \in A : g[a] \in Int /\ e[a] \in Int
  <2>. SUFFICES ASSUME NEW a \in A PROVE g[a] \in Int /\ e[a] \in Int
    OBVIOUS
  <2>. DEFINE P == {x \in T : key[x] = a}
              Q == {x \in U : key[x] = a}
  <2>1. P \in SUBSET S /\ Q \in SUBSET S /\ IsFiniteSet(P) /\ IsFiniteSet(Q)
    BY <1>4, FS_Subset
  <2>2. g[a] = SumFunctionOnSet(f, P) /\ e[a] = SumFunctionOnSet(f, Q)
    OBVIOUS
  <2>. HIDE DEF P, Q, g, e
  <2>. QED
    BY <2>1, <2>2, SumIsInt
<1>8. \A a \in A \ {b} : g[a] = e[a]
  <2>. SUFFICES ASSUME NEW a \in A \ {b} PROVE g[a] = e[a]
    OBVIOUS
  <2>1. {x \in T : key[x] = a} = {x \in U : key[x] = a}
    OBVIOUS
  <2>. QED
    BY <2>1
<1>9. g[b] = f[y] + e[b]
  <2>. DEFINE P == {x \in T : key[x] = b}
              Q == {x \in U : key[x] = b}
  <2>1. y \in P /\ P \in SUBSET S /\ IsFiniteSet(P) /\ P \ {y} = Q
    BY <1>4, FS_Subset
  <2>2. g[b] = SumFunctionOnSet(f, P) /\ e[b] = SumFunctionOnSet(f, Q)
    BY <1>4
  <2>. HIDE DEF P, Q, g, e, b, y
  <2>3. \A x \in P : f[x] \in Int
    BY <2>1
  <2>. QED
    BY <2>1, <2>2, <2>3, SumWithout
<1>10. SumFunctionOnSet(g, A) = SumFunctionOnSet(e, A) + g[b] - e[b]
  <2>. HIDE DEF g, e, b
  <2>. QED
    BY <1>4, <1>7, <1>8, SumChanged
<1>11. f[y] \in Int /\ SumFunctionOnSet(f, U) \in Int /\ g[b] \in Int /\ e[b] \in Int
  BY <1>4, <1>7, SumIsInt, FS_Subset
<1>12. SumFunctionOnSet(g, A) # SumFunctionOnSet(f, T)
  OBVIOUS
<1>. HIDE DEF g, e, b, y, U
<1>. QED
  BY <1>5, <1>6, <1>9, <1>10, <1>11, <1>12

\* A common factor can be taken out of a sum.
LEMMA SumOfMultiples ==
  ASSUME NEW f, NEW g, NEW S, IsFiniteSet(S), NEW k \in Int,
         \A x \in S : f[x] \in Int /\ g[x] = k * f[x]
  PROVE  SumFunctionOnSet(g, S) = k * SumFunctionOnSet(f, S)
<1>. DEFINE C == {T \in SUBSET S : SumFunctionOnSet(g, T) # k * SumFunctionOnSet(f, T)}
<1>1. SUFFICES ASSUME C # {} PROVE FALSE
  OBVIOUS
<1>2. PICK T \in C : \A U \in SUBSET T : U # T => U \notin C
  <2>1. C \in SUBSET SUBSET S
    OBVIOUS
  <2>. HIDE DEF C
  <2>. QED
    BY <1>1, <2>1, Minimal
<1>3. T # {}
  <2>1. k * 0 = 0
    OBVIOUS
  <2>. QED
    BY <2>1, SumOfNone
<1>. DEFINE x == First(T)
            U == T \ {x}
            n == SumFunctionOnSet(f, U)
<1>4. x \in T /\ IsFiniteSet(T) /\ U \in SUBSET T /\ U # T
  BY <1>3, FirstIn, FS_Subset
<1>5. /\ SumFunctionOnSet(f, T) = f[x] + n
      /\ SumFunctionOnSet(g, T) = g[x] + SumFunctionOnSet(g, U)
  BY <1>3, <1>4, SumStep
<1>6. SumFunctionOnSet(g, U) = k * n
  BY <1>2, <1>4
<1>7. n \in Int
  BY <1>4, SumIsInt, FS_Subset
<1>8. f[x] \in Int /\ g[x] = k * f[x]
  BY <1>4
<1>9. SumFunctionOnSet(g, T) # k * SumFunctionOnSet(f, T)
  OBVIOUS
<1>. DEFINE m == f[x]
<1>10. k * m + k * n = k * (m + n)
  <2>. HIDE DEF m, n
  <2>1. m \in Int
    BY <1>8 DEF m
  <2>. QED
    BY <1>7, <2>1
<1>. QED
  BY <1>5, <1>6, <1>8, <1>9, <1>10

\* A function updated at one place: its type and its sum.
LEMMA SumOfUpdated ==
  ASSUME NEW A, IsFiniteSet(A), NEW f \in [A -> Int], NEW a \in A, NEW v \in Int
  PROVE  /\ SumFunction(f) \in Int
         /\ [f EXCEPT ![a] = v] \in [A -> Int]
         /\ SumFunction([f EXCEPT ![a] = v]) = SumFunction(f) + v - f[a]
<1>. DEFINE g == [f EXCEPT ![a] = v]
<1>1. g \in [A -> Int] /\ g[a] = v /\ \A x \in A \ {a} : g[x] = f[x]
  OBVIOUS
<1>. HIDE DEF g
<1>2. SumFunctionOnSet(g, A) = SumFunctionOnSet(f, A) + g[a] - f[a]
  BY <1>1, SumChanged
<1>3. SumFunctionOnSet(f, A) \in Int
  BY SumIsInt
<1>4. SumFunction(f) = SumFunctionOnSet(f, A) /\ SumFunction(g) = SumFunctionOnSet(g, A)
  BY <1>1 DEF SumFunction
<1>. QED
  BY <1>1, <1>2, <1>3, <1>4 DEF g

-----------------------------------------------------------------------------
(* Loops: what a function computes that is defined by recursion on a number. *)

\* What holds at zero, and at k + 1 if at k, holds up to n.
LEMMA UpTo ==
  ASSUME NEW n \in Nat, NEW P \in SUBSET (0 .. n), 0 \in P,
         \A k \in 0 .. n : k < n /\ k \in P => k + 1 \in P
  PROVE  P = 0 .. n
<1>. DEFINE Bad == (0 .. n) \ P
<1>. SUFFICES ASSUME Bad # {} PROVE FALSE
  OBVIOUS
<1>1. PICK k \in Bad : \A j \in Bad : ~(j < k)
  <2>1. Bad \in SUBSET Nat
    OBVIOUS
  <2>. HIDE DEF Bad
  <2>. QED
    BY <2>1, LeastNumber
<1>2. k \in 0 .. n /\ k \notin P /\ k # 0
  OBVIOUS
<1>3. k - 1 \in 0 .. n /\ k - 1 < n /\ (k - 1) + 1 = k /\ k - 1 < k
  BY <1>2
<1>4. k - 1 \notin P
  BY <1>2, <1>3
<1>. QED
  BY <1>1, <1>3, <1>4

\* The course of a loop of n rounds: what it has made of base by the k-th.
Course(g, n, base, step) ==
  /\ g[0] = base
  /\ \A i \in 1 .. n : g[i] = step[<<i, g[i - 1]>>]

\* A round of such a loop, as a function of its number and of what is so far.
Steps(n, S) == [(1 .. n) \X S -> S]

\* What a loop of n rounds computes, round by round.
Courses(n, S) == [0 .. n -> S]

\* Every loop whose rounds lead from one state of S to another has one.
LEMMA CourseExists ==
  ASSUME NEW n \in Nat, NEW S, NEW base \in S, NEW step \in Steps(n, S)
  PROVE  \E g \in Courses(n, S) : Course(g, n, base, step)
<1>. DEFINE P == {k \in 0 .. n : \E g \in [0 .. k -> S] : Course(g, k, base, step)}
<1>. USE DEF Course
<1>1. 0 \in P
  <2>. DEFINE g == [i \in 0 .. 0 |-> base]
  <2>1. g \in [0 .. 0 -> S] /\ g[0] = base /\ 1 .. 0 = {}
    OBVIOUS
  <2>. HIDE DEF g
  <2>. QED
    BY <2>1
<1>2. ASSUME NEW k \in 0 .. n, k < n, k \in P
      PROVE  k + 1 \in P
  <2>1. PICK g \in [0 .. k -> S] : Course(g, k, base, step)
    BY <1>2
  <2>. DEFINE next == step[<<k + 1, g[k]>>]
              h == [i \in 0 .. k + 1 |-> IF i = k + 1 THEN next ELSE g[i]]
  <2>2. k \in 0 .. k /\ k + 1 \in 1 .. n /\ g[k] \in S
    BY <1>2
  <2>3. next \in S
    BY <2>2 DEF Steps
  <2>4. h \in [0 .. k + 1 -> S] /\ h[k + 1] = next /\ \A i \in 0 .. k : h[i] = g[i]
    BY <2>3
  <2>. HIDE DEF h
  <2>5. h[0] = base
    BY <2>1, <2>4
  <2>6. ASSUME NEW i \in 1 .. k + 1
        PROVE  h[i] = step[<<i, h[i - 1]>>]
    <3>1. CASE i = k + 1
      <4>1. h[i] = next /\ i - 1 = k /\ h[k] = g[k]
        BY <2>4, <2>2, <3>1
      <4>. QED
        BY <4>1, <3>1
    <3>2. CASE i # k + 1
      <4>1. i \in 1 .. k /\ i \in 0 .. k /\ i - 1 \in 0 .. k
        BY <3>2
      <4>2. g[i] = step[<<i, g[i - 1]>>]
        BY <2>1, <4>1
      <4>. QED
        BY <4>1, <4>2, <2>4
    <3>. QED
      BY <3>1, <3>2
  <2>7. Course(h, k + 1, base, step)
    BY <2>5, <2>6
  <2>. QED
    BY <1>2, <2>4, <2>7
<1>. HIDE DEF Course
<1>3. P = 0 .. n
  <2>1. P \in SUBSET (0 .. n)
    OBVIOUS
  <2>. HIDE DEF P
  <2>. QED
    BY <1>1, <1>2, <2>1, UpTo
<1>4. \E g \in [0 .. n -> S] : Course(g, n, base, step)
  BY <1>3
<1>. QED
  BY <1>4 DEF Courses

-----------------------------------------------------------------------------
(* Sequences that have the entries of others: a loop that filters or sorts. *)

\* t has the entries that s has at the places I, each once, in some order.
TakenFrom(t, s, I) ==
  \E e \in [1 .. Len(t) -> I] :
    /\ \A i, j \in 1 .. Len(t) : i # j => e[i] # e[j]
    /\ \A k \in I : \E i \in 1 .. Len(t) : e[i] = k
    /\ \A i \in 1 .. Len(t) : t[i] = s[e[i]]

\* What follows: the entries, and how many there are.
LEMMA TakenEntries ==
  ASSUME NEW S, NEW s \in Seq(S), NEW t \in Seq(S), NEW I \in SUBSET (DOMAIN s), TakenFrom(t, s, I)
  PROVE  /\ ToSet(t) = {s[i] : i \in I}
         /\ Len(t) = Cardinality(I)
<1>1. PICK e \in [1 .. Len(t) -> I] :
        /\ \A i, j \in 1 .. Len(t) : i # j => e[i] # e[j]
        /\ \A k \in I : \E i \in 1 .. Len(t) : e[i] = k
        /\ \A i \in 1 .. Len(t) : t[i] = s[e[i]]
  BY DEF TakenFrom
<1>2. DOMAIN t = 1 .. Len(t) /\ Len(t) \in Nat
  OBVIOUS
<1>3. ToSet(t) = {s[i] : i \in I}
  BY SMTT(40), <1>1, <1>2 DEF ToSet
<1>4. Cardinality(1 .. Len(t)) = Len(t) /\ IsFiniteSet(1 .. Len(t))
  <2>. DEFINE n == Len(t)
  <2>1. 1 \in Int /\ n \in Int /\ n \in Nat
    BY <1>2
  <2>. HIDE DEF n
  <2>2. IsFiniteSet(1 .. n) /\ Cardinality(1 .. n) = IF 1 > n THEN 0 ELSE n - 1 + 1
    BY <2>1, FS_Interval
  <2>3. Cardinality(1 .. n) = n
    BY <2>1, <2>2
  <2>. QED
    BY <2>2, <2>3 DEF n
<1>5. e \in Bijection(1 .. Len(t), I)
  BY <1>1 DEF Bijection, Injection, Surjection, IsInjective
<1>6. Cardinality(1 .. Len(t)) = Cardinality(I)
  BY <1>4, <1>5, FS_Bijection DEF ExistsBijection
<1>. QED
  BY <1>3, <1>4, <1>6

\* Entries that are all different where they come from stay so.
LEMMA TakenApart ==
  ASSUME NEW S, NEW s \in Seq(S), NEW t \in Seq(S), NEW I \in SUBSET (DOMAIN s), TakenFrom(t, s, I)
  PROVE  \A i, j \in DOMAIN t : i # j => \E k, l \in I : k # l /\ t[i] = s[k] /\ t[j] = s[l]
BY SMTT(40) DEF TakenFrom

\* Nothing from nowhere, everything from itself.
LEMMA TakenNone ==
  ASSUME NEW s
  PROVE  TakenFrom(<<>>, s, {})
<1>1. 1 .. Len(<<>>) = {}
  OBVIOUS
<1>. DEFINE e == [i \in {} |-> i]
<1>2. e \in [{} -> {}]
  OBVIOUS
<1>. QED
  BY <1>1, <1>2 DEF TakenFrom

\* The first entries, as they are or turned round.
LEMMA TakenFirst ==
  ASSUME NEW S, NEW s \in Seq(S), NEW k \in 0 .. Len(s)
  PROVE  /\ SubSeq(s, 1, k) \in Seq(S) /\ TakenFrom(SubSeq(s, 1, k), s, 1 .. k)
         /\ Reverse(SubSeq(s, 1, k)) \in Seq(S) /\ TakenFrom(Reverse(SubSeq(s, 1, k)), s, 1 .. k)
<1>. DEFINE t == SubSeq(s, 1, k)
            r == Reverse(t)
            same == [i \in 1 .. k |-> i]
            back == [i \in 1 .. k |-> k - i + 1]
<1>1. t \in Seq(S) /\ Len(t) = k /\ \A i \in 1 .. k : t[i] = s[i]
  OBVIOUS
<1>2. TakenFrom(t, s, 1 .. k)
  <2>1. same \in [1 .. k -> 1 .. k] /\ \A i \in 1 .. k : same[i] = i
    OBVIOUS
  <2>. HIDE DEF same, t
  <2>. QED
    BY ZenonT(30), <1>1, <2>1 DEF TakenFrom
<1>. HIDE DEF t
<1>3. r = [i \in 1 .. k |-> t[k - i + 1]]
  BY <1>1 DEF Reverse
<1>4. back \in [1 .. k -> 1 .. k] /\ \A i \in 1 .. k : back[i] = k - i + 1
  OBVIOUS
<1>5. r \in Seq(S) /\ Len(r) = k /\ \A i \in 1 .. k : r[i] = s[back[i]]
  <2>1. \A i \in 1 .. k : k - i + 1 \in 1 .. k
    OBVIOUS
  <2>2. \A i \in 1 .. k : t[k - i + 1] \in S
    BY <1>1, <2>1
  <2>3. r \in [1 .. k -> S]
    BY <1>3, <2>2
  <2>4. r \in Seq(S) /\ Len(r) = k
    BY <2>3
  <2>5. \A i \in 1 .. k : r[i] = s[back[i]]
    BY <1>1, <1>3, <1>4, <2>1
  <2>. QED
    BY <2>4, <2>5
<1>. HIDE DEF r, back
<1>6. /\ \A i, j \in 1 .. k : i # j => back[i] # back[j]
      /\ \A l \in 1 .. k : \E i \in 1 .. k : back[i] = l
  <2>1. \A i, j \in 1 .. k : i # j => k - i + 1 # k - j + 1
    OBVIOUS
  <2>2. ASSUME NEW l \in 1 .. k PROVE \E i \in 1 .. k : back[i] = l
    <3>1. k - l + 1 \in 1 .. k /\ k - (k - l + 1) + 1 = l
      OBVIOUS
    <3>. QED
      BY <1>4, <3>1
  <2>. QED
    BY <1>4, <2>1, <2>2
<1>7. TakenFrom(r, s, 1 .. k)
  BY <1>4, <1>5, <1>6 DEF TakenFrom
<1>. QED
  BY <1>1, <1>2, <1>5, <1>7 DEF t, r

\* What follows another sequence, and what is inserted into one.
LEMMA Joined ==
  ASSUME NEW S, NEW a \in Seq(S), NEW b \in Seq(S), NEW d, d = a \o b
  PROVE  /\ d \in Seq(S)
         /\ Len(d) = Len(a) + Len(b)
         /\ \A i \in 1 .. Len(a) : d[i] = a[i]
         /\ \A i \in 1 .. Len(b) : d[Len(a) + i] = b[i]
OBVIOUS

\* u is t with e put at place p.
Insertion(u, t, p, e) ==
  \A i \in 1 .. Len(t) + 1 : u[i] = IF i < p THEN t[i] ELSE IF i = p THEN e ELSE t[i - 1]

\* What InsertAt of the community modules returns.
LEMMA Inserted ==
  ASSUME NEW S, NEW t \in Seq(S), NEW e \in S, NEW p \in 1 .. Len(t) + 1,
         NEW u, u = InsertAt(t, p, e)
  PROVE  /\ u \in Seq(S)
         /\ Len(u) = Len(t) + 1
         /\ Insertion(u, t, p, e)
<1>. DEFINE n == Len(t)
            m == n + 1
            a == SubSeq(t, 1, p - 1)
            b == <<e>>
            c == SubSeq(t, p, n)
            d == a \o b
<1>1. n \in Nat /\ m \in Nat /\ p \in Nat \ {0} /\ p <= m
  OBVIOUS
<1>2. a \in Seq(S) /\ Len(a) = p - 1 /\ \A i \in 1 .. p - 1 : a[i] = t[i]
  OBVIOUS
<1>3. b \in Seq(S) /\ Len(b) = 1 /\ b[1] = e
  OBVIOUS
<1>4. c \in Seq(S) /\ Len(c) = n - p + 1 /\ \A i \in 1 .. n - p + 1 : c[i] = t[p + i - 1]
  OBVIOUS
<1>5. u = d \o c /\ d = a \o b /\ a \in Seq(S) /\ b \in Seq(S) /\ c \in Seq(S)
  BY <1>2, <1>3, <1>4 DEF InsertAt
<1>. HIDE DEF a, b, c, d, n
<1>6. /\ d \in Seq(S) /\ Len(d) = Len(a) + Len(b)
      /\ \A i \in 1 .. Len(a) : d[i] = a[i]
      /\ \A i \in 1 .. Len(b) : d[Len(a) + i] = b[i]
  BY <1>5, Joined
<1>7. Len(d) = p /\ (\A i \in 1 .. p - 1 : d[i] = t[i]) /\ d[p] = e
  BY <1>1, <1>2, <1>3, <1>6
<1>8. /\ u \in Seq(S) /\ Len(u) = Len(d) + Len(c)
      /\ \A i \in 1 .. Len(d) : u[i] = d[i]
      /\ \A i \in 1 .. Len(c) : u[Len(d) + i] = c[i]
  <2>1. d \in Seq(S)
    BY <1>6
  <2>. QED
    BY <2>1, <1>5, Joined
<1>9. Len(u) = m
  BY <1>1, <1>4, <1>7, <1>8
<1>10. \A i \in 1 .. p - 1 : u[i] = t[i]
  BY <1>1, <1>7, <1>8
<1>11. u[p] = e
  BY <1>1, <1>7, <1>8
<1>12. ASSUME NEW i \in p + 1 .. m
       PROVE  u[i] = t[i - 1]
  <2>1. i - p \in 1 .. n - p + 1 /\ p + (i - p) = i /\ p + (i - p) - 1 = i - 1
    BY <1>1
  <2>2. u[Len(d) + (i - p)] = c[i - p]
    BY <1>4, <1>8, <2>1
  <2>3. c[i - p] = t[p + (i - p) - 1]
    BY <1>4, <2>1
  <2>. QED
    BY <1>7, <2>1, <2>2, <2>3
<1>13. \A i \in 1 .. m : i \in 1 .. p - 1 \/ i = p \/ i \in p + 1 .. m
  BY <1>1
<1>14. \A i \in 1 .. m : u[i] = IF i < p THEN t[i] ELSE IF i = p THEN e ELSE t[i - 1]
  BY <1>1, <1>10, <1>11, <1>12, <1>13
<1>. QED
  BY <1>8, <1>9, <1>14 DEF n, Insertion

\* One more entry, put in anywhere.
LEMMA TakenOneMore ==
  ASSUME NEW S, NEW s \in Seq(S), NEW t \in Seq(S), NEW I \in SUBSET (DOMAIN s), TakenFrom(t, s, I),
         NEW k \in (DOMAIN s) \ I, NEW p \in 1 .. Len(t) + 1,
         NEW u \in Seq(S), Len(u) = Len(t) + 1,
         Insertion(u, t, p, s[k])
  PROVE  TakenFrom(u, s, I \cup {k})
<1>. DEFINE n == Len(t)
            m == n + 1
<1>1. n \in Nat /\ m \in Nat
  OBVIOUS
<1>2. /\ u \in Seq(S) /\ Len(u) = m
      /\ \A i \in 1 .. m : u[i] = IF i < p THEN t[i] ELSE IF i = p THEN s[k] ELSE t[i - 1]
  BY DEF Insertion
<1>. HIDE DEF n
<1>3. PICK e \in [1 .. n -> I] :
        /\ \A i, j \in 1 .. n : i # j => e[i] # e[j]
        /\ \A l \in I : \E i \in 1 .. n : e[i] = l
        /\ \A i \in 1 .. n : t[i] = s[e[i]]
  BY DEF TakenFrom, n
<1>. DEFINE J == I \cup {k}
            f == [i \in 1 .. m |-> IF i < p THEN e[i] ELSE IF i = p THEN k ELSE e[i - 1]]
<1>4. \A i \in 1 .. m : /\ i < p => i \in 1 .. n
                        /\ i > p => i - 1 \in 1 .. n
  BY <1>1 DEF n
<1>5. /\ \A i \in 1 .. m : i < p => f[i] = e[i]
      /\ f[p] = k /\ p \in 1 .. m
      /\ \A i \in 1 .. m : i > p => f[i] = e[i - 1]
  BY <1>1 DEF n
<1>6. f \in [1 .. m -> J]
  <2>1. ASSUME NEW i \in 1 .. m
        PROVE  (IF i < p THEN e[i] ELSE IF i = p THEN k ELSE e[i - 1]) \in J
    <3>1. CASE i < p
      BY <1>3, <1>4, <3>1
    <3>2. CASE i = p
      BY <3>2
    <3>3. CASE i > p
      BY <1>3, <1>4, <3>3
    <3>4. i < p \/ i = p \/ i > p
      BY <1>1
    <3>. QED
      BY <3>1, <3>2, <3>3, <3>4
  <2>. QED
    BY <2>1
<1>. HIDE DEF f
<1>7. \A i \in 1 .. m : i = p \/ \E l \in 1 .. n : f[i] = e[l] /\ u[i] = t[l] /\ l = (IF i < p THEN i ELSE i - 1)
  BY <1>1, <1>2, <1>4, <1>5
<1>e. \A l \in 1 .. n : e[l] # k
  BY <1>3
<1>8. ASSUME NEW i \in 1 .. m, NEW j \in 1 .. m, i # j
      PROVE  f[i] # f[j]
  <2>1. CASE i = p
    <3>1. f[i] = k /\ \E l \in 1 .. n : f[j] = e[l]
      BY <1>5, <1>7, <1>8, <2>1
    <3>. QED
      BY <1>e, <3>1
  <2>2. CASE j = p
    <3>1. f[j] = k /\ \E l \in 1 .. n : f[i] = e[l]
      BY <1>5, <1>7, <1>8, <2>2
    <3>. QED
      BY <1>e, <3>1
  <2>3. CASE i # p /\ j # p
    <3>1. PICK l \in 1 .. n : f[i] = e[l] /\ l = (IF i < p THEN i ELSE i - 1)
      BY <1>7, <2>3
    <3>2. PICK q \in 1 .. n : f[j] = e[q] /\ q = (IF j < p THEN j ELSE j - 1)
      BY <1>7, <2>3
    <3>3. l # q
      BY <1>8, <2>3, <3>1, <3>2
    <3>. QED
      BY <1>3, <3>1, <3>2, <3>3
  <2>. QED
    BY <2>1, <2>2, <2>3
<1>9. ASSUME NEW l \in J
      PROVE  \E i \in 1 .. m : f[i] = l
  <2>1. CASE l = k
    BY <1>5, <2>1
  <2>2. CASE l \in I
    <3>1. PICK i \in 1 .. n : e[i] = l
      BY <1>3, <2>2
    <3>2. CASE i < p
      <4>1. i \in 1 .. m
        BY <1>1
      <4>. QED
        BY <1>5, <3>1, <3>2, <4>1
    <3>3. CASE ~(i < p)
      <4>1. i + 1 \in 1 .. m /\ i + 1 > p /\ (i + 1) - 1 = i
        BY <1>1, <3>3 DEF n
      <4>2. f[i + 1] = e[(i + 1) - 1]
        BY <1>5, <4>1
      <4>. QED
        BY <3>1, <4>1, <4>2
    <3>. QED
      BY <3>2, <3>3
  <2>. QED
    BY <2>1, <2>2
<1>10. ASSUME NEW i \in 1 .. m
       PROVE  u[i] = s[f[i]]
  <2>1. CASE i = p
    BY <1>1, <1>2, <1>5, <2>1
  <2>2. CASE i # p
    BY <1>3, <1>7, <2>2
  <2>. QED
    BY <2>1, <2>2
<1>. HIDE DEF J
<1>11. TakenFrom(u, s, J)
  <2>1. 1 .. Len(u) = 1 .. m
    BY <1>2
  <2>2. \A i, j \in 1 .. m : i # j => f[i] # f[j]
    BY <1>8
  <2>3. \A l \in J : \E i \in 1 .. m : f[i] = l
    BY <1>9
  <2>4. \A i \in 1 .. m : u[i] = s[f[i]]
    BY <1>10
  <2>. DEFINE D == 1 .. m
  <2>5. /\ f \in [D -> J]
        /\ \A i, j \in D : i # j => f[i] # f[j]
        /\ \A l \in J : \E i \in D : f[i] = l
        /\ \A i \in D : u[i] = s[f[i]]
    BY <1>6, <2>2, <2>3, <2>4
  <2>6. 1 .. Len(u) = D
    BY <2>1
  <2>. HIDE DEF D, m
  <2>. QED
    BY ZenonT(30), <2>5, <2>6 DEF TakenFrom
<1>. QED
  BY <1>11 DEF J
\* An entry of s that was not yet in t, put anywhere in it.
LEMMA TakenInserted ==
  ASSUME NEW S, NEW s \in Seq(S), NEW t \in Seq(S), NEW I \in SUBSET (DOMAIN s), TakenFrom(t, s, I),
         NEW k \in (DOMAIN s) \ I, NEW p \in 1 .. Len(t) + 1,
         NEW u, u = InsertAt(t, p, s[k])
  PROVE  u \in Seq(S) /\ TakenFrom(u, s, I \cup {k})
<1>1. s[k] \in S
  OBVIOUS
<1>2. /\ u \in Seq(S) /\ Len(u) = Len(t) + 1
      /\ Insertion(u, t, p, s[k])
  BY <1>1, Inserted
<1>. QED
  BY <1>2, TakenOneMore

\* Append puts at the end.
LEMMA Appended ==
  ASSUME NEW S, NEW t \in Seq(S), NEW e \in S, NEW u, u = Append(t, e), NEW p, p = Len(t) + 1
  PROVE  /\ u \in Seq(S) /\ Len(u) = Len(t) + 1
         /\ Insertion(u, t, p, e)
BY DEF Insertion

\* The same for an entry that is appended.
LEMMA TakenAppended ==
  ASSUME NEW S, NEW s \in Seq(S), NEW t \in Seq(S), NEW I \in SUBSET (DOMAIN s), TakenFrom(t, s, I),
         NEW k \in (DOMAIN s) \ I, NEW u, u = Append(t, s[k])
  PROVE  u \in Seq(S) /\ TakenFrom(u, s, I \cup {k})
<1>. DEFINE p == Len(t) + 1
<1>1. s[k] \in S /\ p = Len(t) + 1 /\ p \in 1 .. Len(t) + 1
  OBVIOUS
<1>. HIDE DEF p
<1>2. /\ u \in Seq(S) /\ Len(u) = Len(t) + 1
      /\ Insertion(u, t, p, s[k])
  BY ZenonT(30), <1>1, Appended
<1>. QED
  BY <1>1, <1>2, TakenOneMore

\* The course of the loop that filters.
Filter(kept, s, I) ==
  kept = [i \in 0 .. Len(s) |-> IF i = 0 THEN <<>>
                                ELSE IF i \in I THEN Append(kept[i - 1], s[i]) ELSE kept[i - 1]]

\* The loop of a filter, named.
Filtered(s, I) == CHOOSE kept : Filter(kept, s, I)

\* Selected ends that loop.
LEMMA SelectedIsFiltered ==
  ASSUME NEW s, NEW I
  PROVE  Selected(s, I) = Filtered(s, I)[Len(s)]
BY Zenon DEF Selected, Filtered, Filter

\* A filter returns the entries it is to keep.
LEMMA SelectedTakes ==
  ASSUME NEW S, NEW s \in Seq(S), NEW I \in SUBSET (DOMAIN s)
  PROVE  Selected(s, I) \in Seq(S) /\ TakenFrom(Selected(s, I), s, I)
<1>. DEFINE n == Len(s)
            Q == Seq(S)
            step == [x \in (1 .. n) \X Q |-> IF x[1] \in I THEN Append(x[2], s[x[1]]) ELSE x[2]]
            g == Filtered(s, I)
<1>1. n \in Nat /\ DOMAIN s = 1 .. n /\ <<>> \in Q
  OBVIOUS
<1>2. step \in [(1 .. n) \X Q -> Q]
  <2>1. \A x \in (1 .. n) \X Q : (IF x[1] \in I THEN Append(x[2], s[x[1]]) ELSE x[2]) \in Q
    OBVIOUS
  <2>. QED
    BY <2>1
<1>3. \A k \in 1 .. n : \A q \in Q : step[<<k, q>>] = IF k \in I THEN Append(q, s[k]) ELSE q
  OBVIOUS
<1>. HIDE DEF step, Q
<1>4. PICK h \in [0 .. n -> Q] :
        /\ h[0] = <<>>
        /\ \A k \in 1 .. n : h[k] = step[<<k, h[k - 1]>>]
  <2>. DEFINE base == <<>>
  <2>1. base \in Q /\ base = <<>>
    BY <1>1
  <2>. HIDE DEF n, base, g
  <2>a. n \in Nat
    BY <1>1
  <2>b. step \in Steps(n, Q)
    BY <1>2 DEF Steps
  <2>2. PICK h \in Courses(n, Q) : Course(h, n, base, step)
    BY <2>a, <2>b, <2>1, CourseExists
  <2>. QED
    BY <2>1, <2>2 DEF Courses, Course
<1>5. Filter(h, s, I)
  <2>1. ASSUME NEW i \in 0 .. n
        PROVE  h[i] = IF i = 0 THEN <<>> ELSE IF i \in I THEN Append(h[i - 1], s[i]) ELSE h[i - 1]
    <3>1. CASE i = 0
      BY <1>4, <3>1
    <3>2. CASE i # 0
      <4>1. i \in 1 .. n /\ i - 1 \in 0 .. n
        BY <3>2
      <4>2. h[i - 1] \in Q
        BY <1>4, <4>1
      <4>. QED
        BY <1>3, <1>4, <3>2, <4>1, <4>2
    <3>. QED
      BY <3>1, <3>2
  <2>2. h = [i \in 0 .. n |-> h[i]]
    BY <1>4
  <2>. QED
    BY <2>1, <2>2 DEF Filter
<1>6. Filter(g, s, I)
  BY <1>5 DEF Filtered
<1>. HIDE DEF g
<1>7. \A i \in 0 .. n : g[i] = IF i = 0 THEN <<>> ELSE IF i \in I THEN Append(g[i - 1], s[i]) ELSE g[i - 1]
  BY <1>6 DEF Filter
<1>. DEFINE P == {k \in 0 .. n : g[k] \in Q /\ TakenFrom(g[k], s, I \cap (1 .. k))}
<1>8. 0 \in P
  <2>1. I \cap (1 .. 0) = {}
    OBVIOUS
  <2>2. g[0] = <<>> /\ 0 \in 0 .. n
    BY <1>1, <1>7
  <2>. QED
    BY <1>1, <2>1, <2>2, TakenNone
<1>9. ASSUME NEW k \in 0 .. n, k < n, k \in P
      PROVE  k + 1 \in P
  <2>1. k + 1 \in 0 .. n /\ k + 1 \in 1 .. n /\ (k + 1) - 1 = k /\ k + 1 # 0
    BY <1>9
  <2>2. g[k] \in Seq(S) /\ TakenFrom(g[k], s, I \cap (1 .. k))
    BY <1>9 DEF Q
  <2>3. CASE k + 1 \in I
    <3>1. g[k + 1] = Append(g[k], s[k + 1])
      BY <1>7, <2>1, <2>3
    <3>2. I \cap (1 .. k + 1) = (I \cap (1 .. k)) \cup {k + 1}
      BY <2>3
    <3>3. k + 1 \in (DOMAIN s) \ (I \cap (1 .. k)) /\ I \cap (1 .. k) \in SUBSET (DOMAIN s)
      BY <1>1, <2>1
    <3>. DEFINE J == I \cap (1 .. k)
    <3>. HIDE DEF J
    <3>4. g[k + 1] \in Seq(S) /\ TakenFrom(g[k + 1], s, J \cup {k + 1})
      BY <2>2, <3>1, <3>3, TakenAppended DEF J
    <3>. QED
      BY <2>1, <3>2, <3>4 DEF J, Q
  <2>4. CASE k + 1 \notin I
    <3>1. g[k + 1] = g[k]
      BY <1>7, <2>1, <2>4
    <3>2. I \cap (1 .. k + 1) = I \cap (1 .. k)
      BY <2>1, <2>4
    <3>. QED
      BY <2>1, <2>2, <3>1, <3>2 DEF Q
  <2>. QED
    BY <2>3, <2>4
<1>10. P = 0 .. n
  <2>1. P \in SUBSET (0 .. n)
    OBVIOUS
  <2>. HIDE DEF P
  <2>. QED
    BY <1>1, <1>8, <1>9, <2>1, UpTo
<1>11. g[n] \in Q /\ TakenFrom(g[n], s, I \cap (1 .. n))
  BY <1>1, <1>10
<1>12. I \cap (1 .. n) = I
  BY <1>1
<1>13. Selected(s, I) = g[n]
  BY SelectedIsFiltered DEF g
<1>. QED
  BY <1>11, <1>12, <1>13 DEF Q

-----------------------------------------------------------------------------
(* Sorting by insertion. *)

\* A step of the binary search for the place of tx.
Halved(place, sorted, tx, l, r) ==
  LET mid == (l + r) \div 2
  IN  IF l >= r THEN l
      ELSE IF Compare(tx, sorted[mid + 1]) < 0 THEN place[<<l, mid>>]
      ELSE place[<<mid + 1, r>>]

\* The bounds a binary search among n entries can have.
Ranges(n) == (0 .. n) \X (0 .. n)

\* The table of the places it finds between all bounds.
Search(place, sorted, tx) ==
  place = [range \in Ranges(Len(sorted)) |-> Halved(place, sorted, tx, range[1], range[2])]

\* The table Placed uses, named.
Searched(sorted, tx) == CHOOSE place : Search(place, sorted, tx)

\* Placed inserts at the place of the widest bounds.
LEMMA PlacedIsSearched ==
  ASSUME NEW sorted, NEW tx
  PROVE  Placed(sorted, tx) = InsertAt(sorted, Searched(sorted, tx)[<<0, Len(sorted)>>] + 1, tx)
BY Zenon DEF Placed, Searched, Search, Halved, Ranges

\* The middle of a range lies inside.
LEMMA HalfIsSmaller ==
  ASSUME NEW n \in Nat, NEW l \in 0 .. n, NEW r \in 0 .. n, l < r, NEW mid, mid = (l + r) \div 2
  PROVE  mid \in l .. r - 1
OBVIOUS

\* A round of the search asks the table only for narrower bounds.
LEMMA HalvedAgrees ==
  ASSUME NEW sorted, NEW tx, NEW n \in Nat, NEW l \in 0 .. n, NEW r \in 0 .. n,
         NEW p, NEW q, NEW d \in Nat, r - l <= d + 1,
         \A i, j \in 0 .. n : j - i <= d => p[<<i, j>>] = q[<<i, j>>]
  PROVE  Halved(p, sorted, tx, l, r) = Halved(q, sorted, tx, l, r)
<1>1. CASE l >= r
  BY <1>1 DEF Halved
<1>2. CASE l < r
  <2>. DEFINE mid == (l + r) \div 2
  <2>1. mid \in l .. r - 1
    BY <1>2, HalfIsSmaller
  <2>. HIDE DEF mid
  <2>2. mid \in 0 .. n /\ mid + 1 \in 0 .. n /\ mid - l <= d /\ r - (mid + 1) <= d
    BY <2>1
  <2>3. p[<<l, mid>>] = q[<<l, mid>>] /\ p[<<mid + 1, r>>] = q[<<mid + 1, r>>]
    BY <2>2
  <2>. QED
    BY <2>3 DEF Halved, mid
<1>. QED
  BY <1>1, <1>2

\* The search is well defined, and ends at a place between the bounds.
LEMMA SearchExists ==
  ASSUME NEW sorted, NEW tx, NEW n \in Nat, n = Len(sorted)
  PROVE  \E place : Search(place, sorted, tx)
<1>. DEFINE D == (0 .. n) \X (0 .. n)
            Known(p, d) == /\ p = [x \in D |-> p[x]]
                           /\ \A l, r \in 0 .. n : r - l <= d => p[<<l, r>>] = Halved(p, sorted, tx, l, r)
            P == {d \in 0 .. n : \E p : Known(p, d)}
<1>1. 0 \in P
  <2>. DEFINE p == [x \in D |-> x[1]]
  <2>1. p = [x \in D |-> p[x]]
    OBVIOUS
  <2>2. \A l, r \in 0 .. n : p[<<l, r>>] = l
    OBVIOUS
  <2>3. \A l, r \in 0 .. n : r - l <= 0 => l >= r
    OBVIOUS
  <2>. HIDE DEF p, D
  <2>4. \A l, r \in 0 .. n : r - l <= 0 => p[<<l, r>>] = Halved(p, sorted, tx, l, r)
    BY <2>2, <2>3 DEF Halved
  <2>. QED
    BY <2>1, <2>4
<1>2. ASSUME NEW d \in 0 .. n, d < n, d \in P
      PROVE  d + 1 \in P
  <2>1. PICK p : Known(p, d)
    BY <1>2
  <2>. DEFINE q == [x \in D |-> IF x[2] - x[1] <= d THEN p[x] ELSE Halved(p, sorted, tx, x[1], x[2])]
  <2>2. q = [x \in D |-> q[x]]
    OBVIOUS
  <2>3. \A l, r \in 0 .. n : q[<<l, r>>] = IF r - l <= d THEN p[<<l, r>>] ELSE Halved(p, sorted, tx, l, r)
    OBVIOUS
  <2>. HIDE DEF q, D
  <2>4. ASSUME NEW l \in 0 .. n, NEW r \in 0 .. n, r - l <= d + 1
        PROVE  q[<<l, r>>] = Halved(q, sorted, tx, l, r)
    <3>1. \A i, j \in 0 .. n : j - i <= d => p[<<i, j>>] = q[<<i, j>>]
      BY <2>3
    <3>2. Halved(p, sorted, tx, l, r) = Halved(q, sorted, tx, l, r)
      BY <1>2, <2>4, <3>1, HalvedAgrees
    <3>3. q[<<l, r>>] = Halved(p, sorted, tx, l, r)
      BY <2>1, <2>3
    <3>. QED
      BY <3>2, <3>3
  <2>. QED
    BY <1>2, <2>2, <2>4
<1>. HIDE DEF Known
<1>3. P = 0 .. n
  <2>1. P \in SUBSET (0 .. n)
    OBVIOUS
  <2>. HIDE DEF P
  <2>. QED
    BY <1>1, <1>2, <2>1, UpTo
<1>4. PICK p : Known(p, n)
  BY <1>3
<1>5. p = [x \in D |-> p[x]]
  BY <1>4 DEF Known
<1>6. \A l, r \in 0 .. n : p[<<l, r>>] = Halved(p, sorted, tx, l, r)
  <2>1. \A l, r \in 0 .. n : r - l <= n
    OBVIOUS
  <2>. QED
    BY <1>4, <2>1 DEF Known
<1>7. ASSUME NEW x \in D
      PROVE  p[x] = Halved(p, sorted, tx, x[1], x[2])
  <2>1. x[1] \in 0 .. n /\ x[2] \in 0 .. n /\ x = <<x[1], x[2]>>
    OBVIOUS
  <2>. QED
    BY <1>6, <2>1
<1>8. p = [x \in D |-> Halved(p, sorted, tx, x[1], x[2])]
  <2>. HIDE DEF D
  <2>. QED
    BY <1>5, <1>7
<1>. QED
  BY <1>8 DEF Search, Ranges

\* Placing is inserting, somewhere.
LEMMA PlacedSomewhere ==
  ASSUME NEW S, NEW sorted \in Seq(S), NEW tx
  PROVE  \E p \in 1 .. Len(sorted) + 1 : Placed(sorted, tx) = InsertAt(sorted, p, tx)
<1>. DEFINE n == Len(sorted)
            g == Searched(sorted, tx)
            P == {d \in 0 .. n : \A l, r \in 0 .. n : l <= r /\ r - l <= d => g[<<l, r>>] \in l .. r}
<1>1. n \in Nat /\ n = Len(sorted)
  OBVIOUS
<1>. HIDE DEF n
<1>2. Search(g, sorted, tx)
  BY <1>1, SearchExists DEF Searched
<1>. HIDE DEF g
<1>3. ASSUME NEW l \in 0 .. n, NEW r \in 0 .. n
      PROVE  g[<<l, r>>] = Halved(g, sorted, tx, l, r)
  <2>1. <<l, r>> \in Ranges(n) /\ <<l, r>>[1] = l /\ <<l, r>>[2] = r
    BY DEF Ranges
  <2>. QED
    BY <1>1, <1>2, <2>1 DEF Search
<1>4. 0 \in P
  <2>1. ASSUME NEW l \in 0 .. n, NEW r \in 0 .. n, l <= r, r - l <= 0
        PROVE  g[<<l, r>>] \in l .. r
    <3>1. l = r /\ l >= r /\ l \in l .. r
      BY <1>1, <2>1
    <3>2. Halved(g, sorted, tx, l, r) = l
      BY <3>1, Zenon DEF Halved
    <3>. QED
      BY <1>3, <3>1, <3>2
  <2>. QED
    BY <1>1, <2>1
<1>5. ASSUME NEW d \in 0 .. n, d < n, d \in P
      PROVE  d + 1 \in P
  <2>1. ASSUME NEW l \in 0 .. n, NEW r \in 0 .. n, l <= r, r - l <= d + 1
        PROVE  g[<<l, r>>] \in l .. r
    <3>1. CASE l = r
      <4>1. l >= r /\ l \in l .. r
        BY <1>1, <3>1
      <4>2. Halved(g, sorted, tx, l, r) = l
        BY <4>1, Zenon DEF Halved
      <4>. QED
        BY <1>3, <4>1, <4>2
    <3>2. CASE l < r
      <4>. DEFINE mid == (l + r) \div 2
      <4>1. mid \in l .. r - 1
        BY <1>1, <3>2, HalfIsSmaller
      <4>2. g[<<l, r>>] = IF Compare(tx, sorted[mid + 1]) < 0 THEN g[<<l, mid>>] ELSE g[<<mid + 1, r>>]
        BY <1>3, <3>2 DEF Halved
      <4>. HIDE DEF mid
      <4>3. /\ mid \in 0 .. n /\ mid + 1 \in 0 .. n /\ l <= mid /\ mid + 1 <= r
            /\ mid - l <= d /\ r - (mid + 1) <= d
        BY <1>1, <1>5, <2>1, <4>1
      <4>4. g[<<l, mid>>] \in l .. mid /\ g[<<mid + 1, r>>] \in mid + 1 .. r
        BY <1>5, <4>3
      <4>5. g[<<l, r>>] \in l .. mid \/ g[<<l, r>>] \in mid + 1 .. r
        BY <4>2, <4>4
      <4>. QED
        BY <4>3, <4>5
    <3>. QED
      BY <2>1, <3>1, <3>2
  <2>2. d + 1 \in 0 .. n
    BY <1>1, <1>5
  <2>. QED
    BY <2>1, <2>2
<1>6. P = 0 .. n
  <2>1. P \in SUBSET (0 .. n)
    OBVIOUS
  <2>. HIDE DEF P
  <2>. QED
    BY <1>1, <1>4, <1>5, <2>1, UpTo
<1>7. g[<<0, n>>] \in 0 .. n
  <2>1. n \in P /\ 0 \in 0 .. n /\ n \in 0 .. n /\ 0 <= n /\ n - 0 <= n
    BY <1>1, <1>6
  <2>. QED
    BY <2>1
<1>8. g[<<0, n>>] + 1 \in 1 .. n + 1
  BY <1>1, <1>7
<1>9. Placed(sorted, tx) = InsertAt(sorted, g[<<0, n>>] + 1, tx)
  BY <1>1, PlacedIsSearched DEF g
<1>. QED
  BY <1>1, <1>8, <1>9

\* Two neighbours that fall.
Falls(s, i) == Compare(s[i], s[i - 1]) < 0

\* The length of the run that Sort takes as it is.
RunLength(s) ==
  CHOOSE k \in 2 .. Len(s) :
    /\ \A i \in 2 .. k : Falls(s, i) = Falls(s, 2)
    /\ k < Len(s) => Falls(s, k + 1) # Falls(s, 2)

\* That run, reversed if it falls.
FirstRun(s) ==
  IF Falls(s, 2) THEN Reverse(SubSeq(s, 1, RunLength(s))) ELSE SubSeq(s, 1, RunLength(s))

\* The loop of Sort: the entries after the first run, inserted one by one.
Insertions(placed, s) ==
  placed = [k \in RunLength(s) .. Len(s) |-> IF k = RunLength(s) THEN FirstRun(s) ELSE Placed(placed[k - 1], s[k])]

\* The loop Sort uses, named.
Sorted(s) == CHOOSE placed : Insertions(placed, s)

\* Sort ends that loop.
LEMMA SortIsSorted ==
  ASSUME NEW s
  PROVE  Sort(s) = IF Len(s) < 2 THEN s ELSE Sorted(s)[Len(s)]
BY Zenon DEF Sort, Sorted, Insertions, FirstRun, RunLength, Falls

\* There is such a length.
LEMMA RunLengthInside ==
  ASSUME NEW s, Len(s) \in Nat, Len(s) >= 2
  PROVE  RunLength(s) \in 2 .. Len(s)
<1>. DEFINE n == Len(s)
            Turn == {i \in 2 .. n : Falls(s, i) # Falls(s, 2)}
            Fits(k) == /\ \A i \in 2 .. k : Falls(s, i) = Falls(s, 2)
                       /\ k < n => Falls(s, k + 1) # Falls(s, 2)
<1>1. \E k \in 2 .. n : Fits(k)
  <2>1. CASE Turn = {}
    <3>1. n \in 2 .. n /\ ~(n < n) /\ \A i \in 2 .. n : Falls(s, i) = Falls(s, 2)
      BY <2>1
    <3>. QED
      BY <3>1
  <2>2. CASE Turn # {}
    <3>1. Turn \in SUBSET Nat
      OBVIOUS
    <3>2. PICK t \in Turn : \A j \in Turn : ~(j < t)
      <4>. HIDE DEF Turn
      <4>. QED
        BY <2>2, <3>1, LeastNumber
    <3>3. t \in 2 .. n /\ Falls(s, t) # Falls(s, 2) /\ t # 2
      OBVIOUS
    <3>4. t - 1 \in 2 .. n /\ (t - 1) + 1 = t
      BY <3>3
    <3>5. \A i \in 2 .. t - 1 : i \in 2 .. n /\ i < t
      BY <3>3
    <3>6. \A i \in 2 .. t - 1 : Falls(s, i) = Falls(s, 2)
      BY <3>2, <3>5
    <3>. HIDE DEF Turn
    <3>7. Fits(t - 1)
      BY <3>3, <3>4, <3>6
    <3>. QED
      BY <3>4, <3>7
  <2>. QED
    BY <2>1, <2>2
<1>. QED
  BY <1>1 DEF RunLength

\* Sorting only changes the order.
LEMMA SortTakesAll ==
  ASSUME NEW S, NEW s \in Seq(S)
  PROVE  Sort(s) \in Seq(S) /\ TakenFrom(Sort(s), s, DOMAIN s)
<1>. DEFINE n == Len(s)
            k0 == RunLength(s)
            m == n - k0
            Q == Seq(S)
            base == FirstRun(s)
            step == [x \in (1 .. m) \X Q |-> Placed(x[2], s[k0 + x[1]])]
            g == Sorted(s)
<1>1. n \in Nat /\ DOMAIN s = 1 .. n /\ SubSeq(s, 1, n) = s
  OBVIOUS
<1>2. CASE n < 2
  <2>1. Sort(s) = s
    BY <1>2, SortIsSorted
  <2>2. TakenFrom(SubSeq(s, 1, n), s, 1 .. n)
    BY <1>1, TakenFirst
  <2>. QED
    BY <1>1, <2>1, <2>2
<1>3. CASE ~(n < 2)
  <2>1. k0 \in 2 .. n
    BY <1>1, <1>3, RunLengthInside
  <2>. HIDE DEF k0
  <2>2. k0 \in Nat /\ m \in Nat /\ k0 + m = n /\ k0 \in 0 .. n
    BY <1>1, <2>1
  <2>3. base \in Q /\ TakenFrom(base, s, 1 .. k0)
    <3>1. base = Reverse(SubSeq(s, 1, k0)) \/ base = SubSeq(s, 1, k0)
      BY DEF FirstRun, k0
    <3>. HIDE DEF base
    <3>. QED
      BY <2>2, <3>1, TakenFirst
  <2>4. ASSUME NEW q \in Q, NEW i \in 1 .. m
        PROVE  /\ Placed(q, s[k0 + i]) \in Q
               /\ TakenFrom(q, s, 1 .. k0 + i - 1) => TakenFrom(Placed(q, s[k0 + i]), s, 1 .. k0 + i)
    <3>1. k0 + i \in DOMAIN s /\ s[k0 + i] \in S
      BY <1>1, <2>2
    <3>2. PICK p \in 1 .. Len(q) + 1 : Placed(q, s[k0 + i]) = InsertAt(q, p, s[k0 + i])
      BY PlacedSomewhere
    <3>3. Placed(q, s[k0 + i]) \in Q
      BY <3>1, <3>2, Inserted
    <3>4. ASSUME TakenFrom(q, s, 1 .. k0 + i - 1)
          PROVE  TakenFrom(Placed(q, s[k0 + i]), s, 1 .. k0 + i)
      <4>. DEFINE J == 1 .. k0 + i - 1
                  k == k0 + i
                  u == Placed(q, s[k])
      <4>1. J \in SUBSET (DOMAIN s) /\ k \in (DOMAIN s) \ J /\ J \cup {k} = 1 .. k0 + i
        BY <1>1, <2>2
      <4>2. TakenFrom(q, s, J) /\ u = InsertAt(q, p, s[k])
        BY <3>2, <3>4
      <4>. HIDE DEF J, u, k
      <4>3. TakenFrom(u, s, J \cup {k})
        BY <3>2, <4>1, <4>2, TakenInserted
      <4>. QED
        BY <4>1, <4>3 DEF u, k
    <3>. QED
      BY <3>3, <3>4
  <2>5. step \in Steps(m, Q)
    <3>1. \A x \in (1 .. m) \X Q : Placed(x[2], s[k0 + x[1]]) \in Q
      BY <2>4
    <3>. HIDE DEF Q, m
    <3>. QED
      BY <3>1 DEF Steps
  <2>6. \A i \in 1 .. m : \A q \in Q : step[<<i, q>>] = Placed(q, s[k0 + i])
    <3>. HIDE DEF Q, m
    <3>. QED
      OBVIOUS
  <2>. HIDE DEF step, base
  <2>7. PICK h \in Courses(m, Q) : Course(h, m, base, step)
    <3>. HIDE DEF m, Q
    <3>. QED
      BY <2>2, <2>3, <2>5, CourseExists
  <2>. DEFINE w == [k \in k0 .. n |-> h[k - k0]]
  <2>8. Insertions(w, s)
    <3>1. ASSUME NEW k \in k0 .. n
          PROVE  w[k] = IF k = k0 THEN base ELSE Placed(w[k - 1], s[k])
      <4>1. CASE k = k0
        <5>1. k - k0 = 0
          BY <2>2, <4>1
        <5>. QED
          BY <2>7, <4>1, <5>1 DEF Course
      <4>2. CASE k # k0
        <5>. DEFINE i == k - k0
        <5>1. /\ i \in 1 .. m /\ k - 1 \in k0 .. n /\ (k - 1) - k0 = i - 1 /\ k0 + i = k
              /\ i - 1 \in 0 .. m
          BY <2>2, <4>2
        <5>2. w[k] = h[i] /\ w[k - 1] = h[i - 1]
          BY <5>1
        <5>. HIDE DEF i, w
        <5>3. h[i - 1] \in Q
          BY <2>7, <5>1 DEF Courses
        <5>4. h[i] = step[<<i, h[i - 1]>>]
          BY <2>7, <5>1 DEF Course
        <5>5. step[<<i, h[i - 1]>>] = Placed(h[i - 1], s[k0 + i])
          BY <2>6, <5>1, <5>3
        <5>. QED
          BY <4>2, <5>1, <5>2, <5>4, <5>5
      <4>. QED
        BY <4>1, <4>2
    <3>2. w = [k \in k0 .. n |-> w[k]]
      OBVIOUS
    <3>. HIDE DEF w
    <3>3. w = [k \in k0 .. n |-> IF k = k0 THEN base ELSE Placed(w[k - 1], s[k])]
      BY <3>1, <3>2
    <3>. QED
      BY <3>3 DEF Insertions, k0, base
  <2>9. Insertions(g, s)
    BY <2>8 DEF Sorted
  <2>. HIDE DEF g
  <2>10. \A k \in k0 .. n : g[k] = IF k = k0 THEN base ELSE Placed(g[k - 1], s[k])
    BY <2>9 DEF Insertions, k0, base
  <2>. DEFINE P == {i \in 0 .. m : g[k0 + i] \in Q /\ TakenFrom(g[k0 + i], s, 1 .. k0 + i)}
  <2>11. 0 \in P
    <3>1. k0 + 0 = k0 /\ k0 \in k0 .. n /\ 0 \in 0 .. m
      BY <2>1, <2>2
    <3>2. g[k0] = base
      BY <2>10, <3>1
    <3>. QED
      BY <2>3, <3>1, <3>2
  <2>12. ASSUME NEW j \in 0 .. m, j < m, j \in P
         PROVE  j + 1 \in P
    <3>. DEFINE i == j + 1
    <3>1. i \in 1 .. m /\ i \in 0 .. m /\ k0 + i - 1 = k0 + j /\ k0 + i \in k0 .. n /\ k0 + i # k0
      BY <2>2, <2>12
    <3>2. g[k0 + i] = Placed(g[k0 + j], s[k0 + i])
      <4>. DEFINE k == k0 + i
      <4>1. k \in k0 .. n /\ k # k0 /\ k - 1 = k0 + j
        BY <2>2, <2>12, <3>1
      <4>. HIDE DEF i, k
      <4>2. g[k] = Placed(g[k - 1], s[k])
        BY <2>10, <4>1
      <4>. QED
        BY <4>1, <4>2 DEF k
    <3>3. g[k0 + j] \in Q /\ TakenFrom(g[k0 + j], s, 1 .. k0 + i - 1)
      BY <2>12, <3>1
    <3>. HIDE DEF i
    <3>4. g[k0 + i] \in Q /\ TakenFrom(g[k0 + i], s, 1 .. k0 + i)
      BY <2>4, <3>1, <3>2, <3>3
    <3>. QED
      BY <3>1, <3>4 DEF i
  <2>13. P = 0 .. m
    <3>1. P \in SUBSET (0 .. m)
      OBVIOUS
    <3>. HIDE DEF P, m
    <3>. QED
      BY <2>2, <2>11, <2>12, <3>1, UpTo
  <2>14. g[n] \in Q /\ TakenFrom(g[n], s, 1 .. n)
    <3>1. m \in P
      <4>. HIDE DEF m, P
      <4>. QED
        BY <2>2, <2>13
    <3>. QED
      BY <2>2, <3>1
  <2>15. Sort(s) = g[n]
    BY <1>3, SortIsSorted DEF g
  <2>. QED
    BY <1>1, <2>14, <2>15
<1>. QED
  BY <1>2, <1>3

-----------------------------------------------------------------------------
(* The rules of a mempool. *)

\* No two transactions of one sender have the same nonce.
Distinct(pool) ==
  \A i, j \in DOMAIN pool : i # j => pool[i].from # pool[j].from \/ pool[i].nonce # pool[j].nonce

\* Rearranged or filtered, what was distinct stays so.
LEMMA TakenDistinct ==
  ASSUME NEW S, NEW s \in Seq(S), NEW t \in Seq(S), NEW I \in SUBSET (DOMAIN s), TakenFrom(t, s, I), Distinct(s)
  PROVE  Distinct(t)
<1>1. \A i, j \in DOMAIN t : i # j => \E k, l \in I : k # l /\ t[i] = s[k] /\ t[j] = s[l]
  BY TakenApart
<1>. QED
  BY <1>1 DEF Distinct

\* enqueueSignedTx.
LEMMA EnqueuedPool ==
  ASSUME NEW S, NEW pool \in Seq(S), NEW tx \in S, NEW after, after = Sort(Append(pool, tx))
  PROVE  /\ after \in Seq(S)
         /\ ToSet(after) = ToSet(pool) \cup {tx}
         /\ Distinct(pool) /\ (\A i \in DOMAIN pool : pool[i].from = tx.from => pool[i].nonce # tx.nonce)
              => Distinct(after)
<1>. DEFINE long == Append(pool, tx)
            n == Len(pool)
<1>1. /\ n \in Nat /\ long \in Seq(S) /\ Len(long) = n + 1 /\ DOMAIN long = 1 .. n + 1 /\ DOMAIN pool = 1 .. n
      /\ long[n + 1] = tx /\ \A i \in 1 .. n : long[i] = pool[i]
  OBVIOUS
<1>2. {long[i] : i \in DOMAIN long} = ToSet(pool) \cup {tx}
  <2>1. \A i \in 1 .. n + 1 : i \in 1 .. n \/ i = n + 1
    BY <1>1
  <2>. QED
    BY <1>1, <2>1 DEF ToSet
<1>3. ASSUME Distinct(pool), \A i \in DOMAIN pool : pool[i].from = tx.from => pool[i].nonce # tx.nonce
      PROVE  Distinct(long)
  <2>1. \A i \in 1 .. n + 1 : i \in 1 .. n \/ i = n + 1
    BY <1>1
  <2>. HIDE DEF long
  <2>. QED
    BY <1>1, <1>3, <2>1 DEF Distinct
<1>. HIDE DEF long, n
<1>4. after \in Seq(S) /\ TakenFrom(after, long, DOMAIN long)
  BY <1>1, SortTakesAll DEF long
<1>. DEFINE I == DOMAIN long
<1>5. I \in SUBSET (DOMAIN long) /\ I = DOMAIN long
  OBVIOUS
<1>. HIDE DEF I
<1>6. ToSet(after) = {long[i] : i \in I}
  BY <1>1, <1>4, <1>5, TakenEntries
<1>7. Distinct(long) => Distinct(after)
  BY <1>1, <1>4, <1>5, TakenDistinct
<1>. QED
  BY <1>2, <1>3, <1>4, <1>5, <1>6, <1>7

\* What filters keep: of the entries at some places, of those that are not stale,
\* and of those that are not in a batch.
LEMMA SelectedPool ==
  ASSUME NEW S, NEW pool \in Seq(S), NEW I \in SUBSET (DOMAIN pool), NEW rest, rest = Selected(pool, I)
  PROVE  /\ rest \in Seq(S)
         /\ ToSet(rest) = {pool[i] : i \in I}
         /\ Distinct(pool) => Distinct(rest)
<1>1. rest \in Seq(S) /\ TakenFrom(rest, pool, I)
  BY SelectedTakes
<1>. QED
  BY <1>1, TakenEntries, TakenDistinct

\* Pruning keeps the entries whose nonce is above the ledger's.
LEMMA PrunedPool ==
  ASSUME NEW S, NEW pool \in Seq(S), NEW m, NEW rest, rest = Pruned(pool, m)
  PROVE  /\ rest \in Seq(S)
         /\ \A tx : tx \in ToSet(rest) <=> tx \in ToSet(pool) /\ tx.nonce > m[tx.from]
         /\ Distinct(pool) => Distinct(rest)
<1>. DEFINE I == {i \in DOMAIN pool : pool[i].nonce > m[pool[i].from]}
<1>1. rest = Selected(pool, I) /\ I \in SUBSET (DOMAIN pool)
  BY DEF Pruned
<1>2. \A tx : tx \in {pool[i] : i \in I} <=> tx \in ToSet(pool) /\ tx.nonce > m[tx.from]
  BY DEF ToSet
<1>. HIDE DEF I
<1>. QED
  BY <1>1, <1>2, SelectedPool

\* Removing the transactions of a block keeps the others.
LEMMA WithoutPool ==
  ASSUME NEW S, NEW pool \in Seq(S), NEW txs \in Seq(S), NEW rest, rest = Without(pool, txs)
  PROVE  /\ rest \in Seq(S)
         /\ ToSet(rest) = ToSet(pool) \ ToSet(txs)
         /\ Distinct(pool) => Distinct(rest)
<1>. DEFINE I == {i \in DOMAIN pool : ~Contains(txs, pool[i])}
<1>1. rest = Selected(pool, I) /\ I \in SUBSET (DOMAIN pool)
  BY DEF Without
<1>2. \A tx : Contains(txs, tx) <=> tx \in ToSet(txs)
  <2>1. DOMAIN txs = 1 .. Len(txs)
    OBVIOUS
  <2>. QED
    BY <2>1 DEF Contains, ToSet
<1>3. {pool[i] : i \in I} = ToSet(pool) \ ToSet(txs)
  BY <1>2 DEF ToSet
<1>. HIDE DEF I
<1>. QED
  BY <1>1, <1>3, SelectedPool

=============================================================================
