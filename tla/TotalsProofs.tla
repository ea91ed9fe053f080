----------------------------- MODULE TotalsProofs -----------------------------
(***************************************************************************)
(* What a proof about the market's money needs to know about Total: it is  *)
(* a natural number, it is additive over disjoint sets, a single heap is   *)
(* its own total, and it depends on nothing but the heaps it counts.       *)
(***************************************************************************)
EXTENDS Totals, Integers, FiniteSetTheorems, WellFoundedInduction, TLAPS

\* The coins of a finite set of accounts are finite in number.
LEMMA CoinsFinite ==
    ASSUME NEW S, IsFiniteSet(S), NEW f, \A s \in S : f[s] \in Nat
    PROVE  IsFiniteSet(Coins(f, S))
<1> DEFINE heap == [s \in S |-> {s} \X (1..f[s])]
           heaps == {{s} \X (1..f[s]) : s \in S}
<1>1. heap \in Surjection(S, heaps)
  <2>1. heap \in [S -> heaps]
    OBVIOUS
  <2>2. \A t \in heaps : \E s \in S : heap[s] = t
    OBVIOUS
  <2>3. QED
    BY <2>1, <2>2, Zenon DEF Surjection
<1>2. IsFiniteSet(heaps)
  BY <1>1, FS_Surjection, Zenon
<1>3. ASSUME NEW t \in heaps
      PROVE  IsFiniteSet(t)
  <2>1. PICK s \in S : t = {s} \X (1..f[s])
    OBVIOUS
  <2>2. IsFiniteSet(1..f[s])
    <3>1. f[s] \in Int /\ 1 \in Int
      OBVIOUS
    <3>2. QED
      BY <3>1, FS_Interval
  <2>3. IsFiniteSet({s})
    BY FS_Singleton
  <2>4. QED
    BY <2>1, <2>2, <2>3, FS_Product
<1>4. QED
  BY <1>2, <1>3, FS_UNION DEF Coins

\* A total of natural amounts over a finite set is a natural number.
LEMMA TotalType ==
    ASSUME NEW S, IsFiniteSet(S), NEW f, \A s \in S : f[s] \in Nat
    PROVE  Total(f, S) \in Nat
BY CoinsFinite, FS_CardinalityType DEF Total

\* Nothing adds up to zero.
LEMMA TotalEmpty ==
    ASSUME NEW f
    PROVE  Total(f, {}) = 0
<1>1. Coins(f, {}) = {}
  BY DEF Coins
<1>2. QED
  BY <1>1, FS_EmptySet DEF Total

\* The total of a single heap is that heap.
LEMMA TotalSingleton ==
    ASSUME NEW s, NEW f, f[s] \in Nat
    PROVE  Total(f, {s}) = f[s]
<1>1. Coins(f, {s}) = {s} \X (1..f[s])
  BY DEF Coins
<1>2. IsFiniteSet(1..f[s]) /\ Cardinality(1..f[s]) = f[s]
  <2>1. f[s] \in Int /\ 1 \in Int
    OBVIOUS
  <2>2. QED
    BY <2>1, FS_Interval
<1>3. IsFiniteSet({s}) /\ Cardinality({s}) = 1
  BY FS_Singleton
<1>4. Cardinality({s} \X (1..f[s])) = 1 * f[s]
  BY <1>2, <1>3, FS_Product
<1>5. Total(f, {s}) = 1 * f[s]
  BY <1>1, <1>4, Zenon DEF Total
<1>6. QED
  BY <1>5

\* Totals over disjoint sets add up.
LEMMA TotalUnion ==
    ASSUME NEW S, IsFiniteSet(S), NEW T, IsFiniteSet(T), S \cap T = {},
           NEW f, \A s \in S \cup T : f[s] \in Nat
    PROVE  Total(f, S \cup T) = Total(f, S) + Total(f, T)
<1>1. Coins(f, S \cup T) = Coins(f, S) \cup Coins(f, T)
  BY DEF Coins
<1>2. Coins(f, S) \cap Coins(f, T) = {}
  BY DEF Coins
<1>3. IsFiniteSet(Coins(f, S)) /\ IsFiniteSet(Coins(f, T))
  BY CoinsFinite
<1>4. Cardinality(Coins(f, S) \cap Coins(f, T)) = 0
  BY <1>2, FS_EmptySet
<1>5. /\ Cardinality(Coins(f, S)) \in Nat
      /\ Cardinality(Coins(f, T)) \in Nat
  BY <1>3, FS_CardinalityType
<1>6. Cardinality(Coins(f, S) \cup Coins(f, T))
        = Cardinality(Coins(f, S)) + Cardinality(Coins(f, T))
            - Cardinality(Coins(f, S) \cap Coins(f, T))
  BY <1>3, FS_Union
<1>7. Total(f, S \cup T) = Total(f, S) + Total(f, T) - 0
  BY <1>1, <1>4, <1>6, Zenon DEF Total
<1>8. Total(f, S) \in Nat /\ Total(f, T) \in Nat
  BY <1>5, Zenon DEF Total
<1>9. QED
  BY <1>7, <1>8

\* A total looks at nothing but the amounts of the set it is taken over.
LEMMA TotalAgree ==
    ASSUME NEW S, NEW f, NEW g, \A s \in S : f[s] = g[s]
    PROVE  Total(f, S) = Total(g, S)
<1>1. Coins(f, S) = Coins(g, S)
  BY DEF Coins
<1>2. QED
  BY <1>1 DEF Total

\* Taking one member out of a set takes its amount out of the total.
LEMMA TotalSplit ==
    ASSUME NEW S, IsFiniteSet(S), NEW x \in S, NEW f, \A s \in S : f[s] \in Nat
    PROVE  Total(f, S) = Total(f, S \ {x}) + f[x]
<1>1. IsFiniteSet(S \ {x}) /\ IsFiniteSet({x})
  BY FS_RemoveElement, FS_Singleton
<1>2. S = (S \ {x}) \cup {x}
  OBVIOUS
<1>3. Total(f, (S \ {x}) \cup {x}) = Total(f, S \ {x}) + Total(f, {x})
  <2>1. (S \ {x}) \cap {x} = {} /\ \A s \in (S \ {x}) \cup {x} : f[s] \in Nat
    OBVIOUS
  <2>2. QED
    BY <1>1, <2>1, TotalUnion
<1>4. Total(f, {x}) = f[x]
  BY TotalSingleton
<1>5. QED
  BY <1>2, <1>3, <1>4

\* Two functions that differ at one member have totals that differ by as much.
LEMMA TotalChange ==
    ASSUME NEW S, IsFiniteSet(S), NEW x \in S,
           NEW f, \A s \in S : f[s] \in Nat,
           NEW g, \A s \in S : g[s] \in Nat,
           \A s \in S \ {x} : g[s] = f[s]
    PROVE  Total(g, S) + f[x] = Total(f, S) + g[x]
<1>1. Total(f, S) = Total(f, S \ {x}) + f[x]
  BY TotalSplit
<1>2. Total(g, S) = Total(g, S \ {x}) + g[x]
  BY TotalSplit
<1>3. Total(f, S \ {x}) = Total(g, S \ {x})
  BY TotalAgree
<1>4. Total(f, S \ {x}) \in Nat
  <2>1. IsFiniteSet(S \ {x})
    BY FS_RemoveElement
  <2>2. QED
    BY <2>1, TotalType
<1>5. QED
  BY <1>1, <1>2, <1>3, <1>4

\* Pointwise smaller amounts have a smaller total.
LEMMA TotalMonotone ==
    ASSUME NEW S, IsFiniteSet(S),
           NEW f, \A s \in S : f[s] \in Nat,
           NEW g, \A s \in S : g[s] \in Nat /\ f[s] <= g[s]
    PROVE  Total(f, S) <= Total(g, S)
<1>1. Coins(f, S) \subseteq Coins(g, S)
  BY DEF Coins
<1>2. IsFiniteSet(Coins(g, S))
  BY CoinsFinite
<1>3. QED
  BY <1>1, <1>2, FS_Subset DEF Total

(***************************************************************************)
(* Sums that no single bijection gives.  The library's induction over      *)
(* finite sets has a predicate for a parameter; here the predicate is the  *)
(* set of the subsets that satisfy it, and a smallest subset outside that  *)
(* set leads to the contradiction.                                         *)
(***************************************************************************)
\* What holds of the empty set and survives adding an element holds of a finite set.
LEMMA SubsetInduction ==
    ASSUME NEW S, IsFiniteSet(S), NEW Good, {} \in Good,
           \A U \in SUBSET S : \A x \in S \ U : U \in Good => U \cup {x} \in Good
    PROVE  S \in Good
<1> DEFINE Bad == {U \in SUBSET S : U \notin Good}
           R == StrictSubsetOrdering(S)
<1> SUFFICES ASSUME S \notin Good PROVE FALSE
  OBVIOUS
<1>1. IsWellFoundedOn(R, FiniteSubsetsOf(S)) /\ FiniteSubsetsOf(S) = SUBSET S
  BY FS_StrictSubsetOrderingWellFounded, FS_FiniteSubsetsOfFinite, Zenon
<1>2. Bad \subseteq SUBSET S /\ Bad # {}
  OBVIOUS
<1>3. \E U \in Bad : \A V \in Bad : ~ (<<V, U>> \in R)
  <2>1. IsWellFoundedOn(R, SUBSET S)
    BY <1>1, Zenon
  <2> HIDE DEF R, Bad
  <2>2. QED
    BY <1>2, <2>1, WFMin, Zenon
<1>4. PICK U \in Bad : \A V \in Bad : ~ (<<V, U>> \in R)
  BY <1>3
<1>5. PICK x \in U : TRUE
  OBVIOUS
<1> DEFINE V == U \ {x}
<1>6. V \in SUBSET S /\ V \subseteq U /\ V # U /\ x \in S \ V /\ V \cup {x} = U
  OBVIOUS
<1>7. <<V, U>> \in R
  BY <1>6 DEF StrictSubsetOrdering
<1>8. V \in Good
  BY <1>4, <1>6, <1>7
<1>9. QED
  BY <1>6, <1>8

\* Adding a member adds its amount.
LEMMA TotalAdd ==
    ASSUME NEW U, IsFiniteSet(U), NEW x, x \notin U,
           NEW f, \A s \in U \cup {x} : f[s] \in Nat
    PROVE  /\ Total(f, U \cup {x}) = Total(f, U) + f[x]
           /\ Total(f, U) \in Nat /\ f[x] \in Nat
<1>1. IsFiniteSet(U \cup {x}) /\ (U \cup {x}) \ {x} = U /\ x \in U \cup {x}
  BY FS_AddElement
<1>2. Total(f, U) \in Nat /\ f[x] \in Nat
  BY TotalType
<1>3. Total(f, U \cup {x}) = Total(f, (U \cup {x}) \ {x}) + f[x]
  BY <1>1, TotalSplit
<1>4. QED
  BY <1>1, <1>2, <1>3

\* The same for every set of members.
LEMMA TotalAdds ==
    ASSUME NEW A, IsFiniteSet(A), NEW g, \A a \in A : g[a] \in Nat
    PROVE  \A U \in SUBSET A : \A x \in A \ U : Total(g, U \cup {x}) = Total(g, U) + g[x]
<1> SUFFICES ASSUME NEW U \in SUBSET A, NEW x \in A \ U
             PROVE  Total(g, U \cup {x}) = Total(g, U) + g[x]
  OBVIOUS
<1>1. IsFiniteSet(U) /\ x \notin U /\ \A s \in U \cup {x} : g[s] \in Nat
  BY FS_Subset
<1>2. QED
  BY <1>1, TotalAdd

\* No member has more than the total.
LEMMA TotalMember ==
    ASSUME NEW S, IsFiniteSet(S), NEW x \in S, NEW f, \A s \in S : f[s] \in Nat
    PROVE  f[x] <= Total(f, S)
<1>1. Total(f, S) = Total(f, S \ {x}) + f[x]
  BY TotalSplit
<1>2. Total(f, S \ {x}) \in Nat
  BY FS_RemoveElement, TotalType
<1>3. QED
  BY <1>1, <1>2

\* Members with nothing do not count.
LEMMA TotalRestrict ==
    ASSUME NEW T, NEW S \in SUBSET T, NEW f, NEW g,
           \A t \in T : g[t] = IF t \in S THEN f[t] ELSE 0
    PROVE  Total(g, T) = Total(f, S)
<1>1. \A i : ~ (i \in 1..0)
  OBVIOUS
<1>2. Coins(g, T) = Coins(f, S)
  BY <1>1 DEF Coins
<1>3. QED
  BY <1>2 DEF Total

\* The total of sums is the sum of the totals.
LEMMA TotalSum ==
    ASSUME NEW S, IsFiniteSet(S),
           NEW f, \A s \in S : f[s] \in Nat, NEW g, \A s \in S : g[s] \in Nat,
           NEW h, \A s \in S : h[s] = f[s] + g[s]
    PROVE  Total(h, S) = Total(f, S) + Total(g, S)
<1> DEFINE Good == {U \in SUBSET S : Total(h, U) = Total(f, U) + Total(g, U)}
<1>1. {} \in Good
  BY TotalEmpty
<1>2. ASSUME NEW U \in SUBSET S, NEW x \in S \ U, U \in Good
      PROVE  U \cup {x} \in Good
  <2>1. IsFiniteSet(U) /\ U \cup {x} \in SUBSET S
    BY FS_Subset
  <2>2. /\ Total(f, U \cup {x}) = Total(f, U) + f[x]
        /\ Total(f, U) \in Nat /\ f[x] \in Nat
    BY <2>1, TotalAdd
  <2>3. /\ Total(g, U \cup {x}) = Total(g, U) + g[x]
        /\ Total(g, U) \in Nat /\ g[x] \in Nat
    BY <2>1, TotalAdd
  <2>4. Total(h, U \cup {x}) = Total(h, U) + h[x]
    <3>1. \A s \in U \cup {x} : h[s] \in Nat
      OBVIOUS
    <3>2. QED
      BY <2>1, <3>1, TotalAdd
  <2>5. Total(h, U) = Total(f, U) + Total(g, U) /\ h[x] = f[x] + g[x]
    BY <1>2
  <2>6. Total(h, U \cup {x}) = Total(f, U \cup {x}) + Total(g, U \cup {x})
    BY <2>2, <2>3, <2>4, <2>5
  <2>7. QED
    BY <2>1, <2>6
<1>3. S \in Good
  <2> HIDE DEF Good
  <2>1. QED
    BY <1>1, <1>2, SubsetInduction
<1>4. QED
  BY <1>3

\* What leaves each member adds up to what leaves the total.
LEMMA TotalDrop ==
    ASSUME NEW S, IsFiniteSet(S),
           NEW f, \A s \in S : f[s] \in Nat, NEW g, \A s \in S : g[s] \in Nat,
           NEW h, \A s \in S : h[s] \in Nat /\ f[s] + g[s] <= h[s]
    PROVE  Total(f, S) + Total(g, S) <= Total(h, S)
<1> DEFINE sum == [s \in S |-> f[s] + g[s]]
<1>1. \A s \in S : sum[s] = f[s] + g[s] /\ sum[s] \in Nat /\ sum[s] <= h[s]
  OBVIOUS
<1> HIDE DEF sum
<1>2. Total(sum, S) = Total(f, S) + Total(g, S)
  BY <1>1, TotalSum
<1>3. Total(sum, S) <= Total(h, S)
  BY <1>1, TotalMonotone
<1>4. QED
  BY <1>2, <1>3

\* T is row a of a table f with the columns B, and g is that row by column
IsRow(f, a, B, T, g) ==
    /\ T = {a} \X B
    /\ \A b \in B : f[<<a, b>>] \in Nat /\ g[b] = f[<<a, b>>]

\* One row of a table is the total of a function of the column.
LEMMA TotalRow ==
    ASSUME NEW B, IsFiniteSet(B), NEW a, NEW f, NEW g, NEW T, IsRow(f, a, B, T, g)
    PROVE  Total(f, T) = Total(g, B)
<1>0. /\ \A b \in B : f[<<a, b>>] \in Nat
      /\ \A b \in B : g[b] = f[<<a, b>>]
      /\ T = {a} \X B
  BY DEF IsRow
<1> DEFINE Good == {U \in SUBSET B : Total(f, {a} \X U) = Total(g, U)}
<1>1. {} \in Good
  <2>1. {a} \X {} = {}
    OBVIOUS
  <2>2. QED
    BY <2>1, TotalEmpty
<1>2. ASSUME NEW U \in SUBSET B, NEW x \in B \ U, U \in Good
      PROVE  U \cup {x} \in Good
  <2>1. IsFiniteSet(U) /\ IsFiniteSet({a} \X U) /\ U \cup {x} \in SUBSET B
    BY FS_Subset, FS_Singleton, FS_Product
  <2>2. /\ {a} \X (U \cup {x}) = ({a} \X U) \cup {<<a, x>>}
        /\ <<a, x>> \notin {a} \X U
    OBVIOUS
  <2>3. Total(f, ({a} \X U) \cup {<<a, x>>}) = Total(f, {a} \X U) + f[<<a, x>>]
    <3>1. \A s \in ({a} \X U) \cup {<<a, x>>} : f[s] \in Nat
      BY <1>0
    <3>2. QED
      BY <2>1, <2>2, <3>1, TotalAdd
  <2>4. Total(g, U \cup {x}) = Total(g, U) + g[x]
    <3>1. x \notin U /\ \A s \in U \cup {x} : g[s] \in Nat
      BY <1>0
    <3>2. QED
      BY <2>1, <3>1, TotalAdd
  <2>5. Total(f, {a} \X (U \cup {x})) = Total(g, U \cup {x})
    BY <1>0, <1>2, <2>2, <2>3, <2>4
  <2>6. QED
    BY <2>1, <2>5
<1>3. B \in Good
  <2> HIDE DEF Good
  <2>1. QED
    BY <1>1, <1>2, SubsetInduction
<1>4. QED
  BY <1>0, <1>3

\* The total of a table is the total of its rows' totals.
LEMMA TotalTable ==
    ASSUME NEW A, IsFiniteSet(A), NEW B, IsFiniteSet(B),
           NEW f, \A x \in A \X B : f[x] \in Nat
    PROVE  Total(f, A \X B) = Total([a \in A |-> Total(f, {a} \X B)], A)
<1> DEFINE g == [a \in A |-> Total(f, {a} \X B)]
           Good == {U \in SUBSET A : Total(f, U \X B) = Total(g, U)}
<1>1. {} \in Good
  <2>1. {} \X B = {}
    OBVIOUS
  <2>2. QED
    BY <2>1, TotalEmpty
<1>2. \A a \in A : g[a] = Total(f, {a} \X B) /\ g[a] \in Nat
  <2>1. ASSUME NEW a \in A PROVE Total(f, {a} \X B) \in Nat
    <3>1. IsFiniteSet({a} \X B) /\ \A s \in {a} \X B : f[s] \in Nat
      BY FS_Singleton, FS_Product
    <3>2. QED
      BY <3>1, TotalType
  <2>2. QED
    BY <2>1
<1> HIDE DEF g
<1>3. \A U \in SUBSET A : \A x \in A \ U : Total(g, U \cup {x}) = Total(g, U) + g[x]
  <2>1. \A a \in A : g[a] \in Nat
    BY <1>2
  <2> HIDE DEF Good
  <2>2. QED
    BY <2>1, TotalAdds
<1>4. ASSUME NEW U \in SUBSET A, NEW x \in A \ U, U \in Good
      PROVE  U \cup {x} \in Good
  <2>1. /\ IsFiniteSet(U) /\ IsFiniteSet(U \X B) /\ IsFiniteSet({x} \X B)
        /\ U \cup {x} \in SUBSET A
    BY FS_Subset, FS_Singleton, FS_Product
  <2>2. /\ (U \cup {x}) \X B = (U \X B) \cup ({x} \X B)
        /\ (U \X B) \cap ({x} \X B) = {}
    OBVIOUS
  <2>3. Total(f, (U \X B) \cup ({x} \X B)) = Total(f, U \X B) + Total(f, {x} \X B)
    <3>1. \A s \in (U \X B) \cup ({x} \X B) : f[s] \in Nat
      OBVIOUS
    <3>2. QED
      BY <2>1, <2>2, <3>1, TotalUnion
  <2>4. Total(g, U \cup {x}) = Total(g, U) + g[x]
    BY <1>3, Zenon
  <2>5. Total(f, {x} \X B) = g[x] /\ Total(f, U \X B) = Total(g, U)
    BY <1>2, <1>4
  <2>6. Total(f, (U \cup {x}) \X B) = Total(g, U \cup {x})
    BY <2>2, <2>3, <2>4, <2>5, Zenon
  <2>7. QED
    BY <2>1, <2>6
<1>5. A \in Good
  <2> HIDE DEF Good
  <2>1. QED
    BY <1>1, <1>4, SubsetInduction
<1>6. QED
  BY <1>5 DEF g

\* the table f of A by B has the rows row[a], and their totals are g[a]
HasRows(f, A, B, row, g) ==
    /\ \A a \in A : \A b \in B : row[a][b] = f[<<a, b>>]
    /\ \A a \in A : g[a] = Total(row[a], B)

\* The same, for rows that are given as functions of the column.
LEMMA TotalRows ==
    ASSUME NEW A, IsFiniteSet(A), NEW B, IsFiniteSet(B),
           NEW f, \A x \in A \X B : f[x] \in Nat,
           NEW row, NEW g, HasRows(f, A, B, row, g)
    PROVE  \A T : T = A \X B => Total(f, T) = Total(g, A)
<1> DEFINE h == [a \in A |-> Total(f, {a} \X B)]
<1>1. Total(f, A \X B) = Total(h, A)
  BY TotalTable
<1>2. \A a \in A : h[a] = g[a]
  <2> SUFFICES ASSUME NEW a \in A
               PROVE  Total(f, {a} \X B) = Total(row[a], B)
    BY DEF HasRows
  <2>1. IsRow(f, a, B, {a} \X B, row[a])
    BY DEF HasRows, IsRow
  <2>2. QED
    BY <2>1, TotalRow
<1> HIDE DEF h
<1>3. Total(h, A) = Total(g, A)
  BY <1>2, TotalAgree
<1>4. QED
  BY <1>1, <1>3

(***************************************************************************)
(* Shares.  A pool B is divided in proportion: each member with amount n   *)
(* gets n * R \div B.                                                      *)
(***************************************************************************)
\* A floor division loses less than its divisor.
LEMMA FloorBounds ==
    ASSUME NEW x \in Nat, NEW B \in Nat \ {0}
    PROVE  /\ x \div B \in Nat
           /\ B * (x \div B) <= x
           /\ x < B * (x \div B) + B
<1>1. x = B * (x \div B) + (x % B) /\ x % B \in 0..(B - 1) /\ x \div B \in Nat
  OBVIOUS
<1>2. B * (x \div B) \in Nat
  BY <1>1
<1>3. QED
  BY <1>1, <1>2

\* Together the shares take at most R in proportion, and less than one unit per member
\* is lost to the flooring.
LEMMA TotalShares ==
    ASSUME NEW S, IsFiniteSet(S), NEW R \in Nat, NEW B \in Nat \ {0},
           NEW f, \A s \in S : f[s] \in Nat,
           NEW g, \A s \in S : g[s] = (f[s] * R) \div B
    PROVE  /\ B * Total(g, S) <= Total(f, S) * R
           /\ Total(f, S) * R <= B * Total(g, S) + (B - 1) * Cardinality(S)
<1> DEFINE Good == {U \in SUBSET S :
                      /\ B * Total(g, U) <= Total(f, U) * R
                      /\ Total(f, U) * R <= B * Total(g, U) + (B - 1) * Cardinality(U)}
<1>1. {} \in Good
  <2>1. Total(f, {}) = 0 /\ Total(g, {}) = 0 /\ Cardinality({}) = 0
    BY TotalEmpty, FS_EmptySet
  <2>2. QED
    BY <2>1
<1>2. ASSUME NEW U \in SUBSET S, NEW x \in S \ U, U \in Good
      PROVE  U \cup {x} \in Good
  <2>1. /\ IsFiniteSet(U) /\ U \cup {x} \in SUBSET S
        /\ Cardinality(U) \in Nat /\ Cardinality(U \cup {x}) = Cardinality(U) + 1
    BY FS_Subset, FS_AddElement, FS_CardinalityType
  <2>2. \A s \in S : f[s] * R \in Nat
    OBVIOUS
  <2>3. \A s \in S : g[s] \in Nat
    BY <2>2, FloorBounds
  <2>4. /\ Total(f, U \cup {x}) = Total(f, U) + f[x]
        /\ Total(f, U) \in Nat /\ f[x] \in Nat
    BY <2>1, TotalAdd
  <2>5. /\ Total(g, U \cup {x}) = Total(g, U) + g[x]
        /\ Total(g, U) \in Nat /\ g[x] \in Nat
    BY <2>1, <2>3, TotalAdd
  <2>6. B * g[x] <= f[x] * R /\ f[x] * R <= B * g[x] + (B - 1)
    <3>1. f[x] * R \in Nat
      BY <2>2
    <3>2. /\ g[x] = (f[x] * R) \div B
          /\ B * ((f[x] * R) \div B) <= f[x] * R
          /\ f[x] * R < B * ((f[x] * R) \div B) + B
      BY <3>1, FloorBounds
    <3>3. B * g[x] \in Nat
      BY <2>5
    <3>4. QED
      BY <3>1, <3>2, <3>3
  <2>7. /\ B * Total(g, U) <= Total(f, U) * R
        /\ Total(f, U) * R <= B * Total(g, U) + (B - 1) * Cardinality(U)
    BY <1>2
  <2>8. /\ Total(f, U \cup {x}) * R = Total(f, U) * R + f[x] * R
        /\ B * Total(g, U \cup {x}) = B * Total(g, U) + B * g[x]
        /\ (B - 1) * Cardinality(U \cup {x}) = (B - 1) * Cardinality(U) + (B - 1)
    <3>1. \A m, n \in Nat : (m + n) * R = m * R + n * R
      OBVIOUS
    <3>2. \A m, n \in Nat : B * (m + n) = B * m + B * n
      OBVIOUS
    <3>3. \A m \in Nat : (B - 1) * (m + 1) = (B - 1) * m + (B - 1)
      OBVIOUS
    <3>4. Total(f, U \cup {x}) * R = Total(f, U) * R + f[x] * R
      BY <2>4, <3>1, Zenon
    <3>5. B * Total(g, U \cup {x}) = B * Total(g, U) + B * g[x]
      BY <2>5, <3>2, Zenon
    <3>6. (B - 1) * Cardinality(U \cup {x}) = (B - 1) * Cardinality(U) + (B - 1)
      BY <2>1, <3>3, Zenon
    <3>7. QED
      BY <3>4, <3>5, <3>6, Zenon
  <2>9. /\ Total(f, U) * R \in Nat /\ f[x] * R \in Nat
        /\ B * Total(g, U) \in Nat /\ B * g[x] \in Nat
        /\ (B - 1) * Cardinality(U) \in Nat
    BY <2>1, <2>4, <2>5
  <2>10. /\ B * Total(g, U \cup {x}) <= Total(f, U \cup {x}) * R
         /\ Total(f, U \cup {x}) * R
              <= B * Total(g, U \cup {x}) + (B - 1) * Cardinality(U \cup {x})
    BY <2>6, <2>7, <2>8, <2>9
  <2>11. QED
    BY <2>1, <2>10
<1>3. S \in Good
  <2> HIDE DEF Good
  <2>1. QED
    BY <1>1, <1>2, SubsetInduction
<1>4. QED
  BY <1>3

\* If the members make up the whole pool, the shares never exceed R and come within one
\* unit per member of it.
LEMMA SharesOfPool ==
    ASSUME NEW S, IsFiniteSet(S), NEW R \in Nat, NEW B \in Nat \ {0},
           NEW f, \A s \in S : f[s] \in Nat, Total(f, S) = B,
           NEW g, \A s \in S : g[s] = (f[s] * R) \div B
    PROVE  /\ Total(g, S) \in Nat
           /\ Total(g, S) <= R
           /\ R < Total(g, S) + Cardinality(S)
<1>1. /\ B * Total(g, S) <= B * R
      /\ B * R <= B * Total(g, S) + (B - 1) * Cardinality(S)
  BY TotalShares
<1>2. Total(g, S) \in Nat
  <2>1. \A s \in S : f[s] * R \in Nat
    OBVIOUS
  <2>2. \A s \in S : g[s] \in Nat
    BY <2>1, FloorBounds
  <2>3. QED
    BY <2>2, TotalType
<1>3. Cardinality(S) \in Nat \ {0}
  <2>1. S # {}
    BY TotalEmpty
  <2>2. QED
    BY <2>1, FS_CardinalityType, FS_EmptySet
<1>4. \A t, n \in Nat : B * t <= B * R => t <= R
  OBVIOUS
<1>5. \A t \in Nat, n \in Nat \ {0} : B * R <= B * t + (B - 1) * n => R < t + n
  <2>1. SUFFICES ASSUME NEW t \in Nat, NEW n \in Nat \ {0}, R >= t + n
                 PROVE  B * R > B * t + (B - 1) * n
    OBVIOUS
  <2>2. B * R >= B * (t + n) /\ B * (t + n) = B * t + (B - 1) * n + n
    BY <2>1
  <2>3. QED
    BY <2>2
<1>6. QED
  BY <1>1, <1>2, <1>3, <1>4, <1>5

\* Moving every amount to the next instant leaves the total of an interval as it was.
LEMMA TotalShift ==
    ASSUME NEW a \in Int, NEW b \in Int, NEW f, NEW g,
           \A d \in a..b : f[d] \in Nat /\ g[d + 1] = f[d]
    PROVE  Total(g, (a + 1)..(b + 1)) = Total(f, a..b)
<1> DEFINE S == a..b
           Shifted(U) == {d + 1 : d \in U}
           Good == {U \in SUBSET S : Total(g, Shifted(U)) = Total(f, U)}
<1>1. IsFiniteSet(S) /\ IsFiniteSet((a + 1)..(b + 1))
  <2>1. a + 1 \in Int /\ b + 1 \in Int
    OBVIOUS
  <2>2. QED
    BY <2>1, FS_Interval
<1>2. {} \in Good
  <2>1. Shifted({}) = {}
    OBVIOUS
  <2>2. QED
    BY <2>1, TotalEmpty
<1>3. ASSUME NEW U \in SUBSET S, NEW x \in S \ U, U \in Good
      PROVE  U \cup {x} \in Good
  <2>1. /\ Shifted(U \cup {x}) = Shifted(U) \cup {x + 1}
        /\ x + 1 \notin Shifted(U)
        /\ Shifted(U) \subseteq (a + 1)..(b + 1)
    OBVIOUS
  <2>2. IsFiniteSet(U) /\ IsFiniteSet(Shifted(U)) /\ U \cup {x} \in SUBSET S
    BY <1>1, <2>1, FS_Subset
  <2>3. /\ \A s \in U \cup {x} : f[s] \in Nat
        /\ \A s \in Shifted(U) \cup {x + 1} : g[s] \in Nat
        /\ g[x + 1] = f[x]
    OBVIOUS
  <2>4. Total(f, U \cup {x}) = Total(f, U) + f[x]
    BY <2>2, <2>3, TotalAdd
  <2> DEFINE V == Shifted(U)
             y == x + 1
  <2>5. IsFiniteSet(V) /\ y \notin V /\ \A s \in V \cup {y} : g[s] \in Nat
    BY <2>1, <2>2, <2>3
  <2>6. Total(f, U) = Total(g, V) /\ Shifted(U \cup {x}) = V \cup {y}
    BY <1>3, <2>1
  <2> HIDE DEF V, y
  <2>7. Total(g, V \cup {y}) = Total(g, V) + g[y]
    BY <2>5, TotalAdd
  <2>8. QED
    BY <2>2, <2>3, <2>4, <2>6, <2>7 DEF y
<1>4. S \in Good
  <2> HIDE DEF Good, S
  <2>1. QED
    BY <1>1, <1>2, <1>3, SubsetInduction
<1>5. Shifted(S) = (a + 1)..(b + 1)
  <2>1. \A d \in (a + 1)..(b + 1) : d - 1 \in S /\ d = (d - 1) + 1
    OBVIOUS
  <2>2. QED
    BY <2>1
<1>6. QED
  BY <1>4, <1>5

\* A part of a set has no more than the whole.
LEMMA TotalSubset ==
    ASSUME NEW S, IsFiniteSet(S), NEW T \in SUBSET S, NEW f, \A s \in S : f[s] \in Nat
    PROVE  Total(f, T) <= Total(f, S)
<1>1. Coins(f, T) \subseteq Coins(f, S)
  BY DEF Coins
<1>2. IsFiniteSet(Coins(f, S))
  BY CoinsFinite
<1>3. QED
  BY <1>1, <1>2, FS_Subset DEF Total

\* Nothing anywhere adds up to nothing.
LEMMA TotalNothing ==
    ASSUME NEW S, NEW f, \A s \in S : f[s] = 0
    PROVE  Total(f, S) = 0
<1>1. Total(f, S) = Total(f, {})
  <2>1. \A s \in S : f[s] = IF s \in {} THEN f[s] ELSE 0
    OBVIOUS
  <2>2. QED
    BY <2>1, TotalRestrict
<1>2. QED
  BY <1>1, TotalEmpty

\* h names every heap of f in D once, as a heap of g in T
Renames(h, f, D, g, T) ==
    /\ \A i \in D : h[i] \in T /\ g[h[i]] = f[i]
    /\ \A t \in T : \E i \in D : h[i] = t
    /\ \A i, j \in D : h[i] = h[j] => i = j

\* Naming the heaps by other names, no two of them by the same, changes no total.
LEMMA TotalRenamed ==
    ASSUME NEW D, IsFiniteSet(D), NEW f, \A i \in D : f[i] \in Nat,
           NEW g, NEW T, NEW h, Renames(h, f, D, g, T)
    PROVE  Total(f, D) = Total(g, T)
<1> DEFINE here == Coins(f, D)
           there == Coins(g, T)
           move == [c \in here |-> <<h[c[1]], c[2]>>]
<1>1. \A c \in here : c[1] \in D /\ c[2] \in 1..f[c[1]] /\ c = <<c[1], c[2]>>
  BY DEF Coins
<1>2. \A i \in D : \A k \in 1..f[i] : <<i, k>> \in here
  BY DEF Coins
<1>3. \A i \in D : \A k \in 1..f[i] : <<h[i], k>> \in there
  BY DEF Coins, Renames
<1>4. \A c \in there : \E i \in D : \E k \in 1..f[i] : c = <<h[i], k>>
  BY DEF Coins, Renames
<1>5. IsFiniteSet(here)
  BY CoinsFinite
<1> HIDE DEF here, there
<1>6. move \in [here -> there]
  BY <1>1, <1>3 DEF Renames
<1>7. \A c, d \in here : move[c] = move[d] => c = d
  <2> SUFFICES ASSUME NEW c \in here, NEW d \in here, move[c] = move[d]
               PROVE  c = d
    OBVIOUS
  <2>1. h[c[1]] = h[d[1]] /\ c[2] = d[2]
    OBVIOUS
  <2>2. c[1] = d[1]
    BY <1>1, <2>1 DEF Renames
  <2>3. c = <<c[1], c[2]>> /\ d = <<d[1], d[2]>>
    BY <1>1
  <2> HIDE DEF move
  <2>4. <<c[1], c[2]>> = <<d[1], d[2]>>
    BY <2>1, <2>2
  <2>5. QED
    BY <2>3, <2>4, Zenon
<1>8. \A t \in there : \E c \in here : move[c] = t
  <2> SUFFICES ASSUME NEW t \in there
               PROVE  \E c \in here : move[c] = t
    OBVIOUS
  <2>1. PICK i \in D : \E k \in 1..f[i] : t = <<h[i], k>>
    BY <1>4
  <2>2. PICK k \in 1..f[i] : t = <<h[i], k>>
    BY <2>1
  <2>3. <<i, k>> \in here
    BY <1>2
  <2>4. move[<<i, k>>] = t
    BY <2>2, <2>3
  <2>5. QED
    BY <2>3, <2>4
<1> HIDE DEF move
<1>9. move \in Bijection(here, there)
  BY <1>6, <1>7, <1>8, Zenon
  DEF Bijection, Injection, IsInjective, Surjection
<1>10. Cardinality(there) = Cardinality(here)
  BY <1>5, <1>9, FS_Bijection, Zenon DEF ExistsBijection
<1>11. QED
  BY <1>10, Zenon DEF Total, here, there
=============================================================================
