---------------------------- MODULE SqlExecProof ----------------------------
(***************************************************************************)
(* For the queries the two sides agree about, what a circuit proves is     *)
(* what SQLite does, for tables, clauses and values of any size: proved    *)
(* writes are executed, SELECTs have their proofs, and no write is refused *)
(* for what an earlier one left.                                           *)
(*                                                                         *)
(* The functions of the parser recur on the tree of a clause and the sums  *)
(* on a set.  A recursive function is shown to have its values by the      *)
(* least argument for which it would not (RecursionExists), and what it    *)
(* computes by the least one for which it is wrong (LeastRank).            *)
(***************************************************************************)
EXTENDS SqlExec, FiniteSetTheorems, WellFoundedInduction, TLAPS

\* The hypotheses: the queries the two sides agree about.  Each is needed:
\* without it TLC finds a query they disagree about (README, section 4).

IsJoin(c) == c.operator \in {"OR", "AND"}

\* A clause only says that a column is or is not a value: the circuits have no
\* order (IsFiltered in circuits/utils.circom), and what is not a literal has
\* the code of undefined (encode.ts).
ClausesCompareValues ==
    \A c \in Clause : ~IsJoin(c) => c.operator \notin {"<", ">", "<=", ">="} /\ c.right \in Literal

\* No AND has two conditions about one column: the matrix of a clause has one
\* place for each column (parser.ts, serialize).
OncePerColumn(ors) ==
    \A k \in DOMAIN ors : \A i, n \in DOMAIN ors[k] : ors[k][i].left = ors[k][n].left => i = n
ColumnsAreComparedOnce ==
    \A q \in Writes \cup Selects :
        q.type # "insert" /\ Parses(q) => OncePerColumn(parseWhere(q.where).ors)

\* What a column stores has the code of what it was given.
AffinityKeepsCodes ==
    \A j \in Named, v \in Value : encodeSqlValue[affinity[j][v]] = encodeSqlValue[v]

\* An INSERT adds one row and gives every column its value, in their order:
\* parseInsert reads neither the other rows nor the list of columns.
InsertsAreComplete ==
    \A q \in Writes :
        q.type = "insert" =>
            /\ Len(q.values) = 1
            /\ DOMAIN q.columns = Named /\ \A j \in Named : q.columns[j] = j

\* An UPDATE sets literals, and its clause is there and is not true of the
\* rows of zeros that pad the matrix (circuits/update.circom).
UpdatesAreSelective ==
    \A q \in Writes :
        q.type = "update" /\ Parses(q) =>
            /\ \A j \in DOMAIN q.set : q.set[j] \in Literal
            /\ q.where # NoWhere
            /\ ~filterRow([j \in Cols |-> 0], whereConditions(q))

\* Every id has a row of the matrix (engine.ts, formatForCircuit).
IdsHavePlaces == MaxId <= maxRows

ClausesAgree == ClausesCompareValues /\ ColumnsAreComparedOnce /\ AffinityKeepsCodes
QueriesAgree == ClausesAgree /\ InsertsAreComplete /\ UpdatesAreSelective /\ IdsHavePlaces

-----------------------------------------------------------------------------
\* Least elements, and functions that recur on a rank.

\* A set of numbers has a least one.
LEMMA LeastNumber ==
    ASSUME NEW T \in SUBSET Nat, T # {}
    PROVE  \E n \in T : \A m \in T : n <= m
  <1>1. \E n \in T : \A m \in T : ~(<<m, n>> \in OpToRel(<, Nat))
    BY NatLessThanWellFounded, WFMin
  <1>2. \A m, n \in T : <<m, n>> \in OpToRel(<, Nat) <=> m < n
    BY DEF OpToRel
  <1>3. PICK n \in T : \A m \in T : ~(m < n)
    BY <1>1, <1>2
  <1>4. \A m \in T : n <= m
    <2> TAKE m \in T
    <2>1. m \in Nat /\ n \in Nat /\ ~(m < n)
      BY <1>3
    <2>2. QED
      BY <2>1
  <1>5. QED
    BY <1>4

\* A set has a member no member of smaller rank precedes: what induction on
\* the rank is here.
LEMMA LeastRank ==
    ASSUME NEW S, NEW rank \in [S -> Nat], NEW T \in SUBSET S, T # {}
    PROVE  \E x \in T : \A y \in S : rank[y] < rank[x] => y \notin T
  <1> DEFINE R == {rank[x] : x \in T}
  <1>1. R \in SUBSET Nat /\ R # {}
    OBVIOUS
  <1>2. PICK n \in R : \A m \in R : n <= m
    <2> HIDE DEF R
    <2> QED BY <1>1, LeastNumber
  <1>3. PICK x \in T : rank[x] = n
    BY <1>2
  <1>4. ASSUME NEW y \in S, rank[y] < rank[x] PROVE y \notin T
    BY <1>2, <1>3, <1>4
  <1>5. QED
    BY <1>4

\* step[x][f] is the value at x of a recursive function whose values below x
\* are those of f.
Determined(S, V, rank, step) ==
    /\ step \in [S -> [[S -> V] -> V]]
    /\ \A x \in S : \A f, g \in [S -> V] :
        (\A y \in S : rank[y] < rank[x] => f[y] = g[y]) => step[x][f] = step[x][g]
Upto(S, rank, step, n, f) == \A x \in S : rank[x] < n => f[x] = step[x][f]

LEMMA RecursionAgrees ==
    ASSUME NEW S, NEW V, NEW rank \in [S -> Nat], NEW step, Determined(S, V, rank, step),
           NEW n \in Nat, NEW m \in Nat, NEW f \in [S -> V], NEW g \in [S -> V],
           Upto(S, rank, step, n, f), Upto(S, rank, step, m, g),
           NEW z \in S, rank[z] < n, rank[z] < m
    PROVE  f[z] = g[z]
  <1> DEFINE T == {x \in S : rank[x] < n /\ rank[x] < m /\ f[x] # g[x]}
  <1> SUFFICES ASSUME T # {} PROVE FALSE
    OBVIOUS
  <1>1. PICK x \in T : \A y \in S : rank[y] < rank[x] => y \notin T
    <2>1. T \in SUBSET S
      OBVIOUS
    <2> HIDE DEF T
    <2> QED BY <2>1, LeastRank
  <1>2. ASSUME NEW y \in S, rank[y] < rank[x]
        PROVE  f[y] = g[y]
    <2>1. rank[x] < n /\ rank[x] < m /\ rank[x] \in Nat /\ rank[y] \in Nat
      OBVIOUS
    <2>2. rank[y] < n /\ rank[y] < m
      BY <2>1, <1>2
    <2> QED BY <2>2, <1>1, <1>2
  <1>3. step[x][f] = step[x][g]
    BY <1>2 DEF Determined
  <1>4. f[x] = step[x][f] /\ g[x] = step[x][g]
    BY DEF Upto
  <1> QED BY <1>1, <1>3, <1>4

LEMMA RecursionUpto ==
    ASSUME NEW S, NEW V, V # {}, NEW rank \in [S -> Nat], NEW step,
           Determined(S, V, rank, step), NEW n \in Nat
    PROVE  \E f \in [S -> V] : Upto(S, rank, step, n, f)
  <1> DEFINE T == {m \in Nat : ~ \E f \in [S -> V] : Upto(S, rank, step, m, f)}
  <1> SUFFICES ASSUME T # {} PROVE FALSE
    OBVIOUS
  <1>1. PICK m \in T : \A k \in T : m <= k
    <2>1. T \in SUBSET Nat
      OBVIOUS
    <2> HIDE DEF T
    <2> QED BY <2>1, LeastNumber
  <1>2. CASE m = 0
    <2> DEFINE f == [x \in S |-> CHOOSE v \in V : TRUE]
    <2>1. f \in [S -> V] /\ Upto(S, rank, step, 0, f)
      BY DEF Upto
    <2> QED BY <1>1, <1>2, <2>1
  <1>3. CASE m # 0
    <2>1. m - 1 \in Nat /\ m - 1 < m /\ m \in Nat /\ ~(m <= m - 1)
      BY <1>3
    <2>2. m - 1 \notin T
      BY <1>1, <2>1
    <2>3. PICK f \in [S -> V] : Upto(S, rank, step, m - 1, f)
      BY <2>1, <2>2
    <2> DEFINE g == [x \in S |-> IF rank[x] < m - 1 THEN f[x] ELSE step[x][f]]
    <2>4. g \in [S -> V]
      BY DEF Determined
    <2>5. ASSUME NEW x \in S, rank[x] < m
          PROVE  g[x] = step[x][g]
      <3>1. \A y \in S : rank[y] < rank[x] => f[y] = g[y]
        BY <2>1, <2>5
      <3>2. step[x][f] = step[x][g]
        <4> HIDE DEF g
        <4> QED BY <3>1, <2>4 DEF Determined
      <3>3. g[x] = step[x][f]
        BY <2>3 DEF Upto
      <3> QED BY <3>2, <3>3
    <2>6. Upto(S, rank, step, m, g)
      BY <2>5 DEF Upto
    <2> QED BY <2>4, <2>6, <1>1
  <1> QED BY <1>2, <1>3

\* A function that recurs on smaller ranks exists.
LEMMA RecursionExists ==
    ASSUME NEW S, NEW V, V # {}, NEW rank \in [S -> Nat], NEW step,
           Determined(S, V, rank, step)
    PROVE  \E f \in [S -> V] : f = [x \in S |-> step[x][f]]
  <1> DEFINE part(x) == CHOOSE f \in [S -> V] : Upto(S, rank, step, rank[x] + 1, f)
             h == [x \in S |-> part(x)[x]]
  <1>1. ASSUME NEW x \in S
        PROVE  part(x) \in [S -> V] /\ Upto(S, rank, step, rank[x] + 1, part(x))
    <2>1. rank[x] + 1 \in Nat
      OBVIOUS
    <2>2. \E f \in [S -> V] : Upto(S, rank, step, rank[x] + 1, f)
      BY RecursionUpto, <2>1
    <2> QED BY <2>2
  <1>2. h \in [S -> V]
    BY <1>1
  <1>3. ASSUME NEW x \in S, NEW y \in S, rank[y] < rank[x]
        PROVE  h[y] = part(x)[y]
    <2>1. rank[y] + 1 \in Nat /\ rank[x] + 1 \in Nat /\ rank[y] < rank[y] + 1
          /\ rank[y] < rank[x] + 1
      BY <1>3
    <2>2. part(x) \in [S -> V] /\ Upto(S, rank, step, rank[x] + 1, part(x))
      BY <1>1
    <2>3. part(y) \in [S -> V] /\ Upto(S, rank, step, rank[y] + 1, part(y))
      BY <1>1
    <2>4. part(y)[y] = part(x)[y]
      <3> HIDE DEF part
      <3> QED BY <2>1, <2>2, <2>3, RecursionAgrees
    <2> QED BY <2>4
  <1>4. ASSUME NEW x \in S
        PROVE  h[x] = step[x][h]
    <2>1. step[x][h] = step[x][part(x)]
      <3> HIDE DEF part, h
      <3> QED BY <1>3, <1>1, <1>2 DEF Determined
    <2>2. part(x)[x] = step[x][part(x)]
      <3>1. rank[x] < rank[x] + 1 /\ rank[x] \in Nat
        OBVIOUS
      <3>2. Upto(S, rank, step, rank[x] + 1, part(x))
        BY <1>1
      <3> HIDE DEF part
      <3> QED BY <3>1, <3>2 DEF Upto
    <2> QED BY <2>1, <2>2
  <1> HIDE DEF part
  <1>5. h = [x \in S |-> step[x][h]]
    <2> HIDE DEF h
    <2> QED BY <1>2, <1>4
  <1> QED BY <1>2, <1>5

-----------------------------------------------------------------------------
\* Sums.

Pick(s) == CHOOSE x \in s : TRUE
Summed(f, S, sums) ==
    sums = [s \in SUBSET S |-> IF s = {} THEN 0 ELSE f[Pick(s)] + sums[s \ {Pick(s)}]]
Sums(f, S) == CHOOSE sums : Summed(f, S, sums)

LEMMA TotalIsSum == \A f, S : CalculateTotal(f, S) = Sums(f, S)[S]
  BY DEF CalculateTotal, MapThenSumSet, MapThenFoldSet, Sums, Summed, Pick

LEMMA Smaller ==
    ASSUME NEW s, IsFiniteSet(s), s # {}
    PROVE  /\ Pick(s) \in s
           /\ IsFiniteSet(s \ {Pick(s)})
           /\ Cardinality(s \ {Pick(s)}) < Cardinality(s)
  <1>1. Pick(s) \in s
    BY DEF Pick
  <1>2. Cardinality(s) \in Nat
    BY FS_CardinalityType
  <1>3. IsFiniteSet(s \ {Pick(s)}) /\ Cardinality(s \ {Pick(s)}) = Cardinality(s) - 1
    BY <1>1, FS_RemoveElement
  <1>4. QED
    BY <1>1, <1>2, <1>3

LEMMA SubsetsHaveSizes ==
    ASSUME NEW S, IsFiniteSet(S)
    PROVE  /\ \A s \in SUBSET S : IsFiniteSet(s)
           /\ [s \in SUBSET S |-> Cardinality(s)] \in [SUBSET S -> Nat]
  BY FS_Subset, FS_CardinalityType

\* A set of subsets of a finite set has a member with no smaller one.
LEMMA SmallestSubset ==
    ASSUME NEW S, IsFiniteSet(S), NEW T \in SUBSET (SUBSET S), T # {}
    PROVE  \E s \in T : \A u \in SUBSET S : Cardinality(u) < Cardinality(s) => u \notin T
  <1> DEFINE rank == [s \in SUBSET S |-> Cardinality(s)]
  <1>1. rank \in [SUBSET S -> Nat]
    BY SubsetsHaveSizes
  <1>2. \A s \in SUBSET S : rank[s] = Cardinality(s)
    OBVIOUS
  <1> HIDE DEF rank
  <1>3. \E s \in T : \A u \in SUBSET S : rank[u] < rank[s] => u \notin T
    BY <1>1, LeastRank
  <1> QED BY <1>2, <1>3

LEMMA SumsExist ==
    ASSUME NEW S, IsFiniteSet(S), NEW f, \A x \in S : f[x] \in Nat
    PROVE  /\ Summed(f, S, Sums(f, S))
           /\ Sums(f, S) \in [SUBSET S -> Nat]
  <1> DEFINE D == SUBSET S
             rank == [s \in D |-> Cardinality(s)]
             step == [s \in D |-> [g \in [D -> Nat] |->
                        IF s = {} THEN 0 ELSE f[Pick(s)] + g[s \ {Pick(s)}]]]
  <1>1. rank \in [D -> Nat]
    BY SubsetsHaveSizes
  <1>2. ASSUME NEW s \in D, s # {}
        PROVE  Pick(s) \in S /\ s \ {Pick(s)} \in D /\ rank[s \ {Pick(s)}] < rank[s]
    BY <1>2, Smaller, SubsetsHaveSizes
  <1>3. Determined(D, Nat, rank, step)
    <2>1. ASSUME NEW s \in D, NEW g \in [D -> Nat]
          PROVE  (IF s = {} THEN 0 ELSE f[Pick(s)] + g[s \ {Pick(s)}]) \in Nat
      <3>1. CASE s = {}
        BY <3>1
      <3>2. CASE s # {}
        <4>1. f[Pick(s)] \in Nat /\ g[s \ {Pick(s)}] \in Nat
          BY <3>2, <1>2
        <4> QED BY <4>1, <3>2
      <3> QED BY <3>1, <3>2
    <2>2. step \in [D -> [[D -> Nat] -> Nat]]
      BY <2>1
    <2>3. ASSUME NEW s \in D, NEW g \in [D -> Nat], NEW h \in [D -> Nat],
                 \A u \in D : rank[u] < rank[s] => g[u] = h[u]
          PROVE  step[s][g] = step[s][h]
      <3> HIDE DEF rank
      <3>1. s # {} => g[s \ {Pick(s)}] = h[s \ {Pick(s)}]
        BY <2>3, <1>2
      <3> QED BY <3>1
    <2> HIDE DEF D, rank, step
    <2> QED BY <2>2, <2>3 DEF Determined
  <1>4. PICK F \in [D -> Nat] : F = [s \in D |-> step[s][F]]
    <2> HIDE DEF D, rank, step
    <2> QED BY <1>1, <1>3, RecursionExists
  <1>5. Summed(f, S, F)
    BY <1>4 DEF Summed
  <1>6. Summed(f, S, Sums(f, S))
    BY <1>5 DEF Sums
  <1>7. \A s \in D : Sums(f, S)[s] = F[s]
    <2> DEFINE T == {s \in D : Sums(f, S)[s] # F[s]}
    <2> SUFFICES ASSUME T # {} PROVE FALSE
      OBVIOUS
    <2>1. PICK s \in T : \A u \in SUBSET S : Cardinality(u) < Cardinality(s) => u \notin T
      <3>1. T \in SUBSET (SUBSET S)
        OBVIOUS
      <3> HIDE DEF T
      <3> QED BY <3>1, SmallestSubset
    <2>2. s # {} => Sums(f, S)[s \ {Pick(s)}] = F[s \ {Pick(s)}]
      BY <2>1, <1>2
    <2>3. Sums(f, S)[s] = IF s = {} THEN 0 ELSE f[Pick(s)] + Sums(f, S)[s \ {Pick(s)}]
      BY <1>6 DEF Summed
    <2>4. F[s] = IF s = {} THEN 0 ELSE f[Pick(s)] + F[s \ {Pick(s)}]
      BY <1>5 DEF Summed
    <2> QED BY <2>2, <2>3, <2>4
  <1>8. Sums(f, S) = [s \in D |-> Sums(f, S)[s]]
    BY <1>6 DEF Summed
  <1> QED BY <1>6, <1>7, <1>8

\* Subsets have the sums they have in a larger set.
LEMMA SumsOfSubsets ==
    ASSUME NEW S, IsFiniteSet(S), NEW f, \A x \in S : f[x] \in Nat, NEW U \in SUBSET S
    PROVE  Sums(f, U)[U] = Sums(f, S)[U]
  <1> DEFINE T == {s \in SUBSET U : Sums(f, U)[s] # Sums(f, S)[s]}
  <1> SUFFICES ASSUME T # {} PROVE FALSE
    OBVIOUS
  <1>1. IsFiniteSet(U)
    BY FS_Subset
  <1>2. PICK s \in T : \A u \in SUBSET U : Cardinality(u) < Cardinality(s) => u \notin T
    <2>1. T \in SUBSET (SUBSET U)
      OBVIOUS
    <2> HIDE DEF T
    <2> QED BY <1>1, <2>1, SmallestSubset
  <1>3. s # {} => Sums(f, U)[s \ {Pick(s)}] = Sums(f, S)[s \ {Pick(s)}]
    <2> SUFFICES ASSUME s # {} PROVE Sums(f, U)[s \ {Pick(s)}] = Sums(f, S)[s \ {Pick(s)}]
      OBVIOUS
    <2>1. s \in SUBSET U /\ IsFiniteSet(s)
      BY <1>1, FS_Subset
    <2>2. s \ {Pick(s)} \in SUBSET U /\ Cardinality(s \ {Pick(s)}) < Cardinality(s)
      BY <2>1, Smaller
    <2>3. s \ {Pick(s)} \notin T
      BY <1>2, <2>2
    <2> QED BY <2>2, <2>3
  <1>4. Sums(f, U)[s] = IF s = {} THEN 0 ELSE f[Pick(s)] + Sums(f, U)[s \ {Pick(s)}]
    <2>1. Summed(f, U, Sums(f, U))
      BY <1>1, SumsExist
    <2> QED BY <2>1 DEF Summed
  <1>5. Sums(f, S)[s] = IF s = {} THEN 0 ELSE f[Pick(s)] + Sums(f, S)[s \ {Pick(s)}]
    <2>1. Summed(f, S, Sums(f, S)) /\ s \in SUBSET S
      BY SumsExist
    <2> QED BY <2>1 DEF Summed
  <1> QED BY <1>3, <1>4, <1>5

LEMMA TotalOfEmpty == \A f : CalculateTotal(f, {}) = 0
  <1> TAKE f
  <1>1. Summed(f, {}, Sums(f, {}))
    BY SumsExist, FS_EmptySet
  <1> QED BY <1>1, TotalIsSum DEF Summed

\* A sum of numbers is a number.
LEMMA TotalIsNatural ==
    ASSUME NEW S, IsFiniteSet(S), NEW f, \A x \in S : f[x] \in Nat
    PROVE  CalculateTotal(f, S) \in Nat
  BY SumsExist, TotalIsSum

LEMMA TotalOfPick ==
    ASSUME NEW S, IsFiniteSet(S), S # {}, NEW f, \A x \in S : f[x] \in Nat
    PROVE  CalculateTotal(f, S) = f[Pick(S)] + CalculateTotal(f, S \ {Pick(S)})
  <1>1. Sums(f, S)[S] = f[Pick(S)] + Sums(f, S)[S \ {Pick(S)}]
    <2>1. Summed(f, S, Sums(f, S)) /\ S \in SUBSET S
      BY SumsExist
    <2> QED BY <2>1 DEF Summed
  <1>2. Sums(f, S \ {Pick(S)})[S \ {Pick(S)}] = Sums(f, S)[S \ {Pick(S)}]
    <2>1. S \ {Pick(S)} \in SUBSET S
      OBVIOUS
    <2> QED BY <2>1, SumsOfSubsets
  <1> QED BY <1>1, <1>2, TotalIsSum

\* The sum is that of the values.
LEMMA TotalsAgree ==
    ASSUME NEW S, IsFiniteSet(S), NEW f, NEW g, \A x \in S : f[x] \in Nat /\ g[x] = f[x]
    PROVE  CalculateTotal(f, S) = CalculateTotal(g, S)
  <1> DEFINE T == {s \in SUBSET S : CalculateTotal(f, s) # CalculateTotal(g, s)}
  <1> SUFFICES ASSUME T # {} PROVE FALSE
    OBVIOUS
  <1>1. PICK s \in T : \A u \in SUBSET S : Cardinality(u) < Cardinality(s) => u \notin T
    <2>1. T \in SUBSET (SUBSET S)
      OBVIOUS
    <2> HIDE DEF T
    <2> QED BY <2>1, SmallestSubset
  <1>2. IsFiniteSet(s)
    BY FS_Subset
  <1>3. s # {}
    BY TotalOfEmpty
  <1>4. CalculateTotal(f, s \ {Pick(s)}) = CalculateTotal(g, s \ {Pick(s)})
    BY <1>1, <1>2, <1>3, Smaller
  <1>5. CalculateTotal(f, s) = f[Pick(s)] + CalculateTotal(f, s \ {Pick(s)})
    BY <1>2, <1>3, TotalOfPick
  <1>6. CalculateTotal(g, s) = g[Pick(s)] + CalculateTotal(g, s \ {Pick(s)})
    BY <1>2, <1>3, TotalOfPick
  <1> QED BY <1>2, <1>3, <1>4, <1>5, <1>6, Smaller

\* Addition may start with any of the numbers.
LEMMA TotalOfElement ==
    ASSUME NEW S, IsFiniteSet(S), NEW f, \A x \in S : f[x] \in Nat, NEW z \in S
    PROVE  CalculateTotal(f, S) = f[z] + CalculateTotal(f, S \ {z})
  <1> DEFINE Ok(s) == \A x \in s : CalculateTotal(f, s) = f[x] + CalculateTotal(f, s \ {x})
             T == {s \in SUBSET S : ~Ok(s)}
  <1> SUFFICES ASSUME T # {} PROVE FALSE
    OBVIOUS
  <1>1. PICK s \in T : \A u \in SUBSET S : Cardinality(u) < Cardinality(s) => u \notin T
    <2>1. T \in SUBSET (SUBSET S)
      OBVIOUS
    <2> HIDE DEF T
    <2> QED BY <2>1, SmallestSubset
  <1>2. IsFiniteSet(s) /\ \A x \in s : f[x] \in Nat
    BY FS_Subset
  <1>3. ASSUME NEW u \in SUBSET s, u # s
        PROVE  Ok(u) /\ IsFiniteSet(u) /\ CalculateTotal(f, u) \in Nat
    <2>1. Cardinality(u) \in Nat /\ Cardinality(s) \in Nat /\ IsFiniteSet(u)
          /\ Cardinality(u) <= Cardinality(s) /\ Cardinality(u) # Cardinality(s)
      BY <1>2, <1>3, FS_Subset, FS_CardinalityType
    <2>2. Cardinality(u) < Cardinality(s) /\ u \in SUBSET S
      BY <2>1
    <2>3. CalculateTotal(f, u) \in Nat
      BY <2>1, <1>2, TotalIsNatural
    <2> QED BY <1>1, <2>1, <2>2, <2>3
  <1>4. ASSUME NEW x \in s
        PROVE  CalculateTotal(f, s) = f[x] + CalculateTotal(f, s \ {x})
    <2> DEFINE p == Pick(s)
    <2>1. p \in s /\ CalculateTotal(f, s) = f[p] + CalculateTotal(f, s \ {p})
      BY <1>2, TotalOfPick, Smaller
    <2> HIDE DEF p
    <2>2. CASE x = p
      BY <2>1, <2>2
    <2>3. CASE x # p
      <3>1. CalculateTotal(f, s \ {p}) = f[x] + CalculateTotal(f, (s \ {p}) \ {x})
        BY <1>3, <2>1, <2>3
      <3>2. CalculateTotal(f, s \ {x}) = f[p] + CalculateTotal(f, (s \ {x}) \ {p})
        BY <1>3, <2>1, <2>3
      <3>3. (s \ {p}) \ {x} = (s \ {x}) \ {p}
        OBVIOUS
      <3>4. CalculateTotal(f, (s \ {x}) \ {p}) \in Nat
        BY <1>3, <2>1, <2>3
      <3>5. f[x] \in Nat /\ f[p] \in Nat
        BY <1>2, <2>1
      <3>6. CalculateTotal(f, s) = f[p] + (f[x] + CalculateTotal(f, (s \ {x}) \ {p}))
        BY <2>1, <3>1, <3>3, Zenon
      <3> DEFINE rest == CalculateTotal(f, (s \ {x}) \ {p})
                 a == f[x]
                 b == f[p]
      <3>7. rest \in Nat /\ a \in Nat /\ b \in Nat
        BY <3>4, <3>5
      <3>8. CalculateTotal(f, s) = b + (a + rest) /\ CalculateTotal(f, s \ {x}) = b + rest
        BY <3>2, <3>6
      <3> HIDE DEF rest, a, b
      <3>9. b + (a + rest) = a + (b + rest)
        BY <3>7
      <3>10. CalculateTotal(f, s) = a + CalculateTotal(f, s \ {x})
        BY <3>8, <3>9
      <3> QED BY <3>10 DEF a
    <2> QED BY <2>2, <2>3
  <1> QED BY <1>1, <1>4

\* The sum of the first numbers and of those after them.
LEMMA TotalOfParts ==
    ASSUME NEW m \in Nat, NEW k \in Nat, NEW f, \A i \in 1 .. m + k : f[i] \in Nat
    PROVE  CalculateTotal(f, 1 .. m + k)
             = CalculateTotal(f, 1 .. m) + CalculateTotal([i \in 1 .. k |-> f[m + i]], 1 .. k)
  <1> DEFINE g(n) == [i \in 1 .. n |-> f[m + i]]
             Ok(n) == CalculateTotal(f, 1 .. m + n)
                        = CalculateTotal(f, 1 .. m) + CalculateTotal(g(n), 1 .. n)
             T == {n \in 0 .. k : ~Ok(n)}
  <1> SUFFICES ASSUME T # {} PROVE FALSE
    <2>1. k \in 0 .. k
      OBVIOUS
    <2> QED BY <2>1
  <1>1. PICK n \in T : \A j \in T : n <= j
    <2>1. T \in SUBSET Nat
      OBVIOUS
    <2> HIDE DEF T
    <2> QED BY <2>1, LeastNumber
  <1>2. \A j \in Nat : IsFiniteSet(1 .. j)
    BY FS_Interval
  <1>3. CalculateTotal(f, 1 .. m) \in Nat
    BY <1>2, TotalIsNatural
  <1>4. CASE n = 0
    <2>1. 1 .. m + n = 1 .. m /\ 1 .. n = {}
      BY <1>4
    <2>2. CalculateTotal(g(n), 1 .. n) = 0
      BY <2>1, TotalOfEmpty
    <2> QED BY <1>1, <1>3, <2>1, <2>2
  <1>5. CASE n # 0
    <2>1. n - 1 \in 0 .. k /\ ~(n <= n - 1) /\ n \in Nat /\ n - 1 \in Nat /\ m + n \in Nat
      BY <1>5
    <2>2. Ok(n - 1)
      BY <1>1, <2>1
    <2>3. /\ m + n \in 1 .. m + n /\ (1 .. m + n) \ {m + n} = 1 .. m + (n - 1)
          /\ n \in 1 .. n /\ (1 .. n) \ {n} = 1 .. n - 1
          /\ \A i \in 1 .. n : m + i \in 1 .. m + k
          /\ \A i \in 1 .. m + n : i \in 1 .. m + k
      <3>1. n <= k /\ n >= 1
        BY <2>1
      <3>2. m + n \in 1 .. m + n /\ (1 .. m + n) \ {m + n} = 1 .. m + (n - 1)
        <4> DEFINE l == m + n
        <4>1. l \in Nat /\ l >= 1 /\ m + (n - 1) = l - 1
          BY <2>1, <3>1
        <4> HIDE DEF l
        <4>2. l \in 1 .. l /\ (1 .. l) \ {l} = 1 .. l - 1
          BY <4>1
        <4> QED BY <4>1, <4>2 DEF l
      <3>3. n \in 1 .. n /\ (1 .. n) \ {n} = 1 .. n - 1
        BY <2>1, <3>1
      <3> QED BY <2>1, <3>1, <3>2, <3>3
    <2>4. CalculateTotal(f, 1 .. m + n) = f[m + n] + CalculateTotal(f, 1 .. m + (n - 1))
      <3>1. CalculateTotal(f, 1 .. m + n) = f[m + n] + CalculateTotal(f, (1 .. m + n) \ {m + n})
        BY <2>1, <2>3, <1>2, TotalOfElement
      <3> QED BY <3>1, <2>3
    <2>5. \A i \in 1 .. n : g(n)[i] \in Nat
      BY <2>3
    <2>6. CalculateTotal(g(n), 1 .. n) = f[m + n] + CalculateTotal(g(n), 1 .. n - 1)
      <3>1. g(n)[n] = f[m + n]
        BY <2>3
      <3> HIDE DEF g
      <3>2. CalculateTotal(g(n), 1 .. n) = g(n)[n] + CalculateTotal(g(n), (1 .. n) \ {n})
        <4>1. IsFiniteSet(1 .. n) /\ n \in 1 .. n
          BY <2>1, <2>3, <1>2
        <4> QED BY <4>1, <2>5, TotalOfElement, Zenon
      <3> QED BY <3>1, <3>2, <2>3
    <2>7. CalculateTotal(g(n), 1 .. n - 1) = CalculateTotal(g(n - 1), 1 .. n - 1)
      <3>1. \A i \in 1 .. n - 1 : g(n)[i] \in Nat /\ g(n - 1)[i] = g(n)[i]
        BY <2>3, <2>1
      <3> HIDE DEF g
      <3> QED BY <3>1, <2>1, <1>2, TotalsAgree
    <2>8. CalculateTotal(g(n - 1), 1 .. n - 1) \in Nat
      <3>1. \A i \in 1 .. n - 1 : g(n - 1)[i] \in Nat
        BY <2>3, <2>1
      <3> HIDE DEF g
      <3> QED BY <3>1, <2>1, <1>2, TotalIsNatural
    <2>9. f[m + n] \in Nat
      BY <2>3
    <2> HIDE DEF g
    <2> QED BY <1>1, <1>3, <2>2, <2>4, <2>6, <2>7, <2>8, <2>9
  <1> QED BY <1>4, <1>5

-----------------------------------------------------------------------------
\* Sequences of sequences.

LEMMA TotalOfSeq == \A s : Total(s) = CalculateTotal(s, DOMAIN s)
  BY DEF Total, FoldSeq, FoldFunction, FoldFunctionOnSet, CalculateTotal, MapThenSumSet,
         MapThenFoldSet

Weight(w, s) == CalculateTotal([i \in 1 .. Len(s) |-> w[s[i]]], 1 .. Len(s))

LEMMA WeightIsNatural ==
    ASSUME NEW X, NEW w \in [X -> Nat], NEW s \in Seq(X)
    PROVE  Weight(w, s) \in Nat
  <1> DEFINE f == [i \in 1 .. Len(s) |-> w[s[i]]]
  <1>1. IsFiniteSet(1 .. Len(s))
    <2>1. 1 \in Int /\ Len(s) \in Int
      OBVIOUS
    <2> QED BY <2>1, FS_Interval
  <1>2. \A i \in 1 .. Len(s) : f[i] \in Nat
    <2>1. \A i \in 1 .. Len(s) : s[i] \in X
      OBVIOUS
    <2> QED BY <2>1
  <1> HIDE DEF f
  <1>3. CalculateTotal(f, 1 .. Len(s)) \in Nat
    BY <1>1, <1>2, TotalIsNatural
  <1> QED BY <1>3 DEF f, Weight

LEMMA WeightOfTwo ==
    ASSUME NEW X, NEW w \in [X -> Nat], NEW s \in Seq(X), NEW t \in Seq(X)
    PROVE  Weight(w, s \o t) = Weight(w, s) + Weight(w, t)
  <1> DEFINE m == Len(s)
             k == Len(t)
             f == [i \in 1 .. m + k |-> w[(s \o t)[i]]]
             g == [i \in 1 .. k |-> f[m + i]]
             fs == [i \in 1 .. m |-> w[s[i]]]
             ft == [i \in 1 .. k |-> w[t[i]]]
  <1>1. m \in Nat /\ k \in Nat /\ Len(s \o t) = m + k /\ s \o t \in Seq(X)
    OBVIOUS
  <1>2. \A i \in 1 .. m + k : (s \o t)[i] \in X
    BY <1>1
  <1>3. \A i \in 1 .. m + k : f[i] \in Nat
    BY <1>2
  <1>4. \A i \in 1 .. m : f[i] \in Nat /\ fs[i] = f[i]
    <2>1. \A i \in 1 .. m : i \in 1 .. m + k /\ (s \o t)[i] = s[i]
      OBVIOUS
    <2> QED BY <2>1, <1>3
  <1>5. \A i \in 1 .. k : g[i] \in Nat /\ ft[i] = g[i]
    <2>1. \A i \in 1 .. k : m + i \in 1 .. m + k /\ (s \o t)[m + i] = t[i]
      OBVIOUS
    <2> QED BY <2>1, <1>3
  <1>6. IsFiniteSet(1 .. m) /\ IsFiniteSet(1 .. k)
    BY <1>1, FS_Interval
  <1>7. Weight(w, s \o t) = CalculateTotal(f, 1 .. m + k)
    BY <1>1 DEF Weight
  <1>8. Weight(w, s) = CalculateTotal(fs, 1 .. m) /\ Weight(w, t) = CalculateTotal(ft, 1 .. k)
    BY DEF Weight
  <1> HIDE DEF f, fs, ft, m, k
  <1>9. CalculateTotal(f, 1 .. m + k) = CalculateTotal(f, 1 .. m) + CalculateTotal(g, 1 .. k)
    BY <1>1, <1>3, TotalOfParts
  <1> HIDE DEF g
  <1>10. CalculateTotal(f, 1 .. m) = CalculateTotal(fs, 1 .. m)
    BY <1>4, <1>6, TotalsAgree
  <1>11. CalculateTotal(g, 1 .. k) = CalculateTotal(ft, 1 .. k)
    BY <1>5, <1>6, TotalsAgree
  <1> QED BY <1>7, <1>8, <1>9, <1>10, <1>11

Flattened(ss, flat) ==
    flat = [i \in 1 .. Len(ss) |-> IF i = 1 THEN ss[i] ELSE flat[i - 1] \o ss[i]]
Flat(ss) == CHOOSE flat : Flattened(ss, flat)

LEMMA FlattenIsFlat ==
    \A ss : FlattenSeq(ss) = IF Len(ss) = 0 THEN ss ELSE Flat(ss)[Len(ss)]
  BY DEF FlattenSeq, Flat, Flattened

LEMMA FlatExists ==
    ASSUME NEW X, NEW ss \in Seq(Seq(X))
    PROVE  Flattened(ss, Flat(ss)) /\ Flat(ss) \in [1 .. Len(ss) -> Seq(X)]
  <1> DEFINE D == 1 .. Len(ss)
             V == Seq(X)
             rank == [i \in D |-> i]
             step == [i \in D |-> [g \in [D -> V] |->
                        IF i = 1 THEN ss[i] ELSE g[i - 1] \o ss[i]]]
  <1>1. rank \in [D -> Nat]
    OBVIOUS
  <1>2. ASSUME NEW i \in D, i # 1
        PROVE  i - 1 \in D /\ rank[i - 1] < rank[i]
    BY <1>2
  <1>3. V # {}
    <2>1. <<>> \in Seq(X)
      OBVIOUS
    <2> QED BY <2>1
  <1>4. Determined(D, V, rank, step)
    <2>1. ASSUME NEW i \in D, NEW g \in [D -> V]
          PROVE  (IF i = 1 THEN ss[i] ELSE g[i - 1] \o ss[i]) \in V
      <3>1. ss[i] \in Seq(X)
        OBVIOUS
      <3>2. i # 1 => g[i - 1] \in Seq(X)
        BY <1>2
      <3> QED BY <3>1, <3>2
    <2>2. step \in [D -> [[D -> V] -> V]]
      <3> HIDE DEF D, V
      <3> QED BY <2>1
    <2>3. ASSUME NEW i \in D, NEW g \in [D -> V], NEW h \in [D -> V],
                 \A u \in D : rank[u] < rank[i] => g[u] = h[u]
          PROVE  step[i][g] = step[i][h]
      <3>1. i # 1 => g[i - 1] = h[i - 1]
        <4> HIDE DEF D, V, rank
        <4> QED BY <2>3, <1>2
      <3> HIDE DEF D, V
      <3> QED BY <3>1
    <2> HIDE DEF D, V, rank, step
    <2> QED BY <2>2, <2>3 DEF Determined
  <1>5. PICK F \in [D -> V] : F = [i \in D |-> step[i][F]]
    <2> HIDE DEF D, V, rank, step
    <2> QED BY <1>1, <1>3, <1>4, RecursionExists
  <1>6. Flattened(ss, F)
    <2>1. \A i \in D : step[i][F] = IF i = 1 THEN ss[i] ELSE F[i - 1] \o ss[i]
      <3> HIDE DEF D, V
      <3> QED OBVIOUS
    <2> HIDE DEF V, step
    <2> QED BY <1>5, <2>1 DEF Flattened
  <1>7. Flattened(ss, Flat(ss))
    BY <1>6 DEF Flat
  <1>8. \A i \in D : Flat(ss)[i] = F[i]
    <2> DEFINE T == {i \in D : Flat(ss)[i] # F[i]}
    <2> SUFFICES ASSUME T # {} PROVE FALSE
      OBVIOUS
    <2>1. PICK i \in T : \A j \in T : i <= j
      <3>1. T \in SUBSET Nat
        OBVIOUS
      <3> HIDE DEF T
      <3> QED BY <3>1, LeastNumber
    <2>2. i # 1 => i - 1 \in D /\ ~(i <= i - 1)
      OBVIOUS
    <2>3. i # 1 => Flat(ss)[i - 1] = F[i - 1]
      BY <2>1, <2>2
    <2>4. Flat(ss)[i] = IF i = 1 THEN ss[i] ELSE Flat(ss)[i - 1] \o ss[i]
      BY <1>7 DEF Flattened
    <2>5. F[i] = IF i = 1 THEN ss[i] ELSE F[i - 1] \o ss[i]
      BY <1>6 DEF Flattened
    <2> QED BY <2>3, <2>4, <2>5
  <1>9. Flat(ss) = [i \in D |-> Flat(ss)[i]]
    BY <1>7 DEF Flattened
  <1> HIDE DEF V
  <1>10. Flat(ss) \in [D -> V]
    BY <1>8, <1>9
  <1> QED BY <1>7, <1>10 DEF V

\* The weight of a flattened sequence is the sum of the weights of its parts.
LEMMA WeightOfFlat ==
    ASSUME NEW X, NEW w \in [X -> Nat], NEW ss \in Seq(Seq(X))
    PROVE  /\ FlattenSeq(ss) \in Seq(X)
           /\ Weight(w, FlattenSeq(ss))
                = CalculateTotal([k \in 1 .. Len(ss) |-> Weight(w, ss[k])], 1 .. Len(ss))
  <1> DEFINE n == Len(ss)
             ws == [k \in 1 .. n |-> Weight(w, ss[k])]
             flat == Flat(ss)
  <1>1. n \in Nat /\ \A i \in 0 .. n : IsFiniteSet(1 .. i)
    <2>1. \A i \in 0 .. n : i \in Int /\ 1 \in Int
      OBVIOUS
    <2> QED BY <2>1, FS_Interval
  <1>2. \A i \in 1 .. n : ss[i] \in Seq(X)
    OBVIOUS
  <1>3. \A i \in 1 .. n : ws[i] = Weight(w, ss[i]) /\ ws[i] \in Nat
    BY <1>2, WeightIsNatural
  <1>4. flat \in [1 .. n -> Seq(X)]
        /\ \A i \in 1 .. n : flat[i] = IF i = 1 THEN ss[i] ELSE flat[i - 1] \o ss[i]
    <2>1. Flattened(ss, flat) /\ flat \in [1 .. n -> Seq(X)]
      BY FlatExists
    <2> HIDE DEF flat, ws
    <2>2. flat = [i \in 1 .. n |-> IF i = 1 THEN ss[i] ELSE flat[i - 1] \o ss[i]]
      BY <2>1 DEF Flattened
    <2> HIDE DEF n
    <2> QED BY <2>1, <2>2
  <1>5. FlattenSeq(ss) = IF n = 0 THEN ss ELSE flat[n]
    BY FlattenIsFlat
  <1>6. CASE n = 0
    <2>1. ss = <<>> /\ FlattenSeq(ss) = <<>> /\ 1 .. n = {} /\ 1 .. Len(<<>>) = {}
      BY <1>5, <1>6
    <2>2. <<>> \in Seq(X)
      OBVIOUS
    <2>3. Weight(w, <<>>) = 0
      BY <2>1, TotalOfEmpty DEF Weight
    <2>4. CalculateTotal(ws, 1 .. n) = 0
      BY <2>1, TotalOfEmpty
    <2> QED BY <2>1, <2>2, <2>3, <2>4
  <1>7. CASE n # 0
    <2> DEFINE T == {i \in 1 .. n : Weight(w, flat[i]) # CalculateTotal(ws, 1 .. i)}
    <2> HIDE DEF ws, flat
    <2>1. T = {}
      <3> SUFFICES ASSUME T # {} PROVE FALSE
        OBVIOUS
      <3>1. PICK i \in T : \A j \in T : i <= j
        <4>1. T \in SUBSET Nat
          OBVIOUS
        <4> HIDE DEF T
        <4> QED BY <4>1, LeastNumber
      <3>2. i \in 1 .. n /\ i \in 0 .. n /\ i \in 1 .. i /\ (1 .. i) \ {i} = 1 .. i - 1
            /\ \A j \in 1 .. i : j \in 1 .. n
        BY <1>1
      <3>3. CalculateTotal(ws, 1 .. i) = ws[i] + CalculateTotal(ws, 1 .. i - 1)
        <4>1. CalculateTotal(ws, 1 .. i) = ws[i] + CalculateTotal(ws, (1 .. i) \ {i})
          BY <3>2, <1>1, <1>3, TotalOfElement
        <4> QED BY <4>1, <3>2
      <3>4. ws[i] = Weight(w, ss[i]) /\ ws[i] \in Nat /\ ss[i] \in Seq(X)
        BY <3>2, <1>2, <1>3
      <3>5. CASE i = 1
        <4>1. flat[i] = ss[i] /\ 1 .. i - 1 = {}
          <5>1. i - 1 = 0 /\ 1 .. 0 = {}
            BY <3>5
          <5> QED BY <5>1, <3>5, <3>2, <1>4
        <4>2. CalculateTotal(ws, 1 .. i - 1) = 0
          BY <4>1, TotalOfEmpty
        <4>3. Weight(w, flat[i]) = CalculateTotal(ws, 1 .. i)
          BY <4>1, <4>2, <3>3, <3>4
        <4> QED BY <4>3
      <3>6. CASE i # 1
        <4>1. i - 1 \in 1 .. n /\ ~(i <= i - 1)
          BY <3>6, <3>2, <1>1
        <4>2. flat[i] = flat[i - 1] \o ss[i] /\ flat[i - 1] \in Seq(X)
          BY <3>6, <3>2, <4>1, <1>4
        <4>3. Weight(w, flat[i]) = Weight(w, flat[i - 1]) + Weight(w, ss[i])
          <5>1. Weight(w, flat[i - 1] \o ss[i]) = Weight(w, flat[i - 1]) + Weight(w, ss[i])
            BY <4>2, <3>4, WeightOfTwo, Zenon
          <5> QED BY <4>2, <5>1
        <4>4. Weight(w, flat[i - 1]) = CalculateTotal(ws, 1 .. i - 1)
          BY <3>1, <4>1
        <4>5. Weight(w, flat[i - 1]) \in Nat
          BY <4>2, WeightIsNatural
        <4>6. Weight(w, flat[i]) = CalculateTotal(ws, 1 .. i)
          BY <4>3, <4>4, <4>5, <3>3, <3>4
        <4> QED BY <4>6
      <3> QED BY <3>5, <3>6
    <2>2. n \in 1 .. n
      BY <1>1, <1>7
    <2>3. flat[n] \in Seq(X) /\ Weight(w, flat[n]) = CalculateTotal(ws, 1 .. n)
      BY <2>1, <2>2, <1>4
    <2> QED BY <2>3, <1>5, <1>7 DEF ws
  <1> QED BY <1>6, <1>7

-----------------------------------------------------------------------------
\* The parser.

Condition == [left : {header[j] : j \in Named}, opcode : Nat, right : Nat]
And == Seq(Condition) \ {<<>>}

\* What parseCondition returns: a condition is one AND of one condition, an
\* AND of conditions is one AND.
Parsed ==
    {r \in [class : {"Condition", "ANDCondition", "WhereCondition"}, ors : Seq(And)] :
        /\ r.ors # <<>>
        /\ r.class \in Few => Len(r.ors) = 1
        /\ r.class = "Condition" => Len(r.ors[1]) = 1}
Parse == Parsed \cup {Throws}

JoinOf(ast, l, r) ==
    CASE ast.operator = "OR" /\ l.class # "throws" /\ r.class \in Few ->
            Result("WhereCondition", l.ors \o r.ors)
      [] ast.operator = "AND" /\ l.class \in Few /\ r.class = "Condition" ->
            Result("ANDCondition", <<l.ors[1] \o r.ors[1]>>)
      [] OTHER -> Throws
Compared(ast) ==
    IF ast.operator \in DOMAIN ConditionType /\ ast.column \in Named
    THEN Result("Condition", <<<<[left   |-> header[ast.column],
                                  opcode |-> ConditionType[ast.operator],
                                  right  |-> codeOf(ast.right)]>>>>)
    ELSE Throws
ParseStep(ast, f) ==
    IF IsJoin(ast) THEN JoinOf(ast, f[ast.left], f[ast.right]) ELSE Compared(ast)

LEMMA PartsAreSmaller ==
    ASSUME NEW c \in Clause, IsJoin(c)
    PROVE  /\ c.left \in Clause /\ size[c.left] < size[c]
           /\ c.right \in Clause /\ size[c.right] < size[c]
  BY ClausesAreTrees DEF IsJoin

LEMMA ComparisonsCompare ==
    ASSUME NEW c \in Clause, ~IsJoin(c)
    PROVE  c.operator # "none" /\ c.column \in Cols /\ c.right \in Operand
  BY ClausesAreTrees DEF IsJoin

LEMMA OperandsHaveCodes ==
    ASSUME NEW o \in Operand
    PROVE  codeOf(o) \in Nat /\ codeOf(o) \in Code
  <1>1. CASE o \in Literal
    <2>1. "value" \in DOMAIN o /\ o.value \in Value
      BY <1>1 DEF Literal
    <2> QED BY <2>1, ValuesHaveCodes DEF codeOf, Code
  <1>2. CASE o \in [column : Named]
    <2>1. "value" \notin DOMAIN o
      BY <1>2
    <2> QED BY <2>1 DEF codeOf, Code
  <1> QED BY <1>1, <1>2 DEF Operand

LEMMA NamedHasCode ==
    ASSUME NEW j \in Named
    PROVE  j \in Cols /\ header[j] \in Nat /\ header[j] # 0
  BY HeaderIsDistinct DEF Named

LEMMA ClassesDiffer == \A r \in Parsed : r.class # "throws"
  BY DEF Parsed

LEMMA JoinIsParsed ==
    ASSUME NEW ast, NEW l \in Parse, NEW r \in Parse
    PROVE  JoinOf(ast, l, r) \in Parse
  <1>1. CASE ast.operator = "OR" /\ l.class # "throws" /\ r.class \in Few
    <2>1. l \in Parsed /\ r \in Parsed
      BY <1>1 DEF Parse, Throws, Few
    <2>2. l.ors \in Seq(And) /\ r.ors \in Seq(And) /\ l.ors # <<>>
      BY <2>1 DEF Parsed
    <2>3. l.ors \o r.ors \in Seq(And) /\ l.ors \o r.ors # <<>>
      BY <2>2
    <2>4. Result("WhereCondition", l.ors \o r.ors) \in Parsed
      BY <2>3 DEF Parsed, Result, Few
    <2> QED BY <1>1, <2>4 DEF JoinOf, Parse
  <1>2. CASE ast.operator = "AND" /\ l.class \in Few /\ r.class = "Condition"
    <2>1. l \in Parsed /\ r \in Parsed
      BY <1>2 DEF Parse, Throws, Few
    <2>2. l.ors[1] \in And /\ r.ors[1] \in And
      BY <2>1, <1>2 DEF Parsed, Few
    <2>3. l.ors[1] \o r.ors[1] \in And
      BY <2>2 DEF And
    <2> HIDE DEF And
    <2>4. <<l.ors[1] \o r.ors[1]>> \in Seq(And) /\ <<l.ors[1] \o r.ors[1]>> # <<>>
          /\ Len(<<l.ors[1] \o r.ors[1]>>) = 1
      BY <2>3
    <2>5. Result("ANDCondition", <<l.ors[1] \o r.ors[1]>>) \in Parsed
      BY <2>4 DEF Parsed, Result, Few
    <2> QED BY <1>2, <2>5 DEF JoinOf, Parse
  <1>3. CASE /\ ~(ast.operator = "OR" /\ l.class # "throws" /\ r.class \in Few)
             /\ ~(ast.operator = "AND" /\ l.class \in Few /\ r.class = "Condition")
    BY <1>3 DEF JoinOf, Parse
  <1> QED BY <1>1, <1>2, <1>3

LEMMA ComparisonIsParsed ==
    ASSUME NEW ast \in Clause, ~IsJoin(ast)
    PROVE  Compared(ast) \in Parse
  <1>1. CASE ast.operator \in DOMAIN ConditionType /\ ast.column \in Named
    <2> DEFINE c == [left   |-> header[ast.column],
                     opcode |-> ConditionType[ast.operator],
                     right  |-> codeOf(ast.right)]
    <2>1. ConditionType[ast.operator] \in Nat
      BY <1>1 DEF ConditionType, Eq, Ne, Lt, Gt, Lte, Gte
    <2>2. c \in Condition
      BY <1>1, <2>1, ComparisonsCompare, OperandsHaveCodes DEF Condition
    <2> HIDE DEF c
    <2>3. <<c>> \in And /\ Len(<<c>>) = 1
      BY <2>2 DEF And
    <2>4. <<<<c>>>> \in Seq(And) /\ <<<<c>>>> # <<>> /\ Len(<<<<c>>>>) = 1 /\ <<<<c>>>>[1] = <<c>>
      BY <2>3
    <2>5. Result("Condition", <<<<c>>>>) \in Parsed
      BY <2>3, <2>4 DEF Parsed, Result
    <2> QED BY <1>1, <2>5 DEF Compared, Parse, c
  <1>2. CASE ~(ast.operator \in DOMAIN ConditionType /\ ast.column \in Named)
    BY <1>2 DEF Compared, Parse
  <1> QED BY <1>1, <1>2

LEMMA StepIsParsed ==
    ASSUME NEW ast \in Clause, NEW f \in [Clause -> Parse]
    PROVE  ParseStep(ast, f) \in Parse
  BY PartsAreSmaller, JoinIsParsed, ComparisonIsParsed DEF ParseStep

\* parseCondition has a value for every tree, and it is the one of its
\* definition.
LEMMA ParseWorks ==
    /\ parseCondition \in [Clause -> Parse]
    /\ parseCondition = [ast \in Clause |-> ParseStep(ast, parseCondition)]
  <1> DEFINE step == [ast \in Clause |-> [f \in [Clause -> Parse] |-> ParseStep(ast, f)]]
  <1>1. size \in [Clause -> Nat]
    BY ClausesAreTrees
  <1>2. Parse # {}
    BY DEF Parse
  <1>3. ASSUME NEW ast \in Clause, NEW f, NEW g,
               \A c \in Clause : size[c] < size[ast] => f[c] = g[c]
        PROVE  ParseStep(ast, f) = ParseStep(ast, g)
    BY <1>3, PartsAreSmaller DEF ParseStep
  <1>4. Determined(Clause, Parse, size, step)
    <2>1. step \in [Clause -> [[Clause -> Parse] -> Parse]]
      BY StepIsParsed
    <2>2. ASSUME NEW ast \in Clause, NEW f \in [Clause -> Parse], NEW g \in [Clause -> Parse],
                 \A c \in Clause : size[c] < size[ast] => f[c] = g[c]
          PROVE  step[ast][f] = step[ast][g]
      BY <1>3, <2>2
    <2> HIDE DEF step
    <2> QED BY <2>1, <2>2 DEF Determined
  <1>5. PICK F \in [Clause -> Parse] : F = [ast \in Clause |-> step[ast][F]]
    <2> HIDE DEF step
    <2> QED BY <1>1, <1>2, <1>4, RecursionExists
  <1>6. F = [ast \in Clause |-> ParseStep(ast, F)]
    <2>1. \A ast \in Clause : step[ast][F] = ParseStep(ast, F)
      OBVIOUS
    <2> HIDE DEF step
    <2> QED BY <1>5, <2>1
  <1>7. parseCondition = CHOOSE f : f = [ast \in Clause |-> ParseStep(ast, f)]
    BY DEF parseCondition, ParseStep, IsJoin, JoinOf, Compared
  <1>8. parseCondition = [ast \in Clause |-> ParseStep(ast, parseCondition)]
    BY <1>6, <1>7
  <1>9. \A ast \in Clause : parseCondition[ast] = F[ast]
    <2> DEFINE T == {ast \in Clause : parseCondition[ast] # F[ast]}
    <2> SUFFICES ASSUME T # {} PROVE FALSE
      OBVIOUS
    <2>1. PICK ast \in T : \A c \in Clause : size[c] < size[ast] => c \notin T
      <3>1. T \in SUBSET Clause
        OBVIOUS
      <3> HIDE DEF T
      <3> QED BY <1>1, <3>1, LeastRank
    <2>2. ParseStep(ast, parseCondition) = ParseStep(ast, F)
      BY <2>1, <1>3
    <2>3. parseCondition[ast] = ParseStep(ast, parseCondition)
      BY <1>8
    <2>4. F[ast] = ParseStep(ast, F)
      BY <1>6
    <2> QED BY <2>2, <2>3, <2>4
  <1>10. parseCondition \in [Clause -> Parse]
    BY <1>8, <1>9
  <1> QED BY <1>8, <1>10

LEMMA SmallestIsIn ==
    ASSUME NEW T \in SUBSET Nat, T # {}
    PROVE  Min(T) \in T
  <1>1. \E n \in T : \A m \in T : n <= m
    BY LeastNumber
  <1> QED BY <1>1 DEF Min

Place == [left : Nat, opcode : Nat, right : Nat]

\* A clause that is translated is a sequence of ANDs.
LEMMA WhereIsParsed ==
    ASSUME NEW w \in Where, parseWhere(w).class # "throws"
    PROVE  parseWhere(w).ors \in Seq(And)
  <1>1. CASE w = NoWhere
    BY <1>1 DEF parseWhere, Result
  <1>2. CASE w # NoWhere
    <2>1. w \in Clause /\ parseWhere(w) = parseCondition[w]
      BY <1>2 DEF Where, parseWhere
    <2>2. parseWhere(w) \in Parsed
      BY <2>1, ParseWorks DEF Parse, Throws
    <2> QED BY <2>2 DEF Parsed
  <1> QED BY <1>1, <1>2

LEMMA ConditionIsAPlace == \A c \in Condition : c \in Place /\ c.left # 0
  BY NamedHasCode DEF Condition, Place

LEMMA FirstIsAPlace ==
    ASSUME NEW and \in And, NEW j \in Cols
    PROVE  FirstAbout(and, j) \in Place
  <1> DEFINE about == {i \in DOMAIN and : and[i].left = header[j]}
  <1>1. about \in SUBSET Nat /\ DOMAIN and = 1 .. Len(and)
    BY DEF And
  <1>2. FirstAbout(and, j) = IF about = {} THEN NoCondition ELSE and[Min(about)]
    BY DEF FirstAbout
  <1>3. NoCondition \in Place
    BY DEF NoCondition, Place, Eq
  <1>4. ASSUME about # {}
        PROVE  and[Min(about)] \in Place
    <2>1. Min(about) \in about
      <3> HIDE DEF about
      <3> QED BY <1>1, <1>4, SmallestIsIn
    <2>2. Min(about) \in 1 .. Len(and)
      BY <2>1, <1>1
    <2>3. and[Min(about)] \in Condition
      BY <2>2 DEF And
    <2> QED BY <2>3, ConditionIsAPlace
  <1> QED BY <1>2, <1>3, <1>4

\* The matrix of a clause has a condition in each of its places.
LEMMA SerializedIsPlaces ==
    ASSUME NEW ors \in Seq(And)
    PROVE  serialize(ors) \in [1 .. maxOR -> [Cols -> Place]]
  <1>1. NoCondition \in Place
    BY DEF NoCondition, Place, Eq
  <1>2. ASSUME NEW k \in 1 .. maxOR, NEW j \in Cols
        PROVE  (IF k <= Len(ors) THEN FirstAbout(ors[k], j) ELSE NoCondition) \in Place
    <2>1. CASE k <= Len(ors)
      <3>1. ors[k] \in And
        BY <2>1
      <3> QED BY <2>1, <3>1, FirstIsAPlace
    <2>2. CASE ~(k <= Len(ors))
      BY <1>1, <2>2
    <2> QED BY <2>1, <2>2
  <1> QED BY <1>2 DEF serialize

-----------------------------------------------------------------------------
\* The arguments of a write.

number == [x \in Nat |-> x]
condition == [c \in Place |-> HashCondition(c)]

LEMMA NumberWeights ==
    /\ number \in [Nat -> Nat]
    /\ condition \in [Place -> Nat]
    /\ \A c \in Place : condition[c] = c.left + c.opcode + c.right
  BY DEF number, condition, Place, HashCondition

LEMMA WeightOfOne ==
    ASSUME NEW x \in Nat
    PROVE  Weight(number, <<x>>) = x
  <1> DEFINE f == [i \in 1 .. Len(<<x>>) |-> number[<<x>>[i]]]
  <1>1. 1 .. Len(<<x>>) = {1} /\ {1} \ {1} = {}
    OBVIOUS
  <1>2. f[1] = x /\ \A i \in {1} : f[i] \in Nat
    BY DEF number
  <1>3. IsFiniteSet({1})
    BY FS_Singleton
  <1>4. Weight(number, <<x>>) = CalculateTotal(f, {1})
    BY <1>1 DEF Weight
  <1> HIDE DEF f
  <1>5. CalculateTotal(f, {1}) = f[1] + CalculateTotal(f, {1} \ {1})
    BY <1>2, <1>3, TotalOfElement
  <1>6. CalculateTotal(f, {}) = 0
    BY TotalOfEmpty
  <1> QED BY <1>1, <1>2, <1>4, <1>5, <1>6

LEMMA WeightOfPair ==
    ASSUME NEW x \in Nat, NEW y \in Nat
    PROVE  Weight(number, <<x, y>>) = x + y
  <1>1. <<x>> \in Seq(Nat) /\ <<y>> \in Seq(Nat) /\ <<x, y>> = <<x>> \o <<y>>
    <2> DEFINE s == <<x>> \o <<y>>
               t == <<x, y>>
    <2>1. <<x>> \in Seq(Nat) /\ <<y>> \in Seq(Nat) /\ s \in Seq(Nat) /\ t \in Seq(Nat)
      OBVIOUS
    <2>2. Len(s) = 2 /\ s[1] = x /\ s[2] = y /\ Len(t) = 2 /\ t[1] = x /\ t[2] = y
      OBVIOUS
    <2> HIDE DEF s, t
    <2>3. \A i \in 1 .. 2 : s[i] = t[i]
      BY <2>2
    <2>4. s = t
      BY <2>1, <2>2, <2>3
    <2> QED BY <2>1, <2>4 DEF s, t
  <1>2. Weight(number, <<x>> \o <<y>>) = Weight(number, <<x>>) + Weight(number, <<y>>)
    BY <1>1, NumberWeights, WeightOfTwo
  <1> QED BY <1>1, <1>2, WeightOfOne

LEMMA WeightOfTriple ==
    ASSUME NEW x \in Nat, NEW y \in Nat, NEW z \in Nat
    PROVE  Weight(number, <<x, y, z>>) = x + y + z
  <1>1. <<x, y>> \in Seq(Nat) /\ <<z>> \in Seq(Nat) /\ <<x, y, z>> = <<x, y>> \o <<z>>
    OBVIOUS
  <1>2. Weight(number, <<x, y>> \o <<z>>) = Weight(number, <<x, y>>) + Weight(number, <<z>>)
    BY <1>1, NumberWeights, WeightOfTwo
  <1> QED BY <1>1, <1>2, WeightOfOne, WeightOfPair

LEMMA FirstNumbersAreFinite == \A n \in Nat : IsFiniteSet(1 .. n)
  <1>1. \A n \in Nat : 1 \in Int /\ n \in Int
    OBVIOUS
  <1> QED BY <1>1, FS_Interval

LEMMA TotalIsWeight ==
    ASSUME NEW s \in Seq(Nat)
    PROVE  Total(s) = Weight(number, s)
  <1> DEFINE f == [i \in 1 .. Len(s) |-> number[s[i]]]
  <1>1. DOMAIN s = 1 .. Len(s) /\ IsFiniteSet(1 .. Len(s))
    BY FirstNumbersAreFinite
  <1>2. \A i \in 1 .. Len(s) : s[i] \in Nat /\ f[i] = s[i]
    <2>1. \A i \in 1 .. Len(s) : s[i] \in Nat
      OBVIOUS
    <2> QED BY <2>1 DEF number
  <1>3. Weight(number, s) = CalculateTotal(f, 1 .. Len(s))
    BY DEF Weight
  <1> HIDE DEF f
  <1>4. CalculateTotal(s, 1 .. Len(s)) = CalculateTotal(f, 1 .. Len(s))
    BY <1>1, <1>2, TotalsAgree
  <1> QED BY <1>1, <1>3, <1>4, TotalOfSeq

\* The numbers of conditions add up to what the conditions add.
LEMMA WeightOfCodes ==
    ASSUME NEW conditions \in Seq(Place)
    PROVE  /\ Codes(conditions) \in Seq(Nat)
           /\ Weight(number, Codes(conditions)) = Weight(condition, conditions)
  <1> DEFINE n == Len(conditions)
             triple(j) == <<conditions[j].left, conditions[j].opcode, conditions[j].right>>
             triples == [j \in 1 .. n |-> triple(j)]
             f == [j \in 1 .. n |-> Weight(number, triples[j])]
             g == [j \in 1 .. n |-> condition[conditions[j]]]
  <1>1. n \in Nat /\ DOMAIN conditions = 1 .. n /\ IsFiniteSet(1 .. n)
    BY FirstNumbersAreFinite
  <1>2. \A j \in 1 .. n : conditions[j] \in Place
    OBVIOUS
  <1>3. \A j \in 1 .. n : /\ conditions[j].left \in Nat
                          /\ conditions[j].opcode \in Nat
                          /\ conditions[j].right \in Nat
    BY <1>2 DEF Place
  <1>4. \A j \in 1 .. n : triple(j) \in Seq(Nat)
    BY <1>3
  <1>5. triples \in Seq(Seq(Nat)) /\ Len(triples) = n
    <2> HIDE DEF triple, n
    <2> QED BY <1>1, <1>4
  <1>6. Codes(conditions) = FlattenSeq(triples)
    BY <1>1 DEF Codes
  <1>7. \A j \in 1 .. n : f[j] \in Nat /\ g[j] = f[j]
    <2>1. ASSUME NEW j \in 1 .. n
          PROVE  Weight(number, triple(j)) = condition[conditions[j]]
                 /\ condition[conditions[j]] \in Nat
      <3>1. Weight(number, triple(j))
                = conditions[j].left + conditions[j].opcode + conditions[j].right
        BY <1>3, WeightOfTriple
      <3> HIDE DEF triple, n
      <3>2. /\ condition[conditions[j]]
                    = conditions[j].left + conditions[j].opcode + conditions[j].right
            /\ condition[conditions[j]] \in Nat
        BY <1>2, NumberWeights
      <3> QED BY <3>1, <3>2
    <2> QED BY <2>1
  <1>8. Weight(condition, conditions) = CalculateTotal(g, 1 .. n)
    BY DEF Weight
  <1> HIDE DEF triple, triples, f, g, n
  <1>9. /\ FlattenSeq(triples) \in Seq(Nat)
        /\ Weight(number, FlattenSeq(triples))
            = CalculateTotal([k \in 1 .. Len(triples) |-> Weight(number, triples[k])],
                             1 .. Len(triples))
    BY <1>5, NumberWeights, WeightOfFlat
  <1>10. Weight(number, FlattenSeq(triples)) = CalculateTotal(f, 1 .. n)
    BY <1>5, <1>9 DEF f
  <1>11. CalculateTotal(f, 1 .. n) = CalculateTotal(g, 1 .. n)
    BY <1>1, <1>7, TotalsAgree
  <1> QED BY <1>6, <1>8, <1>9, <1>10, <1>11

\* HashWhere adds the numbers of the conditions that are listed.
LEMMA ClausesAreHashed ==
    ASSUME NEW where \in [1 .. maxOR -> [Cols -> Place]]
    PROVE  /\ Codes(FlattenSeq(where)) \in Seq(Nat)
           /\ Weight(number, Codes(FlattenSeq(where))) = HashWhere(where)
  <1> DEFINE f == [k \in 1 .. maxOR |-> Weight(condition, where[k])]
             row(k) == [j \in Cols |-> HashCondition(where[k][j])]
             g == [k \in 1 .. maxOR |-> CalculateTotal(row(k), Cols)]
  <1>1. /\ maxOR \in Nat /\ maxCols \in Nat
        /\ IsFiniteSet(1 .. maxOR) /\ IsFiniteSet(Cols) /\ Cols = 1 .. maxCols
    BY SizesAreNaturals, FirstNumbersAreFinite DEF Cols
  <1>2. ASSUME NEW k \in 1 .. maxOR
        PROVE  where[k] \in Seq(Place) /\ Len(where[k]) = maxCols
    BY <1>1
  <1>3. where \in Seq(Seq(Place)) /\ Len(where) = maxOR
    BY <1>1, <1>2
  <1>4. \A k \in 1 .. maxOR : f[k] \in Nat /\ g[k] = f[k]
    <2> SUFFICES ASSUME NEW k \in 1 .. maxOR
                 PROVE  /\ Weight(condition, where[k]) \in Nat
                        /\ CalculateTotal(row(k), Cols) = Weight(condition, where[k])
      OBVIOUS
    <2> DEFINE h == [j \in 1 .. maxCols |-> condition[where[k][j]]]
    <2>1. Weight(condition, where[k]) = CalculateTotal(h, Cols)
      BY <1>1, <1>2 DEF Weight
    <2>2. \A j \in Cols : h[j] \in Nat /\ row(k)[j] = h[j]
      <3>1. \A j \in Cols : where[k][j] \in Place
        OBVIOUS
      <3>2. \A j \in Cols : condition[where[k][j]] \in Nat
                            /\ HashCondition(where[k][j]) = condition[where[k][j]]
        BY <3>1, NumberWeights DEF condition
      <3> QED BY <3>2, <1>1
    <2> HIDE DEF h, row
    <2>3. CalculateTotal(row(k), Cols) = CalculateTotal(h, Cols)
      BY <1>1, <2>2, TotalsAgree
    <2>4. CalculateTotal(h, Cols) \in Nat
      BY <1>1, <2>2, TotalIsNatural
    <2> QED BY <2>1, <2>3, <2>4
  <1>5. HashWhere(where) = CalculateTotal(g, 1 .. maxOR)
    BY DEF HashWhere
  <1> HIDE DEF f, g
  <1>6. /\ FlattenSeq(where) \in Seq(Place)
        /\ Weight(condition, FlattenSeq(where)) = CalculateTotal(f, 1 .. maxOR)
    <2>1. /\ FlattenSeq(where) \in Seq(Place)
          /\ Weight(condition, FlattenSeq(where))
                = CalculateTotal([k \in 1 .. Len(where) |-> Weight(condition, where[k])],
                                 1 .. Len(where))
      BY <1>3, NumberWeights, WeightOfFlat
    <2> QED BY <1>3, <2>1 DEF f
  <1>7. CalculateTotal(f, 1 .. maxOR) = CalculateTotal(g, 1 .. maxOR)
    BY <1>1, <1>4, TotalsAgree
  <1> QED BY <1>5, <1>6, <1>7, WeightOfCodes

\* HashSet adds the pairs that are listed.
LEMMA SetsAreHashed ==
    ASSUME NEW set \in [Cols -> Nat \X Nat]
    PROVE  /\ FlattenSeq(set) \in Seq(Nat)
           /\ Weight(number, FlattenSeq(set)) = HashSet(set)
  <1> DEFINE f == [j \in 1 .. maxCols |-> Weight(number, set[j])]
             g == [j \in Cols |-> set[j][1] + set[j][2]]
  <1>1. maxCols \in Nat /\ IsFiniteSet(Cols) /\ Cols = 1 .. maxCols
    BY SizesAreNaturals, FirstNumbersAreFinite DEF Cols
  <1>2. ASSUME NEW j \in Cols
        PROVE  /\ set[j][1] \in Nat /\ set[j][2] \in Nat /\ set[j] = <<set[j][1], set[j][2]>>
               /\ set[j] \in Seq(Nat)
    <2>1. PICK x \in Nat, y \in Nat : set[j] = <<x, y>>
      OBVIOUS
    <2> QED BY <2>1
  <1>3. set \in Seq(Seq(Nat)) /\ Len(set) = maxCols
    BY <1>1, <1>2
  <1>4. \A j \in Cols : f[j] \in Nat /\ g[j] = f[j]
    <2> SUFFICES ASSUME NEW j \in Cols
                 PROVE  /\ Weight(number, set[j]) = set[j][1] + set[j][2]
                        /\ set[j][1] + set[j][2] \in Nat
      BY <1>1
    <2> QED BY <1>2, WeightOfPair
  <1>5. HashSet(set) = CalculateTotal(g, Cols)
    BY DEF HashSet
  <1> HIDE DEF f, g
  <1>6. /\ FlattenSeq(set) \in Seq(Nat)
        /\ Weight(number, FlattenSeq(set)) = CalculateTotal(f, Cols)
    <2>1. /\ FlattenSeq(set) \in Seq(Nat)
          /\ Weight(number, FlattenSeq(set))
                = CalculateTotal([k \in 1 .. Len(set) |-> Weight(number, set[k])], 1 .. Len(set))
      <3>1. number \in [Nat -> Nat] /\ set \in Seq(Seq(Nat))
        BY <1>3, NumberWeights
      <3> QED BY <3>1, WeightOfFlat, Zenon
    <2> QED BY <1>1, <1>3, <2>1 DEF f
  <1>7. CalculateTotal(f, Cols) = CalculateTotal(g, Cols)
    BY <1>1, <1>4, TotalsAgree
  <1> QED BY <1>5, <1>6, <1>7

LEMMA WhereIsTyped ==
    ASSUME NEW q \in Update \cup Delete \cup Select, Parses(q)
    PROVE  whereConditions(q) \in [1 .. maxOR -> [Cols -> Place]]
  <1>1. q.where \in Where /\ q.type # "insert"
    BY DEF Update, Delete, Select
  <1> QED BY <1>1, WhereIsParsed, SerializedIsPlaces DEF Parses, whereConditions

LEMMA UpdateIsTyped ==
    ASSUME NEW q \in Update
    PROVE  /\ DOMAIN q.set \subseteq Cols
           /\ \A j \in DOMAIN q.set : q.set[j] \in Operand
           /\ parseUpdate(q) \in [Cols -> Nat \X Code]
  <1>1. PICK S \in SUBSET Cols : q.set \in [S -> Operand]
    BY DEF Update
  <1>2. \A j \in DOMAIN q.set : q.set[j] \in Operand /\ j \in Cols
    BY <1>1
  <1>3. \A j \in Cols : header[j] \in Nat
    BY HeaderIsDistinct
  <1>4. 0 \in Code /\ 0 \in Nat
    BY DEF Code
  <1>5. \A j \in Cols : (IF j \in DOMAIN q.set THEN <<header[j], codeOf(q.set[j])>>
                         ELSE <<0, 0>>) \in Nat \X Code
    BY <1>2, <1>3, <1>4, OperandsHaveCodes
  <1> QED BY <1>2, <1>5 DEF parseUpdate

LEMMA InsertIsTyped ==
    ASSUME NEW q \in Insert
    PROVE  /\ q.values \in Seq(Seq(Literal)) /\ Len(q.values) \in Nat \ {0}
           /\ parseInsert(q) \in [Cols -> Code]
  <1>1. q.values \in Seq(Seq(Literal)) /\ q.values # <<>>
    BY DEF Insert
  <1>2. Len(q.values) \in Nat \ {0}
    BY <1>1
  <1>3. q.values[1] \in Seq(Literal)
    BY <1>1, <1>2
  <1>4. \A j \in DOMAIN q.values[1] : q.values[1][j] \in Operand
    BY <1>3 DEF Operand
  <1>5. \A j \in Cols : (IF j \in DOMAIN q.values[1] THEN codeOf(q.values[1][j]) ELSE 0) \in Code
    <2>1. 0 \in Code
      BY DEF Code
    <2> QED BY <1>4, <2>1, OperandsHaveCodes
  <1> QED BY <1>1, <1>2, <1>5 DEF parseInsert

LEMMA CodesAreNumbers == Code \subseteq Nat
  BY ValuesHaveCodes DEF Code

\* The circuit hashes the arguments a client commits to.
LEMMA ArgumentsAgree ==
    ASSUME NEW q \in Writes, Parses(q)
    PROVE  argsHash(q) = genArgsCommitment(q)
  <1>1. CASE q \in Insert
    <2>1. q.type = "insert"
      BY <1>1 DEF Insert
    <2>2. DOMAIN parseInsert(q) = Cols
      BY DEF parseInsert
    <2> QED BY <2>1, <2>2, TotalOfSeq DEF argsHash, genArgsCommitment, HashValues
  <1>2. CASE q \in Update
    <2> DEFINE set == parseUpdate(q)
               where == whereConditions(q)
    <2>1. q.type = "update"
      BY <1>2 DEF Update
    <2>2. set \in [Cols -> Nat \X Nat]
      BY <1>2, UpdateIsTyped, CodesAreNumbers
    <2>3. where \in [1 .. maxOR -> [Cols -> Place]]
      BY <1>2, WhereIsTyped
    <2>4. argsHash(q) = HashSet(set) + HashWhere(where)
          /\ genArgsCommitment(q) = Total(FlattenSeq(set) \o Codes(FlattenSeq(where)))
      BY <2>1 DEF argsHash, genArgsCommitment
    <2> HIDE DEF set, where
    <2>5. FlattenSeq(set) \in Seq(Nat) /\ Weight(number, FlattenSeq(set)) = HashSet(set)
      BY <2>2, SetsAreHashed
    <2>6. /\ Codes(FlattenSeq(where)) \in Seq(Nat)
          /\ Weight(number, Codes(FlattenSeq(where))) = HashWhere(where)
      BY <2>3, ClausesAreHashed
    <2>7. Weight(number, FlattenSeq(set) \o Codes(FlattenSeq(where)))
            = HashSet(set) + HashWhere(where)
      BY <2>5, <2>6, NumberWeights, WeightOfTwo
    <2>8. FlattenSeq(set) \o Codes(FlattenSeq(where)) \in Seq(Nat)
      BY <2>5, <2>6
    <2> QED BY <2>4, <2>7, <2>8, TotalIsWeight
  <1>3. CASE q \in Delete
    <2>1. q.type = "delete"
      BY <1>3 DEF Delete
    <2>2. whereConditions(q) \in [1 .. maxOR -> [Cols -> Place]]
      BY <1>3, WhereIsTyped
    <2>3. argsHash(q) = HashWhere(whereConditions(q))
          /\ genArgsCommitment(q) = Total(Codes(FlattenSeq(whereConditions(q))))
      BY <2>1 DEF argsHash, genArgsCommitment
    <2> QED BY <2>2, <2>3, ClausesAreHashed, TotalIsWeight
  <1> QED BY <1>1, <1>2, <1>3, QueriesAreTyped

-----------------------------------------------------------------------------
\* Types of tables.

Matrix(I) == [I -> [Cols -> Code]]

LEMMA IndicesAreFinite ==
    /\ maxRows \in Nat \ {0} /\ maxCols \in Nat \ {0} /\ maxOR \in Nat \ {0}
    /\ IsFiniteSet(Cols) /\ IsFiniteSet(Rows) /\ IsFiniteSet(1 .. maxRows + 1)
    /\ header \in [Cols -> Nat]
  BY SizesAreNaturals, HeaderIsDistinct, FirstNumbersAreFinite DEF Cols, Rows

RowTotals(table) == [i \in DOMAIN table |-> CalculateTotal(table[i], Cols)]

LEMMA RowTotalsAreNumbers ==
    ASSUME NEW I, NEW table \in Matrix(I), NEW i \in I
    PROVE  RowTotals(table)[i] \in Nat /\ RowTotals(table)[i] = CalculateTotal(table[i], Cols)
  <1>1. table[i] \in [Cols -> Code]
    BY DEF Matrix
  <1>2. \A j \in Cols : table[i][j] \in Nat
    BY <1>1, CodesAreNumbers
  <1>3. CalculateTotal(table[i], Cols) \in Nat
    BY <1>2, IndicesAreFinite, TotalIsNatural
  <1> QED BY <1>3 DEF RowTotals, Matrix

LEMMA HashOfMatrix ==
    ASSUME NEW I, NEW table \in Matrix(I)
    PROVE  HashTable(table) = CalculateTotal(header, Cols) + CalculateTotal(RowTotals(table), I)
  BY DEF HashTable, RowTotals, Matrix

LEMMA HeaderTotal == CalculateTotal(header, Cols) \in Nat
  BY IndicesAreFinite, TotalIsNatural

\* The commitment of a matrix is a number.
LEMMA HashIsNatural ==
    ASSUME NEW I, IsFiniteSet(I), NEW table \in Matrix(I)
    PROVE  HashTable(table) \in Nat
  <1>1. \A i \in I : RowTotals(table)[i] \in Nat
    BY RowTotalsAreNumbers
  <1>2. CalculateTotal(RowTotals(table), I) \in Nat
    BY <1>1, TotalIsNatural
  <1> QED BY <1>2, HeaderTotal, HashOfMatrix

\* Rows that can be encoded make a matrix of codes.
LEMMA FormatIsMatrix ==
    ASSUME NEW view, \A i \in DOMAIN view : view[i] \in [DOMAIN view[i] -> Value]
    PROVE  formatForCircuit(view) \in Matrix(Rows)
  <1>1. \A i \in Rows, j \in Cols :
            (IF i \in DOMAIN view /\ j \in DOMAIN view[i] THEN encodeSqlValue[view[i][j]] ELSE 0)
                \in Code
    <2>1. \A i \in DOMAIN view : \A j \in DOMAIN view[i] : view[i][j] \in Value
      OBVIOUS
    <2> QED BY <2>1 DEF Code
  <1> QED BY <1>1 DEF formatForCircuit, Matrix

LEMMA InsertIsMatrix ==
    ASSUME NEW table \in Matrix(Rows), NEW values \in [Cols -> Code]
    PROVE  INSERT(table, values) \in Matrix(1 .. maxRows + 1)
  BY DEF INSERT, Matrix

LEMMA UpdateIsMatrix ==
    ASSUME NEW table \in Matrix(Rows), NEW set \in [Cols -> Nat \X Code], NEW where
    PROVE  UPDATE(table, set, where) \in Matrix(Rows)
  <1>1. \A j \in Cols : set[j][2] \in Code
    OBVIOUS
  <1>2. \A i \in Rows, j \in Cols : table[i][j] \in Code
    BY DEF Matrix
  <1> QED BY <1>1, <1>2 DEF UPDATE, Matrix

LEMMA DeleteIsMatrix ==
    ASSUME NEW table \in Matrix(Rows), NEW where
    PROVE  DELETE(table, where) \in Matrix(Rows)
  <1>1. \A i \in Rows, j \in Cols : table[i][j] \in Code
    BY DEF Matrix
  <1>2. 0 \in Code
    BY DEF Code
  <1> QED BY <1>1, <1>2 DEF DELETE, Matrix

LEMMA ReadableRows ==
    ASSUME TypeOK, Readable(rows)
    PROVE  /\ \A i \in DOMAIN rows : rows[i] \in [Named -> Value]
           /\ Table \in Matrix(Rows)
  <1>1. ASSUME NEW i \in DOMAIN rows
        PROVE  rows[i] \in [Named -> Value]
    <2>1. rows[i] \in [Named -> Value \cup {NULL}]
      BY DEF TypeOK
    <2>2. \A j \in Named : rows[i][j] # NULL
      BY <2>1 DEF Readable
    <2> QED BY <2>1, <2>2
  <1>2. Table \in Matrix(Rows)
    BY <1>1, FormatIsMatrix DEF Table
  <1> QED BY <1>1, <1>2

LEMMA InitType == Init => TypeOK
  <1> SUFFICES ASSUME Init PROVE TypeOK
    OBVIOUS
  <1>1. nextId \in 1 .. MaxId + 1
    BY IdsAreBounded DEF Init
  <1>2. DOMAIN rows = {}
    BY DEF Init
  <1>3. Table \in Matrix(Rows)
    BY <1>2, FormatIsMatrix DEF Table
  <1>4. tableCommit \in Nat
    BY <1>3, IndicesAreFinite, HashIsNatural DEF Init
  <1> QED BY <1>1, <1>2, <1>3, <1>4 DEF Init, TypeOK, Matrix

\* Each write leaves the types when its rows and its matrix have them.
LEMMA AnswerType ==
    ASSUME TypeOK, Answer, NEW I \in {Rows, 1 .. maxRows + 1}, modified' \in Matrix(I)
    PROVE  tableCommit' \in Nat /\ answer' \in {"none", "proved", "failed"}
           /\ DOMAIN modified' \in {Rows, 1 .. maxRows + 1}
           /\ \A i \in DOMAIN modified' : modified'[i] \in [Cols -> Code]
  <1>1. HashTable(modified') \in Nat
    BY IndicesAreFinite, HashIsNatural
  <1>2. tableCommit' \in Nat /\ answer' \in {"none", "proved", "failed"}
    BY <1>1 DEF Answer, TypeOK
  <1>3. DOMAIN modified' = I /\ \A i \in I : modified'[i] \in [Cols -> Code]
    BY DEF Matrix
  <1> QED BY <1>2, <1>3

LEMMA RowIsTyped ==
    ASSUME NEW q \in Insert, NEW k \in 1 .. Len(q.values)
    PROVE  RowOf(q, q.values[k]) \in [Named -> Value \cup {NULL}]
  <1> DEFINE list == q.values[k]
  <1>1. /\ list \in Seq(Literal) /\ Len(list) = Len(q.columns) /\ q.columns \in Seq(Named)
    BY DEF Insert
  <1>2. ASSUME NEW i \in DOMAIN q.columns
        PROVE  list[i].value \in Value
    <2>1. i \in 1 .. Len(list)
      BY <1>1
    <2>2. list[i] \in Literal
      BY <1>1, <2>1
    <2> QED BY <2>2 DEF Literal
  <1> HIDE DEF list
  <1>3. ASSUME NEW j \in Named
        PROVE  (IF \E i \in DOMAIN q.columns : q.columns[i] = j
                THEN LET i == CHOOSE i \in DOMAIN q.columns : q.columns[i] = j
                     IN  affinity[j][list[i].value]
                ELSE NULL) \in Value \cup {NULL}
    <2>1. CASE \E i \in DOMAIN q.columns : q.columns[i] = j
      <3> DEFINE i == CHOOSE i \in DOMAIN q.columns : q.columns[i] = j
      <3>1. i \in DOMAIN q.columns
        BY <2>1
      <3>2. affinity[j][list[i].value] \in Value
        BY <3>1, <1>2, ColumnsStoreValues
      <3> QED BY <2>1, <3>2
    <2>2. CASE ~ \E i \in DOMAIN q.columns : q.columns[i] = j
      BY <2>2
    <2> QED BY <2>1, <2>2
  <1> QED BY <1>3 DEF RowOf, list

LEMMA ValuesAreEvaluated ==
    ASSUME NEW o \in Operand, NEW j \in Named, NEW row \in [Named -> Value \cup {NULL}]
    PROVE  Evaluate(o, j, row) \in Value \cup {NULL}
  <1>1. CASE o \in Literal
    <2>1. "value" \in DOMAIN o /\ o.value \in Value
      BY <1>1 DEF Literal
    <2> QED BY <2>1, ColumnsStoreValues DEF Evaluate
  <1>2. CASE o \in [column : Named]
    <2>1. "value" \notin DOMAIN o /\ o.column \in Named
      BY <1>2
    <2> QED BY <2>1 DEF Evaluate
  <1> QED BY <1>1, <1>2 DEF Operand

LEMMA InsertType ==
    ASSUME TypeOK, NEW q \in Writes, execInsert(q)
    PROVE  TypeOK'
  <1>1. q \in Insert
    BY QueriesAreTyped DEF Update, Delete, execInsert
  <1> DEFINE n == Len(q.values)
  <1>2. n \in Nat \ {0} /\ parseInsert(q) \in [Cols -> Code]
    BY <1>1, InsertIsTyped
  <1>3. Table \in Matrix(Rows)
    BY ReadableRows DEF execInsert, Accepted, Prepared
  <1>4. modified' \in Matrix(1 .. maxRows + 1)
    BY <1>2, <1>3, InsertIsMatrix DEF execInsert
  <1>5. nextId \in Nat \ {0} /\ nextId' = nextId + n /\ nextId + n <= MaxId + 1
    BY IdsAreBounded DEF TypeOK, execInsert
  <1>6. nextId' \in 1 .. MaxId + 1
    BY <1>2, <1>5, IdsAreBounded
  <1>7. DOMAIN rows \subseteq 1 .. nextId - 1
    BY DEF TypeOK
  <1>8. /\ DOMAIN rows' = DOMAIN rows \cup (nextId .. nextId + n - 1)
        /\ \A i \in DOMAIN rows' :
            rows'[i] = IF i >= nextId THEN RowOf(q, q.values[i - nextId + 1]) ELSE rows[i]
    BY DEF execInsert
  <1>9. DOMAIN rows' \subseteq 1 .. nextId' - 1
    <2> HIDE DEF n
    <2>1. \A i \in DOMAIN rows : i \in 1 .. nextId + n - 1
      BY <1>2, <1>5, <1>7
    <2>2. \A i \in nextId .. nextId + n - 1 : i \in 1 .. nextId + n - 1
      BY <1>2, <1>5
    <2>3. nextId' - 1 = nextId + n - 1
      BY <1>2, <1>5
    <2>4. \A i \in DOMAIN rows' : i \in 1 .. nextId + n - 1
      BY <1>8, <2>1, <2>2
    <2> QED BY <2>3, <2>4
  <1>10. ASSUME NEW i \in DOMAIN rows'
         PROVE  rows'[i] \in [Named -> Value \cup {NULL}]
    <2>1. CASE i >= nextId
      <3>1. i \in nextId .. nextId + n - 1
        BY <1>5, <1>7, <1>8, <2>1
      <3>2. i - nextId + 1 \in 1 .. n
        <4> HIDE DEF n
        <4> QED BY <3>1, <1>2, <1>5
      <3> QED BY <3>2, <1>1, <1>8, <2>1, RowIsTyped
    <2>2. CASE ~(i >= nextId)
      <3>1. i \in DOMAIN rows
        BY <1>5, <1>8, <2>2
      <3> QED BY <3>1, <1>8, <2>2 DEF TypeOK
    <2> QED BY <2>1, <2>2
  <1>11. Answer
    BY DEF execInsert
  <1> QED BY <1>4, <1>6, <1>9, <1>10, <1>11, AnswerType DEF TypeOK

LEMMA UpdateType ==
    ASSUME TypeOK, NEW q \in Writes, execUpdate(q)
    PROVE  TypeOK'
  <1>1. q \in Update
    BY QueriesAreTyped DEF Insert, Delete, execUpdate
  <1>2. Table \in Matrix(Rows)
    BY ReadableRows DEF execUpdate, Accepted, Prepared
  <1>3. modified' \in Matrix(Rows)
    BY <1>1, <1>2, UpdateIsTyped, UpdateIsMatrix DEF execUpdate
  <1>4. DOMAIN rows' = DOMAIN rows /\ nextId' = nextId
    BY DEF execUpdate
  <1>5. ASSUME NEW i \in DOMAIN rows
        PROVE  rows'[i] \in [Named -> Value \cup {NULL}]
    <2>1. rows[i] \in [Named -> Value \cup {NULL}]
      BY DEF TypeOK
    <2>2. \A j \in Named : j \in DOMAIN q.set => q.set[j] \in Operand
      BY <1>1, UpdateIsTyped
    <2>3. \A j \in Named : (IF i \in Matching(q.where) /\ j \in DOMAIN q.set
                            THEN Evaluate(q.set[j], j, rows[i]) ELSE rows[i][j])
                                \in Value \cup {NULL}
      BY <2>1, <2>2, ValuesAreEvaluated
    <2> QED BY <2>3 DEF execUpdate
  <1>6. Answer
    BY DEF execUpdate
  <1> QED BY <1>3, <1>4, <1>5, <1>6, AnswerType DEF TypeOK

LEMMA DeleteType ==
    ASSUME TypeOK, NEW q \in Writes, execDelete(q)
    PROVE  TypeOK'
  <1>1. Table \in Matrix(Rows)
    BY ReadableRows DEF execDelete, Accepted, Prepared
  <1>2. modified' \in Matrix(Rows)
    BY <1>1, DeleteIsMatrix DEF execDelete
  <1>3. /\ DOMAIN rows' = DOMAIN rows \ Matching(q.where) /\ nextId' = nextId
        /\ \A i \in DOMAIN rows' : rows'[i] = rows[i]
    BY DEF execDelete
  <1>4. Answer
    BY DEF execDelete
  <1> QED BY <1>2, <1>3, <1>4, AnswerType DEF TypeOK

\* A table in SQLite has rows of its columns with ids below the next one, and
\* the circuits compute matrices of codes, whatever the queries are: no circuit
\* takes a column, an opcode or a missing value for a code.
THEOREM TypeCorrect == Spec => []TypeOK
  <1>1. TypeOK /\ [Next]_vars => TypeOK'
    <2> SUFFICES ASSUME TypeOK, [Next]_vars PROVE TypeOK'
      OBVIOUS
    <2>1. ASSUME NEW q \in Writes, execFails(q)
          PROVE  TypeOK'
      BY <2>1 DEF execFails, TypeOK
    <2>2. CASE UNCHANGED vars
      BY <2>2 DEF vars, TypeOK
    <2> QED BY <2>1, <2>2, InsertType, UpdateType, DeleteType DEF Next
  <1> QED BY <1>1, InitType, PTL DEF Spec

-----------------------------------------------------------------------------
\* What a clause means to SQLite and to a circuit.

HoldStep(c, f, row) ==
    \/ c.operator = "OR" /\ (f[c.left] \/ f[c.right])
    \/ c.operator = "AND" /\ f[c.left] /\ f[c.right]
    \/ /\ c.operator \notin {"OR", "AND"}
       /\ Compare(c.operator, row[c.column], Evaluate(c.right, c.column, row))
HeldBy(row) == CHOOSE f : f = [c \in Clause |-> HoldStep(c, f, row)]

LEMMA HoldsIsHeld == \A w, row : Holds(w, row) <=> w = NoWhere \/ HeldBy(row)[w]
  BY DEF Holds, HeldBy, HoldStep

\* The evaluation of a clause is defined for every tree.
LEMMA HeldWorks ==
    ASSUME NEW row
    PROVE  /\ HeldBy(row) = [c \in Clause |-> HoldStep(c, HeldBy(row), row)]
           /\ \A c \in Clause : HeldBy(row)[c] \in BOOLEAN
  <1> DEFINE step == [c \in Clause |-> [f \in [Clause -> BOOLEAN] |-> HoldStep(c, f, row)]]
  <1>1. size \in [Clause -> Nat] /\ BOOLEAN # {}
    BY ClausesAreTrees
  <1>2. \A c \in Clause : \A f : HoldStep(c, f, row) \in BOOLEAN
    BY DEF HoldStep
  <1>3. ASSUME NEW c \in Clause, NEW f, NEW g,
               \A d \in Clause : size[d] < size[c] => f[d] = g[d]
        PROVE  HoldStep(c, f, row) = HoldStep(c, g, row)
    <2>1. CASE IsJoin(c)
      <3>1. f[c.left] = g[c.left] /\ f[c.right] = g[c.right]
        BY <1>3, <2>1, PartsAreSmaller
      <3> QED BY <3>1, <2>1 DEF HoldStep, IsJoin
    <2>2. CASE ~IsJoin(c)
      BY <2>2 DEF HoldStep, IsJoin
    <2> QED BY <2>1, <2>2
  <1>4. Determined(Clause, BOOLEAN, size, step)
    <2>1. step \in [Clause -> [[Clause -> BOOLEAN] -> BOOLEAN]]
      BY <1>2
    <2>2. ASSUME NEW c \in Clause, NEW f \in [Clause -> BOOLEAN], NEW g \in [Clause -> BOOLEAN],
                 \A d \in Clause : size[d] < size[c] => f[d] = g[d]
          PROVE  step[c][f] = step[c][g]
      BY <1>3, <2>2
    <2> HIDE DEF step
    <2> QED BY <2>1, <2>2 DEF Determined
  <1>5. PICK F \in [Clause -> BOOLEAN] : F = [c \in Clause |-> step[c][F]]
    <2> HIDE DEF step
    <2> QED BY <1>1, <1>4, RecursionExists
  <1>6. F = [c \in Clause |-> HoldStep(c, F, row)]
    <2>1. \A c \in Clause : step[c][F] = HoldStep(c, F, row)
      OBVIOUS
    <2> HIDE DEF step
    <2> QED BY <1>5, <2>1
  <1>7. HeldBy(row) = [c \in Clause |-> HoldStep(c, HeldBy(row), row)]
    BY <1>6 DEF HeldBy
  <1>8. \A c \in Clause : HeldBy(row)[c] = HoldStep(c, HeldBy(row), row)
    BY <1>7
  <1> QED BY <1>2, <1>7, <1>8

-----------------------------------------------------------------------------
ConditionHolds(c, cells) ==
    \E j \in Named : header[j] = c.left /\ IsFiltered(cells[j], c.right, c.opcode)
AllHold(and, cells) == \A i \in DOMAIN and : ConditionHolds(and[i], cells)
SomeHold(ors, cells) == \E k \in DOMAIN ors : AllHold(ors[k], cells)

\* A row as the circuits get it.
Encoded(row) == [j \in Cols |-> IF j \in Named THEN encodeSqlValue[row[j]] ELSE 0]

LEMMA SomeOfTwo ==
    ASSUME NEW a \in Seq(And), NEW b \in Seq(And), NEW cells
    PROVE  SomeHold(a \o b, cells) <=> SomeHold(a, cells) \/ SomeHold(b, cells)
  <1>1. /\ DOMAIN (a \o b) = 1 .. Len(a) + Len(b)
        /\ DOMAIN a = 1 .. Len(a) /\ DOMAIN b = 1 .. Len(b)
        /\ Len(a) \in Nat /\ Len(b) \in Nat
    OBVIOUS
  <1>2. \A k \in 1 .. Len(a) : k \in 1 .. Len(a) + Len(b) /\ (a \o b)[k] = a[k]
    BY <1>1
  <1>3. \A k \in 1 .. Len(b) : Len(a) + k \in 1 .. Len(a) + Len(b) /\ (a \o b)[Len(a) + k] = b[k]
    BY <1>1
  <1>4. \A k \in 1 .. Len(a) + Len(b) :
            k \in 1 .. Len(a) \/ \E i \in 1 .. Len(b) : k = Len(a) + i
    <2> TAKE k \in 1 .. Len(a) + Len(b)
    <2>1. CASE k > Len(a)
      <3>1. k - Len(a) \in 1 .. Len(b) /\ k = Len(a) + (k - Len(a))
        BY <1>1, <2>1
      <3> QED BY <3>1
    <2>2. CASE ~(k > Len(a))
      BY <1>1, <2>2
    <2> QED BY <2>1, <2>2
  <1> DEFINE s == a \o b
  <1> HIDE DEF s
  <1>5. (\E k \in DOMAIN s : AllHold(s[k], cells))
            <=> (\E k \in DOMAIN a : AllHold(a[k], cells))
                \/ (\E k \in DOMAIN b : AllHold(b[k], cells))
    <2>1. DOMAIN s = 1 .. Len(a) + Len(b)
      BY <1>1 DEF s
    <2>2. \A k \in 1 .. Len(a) : s[k] = a[k]
      BY <1>2 DEF s
    <2>3. \A k \in 1 .. Len(b) : s[Len(a) + k] = b[k]
      BY <1>3 DEF s
    <2>4. ASSUME NEW k \in DOMAIN s, AllHold(s[k], cells)
          PROVE  (\E i \in DOMAIN a : AllHold(a[i], cells))
                    \/ (\E i \in DOMAIN b : AllHold(b[i], cells))
      <3>1. CASE k \in 1 .. Len(a)
        BY <1>1, <2>2, <2>4, <3>1
      <3>2. CASE k \notin 1 .. Len(a)
        <4>1. PICK i \in 1 .. Len(b) : k = Len(a) + i
          BY <1>4, <2>1, <3>2
        <4>2. s[k] = b[i]
          BY <2>3, <4>1
        <4> QED BY <1>1, <2>4, <4>2
      <3> QED BY <3>1, <3>2
    <2>5. ASSUME NEW k \in DOMAIN a, AllHold(a[k], cells)
          PROVE  \E i \in DOMAIN s : AllHold(s[i], cells)
      BY <1>1, <1>2, <2>1, <2>2, <2>5
    <2>6. ASSUME NEW k \in DOMAIN b, AllHold(b[k], cells)
          PROVE  \E i \in DOMAIN s : AllHold(s[i], cells)
      BY <1>1, <1>3, <2>1, <2>3, <2>6
    <2> QED BY <2>4, <2>5, <2>6
  <1> QED BY <1>5 DEF SomeHold, s

LEMMA AllOfTwo ==
    ASSUME NEW a \in And, NEW b \in And, NEW cells
    PROVE  AllHold(a \o b, cells) <=> AllHold(a, cells) /\ AllHold(b, cells)
  <1>1. /\ DOMAIN (a \o b) = 1 .. Len(a) + Len(b)
        /\ DOMAIN a = 1 .. Len(a) /\ DOMAIN b = 1 .. Len(b)
        /\ Len(a) \in Nat /\ Len(b) \in Nat
    BY DEF And
  <1>2. \A k \in 1 .. Len(a) : k \in 1 .. Len(a) + Len(b) /\ (a \o b)[k] = a[k]
    BY <1>1 DEF And
  <1>3. \A k \in 1 .. Len(b) : Len(a) + k \in 1 .. Len(a) + Len(b) /\ (a \o b)[Len(a) + k] = b[k]
    BY <1>1 DEF And
  <1>4. \A k \in 1 .. Len(a) + Len(b) :
            k \in 1 .. Len(a) \/ \E i \in 1 .. Len(b) : k = Len(a) + i
    <2> TAKE k \in 1 .. Len(a) + Len(b)
    <2>1. CASE k > Len(a)
      <3>1. k - Len(a) \in 1 .. Len(b) /\ k = Len(a) + (k - Len(a))
        BY <1>1, <2>1
      <3> QED BY <3>1
    <2>2. CASE ~(k > Len(a))
      BY <1>1, <2>2
    <2> QED BY <2>1, <2>2
  <1> DEFINE s == a \o b
  <1> HIDE DEF s
  <1>5. (\A k \in DOMAIN s : ConditionHolds(s[k], cells))
            <=> (\A k \in DOMAIN a : ConditionHolds(a[k], cells))
                /\ (\A k \in DOMAIN b : ConditionHolds(b[k], cells))
    <2>1. DOMAIN s = 1 .. Len(a) + Len(b)
      BY <1>1 DEF s
    <2>2. \A k \in 1 .. Len(a) : s[k] = a[k]
      BY <1>2 DEF s
    <2>3. \A k \in 1 .. Len(b) : s[Len(a) + k] = b[k]
      BY <1>3 DEF s
    <2>4. ASSUME NEW k \in DOMAIN s,
                 \A i \in DOMAIN a : ConditionHolds(a[i], cells),
                 \A i \in DOMAIN b : ConditionHolds(b[i], cells)
          PROVE  ConditionHolds(s[k], cells)
      <3>1. CASE k \in 1 .. Len(a)
        BY <1>1, <2>2, <2>4, <3>1
      <3>2. CASE k \notin 1 .. Len(a)
        <4>1. PICK i \in 1 .. Len(b) : k = Len(a) + i
          BY <1>4, <2>1, <3>2
        <4>2. s[k] = b[i]
          BY <2>3, <4>1
        <4> QED BY <1>1, <2>4, <4>1, <4>2
      <3> QED BY <3>1, <3>2
    <2>5. ASSUME \A i \in DOMAIN s : ConditionHolds(s[i], cells), NEW k \in DOMAIN a
          PROVE  ConditionHolds(a[k], cells)
      BY <1>1, <1>2, <2>1, <2>2, <2>5
    <2>6. ASSUME \A i \in DOMAIN s : ConditionHolds(s[i], cells), NEW k \in DOMAIN b
          PROVE  ConditionHolds(b[k], cells)
      BY <1>1, <1>3, <2>1, <2>3, <2>6
    <2> QED BY <2>4, <2>5, <2>6
  <1> QED BY <1>5 DEF AllHold, s

LEMMA SomeOfOne ==
    ASSUME NEW ors \in Seq(And), Len(ors) = 1, NEW cells
    PROVE  SomeHold(ors, cells) <=> AllHold(ors[1], cells)
  BY DEF SomeHold

\* A single comparison.
LEMMA ComparisonAgrees ==
    ASSUME ClausesCompareValues, AffinityKeepsCodes, NEW row \in [Named -> Value],
           NEW c \in Clause, ~IsJoin(c), Compared(c).class # "throws"
    PROVE  HoldStep(c, HeldBy(row), row) <=> SomeHold(Compared(c).ors, Encoded(row))
  <1> DEFINE k == [left   |-> header[c.column],
                   opcode |-> ConditionType[c.operator],
                   right  |-> codeOf(c.right)]
             j == c.column
             v == c.right.value
  <1>1. /\ c.operator \in DOMAIN ConditionType /\ j \in Named
        /\ Compared(c).ors = <<<<k>>>>
    BY DEF Compared, Throws, Result
  <1>2. c.operator \in {"=", "!="}
    BY <1>1 DEF ClausesCompareValues, ConditionType
  <1>3. "value" \in DOMAIN c.right /\ v \in Value /\ codeOf(c.right) = encodeSqlValue[v]
    BY DEF ClausesCompareValues, Literal, codeOf
  <1>4. Evaluate(c.right, j, row) = affinity[j][v]
    BY <1>3 DEF Evaluate
  <1>5. /\ affinity[j][v] \in Value
        /\ encodeSqlValue[affinity[j][v]] = encodeSqlValue[v]
    BY <1>1, <1>3, ColumnsStoreValues DEF AffinityKeepsCodes
  <1>6. row[j] \in Value /\ Encoded(row)[j] = encodeSqlValue[row[j]]
    BY <1>1, NamedHasCode DEF Encoded
  <1>7. HoldStep(c, HeldBy(row), row) <=> Compare(c.operator, row[j], affinity[j][v])
    BY <1>4 DEF HoldStep, IsJoin
  <1>8. Compare(c.operator, row[j], affinity[j][v])
            <=> IF c.operator = "=" THEN encodeSqlValue[row[j]] = encodeSqlValue[v]
                ELSE encodeSqlValue[row[j]] # encodeSqlValue[v]
    BY <1>2, <1>5, <1>6, NullIsNoValue DEF Compare
  <1>9. ConditionType["="] = Eq /\ ConditionType["!="] = Ne
    BY DEF ConditionType
  <1>10. IsFiltered(Encoded(row)[j], k.right, k.opcode)
            <=> IF c.operator = "=" THEN encodeSqlValue[row[j]] = encodeSqlValue[v]
                ELSE encodeSqlValue[row[j]] # encodeSqlValue[v]
    BY <1>2, <1>3, <1>6, <1>9 DEF IsFiltered, Eq, Ne, Lt, Gt, Lte, Gte
  <1>11. ConditionHolds(k, Encoded(row)) <=> IsFiltered(Encoded(row)[j], k.right, k.opcode)
    <2>1. k.left = header[j]
      OBVIOUS
    <2> HIDE DEF k, j
    <2> QED BY <1>1, <2>1, HeaderIsDistinct DEF ConditionHolds
  <1> HIDE DEF k
  <1>12. SomeHold(<<<<k>>>>, Encoded(row)) <=> ConditionHolds(k, Encoded(row))
    BY DEF SomeHold, AllHold
  <1> QED BY <1>1, <1>7, <1>8, <1>10, <1>11, <1>12

\* The conditions a clause is parsed into say of a row what SQLite evaluates.
LEMMA ParseAgrees ==
    ASSUME ClausesCompareValues, AffinityKeepsCodes, NEW row \in [Named -> Value],
           NEW w \in Clause, parseCondition[w].class # "throws"
    PROVE  HeldBy(row)[w] <=> SomeHold(parseCondition[w].ors, Encoded(row))
  <1> DEFINE Ok(c) == HeldBy(row)[c] <=> SomeHold(parseCondition[c].ors, Encoded(row))
             T == {c \in Clause : parseCondition[c].class # "throws" /\ ~Ok(c)}
  <1> SUFFICES ASSUME T # {} PROVE FALSE
    OBVIOUS
  <1>1. PICK c \in T : \A d \in Clause : size[d] < size[c] => d \notin T
    <2>1. T \in SUBSET Clause /\ size \in [Clause -> Nat]
      BY ClausesAreTrees
    <2> HIDE DEF T
    <2> QED BY <2>1, LeastRank
  <1>2. c \in Clause /\ parseCondition[c].class # "throws" /\ ~Ok(c)
    BY <1>1
  <1>3. parseCondition[c] = ParseStep(c, parseCondition)
    BY <1>2, ParseWorks
  <1>4. HeldBy(row)[c] = HoldStep(c, HeldBy(row), row)
    BY <1>2, HeldWorks
  <1> DEFINE l == parseCondition[c.left]
             r == parseCondition[c.right]
  <1>5. ASSUME IsJoin(c)
        PROVE  /\ l \in Parse /\ r \in Parse
               /\ l.class # "throws" => Ok(c.left)
               /\ r.class # "throws" => Ok(c.right)
    <2>1. /\ c.left \in Clause /\ c.left \notin T
          /\ c.right \in Clause /\ c.right \notin T
      BY <1>1, <1>2, <1>5, PartsAreSmaller
    <2>2. l \in Parse /\ r \in Parse
      BY <2>1, ParseWorks
    <2> QED BY <2>1, <2>2
  <1>6. CASE c.operator = "OR"
    <2>1. IsJoin(c)
      BY <1>6 DEF IsJoin
    <2>2. parseCondition[c] = JoinOf(c, l, r)
      BY <1>3, <2>1 DEF ParseStep
    <2> HIDE DEF l, r, Ok
    <2>3. /\ l.class # "throws" /\ r.class \in Few
          /\ parseCondition[c] = Result("WhereCondition", l.ors \o r.ors)
      BY <1>2, <1>6, <2>2 DEF JoinOf, Throws
    <2>4. l \in Parsed /\ r \in Parsed
      BY <1>5, <2>1, <2>3 DEF Parse, Throws, Few
    <2>5. r.class # "throws"
      BY <2>4, ClassesDiffer
    <2>6. l.ors \in Seq(And) /\ r.ors \in Seq(And)
      BY <2>4 DEF Parsed
    <2>7. HeldBy(row)[c] <=> HeldBy(row)[c.left] \/ HeldBy(row)[c.right]
      BY <1>4, <1>6 DEF HoldStep
    <2>8. Ok(c.left) /\ Ok(c.right)
      BY <1>5, <2>1, <2>3, <2>5
    <2>9. SomeHold(parseCondition[c].ors, Encoded(row))
            <=> SomeHold(l.ors, Encoded(row)) \/ SomeHold(r.ors, Encoded(row))
      BY <2>3, <2>6, SomeOfTwo DEF Result
    <2> QED BY <1>2, <2>7, <2>8, <2>9 DEF Ok, l, r
  <1>7. CASE c.operator = "AND"
    <2>1. IsJoin(c)
      BY <1>7 DEF IsJoin
    <2>2. parseCondition[c] = JoinOf(c, l, r)
      BY <1>3, <2>1 DEF ParseStep
    <2> HIDE DEF l, r, Ok
    <2>3. /\ l.class \in Few /\ r.class = "Condition"
          /\ parseCondition[c] = Result("ANDCondition", <<l.ors[1] \o r.ors[1]>>)
      BY <1>2, <1>7, <2>2 DEF JoinOf, Throws
    <2>4. l \in Parsed /\ r \in Parsed
      BY <1>5, <2>1, <2>3 DEF Parse, Throws, Few
    <2>5. /\ l.ors \in Seq(And) /\ Len(l.ors) = 1 /\ l.ors[1] \in And
          /\ r.ors \in Seq(And) /\ Len(r.ors) = 1 /\ r.ors[1] \in And
      BY <2>3, <2>4 DEF Parsed, Few
    <2>6. HeldBy(row)[c] <=> HeldBy(row)[c.left] /\ HeldBy(row)[c.right]
      BY <1>4, <1>7 DEF HoldStep
    <2>7. Ok(c.left) /\ Ok(c.right)
      BY <1>5, <2>1, <2>4, ClassesDiffer
    <2>8. SomeHold(<<l.ors[1] \o r.ors[1]>>, Encoded(row))
            <=> AllHold(l.ors[1], Encoded(row)) /\ AllHold(r.ors[1], Encoded(row))
      <3> DEFINE both == l.ors[1] \o r.ors[1]
      <3>1. AllHold(both, Encoded(row))
                <=> AllHold(l.ors[1], Encoded(row)) /\ AllHold(r.ors[1], Encoded(row))
        BY <2>5, AllOfTwo
      <3> HIDE DEF both
      <3>2. SomeHold(<<both>>, Encoded(row)) <=> AllHold(both, Encoded(row))
        BY DEF SomeHold
      <3> QED BY <3>1, <3>2 DEF both
    <2>9. /\ SomeHold(l.ors, Encoded(row)) <=> AllHold(l.ors[1], Encoded(row))
          /\ SomeHold(r.ors, Encoded(row)) <=> AllHold(r.ors[1], Encoded(row))
      BY <2>5, SomeOfOne
    <2>10. parseCondition[c].ors = <<l.ors[1] \o r.ors[1]>>
      <3>1. \A ors : Result("ANDCondition", ors).ors = ors
        BY DEF Result
      <3> QED BY <2>3, <3>1, Zenon
    <2> QED BY <1>2, <2>6, <2>7, <2>8, <2>9, <2>10 DEF Ok, l, r
  <1>8. CASE ~IsJoin(c)
    <2>1. parseCondition[c] = Compared(c)
      BY <1>3, <1>8 DEF ParseStep
    <2>2. HoldStep(c, HeldBy(row), row) <=> SomeHold(Compared(c).ors, Encoded(row))
      BY <1>2, <1>8, <2>1, ComparisonAgrees
    <2> QED BY <1>2, <1>4, <2>1, <2>2
  <1> QED BY <1>6, <1>7, <1>8 DEF IsJoin

-----------------------------------------------------------------------------
\* What is left of the conditions in the matrix of a clause.

LEMMA PlaceOfColumn ==
    ASSUME NEW ors \in Seq(And), OncePerColumn(ors), NEW k \in DOMAIN ors, NEW i \in DOMAIN ors[k],
           NEW j \in Cols, ors[k][i].left = header[j]
    PROVE  FirstAbout(ors[k], j) = ors[k][i]
  <1>1. {n \in DOMAIN ors[k] : ors[k][n].left = header[j]} = {i}
    BY DEF OncePerColumn
  <1>2. i \in Nat
    BY DEF And
  <1>3. Min({i}) = i
    <2>1. {i} \in SUBSET Nat /\ {i} # {}
      BY <1>2
    <2>2. Min({i}) \in {i}
      BY <2>1, SmallestIsIn
    <2> QED BY <2>2
  <1> QED BY <1>1, <1>3 DEF FirstAbout

LEMMA NoPlace ==
    ASSUME NEW and, NEW j, ~ \E i \in DOMAIN and : and[i].left = header[j]
    PROVE  FirstAbout(and, j) = NoCondition
  BY DEF FirstAbout

\* An AND holds of a row when all cells pass: those without a condition pass.
LEMMA AndIsFiltered ==
    ASSUME NEW ors \in Seq(And), OncePerColumn(ors), NEW k \in DOMAIN ors,
           NEW cells, \A j \in Cols \ Named : cells[j] = 0
    PROVE  (\A j \in Cols : equalCell(cells[j], FirstAbout(ors[k], j), j))
                <=> AllHold(ors[k], cells)
  <1>1. \A i \in DOMAIN ors[k] : ors[k][i] \in Condition
    BY DEF And
  <1>2. ASSUME NEW i \in DOMAIN ors[k], NEW j \in Named, ors[k][i].left = header[j]
        PROVE  equalCell(cells[j], FirstAbout(ors[k], j), j) <=> ConditionHolds(ors[k][i], cells)
    <2>1. FirstAbout(ors[k], j) = ors[k][i]
      BY <1>2, NamedHasCode, PlaceOfColumn
    <2>2. equalCell(cells[j], ors[k][i], j)
            <=> IsFiltered(cells[j], ors[k][i].right, ors[k][i].opcode)
      BY <1>2 DEF equalCell
    <2>3. ConditionHolds(ors[k][i], cells)
            <=> IsFiltered(cells[j], ors[k][i].right, ors[k][i].opcode)
      BY <1>2, HeaderIsDistinct DEF ConditionHolds
    <2> QED BY <2>1, <2>2, <2>3
  <1>3. ASSUME NEW j \in Cols, ~ \E i \in DOMAIN ors[k] : ors[k][i].left = header[j]
        PROVE  equalCell(cells[j], FirstAbout(ors[k], j), j)
    <2>1. FirstAbout(ors[k], j) = NoCondition
      BY <1>3, NoPlace
    <2>2. header[j] = 0 => cells[j] = 0
      BY DEF Named
    <2> QED BY <2>1, <2>2 DEF equalCell, NoCondition, IsFiltered, Eq
  <1>4. \A i \in DOMAIN ors[k] : \E j \in Named : ors[k][i].left = header[j]
    BY <1>1 DEF Condition
  <1>5. \A j \in Cols : (\E i \in DOMAIN ors[k] : ors[k][i].left = header[j]) => j \in Named
    <2>1. \A i \in DOMAIN ors[k] : ors[k][i].left # 0
      BY <1>4, NamedHasCode
    <2> QED BY <2>1 DEF Named
  <1>6. ASSUME AllHold(ors[k], cells), NEW j \in Cols
        PROVE  equalCell(cells[j], FirstAbout(ors[k], j), j)
    <2>1. CASE \E i \in DOMAIN ors[k] : ors[k][i].left = header[j]
      BY <1>2, <1>5, <1>6, <2>1 DEF AllHold
    <2> QED BY <2>1, <1>3
  <1>7. ASSUME \A j \in Cols : equalCell(cells[j], FirstAbout(ors[k], j), j)
        PROVE  AllHold(ors[k], cells)
    <2> SUFFICES ASSUME NEW i \in DOMAIN ors[k] PROVE ConditionHolds(ors[k][i], cells)
      BY DEF AllHold
    <2>1. PICK j \in Named : ors[k][i].left = header[j]
      BY <1>4
    <2>2. equalCell(cells[j], FirstAbout(ors[k], j), j)
      BY <1>7, NamedHasCode
    <2> QED BY <2>1, <2>2, <1>2
  <1> QED BY <1>6, <1>7

\* The circuit counts the ORs of the clause and not those that pad it.
LEMMA OrsAreCounted ==
    ASSUME NEW ors \in Seq(And), Len(ors) <= maxOR, NEW k \in 1 .. maxOR
    PROVE  skipORCond(serialize(ors), k) <=> k \in DOMAIN ors
  <1>1. /\ maxOR \in Nat /\ Len(ors) \in Nat /\ DOMAIN ors = 1 .. Len(ors)
        /\ k \in DOMAIN ors <=> k <= Len(ors)
    BY SizesAreNaturals
  <1>2. \A j \in Cols : serialize(ors)[k][j] = IF k <= Len(ors) THEN FirstAbout(ors[k], j)
                                               ELSE NoCondition
    BY DEF serialize
  <1>3. CASE k <= Len(ors)
    <2>1. ors[k] \in And
      BY <1>1, <1>3
    <2>2. 1 \in DOMAIN ors[k] /\ ors[k][1] \in Condition
      BY <2>1 DEF And
    <2>3. PICK j \in Named : ors[k][1].left = header[j]
      BY <2>2 DEF Condition
    <2> DEFINE about == {i \in DOMAIN ors[k] : ors[k][i].left = header[j]}
    <2>4. about \in SUBSET Nat /\ about # {}
      BY <2>1, <2>2, <2>3 DEF And
    <2>5. Min(about) \in about
      <3> HIDE DEF about
      <3> QED BY <2>4, SmallestIsIn
    <2>6. FirstAbout(ors[k], j) = ors[k][Min(about)]
      BY <2>4 DEF FirstAbout
    <2>7. FirstAbout(ors[k], j).left = header[j]
      BY <2>5, <2>6
    <2>8. j \in Cols /\ serialize(ors)[k][j].left # 0
      BY <1>2, <1>3, <2>7, NamedHasCode
    <2> QED BY <1>1, <1>3, <2>8 DEF skipORCond
  <1>4. CASE ~(k <= Len(ors))
    BY <1>1, <1>2, <1>4 DEF skipORCond, NoCondition
  <1> QED BY <1>3, <1>4

\* The matrix of a clause filters as its conditions say, when it has room for
\* them.
LEMMA ClauseIsFiltered ==
    ASSUME NEW ors \in Seq(And), Len(ors) <= maxOR, OncePerColumn(ors),
           NEW cells, \A j \in Cols \ Named : cells[j] = 0
    PROVE  /\ filterRow(cells, serialize(ors)) <=> SomeHold(ors, cells)
           /\ skipAll(serialize(ors)) <=> ors = <<>>
  <1>1. /\ maxOR \in Nat \ {0} /\ Len(ors) \in Nat /\ DOMAIN ors = 1 .. Len(ors)
        /\ DOMAIN serialize(ors) = 1 .. maxOR
    BY SizesAreNaturals DEF serialize
  <1>2. DOMAIN ors \subseteq 1 .. maxOR
    BY <1>1
  <1>3. ASSUME NEW k \in DOMAIN ors
        PROVE  (\A j \in Cols : equalCell(cells[j], serialize(ors)[k][j], j))
                    <=> AllHold(ors[k], cells)
    <2>1. k \in 1 .. maxOR /\ k <= Len(ors)
      BY <1>1, <1>2
    <2>2. \A j \in Cols : serialize(ors)[k][j] = FirstAbout(ors[k], j)
      BY <2>1 DEF serialize
    <2> QED BY <2>2, AndIsFiltered
  <1>4. filterRow(cells, serialize(ors)) <=> SomeHold(ors, cells)
    BY <1>1, <1>2, <1>3, OrsAreCounted DEF filterRow, SomeHold
  <1>5. skipAll(serialize(ors)) <=> DOMAIN ors = {}
    BY <1>1, <1>2, OrsAreCounted DEF skipAll
  <1>6. DOMAIN ors = {} <=> ors = <<>>
    <2>1. ors = <<>> => DOMAIN ors = {}
      OBVIOUS
    <2>2. DOMAIN ors = {} => Len(ors) = 0
      BY <1>1
    <2>3. Len(ors) = 0 => ors = <<>>
      OBVIOUS
    <2> QED BY <2>1, <2>2, <2>3
  <1> QED BY <1>4, <1>5, <1>6

-----------------------------------------------------------------------------
\* What queries do to rows that can be encoded, and what the circuits do to
\* their matrix.

Stored(r) == \A i \in DOMAIN r : r[i] \in [Named -> Value]
NoRow == [j \in Cols |-> 0]

LEMMA RowsAreEncoded ==
    ASSUME NEW r, Stored(r), NEW i \in Rows
    PROVE  formatForCircuit(r)[i] = IF i \in DOMAIN r THEN Encoded(r[i]) ELSE NoRow
  <1>1. formatForCircuit(r)[i] = [j \in Cols |->
            IF i \in DOMAIN r /\ j \in DOMAIN r[i] THEN encodeSqlValue[r[i][j]] ELSE 0]
    BY DEF formatForCircuit
  <1>2. CASE i \in DOMAIN r
    <2>1. DOMAIN r[i] = Named
      BY <1>2 DEF Stored
    <2> QED BY <1>1, <1>2, <2>1 DEF Encoded
  <1>3. CASE i \notin DOMAIN r
    BY <1>1, <1>3 DEF NoRow
  <1> QED BY <1>2, <1>3

\* The clauses the circuits can tell: those they have the conditions of, in
\* places enough.
Told(w) ==
    /\ w \in Where /\ parseWhere(w).class # "throws"
    /\ Len(parseWhere(w).ors) <= maxOR
    /\ OncePerColumn(parseWhere(w).ors)

\* The circuit selects a row exactly when SQLite does.
LEMMA WhereAgrees ==
    ASSUME ClausesCompareValues, AffinityKeepsCodes, NEW w, Told(w), NEW row \in [Named -> Value]
    PROVE  Holds(w, row) <=> \/ filterRow(Encoded(row), serialize(parseWhere(w).ors))
                             \/ skipAll(serialize(parseWhere(w).ors))
  <1> DEFINE ors == parseWhere(w).ors
  <1>1. ors \in Seq(And)
    BY WhereIsParsed DEF Told
  <1>2. \A j \in Cols \ Named : Encoded(row)[j] = 0
    BY DEF Encoded
  <1>3. /\ filterRow(Encoded(row), serialize(ors)) <=> SomeHold(ors, Encoded(row))
        /\ skipAll(serialize(ors)) <=> ors = <<>>
    BY <1>1, <1>2, ClauseIsFiltered DEF Told
  <1>4. CASE w = NoWhere
    <2>1. ors = <<>>
      BY <1>4 DEF parseWhere, Result
    <2> QED BY <1>3, <1>4, <2>1, HoldsIsHeld
  <1>5. CASE w # NoWhere
    <2>1. w \in Clause /\ parseWhere(w) = parseCondition[w]
      BY <1>5 DEF Told, Where, parseWhere
    <2>2. ors # <<>>
      BY <2>1, ParseWorks DEF Told, Parse, Throws, Parsed
    <2>3. HeldBy(row)[w] <=> SomeHold(ors, Encoded(row))
      BY <2>1, ParseAgrees DEF Told
    <2> QED BY <1>3, <1>5, <2>2, <2>3, HoldsIsHeld
  <1> QED BY <1>4, <1>5

LEMMA EveryRowIsMeant ==
    ASSUME NEW w, Told(w)
    PROVE  skipAll(serialize(parseWhere(w).ors)) <=> w = NoWhere
  <1> DEFINE ors == parseWhere(w).ors
  <1>1. ors \in Seq(And)
    BY WhereIsParsed DEF Told
  <1>2. skipAll(serialize(ors)) <=> ors = <<>>
    <2>1. \A j \in Cols \ Named : NoRow[j] = 0
      BY DEF NoRow
    <2> QED BY <1>1, <2>1, ClauseIsFiltered DEF Told
  <1>3. w = NoWhere => ors = <<>>
    BY DEF parseWhere, Result
  <1>4. ASSUME w # NoWhere PROVE ors # <<>>
    <2>1. w \in Clause /\ parseWhere(w) = parseCondition[w]
      BY <1>4 DEF Told, Where, parseWhere
    <2> QED BY <2>1, ParseWorks DEF Told, Parse, Throws, Parsed
  <1> QED BY <1>2, <1>3, <1>4

\* SELECT: the results are those the circuit computes.
LEMMA SelectAgrees ==
    ASSUME ClausesCompareValues, AffinityKeepsCodes, NEW w, Told(w), NEW fields \in SUBSET Cols,
           NEW r, Stored(r)
    PROVE  formatForCircuit([i \in {n \in DOMAIN r : Holds(w, r[n])} |->
                                [j \in fields \cap Named |-> r[i][j]]])
             = SELECT(formatForCircuit(r), fields, serialize(parseWhere(w).ors))
  <1> DEFINE where == serialize(parseWhere(w).ors)
             M == {n \in DOMAIN r : Holds(w, r[n])}
             view == [i \in M |-> [j \in fields \cap Named |-> r[i][j]]]
             table == formatForCircuit(r)
  <1>1. ASSUME NEW i \in Rows, NEW j \in Cols
        PROVE  (IF i \in DOMAIN view /\ j \in DOMAIN view[i]
                THEN encodeSqlValue[view[i][j]] ELSE 0)
                 = (IF (filterRow(table[i], where) \/ skipAll(where)) /\ j \in fields
                    THEN table[i][j] ELSE 0)
    <2>1. CASE i \in DOMAIN r
      <3>1. table[i] = Encoded(r[i])
        BY <2>1, RowsAreEncoded
      <3>2. i \in M <=> filterRow(table[i], where) \/ skipAll(where)
        BY <2>1, <3>1, WhereAgrees DEF Stored
      <3>3. i \in M => DOMAIN view[i] = fields \cap Named
        OBVIOUS
      <3>4. i \in M /\ j \in fields \cap Named => view[i][j] = r[i][j]
        OBVIOUS
      <3>5. table[i][j] = IF j \in Named THEN encodeSqlValue[r[i][j]] ELSE 0
        BY <3>1 DEF Encoded
      <3>6. DOMAIN view = M
        OBVIOUS
      <3> HIDE DEF where, M, view, table
      <3> QED BY <3>2, <3>3, <3>4, <3>5, <3>6
    <2>2. CASE i \notin DOMAIN r
      <3>1. table[i][j] = 0
        BY <2>2, RowsAreEncoded DEF NoRow
      <3>2. i \notin DOMAIN view
        BY <2>2
      <3> HIDE DEF where, M, view, table
      <3> QED BY <3>1, <3>2
    <2> QED BY <2>1, <2>2
  <1> HIDE DEF where, M, view, table
  <1>2. formatForCircuit(view) = SELECT(table, fields, where)
    BY <1>1 DEF formatForCircuit, SELECT
  <1> QED BY <1>2 DEF where, M, view, table

\* DELETE: the matrix without the rows that are selected.
LEMMA DeleteAgrees ==
    ASSUME ClausesCompareValues, AffinityKeepsCodes, NEW w, Told(w), NEW r, Stored(r)
    PROVE  DELETE(formatForCircuit(r), serialize(parseWhere(w).ors))
             = formatForCircuit([i \in DOMAIN r \ {n \in DOMAIN r : Holds(w, r[n])} |-> r[i]])
  <1> DEFINE where == serialize(parseWhere(w).ors)
             left == [i \in DOMAIN r \ {n \in DOMAIN r : Holds(w, r[n])} |-> r[i]]
             table == formatForCircuit(r)
  <1>1. \A i \in DOMAIN left : left[i] = r[i]
    OBVIOUS
  <1>2. \A i : i \in DOMAIN left <=> i \in DOMAIN r /\ ~Holds(w, r[i])
    OBVIOUS
  <1>3. Stored(left)
    <2> HIDE DEF left
    <2> QED BY <1>1, <1>2 DEF Stored
  <1>4. ASSUME NEW i \in Rows, NEW j \in Cols
        PROVE  (IF filterRow(table[i], where) \/ skipAll(where) THEN 0 ELSE table[i][j])
                 = formatForCircuit(left)[i][j]
    <2>1. CASE i \in DOMAIN r
      <3>1. table[i] = Encoded(r[i])
        BY <2>1, RowsAreEncoded
      <3>2. Holds(w, r[i]) <=> filterRow(table[i], where) \/ skipAll(where)
        BY <2>1, <3>1, WhereAgrees DEF Stored
      <3> HIDE DEF where, left, table
      <3>3. formatForCircuit(left)[i] = IF i \in DOMAIN left THEN Encoded(left[i]) ELSE NoRow
        BY <1>3, RowsAreEncoded
      <3> QED BY <1>1, <1>2, <2>1, <3>1, <3>2, <3>3 DEF NoRow
    <2>2. CASE i \notin DOMAIN r
      <3>1. table[i][j] = 0
        BY <2>2, RowsAreEncoded DEF NoRow
      <3> HIDE DEF where, left, table
      <3>2. formatForCircuit(left)[i][j] = 0
        BY <1>2, <1>3, <2>2, RowsAreEncoded DEF NoRow
      <3> QED BY <3>1, <3>2
    <2> QED BY <2>1, <2>2
  <1> HIDE DEF where, left, table
  <1>5. DELETE(table, where) = [i \in Rows |-> [j \in Cols |-> formatForCircuit(left)[i][j]]]
    BY <1>4 DEF DELETE
  <1>6. formatForCircuit(left) = [i \in Rows |-> [j \in Cols |-> formatForCircuit(left)[i][j]]]
    BY DEF formatForCircuit
  <1> QED BY <1>5, <1>6 DEF where, left, table

\* UPDATE: the values are literals, the clause is there and is not true of an
\* empty place of the matrix.
Replaces(q) ==
    /\ q \in Update /\ Parses(q) /\ Told(q.where)
    /\ \A j \in DOMAIN q.set : q.set[j] \in Literal
    /\ q.where # NoWhere
    /\ ~filterRow(NoRow, whereConditions(q))

\* UPDATE: the matrix with the cells that are set.
LEMMA UpdateAgrees ==
    ASSUME ClausesCompareValues, AffinityKeepsCodes, NEW q, Replaces(q), NEW r, Stored(r), NEW s,
           DOMAIN s = DOMAIN r,
           \A i \in DOMAIN r : s[i] = [j \in Named |->
                IF Holds(q.where, r[i]) /\ j \in DOMAIN q.set
                THEN Evaluate(q.set[j], j, r[i]) ELSE r[i][j]]
    PROVE  /\ Stored(s)
           /\ UPDATE(formatForCircuit(r), parseUpdate(q), whereConditions(q)) = formatForCircuit(s)
  <1> DEFINE where == whereConditions(q)
             set == parseUpdate(q)
             table == formatForCircuit(r)
  <1>1. DOMAIN q.set \subseteq Named
    BY DEF Replaces, Parses, Update
  <1>2. ASSUME NEW i \in DOMAIN r, NEW j \in DOMAIN q.set
        PROVE  /\ Evaluate(q.set[j], j, r[i]) \in Value
               /\ encodeSqlValue[Evaluate(q.set[j], j, r[i])] = codeOf(q.set[j])
    <2>1. j \in Named /\ "value" \in DOMAIN q.set[j] /\ q.set[j].value \in Value
      BY <1>1 DEF Replaces, Literal
    <2>2. /\ Evaluate(q.set[j], j, r[i]) = affinity[j][q.set[j].value]
          /\ codeOf(q.set[j]) = encodeSqlValue[q.set[j].value]
      BY <2>1 DEF Evaluate, codeOf
    <2> QED BY <2>1, <2>2, ColumnsStoreValues DEF AffinityKeepsCodes
  <1>3. Stored(s)
    <2> SUFFICES ASSUME NEW i \in DOMAIN r PROVE s[i] \in [Named -> Value]
      BY DEF Stored
    <2>1. \A j \in Named : r[i][j] \in Value
      BY DEF Stored
    <2>2. \A j \in Named : (IF Holds(q.where, r[i]) /\ j \in DOMAIN q.set
                            THEN Evaluate(q.set[j], j, r[i]) ELSE r[i][j]) \in Value
      BY <1>2, <2>1
    <2> QED BY <2>2
  <1>4. where = serialize(parseWhere(q.where).ors) /\ Told(q.where) /\ ~skipAll(where)
    BY EveryRowIsMeant DEF Replaces, whereConditions
  <1>5. ASSUME NEW i \in Rows, NEW j \in Cols
        PROVE  (IF filterRow(table[i], where) /\ header[j] = set[j][1]
                THEN set[j][2] ELSE table[i][j]) = formatForCircuit(s)[i][j]
    <2>1. set[j] = IF j \in DOMAIN q.set THEN <<header[j], codeOf(q.set[j])>> ELSE <<0, 0>>
      BY DEF parseUpdate
    <2>2. CASE i \in DOMAIN r
      <3>1. table[i] = Encoded(r[i]) /\ formatForCircuit(s)[i] = Encoded(s[i])
        BY <1>3, <2>2, RowsAreEncoded
      <3>2. Holds(q.where, r[i]) <=> filterRow(table[i], where)
        BY <1>4, <2>2, <3>1, WhereAgrees DEF Stored
      <3>3. s[i] = [n \in Named |-> IF Holds(q.where, r[i]) /\ n \in DOMAIN q.set
                                    THEN Evaluate(q.set[n], n, r[i]) ELSE r[i][n]]
        BY <2>2
      <3> HIDE DEF where, set, table
      <3>4. CASE j \in DOMAIN q.set
        <4>1. header[j] = set[j][1] /\ set[j][2] = codeOf(q.set[j]) /\ j \in Named
          BY <1>1, <2>1, <3>4
        <4>2. s[i][j] = IF Holds(q.where, r[i]) THEN Evaluate(q.set[j], j, r[i]) ELSE r[i][j]
          BY <3>3, <3>4, <4>1
        <4>3. /\ table[i][j] = encodeSqlValue[r[i][j]]
              /\ formatForCircuit(s)[i][j] = encodeSqlValue[s[i][j]]
          BY <3>1, <4>1 DEF Encoded
        <4>4. encodeSqlValue[Evaluate(q.set[j], j, r[i])] = codeOf(q.set[j])
          BY <1>2, <2>2, <3>4
        <4> QED BY <3>2, <4>1, <4>2, <4>3, <4>4
      <3>5. CASE j \notin DOMAIN q.set
        <4>1. set[j][1] = 0 /\ set[j][2] = 0
          BY <2>1, <3>5
        <4>2. CASE j \in Named
          <5>1. s[i][j] = r[i][j] /\ header[j] # 0
            BY <3>3, <3>5, <4>2, NamedHasCode
          <5>2. formatForCircuit(s)[i][j] = table[i][j]
            BY <3>1, <4>2, <5>1 DEF Encoded
          <5> QED BY <4>1, <5>1, <5>2
        <4>3. CASE j \notin Named
          <5>1. table[i][j] = 0 /\ formatForCircuit(s)[i][j] = 0
            BY <3>1, <4>3 DEF Encoded
          <5> QED BY <4>1, <5>1
        <4> QED BY <4>2, <4>3
      <3> QED BY <3>4, <3>5
    <2>3. CASE i \notin DOMAIN r
      <3>1. table[i] = NoRow /\ formatForCircuit(s)[i] = NoRow
        BY <1>3, <2>3, RowsAreEncoded
      <3>2. ~filterRow(table[i], where)
        BY <3>1 DEF Replaces
      <3> HIDE DEF where, set, table
      <3> QED BY <3>1, <3>2
    <2> QED BY <2>2, <2>3
  <1> HIDE DEF where, set, table
  <1>6. UPDATE(table, set, where) = [i \in Rows |-> [j \in Cols |-> formatForCircuit(s)[i][j]]]
    BY <1>5 DEF UPDATE
  <1>7. formatForCircuit(s) = [i \in Rows |-> [j \in Cols |-> formatForCircuit(s)[i][j]]]
    BY DEF formatForCircuit
  <1> QED BY <1>3, <1>6, <1>7 DEF where, set, table

\* INSERT: one row, a value for each column, in the order of the columns.
Adds(q) ==
    /\ q \in Insert
    /\ Len(q.values) = 1
    /\ DOMAIN q.columns = Named /\ \A j \in Named : q.columns[j] = j

\* INSERT: the circuit adds the row SQLite stores.
LEMMA RowIsInserted ==
    ASSUME AffinityKeepsCodes, NEW q, Adds(q)
    PROVE  /\ RowOf(q, q.values[1]) \in [Named -> Value]
           /\ Encoded(RowOf(q, q.values[1])) = parseInsert(q)
  <1> DEFINE list == q.values[1]
  <1>1. /\ list \in Seq(Literal) /\ Len(list) = Len(q.columns) /\ q.columns \in Seq(Named)
    BY DEF Adds, Insert
  <1>2. DOMAIN list = Named
    BY <1>1 DEF Adds
  <1>3. \A j \in Named : list[j] \in Literal
    BY <1>1, <1>2
  <1>4. \A j \in Named : /\ "value" \in DOMAIN list[j] /\ list[j].value \in Value
                         /\ codeOf(list[j]) = encodeSqlValue[list[j].value]
    BY <1>3 DEF Literal, codeOf
  <1> HIDE DEF list
  <1>5. ASSUME NEW j \in Named
        PROVE  (CHOOSE k \in DOMAIN q.columns : q.columns[k] = j) = j
    BY DEF Adds
  <1>6. ASSUME NEW j \in Named
        PROVE  RowOf(q, list)[j] = affinity[j][list[j].value]
    BY <1>5 DEF RowOf, Adds
  <1>7. \A j \in Named : /\ affinity[j][list[j].value] \in Value
                         /\ encodeSqlValue[affinity[j][list[j].value]] = codeOf(list[j])
    BY <1>4, ColumnsStoreValues DEF AffinityKeepsCodes
  <1>8. RowOf(q, list) \in [Named -> Value]
    <2>1. DOMAIN RowOf(q, list) = Named /\ RowOf(q, list) = [j \in Named |-> RowOf(q, list)[j]]
      BY DEF RowOf
    <2> QED BY <1>6, <1>7, <2>1
  <1>9. parseInsert(q) = [j \in Cols |-> IF j \in Named THEN codeOf(list[j]) ELSE 0]
    BY <1>2 DEF parseInsert, list
  <1>10. Encoded(RowOf(q, list)) = parseInsert(q)
    <2>1. \A j \in Named : encodeSqlValue[RowOf(q, list)[j]] = codeOf(list[j])
      BY <1>6, <1>7
    <2> QED BY <1>9, <2>1 DEF Encoded
  <1> QED BY <1>8, <1>10 DEF list

\* A row of zeros adds nothing to a commitment.
LEMMA TotalOfZeros ==
    ASSUME NEW S, IsFiniteSet(S), NEW f, \A x \in S : f[x] = 0
    PROVE  CalculateTotal(f, S) = 0
  <1> DEFINE T == {s \in SUBSET S : CalculateTotal(f, s) # 0}
  <1> SUFFICES ASSUME T # {} PROVE FALSE
    OBVIOUS
  <1>1. PICK s \in T : \A u \in SUBSET S : Cardinality(u) < Cardinality(s) => u \notin T
    <2>1. T \in SUBSET (SUBSET S)
      OBVIOUS
    <2> HIDE DEF T
    <2> QED BY <2>1, SmallestSubset
  <1>2. s \in SUBSET S /\ CalculateTotal(f, s) # 0 /\ IsFiniteSet(s)
    BY <1>1, SubsetsHaveSizes
  <1>3. s # {}
    BY <1>2, TotalOfEmpty
  <1>4. CalculateTotal(f, s \ {Pick(s)}) = 0
    <2>1. s \ {Pick(s)} \in SUBSET S /\ Cardinality(s \ {Pick(s)}) < Cardinality(s)
      BY <1>2, <1>3, Smaller
    <2>2. s \ {Pick(s)} \notin T
      BY <1>1, <2>1
    <2> QED BY <2>1, <2>2
  <1>5. /\ f[Pick(s)] = 0
        /\ CalculateTotal(f, s) = f[Pick(s)] + CalculateTotal(f, s \ {Pick(s)})
    <2>1. Pick(s) \in s /\ \A x \in s : f[x] \in Nat
      BY <1>2, <1>3, Smaller
    <2> QED BY <1>2, <1>3, <2>1, TotalOfPick
  <1> QED BY <1>2, <1>4, <1>5

\* The new row is at its id in the next matrix and last in the one the circuit
\* computes: the sums are the same.
LEMMA InsertIsHashed ==
    ASSUME NEW table \in Matrix(Rows), NEW v \in [Cols -> Code], NEW n \in Rows,
           table[n] = NoRow, NEW next \in Matrix(Rows),
           next[n] = v, \A i \in Rows \ {n} : next[i] = table[i]
    PROVE  HashTable(INSERT(table, v)) = HashTable(next)
  <1> DEFINE m == maxRows + 1
             I == 1 .. m
             computed == INSERT(table, v)
             f == RowTotals(computed)
             g == RowTotals(next)
             h == RowTotals(table)
             total == CalculateTotal(v, Cols)
  <1>1. /\ Rows = I \ {m} /\ m \in I /\ m \notin Rows
        /\ IsFiniteSet(Rows) /\ IsFiniteSet(I) /\ IsFiniteSet(Rows \ {n})
    <2>1. maxRows \in Nat \ {0}
      BY IndicesAreFinite
    <2>2. IsFiniteSet(Rows \ {n})
      BY IndicesAreFinite, FS_Subset
    <2> QED BY <2>1, <2>2, IndicesAreFinite DEF Rows
  <1>2. computed \in Matrix(I) /\ computed[m] = v /\ \A i \in Rows : computed[i] = table[i]
    BY <1>1, InsertIsMatrix DEF INSERT
  <1> HIDE DEF m, I, computed
  <1>3. \A i \in I : f[i] \in Nat /\ f[i] = CalculateTotal(computed[i], Cols)
    BY <1>2, RowTotalsAreNumbers
  <1>4. \A i \in Rows : g[i] \in Nat /\ g[i] = CalculateTotal(next[i], Cols)
    BY RowTotalsAreNumbers
  <1>5. \A i \in Rows : h[i] \in Nat /\ h[i] = CalculateTotal(table[i], Cols)
    BY RowTotalsAreNumbers
  <1> HIDE DEF f, g, h
  <1>6. h[n] = 0
    <2>1. CalculateTotal(NoRow, Cols) = 0
      BY IndicesAreFinite, TotalOfZeros DEF NoRow
    <2> QED BY <1>5, <2>1
  <1>7. CalculateTotal(f, I) = total + CalculateTotal(f, Rows)
    BY <1>1, <1>2, <1>3, TotalOfElement
  <1>8. CalculateTotal(f, Rows) = CalculateTotal(h, Rows)
    <2>1. \A i \in Rows : f[i] \in Nat /\ h[i] = f[i]
      BY <1>1, <1>2, <1>3, <1>5
    <2> QED BY <1>1, <2>1, TotalsAgree
  <1>9. CalculateTotal(h, Rows) = h[n] + CalculateTotal(h, Rows \ {n})
    BY <1>1, <1>5, TotalOfElement
  <1>10. CalculateTotal(g, Rows) = total + CalculateTotal(g, Rows \ {n})
    BY <1>1, <1>4, TotalOfElement
  <1>11. /\ CalculateTotal(h, Rows \ {n}) = CalculateTotal(g, Rows \ {n})
         /\ CalculateTotal(h, Rows \ {n}) \in Nat
    <2>1. \A i \in Rows \ {n} : h[i] \in Nat /\ g[i] = h[i]
      BY <1>4, <1>5
    <2> QED BY <1>1, <2>1, TotalsAgree, TotalIsNatural
  <1>12. CalculateTotal(f, I) = CalculateTotal(g, Rows)
    BY <1>6, <1>7, <1>8, <1>9, <1>10, <1>11
  <1>13. /\ HashTable(computed) = CalculateTotal(header, Cols) + CalculateTotal(f, I)
         /\ HashTable(next) = CalculateTotal(header, Cols) + CalculateTotal(g, Rows)
    BY <1>2, HashOfMatrix DEF f, g
  <1> QED BY <1>12, <1>13 DEF computed

-----------------------------------------------------------------------------
\* The rows of a matrix are those of a table.

SameRowsOf(table, r) ==
    \A row \in [Named -> Code] :
        (\E j \in Named : row[j] # 0) =>
            Cardinality({i \in DOMAIN table : \A j \in Named : table[i][j] = row[j]})
                = Cardinality({i \in DOMAIN r : \A j \in Named : encodeSqlValue[r[i][j]] = row[j]})

LEMMA MatrixHasRows ==
    ASSUME NEW s, Stored(s), DOMAIN s \subseteq Rows, NEW row, \E j \in Named : row[j] # 0
    PROVE  {i \in Rows : \A j \in Named : formatForCircuit(s)[i][j] = row[j]}
             = {i \in DOMAIN s : \A j \in Named : encodeSqlValue[s[i][j]] = row[j]}
  <1>1. ASSUME NEW i \in DOMAIN s, NEW j \in Named
        PROVE  formatForCircuit(s)[i][j] = encodeSqlValue[s[i][j]]
    <2>1. formatForCircuit(s)[i] = Encoded(s[i]) /\ j \in Cols
      BY RowsAreEncoded, NamedHasCode
    <2> QED BY <2>1 DEF Encoded
  <1>2. ASSUME NEW i \in Rows, i \notin DOMAIN s, NEW j \in Named
        PROVE  formatForCircuit(s)[i][j] = 0
    <2>1. formatForCircuit(s)[i] = NoRow /\ j \in Cols
      BY <1>2, RowsAreEncoded, NamedHasCode
    <2> QED BY <2>1 DEF NoRow
  <1> QED BY <1>1, <1>2

\* The matrix of a table has its rows.
LEMMA TableHasRows ==
    ASSUME NEW s, Stored(s), DOMAIN s \subseteq Rows
    PROVE  SameRowsOf(formatForCircuit(s), s)
  <1>1. DOMAIN formatForCircuit(s) = Rows
    BY DEF formatForCircuit
  <1> SUFFICES ASSUME NEW row \in [Named -> Code], \E j \in Named : row[j] # 0
               PROVE  Cardinality({i \in Rows :
                                    \A j \in Named : formatForCircuit(s)[i][j] = row[j]})
                        = Cardinality({i \in DOMAIN s :
                                        \A j \in Named : encodeSqlValue[s[i][j]] = row[j]})
    BY <1>1 DEF SameRowsOf
  <1>2. {i \in Rows : \A j \in Named : formatForCircuit(s)[i][j] = row[j]}
             = {i \in DOMAIN s : \A j \in Named : encodeSqlValue[s[i][j]] = row[j]}
    BY MatrixHasRows
  <1> QED BY <1>2, Zenon

\* The matrix INSERT computes has the rows of the table it adds a row to.
LEMMA InsertHasRows ==
    ASSUME NEW r, Stored(r), DOMAIN r \subseteq Rows, NEW n \in Rows, n \notin DOMAIN r,
           NEW s, Stored(s), DOMAIN s = DOMAIN r \cup {n}, \A i \in DOMAIN r : s[i] = r[i],
           NEW v, Encoded(s[n]) = v
    PROVE  SameRowsOf(INSERT(formatForCircuit(r), v), s)
  <1> DEFINE m == maxRows + 1
             computed == INSERT(formatForCircuit(r), v)
  <1>1. /\ DOMAIN computed = Rows \cup {m} /\ m \notin Rows
        /\ computed[m] = v /\ \A i \in Rows : computed[i] = formatForCircuit(r)[i]
    BY IndicesAreFinite DEF INSERT, Rows
  <1> HIDE DEF m, computed
  <1> SUFFICES ASSUME NEW row \in [Named -> Code], \E j \in Named : row[j] # 0
               PROVE  Cardinality({i \in DOMAIN computed :
                                    \A j \in Named : computed[i][j] = row[j]})
                        = Cardinality({i \in DOMAIN s :
                                        \A j \in Named : encodeSqlValue[s[i][j]] = row[j]})
    BY DEF SameRowsOf, computed
  <1> DEFINE A == {i \in DOMAIN computed : \A j \in Named : computed[i][j] = row[j]}
             B == {i \in DOMAIN s : \A j \in Named : encodeSqlValue[s[i][j]] = row[j]}
             C == {i \in DOMAIN r : \A j \in Named : encodeSqlValue[r[i][j]] = row[j]}
  <1>2. {i \in Rows : \A j \in Named : formatForCircuit(r)[i][j] = row[j]} = C
    BY MatrixHasRows
  <1>3. IsFiniteSet(C) /\ m \notin C /\ n \notin C
    <2>1. C \subseteq Rows /\ n \notin C
      OBVIOUS
    <2> HIDE DEF C
    <2> QED BY <1>1, <2>1, IndicesAreFinite, FS_Subset
  <1>4. \A j \in Named : v[j] = encodeSqlValue[s[n][j]]
    BY NamedHasCode DEF Encoded
  <1>5. CASE \A j \in Named : v[j] = row[j]
    <2>1. A = C \cup {m}
      BY <1>1, <1>2, <1>5
    <2>2. B = C \cup {n}
      BY <1>4, <1>5
    <2> HIDE DEF A, B, C
    <2>3. Cardinality(A) = Cardinality(C) + 1 /\ Cardinality(B) = Cardinality(C) + 1
      BY <1>3, <2>1, <2>2, FS_AddElement
    <2> QED BY <2>3 DEF A, B
  <1>6. CASE ~ \A j \in Named : v[j] = row[j]
    <2>1. A = C
      BY <1>1, <1>2, <1>6
    <2>2. B = C
      BY <1>4, <1>6
    <2> HIDE DEF C
    <2> QED BY <2>1, <2>2
  <1> QED BY <1>5, <1>6

LEMMA ClauseIsTold ==
    ASSUME ColumnsAreComparedOnce, NEW q \in Writes \cup Selects, q.type # "insert",
           Parses(q), Fits(q)
    PROVE  /\ Told(q.where)
           /\ whereConditions(q) = serialize(parseWhere(q.where).ors)
  <1>1. q \in Update \cup Delete \cup Select
    BY QueriesAreTyped DEF Insert
  <1>2. q.where \in Where
    BY <1>1 DEF Update, Delete, Select
  <1>3. parseWhere(q.where).class # "throws" /\ Len(parseWhere(q.where).ors) <= maxOR
    BY DEF Parses, Fits
  <1> QED BY <1>2, <1>3 DEF Told, ColumnsAreComparedOnce, whereConditions

LEMMA RowsAreStored ==
    ASSUME TypeOK, Readable(rows)
    PROVE  Stored(rows)
  BY ReadableRows DEF Stored

LEMMA SelectIsProved ==
    ASSUME TypeOK, ClausesAgree, NEW q \in Selects, Accepted(q)
    PROVE  results(q) = SELECT(Table, q.columns, whereConditions(q))
  <1>1. q \in Select
    BY QueriesAreTyped
  <1>2. q.type # "insert" /\ q.columns \in SUBSET Cols
    BY <1>1 DEF Select
  <1>3. /\ Told(q.where) /\ whereConditions(q) = serialize(parseWhere(q.where).ors)
        /\ Stored(rows)
    BY <1>2, ClauseIsTold, RowsAreStored DEF ClausesAgree, Accepted, Prepared, Satisfied
  <1> DEFINE w == q.where
             fields == q.columns
  <1>4. formatForCircuit([i \in {n \in DOMAIN rows : Holds(w, rows[n])} |->
                                [j \in fields \cap Named |-> rows[i][j]]])
             = SELECT(formatForCircuit(rows), fields, serialize(parseWhere(w).ors))
    <2> HIDE DEF w, fields
    <2> QED BY <1>2, <1>3, SelectAgrees DEF ClausesAgree, w, fields
  <1> QED BY <1>3, <1>4 DEF results, Matching, Table

-----------------------------------------------------------------------------
\* A write and its circuit do the same.

Executed ==
    /\ Stored(rows') /\ DOMAIN rows' \subseteq Rows
    /\ SameRowsOf(modified', rows')
    /\ HashTable(modified') = HashTable(formatForCircuit(rows'))

LEMMA IdsArePlaces ==
    ASSUME TypeOK, IdsHavePlaces
    PROVE  DOMAIN rows \subseteq Rows
  <1>1. nextId \in 1 .. MaxId + 1 /\ maxRows \in Nat /\ MaxId \in Nat /\ MaxId <= maxRows
    BY IndicesAreFinite, IdsAreBounded DEF TypeOK, IdsHavePlaces
  <1>2. DOMAIN rows \subseteq 1 .. nextId - 1
    BY DEF TypeOK
  <1>3. 1 .. nextId - 1 \subseteq 1 .. maxRows
    BY <1>1
  <1> QED BY <1>2, <1>3 DEF Rows

LEMMA InsertIsExecuted ==
    ASSUME TypeOK, QueriesAgree, NEW q \in Writes, execInsert(q)
    PROVE  Executed
  <1> DEFINE v == parseInsert(q)
             n == nextId
  <1>1. q \in Insert /\ Adds(q)
    <2>1. q.type = "insert"
      BY DEF execInsert
    <2>2. q \in Insert
      BY <2>1, QueriesAreTyped DEF Update, Delete
    <2> QED BY <2>1, <2>2 DEF Adds, QueriesAgree, InsertsAreComplete
  <1>2. /\ modified' = INSERT(formatForCircuit(rows), v)
        /\ rows' = [i \in DOMAIN rows \cup (nextId .. nextId + Len(q.values) - 1) |->
                        IF i >= nextId THEN RowOf(q, q.values[i - nextId + 1]) ELSE rows[i]]
        /\ nextId + Len(q.values) <= MaxId + 1 /\ Readable(rows)
    BY DEF execInsert, Table, Accepted, Prepared
  <1>3. /\ n \in Nat /\ n >= 1 /\ n <= MaxId /\ n + 1 - 1 = n /\ n - n + 1 = 1
        /\ nextId .. nextId + Len(q.values) - 1 = {n}
    <2>1. nextId \in 1 .. MaxId + 1 /\ MaxId \in Nat /\ Len(q.values) = 1
      BY <1>1, IdsAreBounded DEF TypeOK, Adds
    <2>2. n \in Nat /\ n >= 1 /\ n <= MaxId /\ n + 1 - 1 = n /\ n - n + 1 = 1
      BY <1>2, <2>1
    <2>3. nextId + Len(q.values) - 1 = n
      BY <2>1, <2>2
    <2>4. n .. n = {n}
      BY <2>2
    <2> QED BY <2>2, <2>3, <2>4
  <1>4. n \in Rows /\ n \notin DOMAIN rows /\ \A i \in DOMAIN rows : ~(i >= n)
    <2>1. DOMAIN rows \subseteq 1 .. n - 1
      BY DEF TypeOK
    <2>2. \A i \in 1 .. n - 1 : ~(i >= n)
      BY <1>3
    <2>3. n \in Rows
      BY <1>3, IdsAreBounded, IndicesAreFinite DEF QueriesAgree, IdsHavePlaces, Rows
    <2>4. n >= n
      BY <1>3
    <2> QED BY <2>1, <2>2, <2>3, <2>4
  <1>5. /\ DOMAIN rows' = DOMAIN rows \cup {n}
        /\ rows'[n] = RowOf(q, q.values[1])
        /\ \A i \in DOMAIN rows : rows'[i] = rows[i]
    <2>1. rows' = [i \in DOMAIN rows \cup {n} |->
                        IF i >= n THEN RowOf(q, q.values[i - n + 1]) ELSE rows[i]]
      BY <1>2, <1>3
    <2>2. n >= n
      BY <1>3
    <2> HIDE DEF n
    <2> QED BY <1>3, <1>4, <2>1, <2>2
  <1>6. Stored(rows) /\ DOMAIN rows \subseteq Rows
    BY <1>2, RowsAreStored, IdsArePlaces DEF QueriesAgree
  <1>7. rows'[n] \in [Named -> Value] /\ Encoded(rows'[n]) = v
    BY <1>1, <1>5, RowIsInserted DEF QueriesAgree, ClausesAgree
  <1>8. Stored(rows') /\ DOMAIN rows' \subseteq Rows
    BY <1>4, <1>5, <1>6, <1>7 DEF Stored
  <1> HIDE DEF n, v
  <1>9. SameRowsOf(modified', rows')
    <2>1. PICK r, s : r = rows /\ s = rows'
      OBVIOUS
    <2>2. SameRowsOf(INSERT(formatForCircuit(r), v), s)
      BY <1>4, <1>5, <1>6, <1>7, <1>8, <2>1, InsertHasRows
    <2> QED BY <1>2, <2>1, <2>2
  <1>10. HashTable(modified') = HashTable(formatForCircuit(rows'))
    <2> DEFINE table == formatForCircuit(rows)
               next == formatForCircuit(rows')
    <2>1. table \in Matrix(Rows) /\ next \in Matrix(Rows)
      BY <1>6, <1>8, FormatIsMatrix DEF Stored
    <2>2. v \in [Cols -> Code]
      BY <1>1, InsertIsTyped DEF v
    <2>3. table[n] = NoRow /\ next[n] = v
      BY <1>4, <1>5, <1>6, <1>7, <1>8, RowsAreEncoded
    <2>4. \A i \in Rows \ {n} : next[i] = table[i]
      BY <1>5, <1>6, <1>8, RowsAreEncoded
    <2> HIDE DEF table, next
    <2>5. HashTable(INSERT(table, v)) = HashTable(next)
      BY <1>4, <2>1, <2>2, <2>3, <2>4, InsertIsHashed
    <2> QED BY <1>2, <2>5 DEF table, next
  <1> QED BY <1>8, <1>9, <1>10 DEF Executed

LEMMA UpdateIsExecuted ==
    ASSUME TypeOK, QueriesAgree, NEW q \in Writes, execUpdate(q)
    PROVE  Executed
  <1>1. q.type = "update" /\ q \in Update
    BY QueriesAreTyped DEF execUpdate, Insert, Delete
  <1>2. Parses(q) /\ Fits(q) /\ Readable(rows)
    BY DEF execUpdate, Accepted, Prepared, Satisfied
  <1>3. Told(q.where)
    BY <1>1, <1>2, ClauseIsTold DEF QueriesAgree, ClausesAgree
  <1>4. Replaces(q)
    BY <1>1, <1>2, <1>3 DEF Replaces, QueriesAgree, UpdatesAreSelective, NoRow
  <1>5. Stored(rows) /\ DOMAIN rows \subseteq Rows
    BY <1>2, RowsAreStored, IdsArePlaces DEF QueriesAgree
  <1>6. /\ modified' = UPDATE(formatForCircuit(rows), parseUpdate(q), whereConditions(q))
        /\ DOMAIN rows' = DOMAIN rows
        /\ \A i \in DOMAIN rows : rows'[i] = [j \in Named |->
                IF Holds(q.where, rows[i]) /\ j \in DOMAIN q.set
                THEN Evaluate(q.set[j], j, rows[i]) ELSE rows[i][j]]
    BY DEF execUpdate, Table, Matching
  <1>7. Stored(rows') /\ modified' = formatForCircuit(rows')
    <2>1. PICK r, s : r = rows /\ s = rows'
      OBVIOUS
    <2>2. DOMAIN s = DOMAIN r /\ \A i \in DOMAIN r : s[i] = [j \in Named |->
                IF Holds(q.where, r[i]) /\ j \in DOMAIN q.set
                THEN Evaluate(q.set[j], j, r[i]) ELSE r[i][j]]
      BY <1>6, <2>1
    <2>3. Stored(r)
      BY <1>5, <2>1
    <2>4. /\ Stored(s)
          /\ UPDATE(formatForCircuit(r), parseUpdate(q), whereConditions(q)) = formatForCircuit(s)
      BY <1>4, <2>2, <2>3, UpdateAgrees DEF QueriesAgree, ClausesAgree
    <2> QED BY <1>6, <2>1, <2>4
  <1> QED BY <1>5, <1>6, <1>7, TableHasRows DEF Executed

LEMMA DeleteIsExecuted ==
    ASSUME TypeOK, QueriesAgree, NEW q \in Writes, execDelete(q)
    PROVE  Executed
  <1>1. q.type = "delete"
    BY DEF execDelete
  <1>2. Parses(q) /\ Fits(q) /\ Readable(rows)
    BY DEF execDelete, Accepted, Prepared, Satisfied
  <1>3. Told(q.where) /\ whereConditions(q) = serialize(parseWhere(q.where).ors)
    BY <1>1, <1>2, ClauseIsTold DEF QueriesAgree, ClausesAgree
  <1>4. Stored(rows) /\ DOMAIN rows \subseteq Rows
    BY <1>2, RowsAreStored, IdsArePlaces DEF QueriesAgree
  <1> DEFINE w == q.where
             left == [i \in DOMAIN rows \ {n \in DOMAIN rows : Holds(w, rows[n])} |-> rows[i]]
  <1>5. modified' = DELETE(formatForCircuit(rows), serialize(parseWhere(w).ors)) /\ rows' = left
    BY <1>3 DEF execDelete, Table, Matching
  <1>6. DELETE(formatForCircuit(rows), serialize(parseWhere(w).ors)) = formatForCircuit(left)
    <2> HIDE DEF w
    <2> QED BY <1>3, <1>4, DeleteAgrees DEF QueriesAgree, ClausesAgree, w
  <1>7. Stored(left) /\ DOMAIN left \subseteq Rows
    <2>1. \A i \in DOMAIN left : i \in DOMAIN rows /\ left[i] = rows[i]
      OBVIOUS
    <2> HIDE DEF left
    <2> QED BY <1>4, <2>1 DEF Stored
  <1> HIDE DEF left, w
  <1> QED BY <1>5, <1>6, <1>7, TableHasRows DEF Executed

\* Every SELECT that is translated and fits has a proof: the rows SQLite selects
\* by the tree are those the circuit selects by the matrix parser.ts makes of
\* it, after any writes: of those only their clauses are restricted.
THEOREM SelectsFollowTheirClauses ==
    ASSUME ClausesAgree
    PROVE  Spec => []SelectsAreProved
  <1>1. TypeOK => SelectsAreProved
    BY SelectIsProved DEF SelectsAreProved
  <1> QED BY <1>1, TypeCorrect, PTL

\* execQuery answers a write with a proof of what it did to the table: the
\* matrix the circuit computed has the rows SQLite has then, and its commitment
\* is that of the table the next query reads.
THEOREM ProvedIsDone ==
    ASSUME QueriesAgree
    PROVE  Spec => []ProvedIsExecuted
  <1>1. Init => ProvedIsExecuted
    BY DEF Init, ProvedIsExecuted
  <1>2. ASSUME TypeOK, ProvedIsExecuted, [Next]_vars
        PROVE  ProvedIsExecuted'
    <2>1. ASSUME NEW q \in Writes, execFails(q)
          PROVE  ProvedIsExecuted'
      BY <2>1 DEF execFails, ProvedIsExecuted
    <2>2. ASSUME Executed, Answer
          PROVE  ProvedIsExecuted'
      <3> SUFFICES ASSUME answer' = "proved"
                   PROVE  /\ Readable(rows') /\ SameRowsOf(modified', rows')
                          /\ HashTable(formatForCircuit(rows')) = tableCommit'
        BY DEF ProvedIsExecuted, SameRows, SameRowsOf, Table
      <3>1. tableCommit' = HashTable(modified')
        BY <2>2 DEF Answer
      <3>2. Readable(rows')
        BY <2>2, NullIsNoValue DEF Executed, Stored, Readable
      <3> QED BY <2>2, <3>1, <3>2 DEF Executed
    <2>3. ASSUME NEW q \in Writes, execInsert(q) \/ execUpdate(q) \/ execDelete(q)
          PROVE  Executed /\ Answer
      BY <1>2, <2>3, InsertIsExecuted, UpdateIsExecuted, DeleteIsExecuted
         DEF execInsert, execUpdate, execDelete
    <2>4. CASE UNCHANGED vars
      BY <1>2, <2>4 DEF vars, ProvedIsExecuted, SameRows, Table
    <2> QED BY <1>2, <2>1, <2>2, <2>3, <2>4 DEF Next
  <1> QED BY <1>1, <1>2, TypeCorrect, PTL DEF Spec

\* The invariant: a table that was not emptied can be encoded and is the one
\* committed to.
Committed ==
    (DOMAIN rows = {} => nextId = 1) => Readable(rows) /\ HashTable(Table) = tableCommit

LEMMA EmptyIsNoRows ==
    ASSUME NEW r, r = [i \in DOMAIN r |-> r[i]]
    PROVE  DOMAIN r = {} <=> r = <<>>
  <1>1. DOMAIN <<>> = {} /\ <<>> = [i \in DOMAIN <<>> |-> <<>>[i]]
    OBVIOUS
  <1> QED BY <1>1

RowsAreAFunction == rows = [i \in DOMAIN rows |-> rows[i]]

LEMMA RowsStayAFunction ==
    ASSUME RowsAreAFunction, [Next]_vars
    PROVE  RowsAreAFunction'
  <1>1. ASSUME NEW q \in Writes, execInsert(q) PROVE RowsAreAFunction'
    BY <1>1 DEF execInsert, RowsAreAFunction
  <1>2. ASSUME NEW q \in Writes, execUpdate(q) PROVE RowsAreAFunction'
    BY <1>2 DEF execUpdate, RowsAreAFunction
  <1>3. ASSUME NEW q \in Writes, execDelete(q) PROVE RowsAreAFunction'
    BY <1>3 DEF execDelete, RowsAreAFunction
  <1>4. ASSUME NEW q \in Writes, execFails(q) PROVE RowsAreAFunction'
    BY <1>4 DEF execFails, RowsAreAFunction
  <1>5. CASE UNCHANGED vars
    BY <1>5 DEF vars, RowsAreAFunction
  <1> QED BY <1>1, <1>2, <1>3, <1>4, <1>5 DEF Next

\* Only a write on the last rows breaks it.
LEMMA CommittedStays ==
    ASSUME TypeOK, QueriesAgree, Committed, [Next]_vars
    PROVE  Committed'
  <1>1. ASSUME NEW q \in Writes, execFails(q)
        PROVE  Committed'
    BY <1>1 DEF execFails, Committed, Table
  <1>2. ASSUME NEW q \in Writes, execInsert(q) \/ execUpdate(q) \/ execDelete(q)
        PROVE  Committed'
    <2>1. Executed
      BY <1>2, InsertIsExecuted, UpdateIsExecuted, DeleteIsExecuted
    <2>2. Answer
      BY <1>2 DEF execInsert, execUpdate, execDelete
    <2>3. Readable(rows')
      BY <2>1, NullIsNoValue DEF Executed, Stored, Readable
    <2>4. CASE DOMAIN rows' # {}
      <3>1. tableCommit' = HashTable(modified')
        BY <2>2, <2>4 DEF Answer
      <3> QED BY <2>1, <2>3, <3>1 DEF Executed, Committed, Table
    <2>5. CASE DOMAIN rows' = {}
      <3> SUFFICES ASSUME nextId' = 1
                   PROVE  HashTable(formatForCircuit(rows')) = tableCommit'
        BY <2>3, <2>5 DEF Committed, Table
      <3>1. nextId = 1
        <4>1. CASE execInsert(q)
          <5>1. q \in Insert
            BY <4>1, QueriesAreTyped DEF execInsert, Update, Delete
          <5>2. Len(q.values) \in Nat \ {0}
            BY <5>1, InsertIsTyped
          <5>3. nextId' = nextId + Len(q.values) /\ nextId \in Nat \ {0}
            BY <4>1 DEF execInsert, TypeOK
          <5> QED BY <5>2, <5>3
        <4>2. CASE execUpdate(q) \/ execDelete(q)
          BY <4>2 DEF execUpdate, execDelete
        <4> QED BY <1>2, <4>1, <4>2
      <3>2. DOMAIN rows = {}
        <4>1. DOMAIN rows \subseteq 1 .. nextId - 1
          BY DEF TypeOK
        <4>2. 1 .. nextId - 1 = {}
          BY <3>1
        <4> QED BY <4>1, <4>2
      <3>3. HashTable(formatForCircuit(rows)) = tableCommit /\ tableCommit' = tableCommit
        <4>1. tableCommit' = tableCommit
          BY <2>2, <2>5 DEF Answer
        <4>2. HashTable(Table) = tableCommit
          BY <1>2 DEF execInsert, execUpdate, execDelete, Accepted, Satisfied
        <4> QED BY <4>1, <4>2 DEF Table
      <3>4. formatForCircuit(rows') = formatForCircuit(rows)
        BY <2>5, <3>2 DEF formatForCircuit
      <3> QED BY <3>3, <3>4
    <2> QED BY <2>4, <2>5
  <1>3. CASE UNCHANGED vars
    BY <1>3 DEF vars, Committed, Table
  <1> QED BY <1>1, <1>2, <1>3 DEF Next

\* No write that is translated and fits is refused by its circuit for what an
\* earlier one left, unless a write on the last rows ended in the error of
\* selectTable; and a client commits to the arguments the circuit hashes.
THEOREM WritesAreAccepted ==
    ASSUME QueriesAgree
    PROVE  Spec => []WritesAreProved
  <1>1. Init => Committed /\ RowsAreAFunction
    BY DEF Init, Committed, RowsAreAFunction, Readable
  <1>2. TypeOK /\ Committed /\ RowsAreAFunction /\ [Next]_vars
            => Committed' /\ RowsAreAFunction'
    BY CommittedStays, RowsStayAFunction
  <1>3. Committed /\ RowsAreAFunction => WritesAreProved
    <2> SUFFICES ASSUME Committed, RowsAreAFunction, rows = <<>> => nextId = 1,
                        NEW q \in Writes, Parses(q), Fits(q)
                 PROVE  Accepted(q)
      BY DEF WritesAreProved
    <2>1. DOMAIN rows = {} => rows = <<>>
      BY EmptyIsNoRows DEF RowsAreAFunction
    <2>2. Readable(rows) /\ HashTable(Table) = tableCommit
      BY <2>1 DEF Committed
    <2>3. argsHash(q) = genArgsCommitment(q)
      BY ArgumentsAgree
    <2> QED BY <2>2, <2>3 DEF Accepted, Prepared, Satisfied
  <1> QED BY <1>1, <1>2, <1>3, TypeCorrect, PTL DEF Spec
=============================================================================
