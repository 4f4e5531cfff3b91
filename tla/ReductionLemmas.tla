-------------------------- MODULE ReductionLemmas --------------------------
(***************************************************************************)
(* What the operators of Reductions compute, for every argument: least and *)
(* greatest elements, sums, ranks.  The library's induction theorems take  *)
(* an operator; here induction is a least counterexample of a set.         *)
(***************************************************************************)
EXTENDS Reductions, FiniteSetTheorems, TLAPS

(* A set of natural numbers that is not empty has a least element.         *)
LEMMA LeastNat ==
    ASSUME NEW T \in SUBSET Nat, T # {}
    PROVE  \E m \in T : \A y \in T : m <= y
<1>1. PICK m \in T : \A y \in T : ~ (<<y, m>> \in OpToRel(<, Nat))
  BY NatLessThanWellFounded, WFMin
<1>2. \A y \in T : ~ (y < m)
  BY <1>1 DEF OpToRel
<1>. QED
  BY <1>2

(* A set with 0 and with n + 1 for each n that it has holds every natural. *)
LEMMA NatSet ==
    ASSUME NEW T \in SUBSET Nat, 0 \in T, \A n \in T : n + 1 \in T
    PROVE  T = Nat
<1>1. SUFFICES ASSUME Nat \ T # {} PROVE FALSE
  OBVIOUS
<1>2. PICK m \in Nat \ T : \A y \in Nat \ T : m <= y
  BY <1>1, LeastNat
<1>3. m - 1 \in T
  BY <1>2
<1>. QED
  BY <1>2, <1>3

(* Smallest returns the least element (parallel minimum of plan.cuh).      *)
LEMMA SmallestRight ==
    ASSUME NEW S \in SUBSET Nat, S # {}
    PROVE  Smallest(S) \in S /\ \A y \in S : Smallest(S) <= y
BY LeastNat DEF Smallest

(* Largest returns the greatest element of a set that has a bound.         *)
LEMMA LargestRight ==
    ASSUME NEW S \in SUBSET Nat, S # {}, NEW b \in Nat, \A y \in S : y <= b
    PROVE  Largest(S) \in S /\ \A y \in S : y <= Largest(S)
<1>. DEFINE T == {k \in Nat : b - k \in S}
<1>1. PICK m \in T : \A z \in T : m <= z
  <2>1. PICK y \in S : TRUE
    OBVIOUS
  <2>2. b - y \in T
    BY SMT
  <2>. QED
    BY <2>2, LeastNat
<1>2. ASSUME NEW y \in S PROVE b - m >= y
  <2>1. b - y \in T
    BY SMT
  <2>. QED
    BY <1>1, <2>1
<1>. QED
  BY <1>2 DEF Largest

(* An element that is no less than the others is the greatest.             *)
LEMMA LargestIs ==
    ASSUME NEW S \in SUBSET Nat, NEW m \in S, \A y \in S : y <= m
    PROVE  Largest(S) = m
<1>1. Largest(S) \in S /\ \A y \in S : y <= Largest(S)
  BY LargestRight
<1>2. Largest(S) <= m /\ m <= Largest(S) /\ Largest(S) \in Nat /\ m \in Nat
  BY <1>1
<1>. QED
  BY <1>2

-----------------------------------------------------------------------------
(* A map of a finite set onto another that never takes a value twice: the  *)
(* two have as many elements.                                              *)
LEMMA SameCount ==
    ASSUME NEW S, NEW T, IsFiniteSet(T), NEW f \in [S -> T],
           \A x, y \in S : f[x] = f[y] => x = y,
           \A z \in T : \E x \in S : f[x] = z
    PROVE  IsFiniteSet(S) /\ Cardinality(S) = Cardinality(T)
<1>1. f \in Injection(S, T) /\ f \in Surjection(S, T)
  BY DEF Injection, IsInjective, Surjection
<1>. QED
  BY <1>1, FS_Injection

(* A map of n things to 0 .. n-1 that never takes a value twice takes all. *)
LEMMA Onto ==
    ASSUME NEW S, IsFiniteSet(S), NEW f \in [S -> 0 .. (Cardinality(S) - 1)],
           \A x, y \in S : f[x] = f[y] => x = y
    PROVE  \A k \in 0 .. (Cardinality(S) - 1) : \E x \in S : f[x] = k
<1>. DEFINE n == Cardinality(S)  T == 0 .. (n - 1)
<1>1. n \in Nat
  BY FS_CardinalityType
<1>0. IsFiniteSet(T) /\ Cardinality(T) = n
  BY <1>1, FS_Interval, SMTT(30)
<1>2. f \in Injection(S, T)
  BY DEF Injection, IsInjective
<1>3. f \in Surjection(S, T)
  BY <1>0, <1>1, <1>2, FS_Injection
<1>. QED
  BY <1>3 DEF Surjection

(* In a finite set in some order, with below[x] the elements before x, the *)
(* number of those is a place of its own for each x, and there is an x for *)
(* each place.                                                             *)
LEMMA Places ==
    ASSUME NEW S, IsFiniteSet(S), NEW below \in [S -> SUBSET S],
           \A x \in S : x \notin below[x],
           \A x, y \in S : \/ x = y
                           \/ x \in below[y] /\ below[x] \subseteq below[y]
                           \/ y \in below[x] /\ below[y] \subseteq below[x]
    PROVE  /\ \A x \in S : Cardinality(below[x]) \in 0 .. (Cardinality(S) - 1)
           /\ \A x, y \in S : Cardinality(below[x]) = Cardinality(below[y]) => x = y
           /\ \A k \in 0 .. (Cardinality(S) - 1) : \E x \in S : Cardinality(below[x]) = k
<1>. DEFINE n == Cardinality(S)
<1>1. n \in Nat
  BY FS_CardinalityType
<1>2. ASSUME NEW x \in S
      PROVE  IsFiniteSet(below[x]) /\ Cardinality(below[x]) \in 0 .. (n - 1)
  <2>1. below[x] \in SUBSET S /\ below[x] # S
    OBVIOUS
  <2>2. IsFiniteSet(below[x]) /\ Cardinality(below[x]) <= n /\ Cardinality(below[x]) # n
    BY <2>1, FS_Subset
  <2>. QED
    BY <1>1, <2>2, FS_CardinalityType
<1>3. ASSUME NEW x \in S, NEW y \in S, x \in below[y], below[x] \subseteq below[y]
      PROVE  Cardinality(below[x]) # Cardinality(below[y])
  <2>1. below[x] \in SUBSET below[y] /\ below[x] # below[y]
    BY <1>3
  <2>. QED
    BY <1>2, <2>1, FS_Subset
<1>4. \A x, y \in S : Cardinality(below[x]) = Cardinality(below[y]) => x = y
  BY <1>3
<1>5. \A k \in 0 .. (n - 1) : \E x \in S : Cardinality(below[x]) = k
  <2>. DEFINE f == [x \in S |-> Cardinality(below[x])]
  <2>1. f \in [S -> 0 .. (n - 1)] /\ \A x, y \in S : f[x] = f[y] => x = y
    BY <1>2, <1>4
  <2>2. \A k \in 0 .. (n - 1) : \E x \in S : f[x] = k
    <3>. HIDE DEF f
    <3>. QED
      BY <2>1, Onto
  <2>. QED
    BY <2>2
<1>. QED
  BY <1>2, <1>4, <1>5

(* The ranks of the SMs of 0 .. n-1 are 0 .. n-1, each once (plan.cuh's    *)
(* my_rank): what is handed out by rank is handed out once.                *)
LEMMA RankRight ==
    ASSUME NEW n \in Nat \ {0}, NEW cost \in [0 .. (n - 1) -> Int]
    PROVE  /\ \A sm \in 0 .. (n - 1) : Rank(cost, sm) \in 0 .. (n - 1)
           /\ \A a, b \in 0 .. (n - 1) : Rank(cost, a) = Rank(cost, b) => a = b
           /\ \A k \in 0 .. (n - 1) : \E sm \in 0 .. (n - 1) : Rank(cost, sm) = k
<1>. DEFINE S == 0 .. (n - 1)
            below == [sm \in S |-> {i \in S : cost[i] < cost[sm] \/ (cost[i] = cost[sm] /\ i < sm)}]
<1>1. IsFiniteSet(S) /\ Cardinality(S) = n
  BY FS_Interval
<1>2. \A sm \in S : Rank(cost, sm) = Cardinality(below[sm])
  BY DEF Rank
<1>3. below \in [S -> SUBSET S] /\ \A x \in S : x \notin below[x]
  OBVIOUS
<1>4. \A x, y \in S : \/ x = y
                      \/ x \in below[y] /\ below[x] \subseteq below[y]
                      \/ y \in below[x] /\ below[y] \subseteq below[x]
  <2>1. SUFFICES ASSUME NEW x \in S, NEW y \in S, x # y
                 PROVE  \/ x \in below[y] /\ below[x] \subseteq below[y]
                        \/ y \in below[x] /\ below[y] \subseteq below[x]
    OBVIOUS
  <2>2. cost[x] \in Int /\ cost[y] \in Int
    OBVIOUS
  <2>3. CASE cost[x] < cost[y] \/ (cost[x] = cost[y] /\ x < y)
    BY <2>1, <2>2, <2>3
  <2>4. CASE cost[y] < cost[x] \/ (cost[x] = cost[y] /\ y < x)
    BY <2>1, <2>2, <2>4
  <2>. QED
    BY <2>1, <2>2, <2>3, <2>4
<1>. HIDE DEF below
<1>5. /\ \A x \in S : Cardinality(below[x]) \in 0 .. (n - 1)
      /\ \A x, y \in S : Cardinality(below[x]) = Cardinality(below[y]) => x = y
      /\ \A k \in 0 .. (n - 1) : \E x \in S : Cardinality(below[x]) = k
  <2>. HIDE DEF S
  <2>. QED
    BY <1>1, <1>3, <1>4, Places, SMTT(30)
<1>. QED
  BY <1>2, <1>5, ZenonT(30)

(* Nonempty pigeonholes: when each of P holds c things or more, and each   *)
(* thing has a key in Q of its own, there are that many keys.              *)
LEMMA Spread ==
    ASSUME NEW P, IsFiniteSet(P), NEW Q, IsFiniteSet(Q), NEW c \in Nat, NEW work, NEW key,
           \A p \in P : IsFiniteSet(work[p]) /\ Cardinality(work[p]) >= c,
           \A p \in P : \A t \in work[p] : key[t] \in Q,
           \A p, q \in P : \A s \in work[p], t \in work[q] : key[s] = key[t] => p = q /\ s = t
    PROVE  Cardinality(P) * c <= Cardinality(Q)
<1>. DEFINE N(p) == Cardinality(work[p])
            B(p) == CHOOSE g : g \in Bijection(1 .. N(p), work[p])
<1>1. \A p \in P : N(p) \in Nat /\ B(p) \in Bijection(1 .. N(p), work[p])
  BY FS_CardinalityType DEF ExistsBijection
<1>2. \A p \in P : /\ \A k \in 1 .. c : B(p)[k] \in work[p]
                   /\ \A j, k \in 1 .. c : B(p)[j] = B(p)[k] => j = k
  <2>1. ASSUME NEW p \in P
        PROVE  /\ \A k \in 1 .. c : B(p)[k] \in work[p]
               /\ \A j, k \in 1 .. c : B(p)[j] = B(p)[k] => j = k
    <3>1. N(p) \in Nat
      BY <1>1
    <3>2. N(p) >= c
      OBVIOUS
    <3>3. B(p) \in Bijection(1 .. N(p), work[p])
      BY <1>1
    <3>. HIDE DEF B, N
    <3>4. 1 .. c \subseteq 1 .. N(p)
      BY <3>1, <3>2
    <3>. QED
      BY <3>3, <3>4 DEF Bijection, Injection, Surjection, IsInjective
  <2>. QED
    BY <2>1
<1>. HIDE DEF B, N
<1>. DEFINE f == [x \in P \X (1 .. c) |-> key[B(x[1])[x[2]]]]
<1>3. f \in Injection(P \X (1 .. c), Q)
  <2>1. ASSUME NEW x \in P \X (1 .. c)
        PROVE  f[x] = key[B(x[1])[x[2]]] /\ x[1] \in P /\ x[2] \in 1 .. c /\ f[x] \in Q
    BY <1>2
  <2>2. ASSUME NEW x \in P \X (1 .. c), NEW y \in P \X (1 .. c), f[x] = f[y] PROVE x = y
    <3>1. x[1] = y[1] /\ B(x[1])[x[2]] = B(y[1])[y[2]]
      BY <1>2, <2>1, <2>2
    <3>2. x[2] = y[2]
      BY <1>2, <2>1, <3>1
    <3>3. x = <<x[1], x[2]>> /\ y = <<y[1], y[2]>>
      OBVIOUS
    <3>. QED
      BY <3>1, <3>2, <3>3
  <2>3. f \in [P \X (1 .. c) -> Q]
    BY <2>1
  <2>. QED
    BY <2>2, <2>3 DEF Injection, IsInjective
<1>4. Cardinality(P \X (1 .. c)) = Cardinality(P) * c
  <2>1. IsFiniteSet(1 .. c) /\ Cardinality(1 .. c) = c
    BY FS_Interval
  <2>. QED
    BY <2>1, FS_Product, ZenonT(30)
<1>. QED
  BY <1>3, <1>4, FS_Injection

-----------------------------------------------------------------------------
(***************************************************************************)
(* Division: SMT knows it only by what follows.                            *)
(***************************************************************************)

(* What a quotient and a remainder are.                                    *)
LEMMA Euclid ==
    ASSUME NEW a \in Nat, NEW h \in Nat \ {0}
    PROVE  a = (a \div h) * h + (a % h) /\ a % h \in 0 .. (h - 1) /\ a \div h \in Nat
OBVIOUS

(* A smaller number of groups of h leaves room for one more.               *)
LEMMA Groups == ASSUME NEW a \in Nat, NEW b \in Nat, NEW h \in Nat \ {0}, a < b PROVE a * h + h <= b * h
OBVIOUS

(* The only quotient.                                                      *)
LEMMA QuotientOf ==
    ASSUME NEW a \in Nat, NEW h \in Nat \ {0}, NEW q \in Nat, q * h <= a, a < q * h + h
    PROVE  a \div h = q /\ a % h = a - q * h
<1>. DEFINE d == a \div h
<1>1. a = d * h + (a % h) /\ a % h \in 0 .. (h - 1) /\ d \in Nat
  BY Euclid
<1>2. d < q => d * h + h <= q * h
  BY <1>1, Groups
<1>3. q < d => q * h + h <= d * h
  BY <1>1, Groups
<1>. QED
  BY <1>1, <1>2, <1>3

(* The tiles of r rows of h heads: a tile's row, and their number.         *)
LEMMA RowsOf ==
    ASSUME NEW h \in Nat \ {0}, NEW r \in Nat
    PROVE  /\ r * h \in Nat /\ (r * h) % h = 0 /\ (r * h) \div h = r
           /\ \A u \in Nat : u < r * h => u \div h \in 0 .. (r - 1)
<1>1. r * h \in Nat /\ (r * h) % h = 0 /\ (r * h) \div h = r
  BY QuotientOf
<1>2. ASSUME NEW u \in Nat, u < r * h PROVE u \div h \in 0 .. (r - 1)
  <2>. DEFINE d == u \div h
  <2>1. u = d * h + (u % h) /\ u % h \in 0 .. (h - 1) /\ d \in Nat
    BY Euclid
  <2>2. ASSUME r <= d PROVE FALSE
    <3>1. r * h <= d * h
      BY <2>1, <2>2, Groups
    <3>. QED
      BY <1>2, <2>1, <3>1
  <2>. QED
    BY <2>1, <2>2
<1>. QED
  BY <1>1, <1>2

-----------------------------------------------------------------------------
(***************************************************************************)
(* Sums.  A fold over a finite set takes some element first; a sum does    *)
(* not depend on which.                                                    *)
(***************************************************************************)
Taken(s) == CHOOSE x \in s : TRUE

\* g is the sum of f over each subset of S, as the fold makes it.
Sums(g, f, S) ==
    g = [s \in SUBSET S |-> IF s = {} THEN 0 ELSE f[Taken(s)] + g[s \ {Taken(s)}]]

(* Total is the fold.                                                      *)
LEMMA TotalUnfolds == ASSUME NEW f, NEW S PROVE Total(f, S) = (CHOOSE g : Sums(g, f, S))[S]
BY DEF Total, MapThenSumSet, MapThenFoldSet, Sums, Taken

(* A set of finite subsets of S that has {}, and every set that has less   *)
(* than all of itself but its first element in it, is all of them.         *)
LEMMA SubsetInduction ==
    ASSUME NEW S, IsFiniteSet(S), NEW C \in SUBSET SUBSET S,
           \A s \in SUBSET S : (\A r \in SUBSET s : r # s => r \in C) => s \in C
    PROVE  C = SUBSET S
<1>1. SUFFICES ASSUME (SUBSET S) \ C # {} PROVE FALSE
  OBVIOUS
<1>2. IsWellFoundedOn(StrictSubsetOrdering(S), SUBSET S)
  BY FS_FiniteSubsetsOfFinite, FS_StrictSubsetOrderingWellFounded
<1>3. PICK s \in (SUBSET S) \ C : \A r \in (SUBSET S) \ C : ~ (<<r, s>> \in StrictSubsetOrdering(S))
  <2>. DEFINE R == StrictSubsetOrdering(S)  U == SUBSET S  D == (SUBSET S) \ C
  <2>1. IsWellFoundedOn(R, U) /\ D \subseteq U /\ D # {}
    BY <1>1, <1>2
  <2>. HIDE DEF R, U, D
  <2>2. \E s \in D : \A r \in D : ~ (<<r, s>> \in R)
    BY <2>1, WFMin
  <2>. QED
    BY <2>2 DEF R, D
<1>4. ASSUME NEW r \in SUBSET s, r # s PROVE r \in C
  <2>1. <<r, s>> \in StrictSubsetOrdering(S)
    BY <1>3, <1>4 DEF StrictSubsetOrdering
  <2>. QED
    BY <1>3, <1>4, <2>1
<1>. QED
  BY <1>3, <1>4

Small(S, n) == {s \in SUBSET S : Cardinality(s) <= n}

\* g is the fold of f over the sets of at most n elements.
SumsUpTo(g, f, S, n) ==
    /\ g \in [Small(S, n) -> Int]
    /\ \A s \in Small(S, n) : g[s] = IF s = {} THEN 0 ELSE f[Taken(s)] + g[s \ {Taken(s)}]

(* The subsets of a finite set, and what the fold leaves of one.           *)
LEMMA SmallRight ==
    ASSUME NEW S, IsFiniteSet(S)
    PROVE  /\ \A s \in Small(S, 0) : s = {}
           /\ \A n \in Nat : /\ {} \in Small(S, n) /\ Small(S, n) \subseteq Small(S, n + 1)
                            /\ \A s \in Small(S, n + 1) : s # {} =>
                                  Taken(s) \in S /\ s \ {Taken(s)} \in Small(S, n)
           /\ Cardinality(S) \in Nat /\ Small(S, Cardinality(S)) = SUBSET S
<1>1. ASSUME NEW s \in SUBSET S
      PROVE  /\ Cardinality(s) \in Nat /\ Cardinality(s) <= Cardinality(S)
             /\ s # {} => /\ Taken(s) \in s
                          /\ Cardinality(s \ {Taken(s)}) = Cardinality(s) - 1
             /\ Cardinality(s) = 0 <=> s = {}
  <2>1. IsFiniteSet(s) /\ Cardinality(s) \in Nat /\ Cardinality(s) <= Cardinality(S)
    BY FS_Subset, FS_CardinalityType
  <2>2. s # {} => Taken(s) \in s
    BY DEF Taken
  <2>. QED
    BY <2>1, <2>2, FS_RemoveElement, FS_EmptySet
<1>2. Cardinality(S) \in Nat
  BY FS_CardinalityType
<1>3. ASSUME NEW s \in Small(S, 0) PROVE s = {}
  <2>1. s \in SUBSET S /\ Cardinality(s) <= 0
    BY DEF Small
  <2>2. IsFiniteSet(s) /\ Cardinality(s) \in Nat
    BY <2>1, FS_Subset, FS_CardinalityType
  <2>. QED
    BY <2>1, <2>2, FS_EmptySet
<1>4. Small(S, Cardinality(S)) = SUBSET S
  BY <1>1 DEF Small
<1>5. ASSUME NEW n \in Nat
      PROVE  /\ {} \in Small(S, n) /\ Small(S, n) \subseteq Small(S, n + 1)
             /\ \A s \in Small(S, n + 1) : s # {} =>
                   Taken(s) \in S /\ s \ {Taken(s)} \in Small(S, n)
  <2>1. {} \in Small(S, n)
    BY FS_EmptySet DEF Small
  <2>2. ASSUME NEW s \in Small(S, n) PROVE s \in Small(S, n + 1)
    <3>1. s \in SUBSET S /\ Cardinality(s) <= n
      BY DEF Small
    <3>2. Cardinality(s) \in Nat
      BY <1>1, <3>1
    <3>. QED
      BY <3>1, <3>2 DEF Small
  <2>3. ASSUME NEW s \in Small(S, n + 1), s # {}
        PROVE  Taken(s) \in S /\ s \ {Taken(s)} \in Small(S, n)
    <3>1. s \in SUBSET S /\ Cardinality(s) <= n + 1
      BY DEF Small
    <3>2. Taken(s) \in s /\ Cardinality(s \ {Taken(s)}) = Cardinality(s) - 1 /\ Cardinality(s) \in Nat
      BY <1>1, <2>3, <3>1
    <3>3. Cardinality(s \ {Taken(s)}) <= n
      BY <3>1, <3>2
    <3>. QED
      BY <3>1, <3>2, <3>3 DEF Small
  <2>. QED
    BY <2>1, <2>2, <2>3
<1>. QED
  BY <1>2, <1>3, <1>4, <1>5

(* The fold exists: there is one for the sets of at most n elements,       *)
(* whatever n is.                                                          *)
LEMMA SumsExist ==
    ASSUME NEW S, IsFiniteSet(S), NEW f, \A x \in S : f[x] \in Int
    PROVE  \E g \in [SUBSET S -> Int] : Sums(g, f, S)
<1>. DEFINE T == {n \in Nat : \E g : SumsUpTo(g, f, S, n)}
<1>1. 0 \in T
  <2>1. SumsUpTo([s \in Small(S, 0) |-> 0], f, S, 0)
    BY SmallRight DEF SumsUpTo
  <2>. QED
    BY <2>1
<1>2. ASSUME NEW n \in Nat, NEW g, SumsUpTo(g, f, S, n)
      PROVE  \E h : SumsUpTo(h, f, S, n + 1)
  <2>. DEFINE h == [s \in Small(S, n + 1) |->
                      IF s \in Small(S, n) THEN g[s] ELSE f[Taken(s)] + g[s \ {Taken(s)}]]
  <2>1. /\ {} \in Small(S, n) /\ Small(S, n) \subseteq Small(S, n + 1)
        /\ \A s \in Small(S, n + 1) : s # {} => Taken(s) \in S /\ s \ {Taken(s)} \in Small(S, n)
    BY SmallRight
  <2>2. h \in [Small(S, n + 1) -> Int]
    <3>1. ASSUME NEW s \in Small(S, n + 1), s \notin Small(S, n)
          PROVE  f[Taken(s)] + g[s \ {Taken(s)}] \in Int
      <4>1. Taken(s) \in S /\ s \ {Taken(s)} \in Small(S, n)
        BY <2>1, <3>1
      <4>2. f[Taken(s)] \in Int /\ g[s \ {Taken(s)}] \in Int
        BY <1>2, <4>1 DEF SumsUpTo
      <4>. QED
        BY <4>2
    <3>2. ASSUME NEW s \in Small(S, n) PROVE g[s] \in Int
      BY <1>2 DEF SumsUpTo
    <3>. QED
      BY <3>1, <3>2
  <2>3. \A s \in Small(S, n) : h[s] = g[s]
    BY <2>1
  <2>4. \A s \in Small(S, n + 1) : s \notin Small(S, n) => h[s] = f[Taken(s)] + g[s \ {Taken(s)}]
    OBVIOUS
  <2>. HIDE DEF h
  <2>5. ASSUME NEW s \in Small(S, n + 1)
        PROVE  h[s] = IF s = {} THEN 0 ELSE f[Taken(s)] + h[s \ {Taken(s)}]
    <3>1. s # {} => h[s \ {Taken(s)}] = g[s \ {Taken(s)}]
      BY <2>1, <2>3
    <3>. QED
      BY <1>2, <2>1, <2>3, <2>4, <3>1 DEF SumsUpTo
  <2>. QED
    BY <2>2, <2>5 DEF SumsUpTo
<1>3. T = Nat
  <2>1. T \in SUBSET Nat /\ \A n \in T : n + 1 \in T
    BY <1>2
  <2>. HIDE DEF T
  <2>. QED
    BY <1>1, <2>1, NatSet
<1>4. Cardinality(S) \in Nat /\ Small(S, Cardinality(S)) = SUBSET S
  BY SmallRight
<1>5. PICK g : SumsUpTo(g, f, S, Cardinality(S))
  BY <1>3, <1>4
<1>6. /\ g \in [SUBSET S -> Int]
      /\ \A s \in SUBSET S : g[s] = IF s = {} THEN 0 ELSE f[Taken(s)] + g[s \ {Taken(s)}]
  BY <1>4, <1>5 DEF SumsUpTo
<1>7. Sums(g, f, S)
  BY <1>6 DEF Sums
<1>. QED
  BY <1>6, <1>7

(* Folds over two sets agree on the subsets of both.                       *)
LEMMA SumsAgree ==
    ASSUME NEW S, NEW R \in SUBSET S, IsFiniteSet(R), NEW f, NEW g, NEW h, Sums(g, f, S), Sums(h, f, R)
    PROVE  \A r \in SUBSET R : h[r] = g[r]
<1>. DEFINE C == {r \in SUBSET R : h[r] = g[r]}
<1>1. ASSUME NEW s \in SUBSET R, \A r \in SUBSET s : r # s => r \in C PROVE s \in C
  <2>1. s # {} => Taken(s) \in s
    BY DEF Taken
  <2>2. s # {} => h[s \ {Taken(s)}] = g[s \ {Taken(s)}]
    BY <1>1, <2>1
  <2>3. h[s] = IF s = {} THEN 0 ELSE f[Taken(s)] + h[s \ {Taken(s)}]
    BY DEF Sums
  <2>4. g[s] = IF s = {} THEN 0 ELSE f[Taken(s)] + g[s \ {Taken(s)}]
    BY DEF Sums
  <2>. QED
    BY <2>2, <2>3, <2>4
<1>2. C \in SUBSET SUBSET R
  OBVIOUS
<1>. HIDE DEF C
<1>3. C = SUBSET R
  BY <1>1, <1>2, SubsetInduction
<1>. QED
  BY <1>3 DEF C

(* What a sum is made of, whichever element the fold takes first.          *)
LEMMA TotalFirst ==
    ASSUME NEW S, IsFiniteSet(S), NEW f, \A x \in S : f[x] \in Int
    PROVE  /\ Total(f, S) \in Int
           /\ S = {} => Total(f, S) = 0
           /\ S # {} => Total(f, S) = f[Taken(S)] + Total(f, S \ {Taken(S)})
<1>1. PICK g \in [SUBSET S -> Int] : Sums(g, f, S)
  BY SumsExist
<1>2. ASSUME NEW R \in SUBSET S PROVE Total(f, R) = g[R]
  <2>1. IsFiniteSet(R) /\ \A x \in R : f[x] \in Int
    BY FS_Subset
  <2>2. \E h : Sums(h, f, R)
    BY <2>1, SumsExist
  <2>3. Sums(CHOOSE h : Sums(h, f, R), f, R)
    BY <2>2
  <2>. QED
    BY <1>1, <2>1, <2>3, SumsAgree, TotalUnfolds, SMTT(30)
<1>3. g[S] = IF S = {} THEN 0 ELSE f[Taken(S)] + g[S \ {Taken(S)}]
  BY <1>1 DEF Sums
<1>. QED
  BY <1>1, <1>2, <1>3

(* A sum is that of all but any one element, and that one.                 *)
LEMMA TotalRemove ==
    ASSUME NEW S, IsFiniteSet(S), NEW f, \A x \in S : f[x] \in Int
    PROVE  \A x \in S : Total(f, S) = f[x] + Total(f, S \ {x})
<1>. DEFINE C == {s \in SUBSET S : \A x \in s : Total(f, s) = f[x] + Total(f, s \ {x})}
<1>1. ASSUME NEW s \in SUBSET S, \A r \in SUBSET s : r # s => r \in C, NEW x \in s
      PROVE  Total(f, s) = f[x] + Total(f, s \ {x})
  <2>. DEFINE y == Taken(s)
  <2>1. \A r \in SUBSET S : IsFiniteSet(r) /\ Total(f, r) \in Int
    BY FS_Subset, TotalFirst
  <2>2. y \in s /\ Total(f, s) = f[y] + Total(f, s \ {y})
    BY <2>1, TotalFirst DEF Taken
  <2>. HIDE DEF y
  <2>3. CASE x = y
    BY <2>2, <2>3
  <2>4. CASE x # y
    <3>1. Total(f, s \ {y}) = f[x] + Total(f, (s \ {y}) \ {x})
      BY <1>1, <2>2, <2>4
    <3>2. Total(f, s \ {x}) = f[y] + Total(f, (s \ {x}) \ {y})
      BY <1>1, <2>2, <2>4
    <3>3. (s \ {x}) \ {y} = (s \ {y}) \ {x} /\ (s \ {y}) \ {x} \in SUBSET S
      OBVIOUS
    <3>4. f[x] \in Int /\ f[y] \in Int /\ Total(f, (s \ {y}) \ {x}) \in Int
      BY <2>1, <2>2, <3>3
    <3>. DEFINE rest == Total(f, (s \ {y}) \ {x})
    <3>5. Total(f, s \ {x}) = f[y] + rest /\ Total(f, s \ {y}) = f[x] + rest /\ rest \in Int
      BY <3>1, <3>2, <3>3, <3>4
    <3>. HIDE DEF rest
    <3>. QED
      BY <2>2, <3>4, <3>5
  <2>. QED
    BY <2>3, <2>4
<1>2. \A s \in SUBSET S : (\A r \in SUBSET s : r # s => r \in C) => s \in C
  BY <1>1
<1>3. C \in SUBSET SUBSET S
  OBVIOUS
<1>. HIDE DEF C
<1>4. C = SUBSET S
  BY <1>2, <1>3, SubsetInduction
<1>. QED
  BY <1>4 DEF C

(* One more element adds its value.                                        *)
LEMMA TotalAdd ==
    ASSUME NEW S, IsFiniteSet(S), NEW f, \A x \in S : f[x] \in Int, NEW x, x \notin S, f[x] \in Int
    PROVE  Total(f, S \cup {x}) = Total(f, S) + f[x]
<1>1. IsFiniteSet(S \cup {x}) /\ (S \cup {x}) \ {x} = S /\ Total(f, S) \in Int
  BY FS_AddElement, TotalFirst, ZenonT(30)
<1>. QED
  BY <1>1, TotalRemove

(* A sum of zeros.                                                         *)
LEMMA TotalZero ==
    ASSUME NEW S, IsFiniteSet(S), NEW f, \A x \in S : f[x] = 0
    PROVE  Total(f, S) = 0
<1>. DEFINE C == {s \in SUBSET S : Total(f, s) = 0}
<1>1. ASSUME NEW s \in SUBSET S, \A r \in SUBSET s : r # s => r \in C PROVE s \in C
  <2>1. IsFiniteSet(s) /\ \A x \in s : f[x] \in Int
    BY FS_Subset
  <2>2. /\ s = {} => Total(f, s) = 0
        /\ s # {} => Total(f, s) = f[Taken(s)] + Total(f, s \ {Taken(s)})
    BY <2>1, TotalFirst
  <2>3. s # {} => Taken(s) \in s
    BY DEF Taken
  <2>4. s # {} => Total(f, s \ {Taken(s)}) = 0
    BY <1>1, <2>3
  <2>. QED
    BY <2>2, <2>3, <2>4
<1>2. C \in SUBSET SUBSET S
  OBVIOUS
<1>. HIDE DEF C
<1>3. C = SUBSET S
  BY <1>1, <1>2, SubsetInduction
<1>. QED
  BY <1>3 DEF C

(* One more for each element of a part of S adds the size of that part.    *)
LEMMA TotalMarked ==
    ASSUME NEW S, IsFiniteSet(S), NEW T \in SUBSET S, NEW f, \A x \in S : f[x] \in Int,
           NEW g, \A x \in S : g[x] = f[x] + (IF x \in T THEN 1 ELSE 0)
    PROVE  Total(g, S) = Total(f, S) + Cardinality(T)
<1>. DEFINE C == {R \in SUBSET S : Total(g, R) = Total(f, R) + Cardinality(R \cap T)}
<1>1. ASSUME NEW s \in SUBSET S, \A r \in SUBSET s : r # s => r \in C PROVE s \in C
  <2>1. IsFiniteSet(s) /\ (\A x \in s : f[x] \in Int) /\ (\A x \in s : g[x] \in Int)
    BY FS_Subset
  <2>2. CASE s = {}
    <3>1. Total(f, s) = 0 /\ Total(g, s) = 0
      BY <2>1, <2>2, TotalFirst
    <3>2. s \cap T = {} /\ Cardinality({}) = 0
      BY <2>2, FS_EmptySet
    <3>. QED
      BY <3>1, <3>2
  <2>3. CASE s # {}
    <3>1. PICK x \in s : TRUE
      BY <2>3
    <3>. DEFINE r == s \ {x}
    <3>2. Total(f, s) = f[x] + Total(f, r) /\ Total(g, s) = g[x] + Total(g, r)
      BY <2>1, <3>1, TotalRemove
    <3>3. Total(g, r) = Total(f, r) + Cardinality(r \cap T)
      BY <1>1, <3>1
    <3>4. IsFiniteSet(r \cap T) /\ x \notin r \cap T
      BY FS_Subset
    <3>5. Cardinality((r \cap T) \cup {x}) = Cardinality(r \cap T) + 1
      BY <3>4, FS_AddElement
    <3>6. Total(f, r) \in Int /\ Cardinality(r \cap T) \in Nat /\ f[x] \in Int
      <4>1. IsFiniteSet(r) /\ \A y \in r : f[y] \in Int
        BY FS_Subset
      <4>. QED
        BY <3>1, <3>4, <4>1, TotalFirst, FS_CardinalityType
    <3>7. (x \in T => s \cap T = (r \cap T) \cup {x}) /\ (x \notin T => s \cap T = r \cap T)
      BY <3>1
    <3>8. g[x] = f[x] + (IF x \in T THEN 1 ELSE 0)
      BY <3>1
    <3>. HIDE DEF r
    <3>9. Cardinality(s \cap T) = Cardinality(r \cap T) + (IF x \in T THEN 1 ELSE 0)
      <4>1. CASE x \in T
        BY <3>5, <3>7, <4>1
      <4>2. CASE x \notin T
        BY <3>6, <3>7, <4>2
      <4>. QED
        BY <4>1, <4>2
    <3>10. Total(g, s) = Total(f, s) + Cardinality(s \cap T)
      BY <3>2, <3>3, <3>6, <3>8, <3>9
    <3>. QED
      BY <3>10
  <2>. QED
    BY <2>2, <2>3
<1>2. \A s \in SUBSET S : (\A r \in SUBSET s : r # s => r \in C) => s \in C
  BY <1>1
<1>3. C \in SUBSET SUBSET S
  OBVIOUS
<1>. HIDE DEF C
<1>4. C = SUBSET S
  BY <1>2, <1>3, SubsetInduction
<1>5. S \cap T = T
  OBVIOUS
<1>. QED
  BY <1>4, <1>5 DEF C

(* Sums of the first values of f: each begins where the last one ended, and *)
(* all later ones are beyond.                                               *)
LEMMA Running ==
    ASSUME NEW n \in Nat, NEW f, \A k \in 0 .. (n - 1) : f[k] \in Nat
    PROVE  \A b \in 0 .. n :
              /\ Total(f, 0 .. (b - 1)) \in Int
              /\ b < n => Total(f, 0 .. ((b + 1) - 1)) = Total(f, 0 .. (b - 1)) + f[b]
              /\ \A a \in 0 .. (b - 1) : Total(f, 0 .. (a - 1)) + f[a] <= Total(f, 0 .. (b - 1))
<1>. DEFINE P(b) == Total(f, 0 .. (b - 1))
<1>1. ASSUME NEW b \in 0 .. n
      PROVE  IsFiniteSet(0 .. (b - 1)) /\ P(b) \in Int /\ \A k \in 0 .. (b - 1) : f[k] \in Int
  <2>1. IsFiniteSet(0 .. (b - 1)) /\ \A k \in 0 .. (b - 1) : f[k] \in Int
    BY FS_Interval
  <2>. QED
    BY <2>1, TotalFirst
<1>2. ASSUME NEW b \in 0 .. n, b < n PROVE P(b + 1) = P(b) + f[b]
  <2>1. 0 .. ((b + 1) - 1) = (0 .. (b - 1)) \cup {b} /\ b \notin 0 .. (b - 1) /\ f[b] \in Int
    BY <1>2
  <2>. DEFINE A == 0 .. (b - 1)
  <2>4. IsFiniteSet(A) /\ (\A k \in A : f[k] \in Int) /\ b \notin A
    BY <1>1, <2>1
  <2>2. Total(f, A \cup {b}) = Total(f, A) + f[b]
    <3>. HIDE DEF A
    <3>. QED
      BY <2>1, <2>4, TotalAdd
  <2>3. P(b + 1) = Total(f, 0 .. ((b + 1) - 1))
    OBVIOUS
  <2>. QED
    BY <2>1, <2>2, <2>3
<1>. HIDE DEF P
<1>. DEFINE D == {b \in Nat : b <= n /\ \E a \in 0 .. (b - 1) : ~ (P(a) + f[a] <= P(b))}
<1>3. ASSUME D # {} PROVE FALSE
  <2>1. PICK b \in D : \A c \in D : b <= c
    BY <1>3, LeastNat
  <2>2. PICK a \in 0 .. (b - 1) : ~ (P(a) + f[a] <= P(b))
    BY <2>1
  <2>3. b \in 1 .. n /\ b - 1 \in 0 .. n /\ (b - 1) + 1 = b /\ b - 1 \notin D
    <3>1. b \in Nat /\ b <= n /\ a \in Nat /\ a <= b - 1
      BY <2>1, <2>2
    <3>2. b - 1 \in D => b <= b - 1
      BY <2>1
    <3>. HIDE DEF D
    <3>. QED
      BY <3>1, <3>2
  <2>4. P(b) = P(b - 1) + f[b - 1] /\ f[b - 1] \in Nat
    BY <1>2, <2>3
  <2>5. P(b - 1) \in Int /\ P(a) \in Int /\ f[a] \in Nat
    <3>1. a \in 0 .. n /\ a \in 0 .. (n - 1)
      BY <2>2, <2>3
    <3>2. b - 1 \in 0 .. n
      BY <2>3
    <3>. HIDE DEF D
    <3>. QED
      BY <1>1, <3>1, <3>2
  <2>6. a = b - 1 \/ P(a) + f[a] <= P(b - 1)
    BY <2>2, <2>3
  <2>. QED
    BY <2>2, <2>4, <2>5, <2>6
<1>4. \A b \in 0 .. n : \A a \in 0 .. (b - 1) : P(a) + f[a] <= P(b)
  BY <1>3
<1>. QED
  BY <1>1, <1>2, <1>4 DEF P

(* A sum of values that are no less is no less.                            *)
LEMMA TotalMore ==
    ASSUME NEW S, IsFiniteSet(S), NEW f, NEW g, (\A x \in S : f[x] \in Int /\ g[x] \in Int),
           \A x \in S : f[x] <= g[x]
    PROVE  Total(f, S) <= Total(g, S)
<1>. DEFINE C == {s \in SUBSET S : Total(f, s) <= Total(g, s)}
<1>1. ASSUME NEW s \in SUBSET S, \A r \in SUBSET s : r # s => r \in C PROVE s \in C
  <2>1. IsFiniteSet(s) /\ (\A x \in s : f[x] \in Int) /\ (\A x \in s : g[x] \in Int)
    BY FS_Subset
  <2>2. /\ s = {} => Total(f, s) = 0 /\ Total(g, s) = 0
        /\ s # {} => Total(f, s) = f[Taken(s)] + Total(f, s \ {Taken(s)})
        /\ s # {} => Total(g, s) = g[Taken(s)] + Total(g, s \ {Taken(s)})
    BY <2>1, TotalFirst
  <2>3. s # {} => Taken(s) \in s /\ Taken(s) \in S
    BY DEF Taken
  <2>4. s # {} => s \ {Taken(s)} \in C
    BY <1>1, <2>3
  <2>5. /\ IsFiniteSet(s \ {Taken(s)})
        /\ (\A x \in s \ {Taken(s)} : f[x] \in Int) /\ (\A x \in s \ {Taken(s)} : g[x] \in Int)
    BY <2>1, FS_RemoveElement
  <2>6. Total(f, s \ {Taken(s)}) \in Int /\ Total(g, s \ {Taken(s)}) \in Int
    BY <2>5, TotalFirst
  <2>. QED
    BY <2>2, <2>3, <2>4, <2>6
<1>2. C \in SUBSET SUBSET S
  OBVIOUS
<1>. HIDE DEF C
<1>3. C = SUBSET S
  BY <1>1, <1>2, SubsetInduction
<1>. QED
  BY <1>3 DEF C

(* A sum is that of the values over the set, whatever the function beyond. *)
LEMMA TotalSame ==
    ASSUME NEW S, IsFiniteSet(S), NEW f, NEW g, (\A x \in S : f[x] \in Int /\ g[x] \in Int),
           \A x \in S : f[x] = g[x]
    PROVE  Total(f, S) = Total(g, S)
<1>. DEFINE C == {s \in SUBSET S : Total(f, s) = Total(g, s)}
<1>1. ASSUME NEW s \in SUBSET S, \A r \in SUBSET s : r # s => r \in C PROVE s \in C
  <2>1. IsFiniteSet(s) /\ (\A x \in s : f[x] \in Int) /\ (\A x \in s : g[x] \in Int)
    BY FS_Subset
  <2>2. /\ s = {} => Total(f, s) = 0 /\ Total(g, s) = 0
        /\ s # {} => Total(f, s) = f[Taken(s)] + Total(f, s \ {Taken(s)})
        /\ s # {} => Total(g, s) = g[Taken(s)] + Total(g, s \ {Taken(s)})
    BY <2>1, TotalFirst
  <2>3. s # {} => Taken(s) \in s /\ Taken(s) \in S
    BY DEF Taken
  <2>4. s # {} => s \ {Taken(s)} \in C
    BY <1>1, <2>3
  <2>5. /\ IsFiniteSet(s \ {Taken(s)})
        /\ (\A x \in s \ {Taken(s)} : f[x] \in Int) /\ (\A x \in s \ {Taken(s)} : g[x] \in Int)
    BY <2>1, FS_RemoveElement
  <2>6. Total(f, s \ {Taken(s)}) \in Int /\ Total(g, s \ {Taken(s)}) \in Int
    BY <2>5, TotalFirst
  <2>. QED
    BY <2>2, <2>3, <2>4, <2>6
<1>2. C \in SUBSET SUBSET S
  OBVIOUS
<1>. HIDE DEF C
<1>3. C = SUBSET S
  BY <1>1, <1>2, SubsetInduction
<1>. QED
  BY <1>3 DEF C

(* A factor common to the values is one of the sum.                        *)
LEMMA TotalTimes ==
    ASSUME NEW S, IsFiniteSet(S), NEW f, NEW g, (\A x \in S : f[x] \in Int /\ g[x] \in Int),
           NEW k \in Int, \A x \in S : g[x] = k * f[x]
    PROVE  Total(g, S) = k * Total(f, S)
<1>. DEFINE C == {s \in SUBSET S : Total(g, s) = k * Total(f, s)}
<1>1. ASSUME NEW s \in SUBSET S, \A r \in SUBSET s : r # s => r \in C PROVE s \in C
  <2>1. IsFiniteSet(s) /\ (\A x \in s : f[x] \in Int) /\ (\A x \in s : g[x] \in Int)
    BY FS_Subset
  <2>2. /\ s = {} => Total(f, s) = 0 /\ Total(g, s) = 0
        /\ s # {} => Total(f, s) = f[Taken(s)] + Total(f, s \ {Taken(s)})
        /\ s # {} => Total(g, s) = g[Taken(s)] + Total(g, s \ {Taken(s)})
    BY <2>1, TotalFirst
  <2>3. s # {} => Taken(s) \in s /\ Taken(s) \in S
    BY DEF Taken
  <2>4. s # {} => s \ {Taken(s)} \in C
    BY <1>1, <2>3
  <2>5. /\ IsFiniteSet(s \ {Taken(s)})
        /\ (\A x \in s \ {Taken(s)} : f[x] \in Int) /\ (\A x \in s \ {Taken(s)} : g[x] \in Int)
    BY <2>1, FS_RemoveElement
  <2>6. Total(f, s \ {Taken(s)}) \in Int /\ Total(g, s \ {Taken(s)}) \in Int
    BY <2>5, TotalFirst
  <2>. QED
    BY <2>2, <2>3, <2>4, <2>6
<1>2. C \in SUBSET SUBSET S
  OBVIOUS
<1>. HIDE DEF C
<1>3. C = SUBSET S
  BY <1>1, <1>2, SubsetInduction
<1>. QED
  BY <1>3 DEF C

(* The sum over two sets with nothing in common.                           *)
LEMMA TotalUnion ==
    ASSUME NEW A, IsFiniteSet(A), NEW S, IsFiniteSet(S), A \cap S = {},
           NEW f, \A x \in A \cup S : f[x] \in Int
    PROVE  Total(f, A \cup S) = Total(f, A) + Total(f, S)
<1>. DEFINE C == {s \in SUBSET S : Total(f, A \cup s) = Total(f, A) + Total(f, s)}
<1>0. Total(f, A) \in Int
  BY TotalFirst
<1>1. ASSUME NEW s \in SUBSET S, \A r \in SUBSET s : r # s => r \in C PROVE s \in C
  <2>. SUFFICES Total(f, A \cup s) = Total(f, A) + Total(f, s)
    OBVIOUS
  <2>1. IsFiniteSet(s) /\ (\A x \in s : f[x] \in Int)
    BY FS_Subset
  <2>2. CASE s = {}
    <3>1. Total(f, s) = 0 /\ A \cup s = A
      BY <2>1, <2>2, TotalFirst
    <3>2. Total(f, A \cup s) = Total(f, A)
      BY <3>1, Zenon
    <3>. QED
      BY <1>0, <3>1, <3>2
  <2>3. CASE s # {}
    <3>. DEFINE x == Taken(s)  r == s \ {x}
    <3>1. x \in s /\ x \in S /\ x \notin A
      BY <2>3 DEF Taken
    <3>2. Total(f, s) = f[x] + Total(f, r)
      BY <2>1, <2>3, TotalFirst
    <3>3. IsFiniteSet(r) /\ (\A y \in r : f[y] \in Int) /\ r \in C
      BY <1>1, <2>1, <3>1, FS_RemoveElement, ZenonT(30)
    <3>4. IsFiniteSet(A \cup r) /\ (\A y \in A \cup r : f[y] \in Int) /\ x \notin A \cup r
      BY <3>1, <3>3, FS_Union
    <3>5. Total(f, (A \cup r) \cup {x}) = Total(f, A \cup r) + f[x]
      <4>1. f[x] \in Int
        BY <3>1
      <4>. HIDE DEF x, r
      <4>. QED
        BY <3>4, <4>1, TotalAdd
    <3>6. (A \cup r) \cup {x} = A \cup s
      BY <3>1
    <3>7. Total(f, A \cup r) = Total(f, A) + Total(f, r) /\ Total(f, r) \in Int /\ f[x] \in Int
      BY <3>1, <3>3, TotalFirst
    <3>8. Total(f, A \cup s) = Total(f, A \cup r) + f[x]
      BY <3>5, <3>6, Zenon
    <3>. HIDE DEF x, r
    <3>. QED
      BY <1>0, <3>2, <3>7, <3>8
  <2>. QED
    BY <2>2, <2>3
<1>2. C \in SUBSET SUBSET S
  OBVIOUS
<1>. HIDE DEF C
<1>3. C = SUBSET S
  BY <1>1, <1>2, SubsetInduction
<1>. QED
  BY <1>3 DEF C

(* A sum of ones counts.                                                   *)
LEMMA TotalOnes ==
    ASSUME NEW S, IsFiniteSet(S), NEW f, \A x \in S : f[x] = 1
    PROVE  Total(f, S) = Cardinality(S)
<1>. DEFINE z == [x \in S |-> 0]
<1>1. Total(z, S) = 0
  BY TotalZero
<1>2. (\A x \in S : z[x] \in Int) /\ \A x \in S : f[x] = z[x] + (IF x \in S THEN 1 ELSE 0)
  OBVIOUS
<1>. HIDE DEF z
<1>3. Total(f, S) = Total(z, S) + Cardinality(S)
  BY <1>2, TotalMarked
<1>. QED
  BY <1>1, <1>3, FS_CardinalityType

(* CeilDiv is the least number of groups of b that a fit in.               *)
LEMMA CeilDivRight ==
    ASSUME NEW a \in Nat, NEW b \in Nat \ {0}
    PROVE  /\ CeilDiv(a, b) \in Nat
           /\ a <= CeilDiv(a, b) * b /\ CeilDiv(a, b) * b < a + b
           /\ \A q \in Nat : a <= q * b => CeilDiv(a, b) <= q
           /\ CeilDiv(a, b) <= a /\ (a > 0 => CeilDiv(a, b) > 0)
<1>. DEFINE c == a + b - 1  q0 == c \div b
<1>1. c \in Nat
  OBVIOUS
<1>2. c = q0 * b + (c % b) /\ c % b \in 0 .. (b - 1) /\ q0 \in Nat
  BY <1>1, Euclid
<1>3. q0 = CeilDiv(a, b)
  BY DEF CeilDiv
<1>4. q0 * b \in Nat /\ a <= q0 * b /\ q0 * b < a + b
  <2>1. q0 * b \in Int
    BY <1>2
  <2>. HIDE DEF q0
  <2>. QED
    BY <1>2, <2>1
<1>5. ASSUME NEW q \in Nat, a <= q * b PROVE q0 <= q
  <2>1. ASSUME q < q0 PROVE FALSE
    <3>1. q * b + b <= q0 * b /\ q * b \in Int
      BY <1>2, <2>1, Groups
    <3>. HIDE DEF q0
    <3>. QED
      BY <1>4, <1>5, <3>1
  <2>. QED
    BY <1>2, <2>1
<1>6. q0 <= a
  <2>1. a <= a * b
    OBVIOUS
  <2>. QED
    BY <1>5, <2>1
<1>7. a > 0 => q0 > 0
  BY <1>2, <1>4
<1>. QED
  BY <1>2, <1>3, <1>4, <1>5, <1>6, <1>7

(* Larger groups are no more.                                              *)
LEMMA CeilDivLess ==
    ASSUME NEW a \in Nat, NEW c \in Nat \ {0}, NEW d \in Nat \ {0}, c <= d
    PROVE  CeilDiv(a, d) <= CeilDiv(a, c)
<1>. DEFINE q == CeilDiv(a, c)
<1>1. q \in Nat /\ a <= q * c
  BY CeilDivRight
<1>. HIDE DEF q
<1>2. q * c <= q * d /\ q * c \in Nat /\ q * d \in Nat
  BY <1>1
<1>3. a <= q * d
  BY <1>1, <1>2
<1>4. CeilDiv(a, d) <= q
  BY <1>1, <1>3, CeilDivRight
<1>. QED
  BY <1>4 DEF q

(* Products: in any order, over a common factor, and of what is more.      *)
LEMMA Product ==
    ASSUME NEW a \in Nat, NEW b \in Nat, NEW c \in Nat
    PROVE  /\ a * b \in Nat /\ a * b = b * a /\ (a * b) * c = (a * c) * b
           /\ (b <= c => a * b <= a * c)
           /\ (a # 0 /\ a * b = a * c => b = c)
<1>1. a * b \in Nat /\ a * c \in Nat /\ a * b = b * a /\ (a * b) * c = (a * c) * b
  OBVIOUS
<1>2. b <= c => a * b <= a * c
  OBVIOUS
<1>3. ASSUME a # 0, a * b = a * c PROVE b = c
  <2>1. b < c => b * a + a <= c * a
    BY <1>3, Groups
  <2>2. c < b => c * a + a <= b * a
    BY <1>3, Groups
  <2>3. a * b = b * a /\ a * c = c * a
    OBVIOUS
  <2>. QED
    BY <1>1, <1>3, <2>1, <2>2, <2>3
<1>. QED
  BY <1>1, <1>2, <1>3

-----------------------------------------------------------------------------
(***************************************************************************)
(* Powers of two.                                                          *)
(***************************************************************************)
Doubles(g, S) == \A k \in S : g[k] = IF k = 0 THEN 1 ELSE 2 * g[k - 1]

(* The doublings up to a number are determined.                            *)
LEMMA DoublesAgree ==
    ASSUME NEW n \in Nat, NEW m \in 0..n, NEW g, NEW h, Doubles(g, 0..n), Doubles(h, 0..m)
    PROVE  \A k \in 0..m : h[k] = g[k]
<1>. DEFINE T == {k \in Nat : k <= m /\ h[k] # g[k]}
<1>1. ASSUME T # {} PROVE FALSE
  <2>1. PICK k \in T : \A j \in T : k <= j
    BY <1>1, LeastNat
  <2>2. k \in 0..m /\ k \in 0..n /\ h[k] # g[k]
    BY <2>1
  <2>3. k = 0 \/ h[k - 1] = g[k - 1]
    <3>1. k = 0 \/ (k - 1 \in Nat /\ k - 1 <= m /\ ~ (k <= k - 1))
      BY <2>2
    <3>. QED
      BY <2>1, <3>1
  <2>. QED
    BY <2>2, <2>3 DEF Doubles
<1>. QED
  BY <1>1

(* Doubled is a power of two, and grows without bound.                     *)
LEMMA DoubledRight ==
    /\ Doubled[0] = 1
    /\ \A k \in Nat : Doubled[k] \in Nat /\ Doubled[k] > k /\ Doubled[k + 1] = 2 * Doubled[k]
<1>. DEFINE T == {n \in Nat : \E g : Doubles(g, 0..n)}
<1>1. 0 \in T
  <2>1. Doubles([k \in 0..0 |-> 1], 0..0)
    BY DEF Doubles
  <2>. QED
    BY <2>1
<1>2. ASSUME NEW n \in T PROVE n + 1 \in T
  <2>1. PICK g : Doubles(g, 0..n)
    BY <1>2
  <2>2. Doubles([k \in 0..(n + 1) |-> IF k <= n THEN g[k] ELSE 2 * g[n]], 0..(n + 1))
    BY <2>1 DEF Doubles
  <2>. QED
    BY <2>2
<1>3. T = Nat
  <2>. HIDE DEF T
  <2>1. T \in SUBSET Nat
    BY DEF T
  <2>. QED
    BY <1>1, <1>2, <2>1, NatSet
<1>. DEFINE G(n) == CHOOSE g : Doubles(g, 0..n)
            f == [n \in Nat |-> G(n)[n]]
<1>4. ASSUME NEW n \in Nat PROVE Doubles(G(n), 0..n)
  BY <1>3
<1>. HIDE DEF G
<1>5. ASSUME NEW n \in Nat PROVE f[n] = IF n = 0 THEN 1 ELSE 2 * f[n - 1]
  <2>1. n = 0 => G(n)[n] = 1
    BY <1>4 DEF Doubles
  <2>2. ASSUME n # 0 PROVE G(n)[n] = 2 * G(n - 1)[n - 1]
    <3>1. G(n)[n] = 2 * G(n)[n - 1]
      BY <1>4, <2>2 DEF Doubles
    <3>2. n - 1 \in 0..n /\ n - 1 \in Nat /\ n - 1 \in 0..(n - 1)
      BY <2>2
    <3>3. G(n - 1)[n - 1] = G(n)[n - 1]
      BY <1>4, <3>2, DoublesAgree
    <3>. QED
      BY <3>1, <3>3
  <2>. QED
    BY <2>1, <2>2
<1>6. f = [k \in Nat |-> IF k = 0 THEN 1 ELSE 2 * f[k - 1]]
  BY <1>5
<1>. HIDE DEF f
<1>7. Doubled = [k \in Nat |-> IF k = 0 THEN 1 ELSE 2 * Doubled[k - 1]]
  BY <1>6 DEF Doubled
<1>8. Doubled[0] = 1 /\ \A k \in Nat : Doubled[k + 1] = 2 * Doubled[k]
  BY <1>7
<1>. DEFINE U == {k \in Nat : Doubled[k] \in Nat /\ Doubled[k] > k}
<1>9. 0 \in U /\ \A k \in U : k + 1 \in U
  BY <1>8
<1>10. U = Nat
  <2>. HIDE DEF U
  <2>1. U \in SUBSET Nat
    BY DEF U
  <2>. QED
    BY <1>9, <2>1, NatSet
<1>. QED
  BY <1>8, <1>10

-----------------------------------------------------------------------------
(***************************************************************************)
(* Counts of the members of a set of numbers, up to one.                   *)
(***************************************************************************)
Under(S, a) == Cardinality({p \in S : p < a})

(* How many there are grows by those that are passed, and no more of them   *)
(* than numbers.                                                            *)
LEMMA UnderRight ==
    ASSUME NEW S \in SUBSET Nat, IsFiniteSet(S)
    PROVE  /\ \A a \in Nat : Under(S, a) \in Nat
           /\ Under(S, 0) = 0
           /\ \A a, b \in Nat : a <= b =>
                /\ Under(S, b) = Under(S, a) + Cardinality({p \in S : a <= p /\ p < b})
                /\ Cardinality({p \in S : a <= p /\ p < b}) \in 0 .. (b - a)
           /\ \A a \in Nat : Under(S, a + 1) = Under(S, a) + (IF a \in S THEN 1 ELSE 0)
<1>0. \A p \in S : p \in Nat
  OBVIOUS
<1>1. ASSUME NEW T \in SUBSET S PROVE IsFiniteSet(T) /\ Cardinality(T) \in Nat
  BY FS_Subset, FS_CardinalityType
<1>2. ASSUME NEW a \in Nat PROVE Under(S, a) \in Nat
  BY <1>1 DEF Under
<1>3. Under(S, 0) = 0
  <2>1. {p \in S : p < 0} = {}
    <3>1. \A p \in S : ~ (p < 0)
      BY <1>0
    <3>. QED
      BY <3>1
  <2>. QED
    BY <2>1, FS_EmptySet DEF Under
<1>4. ASSUME NEW a \in Nat, NEW b \in Nat, a <= b
      PROVE  /\ Under(S, b) = Under(S, a) + Cardinality({p \in S : a <= p /\ p < b})
             /\ Cardinality({p \in S : a <= p /\ p < b}) \in 0 .. (b - a)
  <2>. DEFINE low == {p \in S : p < a}  mid == {p \in S : a <= p /\ p < b}  all == {p \in S : p < b}
  <2>1. all = low \cup mid /\ low \cap mid = {}
    <3>1. \A p \in S : (p < b <=> p < a \/ (a <= p /\ p < b)) /\ ~ (p < a /\ a <= p)
      BY <1>0, <1>4
    <3>. QED
      BY <3>1
  <2>2. IsFiniteSet(low) /\ IsFiniteSet(mid) /\ Cardinality(low) \in Nat /\ Cardinality(mid) \in Nat
    BY <1>1
  <2>3. Cardinality(all) = Cardinality(low) + Cardinality(mid)
    <3>1. Cardinality(low \cap mid) = 0
      BY <2>1, FS_EmptySet
    <3>2. Cardinality(low \cup mid) = Cardinality(low) + Cardinality(mid) - Cardinality(low \cap mid)
      <4>. HIDE DEF low, mid
      <4>. QED
        BY <2>2, FS_Union
    <3>. QED
      BY <2>1, <2>2, <3>1, <3>2
  <2>4. Cardinality(mid) <= b - a
    <3>1. mid \in SUBSET (a .. (b - 1))
      <4>1. \A p \in S : a <= p /\ p < b => p \in a .. (b - 1)
        BY <1>0
      <4>. QED
        BY <4>1
    <3>2. IsFiniteSet(a .. (b - 1)) /\ Cardinality(a .. (b - 1)) = b - a
      <4>1. a \in Int /\ b - 1 \in Int
        OBVIOUS
      <4>2. a > b - 1 => a = b
        BY <1>4
      <4>. QED
        BY <4>1, <4>2, FS_Interval
    <3>. HIDE DEF mid
    <3>. QED
      BY <3>1, <3>2, FS_Subset
  <2>. QED
    BY <2>2, <2>3, <2>4 DEF Under
<1>5. ASSUME NEW a \in Nat PROVE Under(S, a + 1) = Under(S, a) + (IF a \in S THEN 1 ELSE 0)
  <2>. DEFINE mid == {p \in S : a <= p /\ p < a + 1}
  <2>1. mid = IF a \in S THEN {a} ELSE {}
    <3>1. \A p \in S : a <= p /\ p < a + 1 <=> p = a
      BY <1>0
    <3>. QED
      BY <3>1
  <2>2. Cardinality(mid) = IF a \in S THEN 1 ELSE 0
    BY <2>1, FS_EmptySet, FS_Singleton
  <2>3. Under(S, a + 1) = Under(S, a) + Cardinality(mid)
    BY <1>4
  <2>. QED
    BY <2>2, <2>3
<1>. QED
  BY <1>2, <1>3, <1>4, <1>5

(* Differences of neighbours add up to the difference of the ends.         *)
LEMMA Telescope ==
    ASSUME NEW n \in Nat, NEW f, NEW g, (\A k \in 0 .. n : g[k] \in Int),
           \A k \in 0 .. (n - 1) : f[k] = g[k + 1] - g[k]
    PROVE  Total(f, 0 .. (n - 1)) = g[n] - g[0]
<1>. DEFINE T == {m \in Nat : m <= n => Total(f, 0 .. (m - 1)) = g[m] - g[0]}
<1>1. 0 \in T
  <2>1. 0 .. (0 - 1) = {} /\ g[0] \in Int
    OBVIOUS
  <2>2. Total(f, 0 .. (0 - 1)) = 0
    BY <2>1, FS_EmptySet, TotalFirst
  <2>. QED
    BY <2>1, <2>2
<1>2. ASSUME NEW m \in T PROVE m + 1 \in T
  <2>1. SUFFICES ASSUME m + 1 <= n PROVE Total(f, 0 .. ((m + 1) - 1)) = g[m + 1] - g[0]
    OBVIOUS
  <2>. DEFINE A == 0 .. (m - 1)
  <2>2. Total(f, A) = g[m] - g[0]
    BY <2>1
  <2>3. 0 .. ((m + 1) - 1) = A \cup {m} /\ m \notin A
    OBVIOUS
  <2>4. IsFiniteSet(A) /\ (\A k \in A : f[k] \in Int) /\ f[m] = g[m + 1] - g[m] /\ f[m] \in Int
    <3>1. \A k \in 0 .. m : k \in 0 .. (n - 1) /\ k \in 0 .. n /\ k + 1 \in 0 .. n
      BY <2>1
    <3>2. \A k \in 0 .. m : f[k] = g[k + 1] - g[k] /\ f[k] \in Int
      BY <3>1, SMTT(30)
    <3>. QED
      BY <3>2, FS_Interval
  <2>5. Total(f, A \cup {m}) = Total(f, A) + f[m]
    <3>. HIDE DEF A
    <3>. QED
      BY <2>3, <2>4, TotalAdd
  <2>6. g[m] \in Int /\ g[m + 1] \in Int /\ g[0] \in Int
    BY <2>1
  <2>7. Total(f, 0 .. ((m + 1) - 1)) = Total(f, A) + f[m]
    BY <2>3, <2>5
  <2>. HIDE DEF A
  <2>. QED
    BY <2>2, <2>4, <2>6, <2>7
<1>3. T = Nat
  <2>. HIDE DEF T
  <2>1. T \in SUBSET Nat
    BY DEF T
  <2>. QED
    BY <1>1, <1>2, <2>1, NatSet
<1>. QED
  BY <1>3

-----------------------------------------------------------------------------
(***************************************************************************)
(* Pairs of a thing and one of its own.                                    *)
(***************************************************************************)
Pairs(F, S) == UNION {{x} \X F[x] : x \in S}

(* A map that never takes a value twice has no more arguments than values. *)
LEMMA Fewer ==
    ASSUME NEW S, NEW T, IsFiniteSet(T), NEW f \in [S -> T], \A x, y \in S : f[x] = f[y] => x = y
    PROVE  IsFiniteSet(S) /\ Cardinality(S) <= Cardinality(T)
<1>1. f \in Injection(S, T)
  BY DEF Injection, IsInjective
<1>. QED
  BY <1>1, FS_Injection

(* The sizes of finite sets, one for each thing, add up to the number of   *)
(* pairs.                                                                  *)
LEMMA Fibres ==
    ASSUME NEW S, IsFiniteSet(S), NEW F, (\A x \in S : IsFiniteSet(F[x])),
           NEW f, \A x \in S : f[x] = Cardinality(F[x])
    PROVE  IsFiniteSet(Pairs(F, S)) /\ Cardinality(Pairs(F, S)) = Total(f, S)
<1>. DEFINE C == {s \in SUBSET S : IsFiniteSet(Pairs(F, s)) /\ Cardinality(Pairs(F, s)) = Total(f, s)}
<1>0. ASSUME NEW x \in S PROVE f[x] \in Int
  BY FS_CardinalityType
<1>1. ASSUME NEW s \in SUBSET S, \A r \in SUBSET s : r # s => r \in C PROVE s \in C
  <2>1. IsFiniteSet(s) /\ (\A x \in s : f[x] \in Int)
    BY <1>0, FS_Subset
  <2>2. CASE s = {}
    <3>1. Pairs(F, s) = {}
      BY <2>2 DEF Pairs
    <3>2. Total(f, s) = 0
      BY <2>1, <2>2, TotalFirst
    <3>. QED
      BY <3>1, <3>2, FS_EmptySet
  <2>3. CASE s # {}
    <3>1. PICK x \in s : TRUE
      BY <2>3
    <3>. DEFINE r == s \ {x}  P == Pairs(F, r)  Q == {x} \X F[x]
    <3>2. Total(f, s) = f[x] + Total(f, r)
      BY <2>1, <3>1, TotalRemove
    <3>3. r \in SUBSET s /\ r # s
      BY <3>1
    <3>4. IsFiniteSet(P) /\ Cardinality(P) = Total(f, r)
      BY <1>1, <3>3
    <3>5. IsFiniteSet(Q) /\ Cardinality(Q) = f[x]
      <4>. DEFINE g == [y \in Q |-> y[2]]
      <4>1. g \in [Q -> F[x]]
        OBVIOUS
      <4>2. \A y, z \in Q : g[y] = g[z] => y = z
        OBVIOUS
      <4>3. \A v \in F[x] : \E y \in Q : g[y] = v
        <5>. SUFFICES ASSUME NEW v \in F[x] PROVE \E y \in Q : g[y] = v
          OBVIOUS
        <5>1. <<x, v>> \in Q /\ g[<<x, v>>] = v
          OBVIOUS
        <5>. QED
          BY <5>1
      <4>4. IsFiniteSet(F[x]) /\ f[x] = Cardinality(F[x])
        BY <3>1
      <4>. DEFINE V == F[x]
      <4>5. IsFiniteSet(V) /\ g \in [Q -> V] /\ \A v \in V : \E y \in Q : g[y] = v
        BY <4>1, <4>3, <4>4
      <4>. HIDE DEF g, Q, V
      <4>6. IsFiniteSet(Q) /\ Cardinality(Q) = Cardinality(V)
        BY <4>2, <4>5, SameCount, ZenonT(30)
      <4>. QED
        BY <4>4, <4>6 DEF V
    <3>6. Pairs(F, s) = P \cup Q /\ P \cap Q = {}
      <4>1. ASSUME NEW y PROVE y \in Pairs(F, s) <=> \E z \in s : y \in {z} \X F[z]
        BY DEF Pairs
      <4>2. ASSUME NEW y PROVE y \in P <=> \E z \in r : y \in {z} \X F[z]
        BY DEF Pairs
      <4>3. s = r \cup {x}
        BY <3>1
      <4>4. ASSUME NEW y \in P, y \in Q PROVE FALSE
        <5>1. PICK z \in r : y \in {z} \X F[z]
          BY <4>2, <4>4
        <5>2. y[1] = z /\ y[1] = x
          BY <4>4, <5>1
        <5>. QED
          BY <5>1, <5>2
      <4>5. \A y : y \in Pairs(F, s) <=> y \in P \/ y \in Q
        BY <4>1, <4>2, <4>3
      <4>. QED
        BY <4>4, <4>5
    <3>7. Cardinality(P \cup Q) = Cardinality(P) + Cardinality(Q)
      <4>1. Cardinality(P \cap Q) = 0 /\ Cardinality(P) \in Nat /\ Cardinality(Q) \in Nat
        BY <3>4, <3>5, <3>6, FS_EmptySet, FS_CardinalityType
      <4>. HIDE DEF P, Q
      <4>2. Cardinality(P \cup Q) = Cardinality(P) + Cardinality(Q) - Cardinality(P \cap Q)
        BY <3>4, <3>5, FS_Union
      <4>. QED
        BY <4>1, <4>2
    <3>8. IsFiniteSet(P \cup Q)
      <4>. HIDE DEF P, Q
      <4>. QED
        BY <3>4, <3>5, FS_Union
    <3>9. f[x] \in Int /\ Total(f, r) \in Int
      <4>1. IsFiniteSet(r) /\ \A y \in r : f[y] \in Int
        BY <2>1, FS_RemoveElement
      <4>2. Total(f, r) \in Int
        <5>. HIDE DEF r
        <5>. QED
          BY <4>1, TotalFirst
      <4>. QED
        BY <2>1, <3>1, <4>2
    <3>10. IsFiniteSet(Pairs(F, s)) /\ Cardinality(Pairs(F, s)) = Total(f, s)
      <4>. HIDE DEF P, Q, r
      <4>. QED
        BY <3>2, <3>4, <3>5, <3>6, <3>7, <3>8, <3>9
    <3>. QED
      BY <3>10
  <2>. QED
    BY <2>2, <2>3
<1>2. C \in SUBSET SUBSET S
  OBVIOUS
<1>3. C = SUBSET S
  <2>. HIDE DEF C
  <2>. QED
    BY <1>1, <1>2, SubsetInduction
<1>. QED
  BY <1>3

(* Things and their own that are told apart in a set are no more than it.  *)
LEMMA FibresFit ==
    ASSUME NEW S, IsFiniteSet(S), NEW F, (\A x \in S : IsFiniteSet(F[x])),
           NEW f, (\A x \in S : f[x] = Cardinality(F[x])),
           NEW T, IsFiniteSet(T), NEW g, (\A x \in S : \A y \in F[x] : g[<<x, y>>] \in T),
           \A x, v \in S : \A y \in F[x], w \in F[v] : g[<<x, y>>] = g[<<v, w>>] => x = v /\ y = w
    PROVE  Total(f, S) <= Cardinality(T)
<1>. DEFINE P == Pairs(F, S)  e == [p \in P |-> g[p]]
<1>1. ASSUME NEW p \in P PROVE \E x \in S : \E y \in F[x] : p = <<x, y>>
  <2>1. PICK x \in S : p \in {x} \X F[x]
    BY DEF Pairs
  <2>2. p = <<x, p[2]>> /\ p[2] \in F[x]
    BY <2>1
  <2>. QED
    BY <2>2
<1>2. Cardinality(P) = Total(f, S)
  BY Fibres
<1>. HIDE DEF P
<1>3. e \in [P -> T]
  <2>1. ASSUME NEW p \in P PROVE g[p] \in T
    BY <1>1
  <2>. QED
    BY <2>1
<1>4. ASSUME NEW p \in P, NEW q \in P, e[p] = e[q] PROVE p = q
  <2>1. PICK x \in S : \E y \in F[x] : p = <<x, y>>
    BY <1>1
  <2>2. PICK y \in F[x] : p = <<x, y>>
    BY <2>1
  <2>3. PICK v \in S : \E w \in F[v] : q = <<v, w>>
    BY <1>1
  <2>4. PICK w \in F[v] : q = <<v, w>>
    BY <2>3
  <2>5. g[<<x, y>>] = g[<<v, w>>]
    BY <1>4, <2>2, <2>4
  <2>6. x = v /\ y = w
    BY <2>5
  <2>. QED
    BY <2>2, <2>4, <2>6
<1>. HIDE DEF e
<1>5. Cardinality(P) <= Cardinality(T)
  BY <1>3, <1>4, Fewer
<1>. QED
  BY <1>2, <1>5

(* A part of a sum is no more than the whole.                              *)
LEMMA TotalPart ==
    ASSUME NEW S, IsFiniteSet(S), NEW A \in SUBSET S, NEW f, \A x \in S : f[x] \in Nat
    PROVE  Total(f, A) \in Nat /\ Total(f, A) <= Total(f, S) /\ Total(f, S) \in Nat
<1>1. ASSUME NEW T \in SUBSET S PROVE Total(f, T) \in Nat
  <2>. DEFINE z == [x \in T |-> 0]
  <2>1. IsFiniteSet(T) /\ (\A x \in T : z[x] \in Int /\ f[x] \in Int) /\ (\A x \in T : z[x] <= f[x]) /\ \A x \in T : z[x] = 0
    BY FS_Subset
  <2>. HIDE DEF z
  <2>2. Total(z, T) <= Total(f, T) /\ Total(z, T) = 0 /\ Total(f, T) \in Int
    BY <2>1, TotalMore, TotalZero, TotalFirst
  <2>. QED
    BY <2>2
<1>2. Total(f, A \cup (S \ A)) = Total(f, A) + Total(f, S \ A)
  <2>1. IsFiniteSet(A) /\ IsFiniteSet(S \ A) /\ A \cap (S \ A) = {}
    BY FS_Subset
  <2>2. \A x \in A \cup (S \ A) : f[x] \in Int
    OBVIOUS
  <2>. QED
    BY <2>1, <2>2, TotalUnion
<1>3. A \cup (S \ A) = S /\ S \ A \in SUBSET S
  OBVIOUS
<1>4. Total(f, S) = Total(f, A) + Total(f, S \ A)
  BY <1>2, <1>3
<1>5. Total(f, A) \in Nat /\ Total(f, S \ A) \in Nat /\ Total(f, S) \in Nat
  BY <1>1, <1>3
<1>. QED
  BY <1>4, <1>5

(* A constant added to every value is added as often as there are values.  *)
LEMMA TotalShifted ==
    ASSUME NEW S, IsFiniteSet(S), NEW f, (\A x \in S : f[x] \in Int), NEW c \in Int,
           NEW n, n = Cardinality(S)
    PROVE  /\ Total([x \in S |-> f[x] + c], S) = Total(f, S) + c * n
           /\ Total(f, S) \in Int
<1>. DEFINE e == [x \in S |-> f[x] + c]
            C == {s \in SUBSET S : Total(e, s) = Total(f, s) + c * Cardinality(s)}
<1>1. ASSUME NEW s \in SUBSET S, \A r \in SUBSET s : r # s => r \in C PROVE s \in C
  <2>1. IsFiniteSet(s) /\ (\A x \in s : f[x] \in Int) /\ (\A x \in s : e[x] \in Int)
    BY FS_Subset
  <2>2. CASE s = {}
    <3>1. Total(f, s) = 0 /\ Total(e, s) = 0
      BY <2>1, <2>2, TotalFirst
    <3>2. Cardinality(s) = 0
      BY <2>2, FS_EmptySet
    <3>3. c * 0 = 0
      OBVIOUS
    <3>. HIDE DEF e
    <3>. QED
      BY <3>1, <3>2, <3>3
  <2>3. CASE s # {}
    <3>1. PICK x \in s : TRUE
      BY <2>3
    <3>. DEFINE r == s \ {x}
    <3>2. e[x] = f[x] + c
      OBVIOUS
    <3>. HIDE DEF e
    <3>3. Total(e, s) = e[x] + Total(e, r) /\ Total(f, s) = f[x] + Total(f, r)
      BY <2>1, <3>1, TotalRemove
    <3>4. Total(e, r) = Total(f, r) + c * Cardinality(r)
      BY <1>1, <3>1
    <3>5. IsFiniteSet(r) /\ Cardinality(r) \in Nat /\ Cardinality(s) = Cardinality(r) + 1
      <4>1. IsFiniteSet(r) /\ x \notin r /\ s = r \cup {x}
        BY <2>1, <3>1, FS_Subset
      <4>. QED
        BY <4>1, FS_AddElement, FS_CardinalityType
    <3>6. Total(f, r) \in Int /\ Total(e, r) \in Int
      <4>1. (\A y \in r : f[y] \in Int) /\ (\A y \in r : e[y] \in Int)
        BY <2>1
      <4>. QED
        BY <3>5, <4>1, TotalFirst
    <3>7. f[x] \in Int
      BY <2>1
    <3>. DEFINE m == Cardinality(r)  u == Total(f, r)  v == f[x]
    <3>8. m \in Nat /\ u \in Int /\ v \in Int /\ Cardinality(s) = m + 1
      BY <3>5, <3>6, <3>7
    <3>9. Total(e, s) = (v + c) + (u + c * m) /\ Total(f, s) = v + u
      BY <3>2, <3>3, <3>4
    <3>. HIDE DEF m, u, v
    <3>10. (v + c) + (u + c * m) = (v + u) + c * (m + 1)
      BY <3>8
    <3>. QED
      BY <3>8, <3>9, <3>10
  <2>. QED
    BY <2>2, <2>3
<1>2. C \in SUBSET SUBSET S
  OBVIOUS
<1>. HIDE DEF C
<1>3. C = SUBSET S
  BY <1>1, <1>2, SubsetInduction
<1>4. Total(e, S) = Total(f, S) + c * Cardinality(S)
  BY <1>3 DEF C
<1>5. Total(f, S) \in Int
  BY TotalFirst
<1>. QED
  BY <1>4, <1>5

(* How many numbers there are.                                             *)
LEMMA Counting ==
    ASSUME NEW n \in Nat
    PROVE  /\ IsFiniteSet(0..(n - 1)) /\ Cardinality(0..(n - 1)) = n
           /\ IsFiniteSet(1..n) /\ Cardinality(1..n) = n
<1>1. n - 1 \in Int /\ 0 \in Int /\ 1 \in Int /\ n \in Int
  OBVIOUS
<1>2. IsFiniteSet(0..(n - 1)) /\ Cardinality(0..(n - 1)) = IF 0 > n - 1 THEN 0 ELSE (n - 1) - 0 + 1
  BY <1>1, FS_Interval
<1>3. IsFiniteSet(1..n) /\ Cardinality(1..n) = IF 1 > n THEN 0 ELSE n - 1 + 1
  BY <1>1, FS_Interval
<1>4. (IF 0 > n - 1 THEN 0 ELSE (n - 1) - 0 + 1) = n /\ (IF 1 > n THEN 0 ELSE n - 1 + 1) = n
  OBVIOUS
<1>. QED
  BY <1>2, <1>3, <1>4

=============================================================================
