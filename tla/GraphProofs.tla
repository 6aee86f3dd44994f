----------------------------- MODULE GraphProofs -----------------------------
(***************************************************************************)
(* What the parser accepts and what the gate graph computes, for every     *)
(* definition with finitely many jobs: an accepted run never gets stuck,   *)
(* the governing gates cover every gate a deploy waits for, and the scope  *)
(* of a stage boundary is the frontier of the execution.                   *)
(*                                                                         *)
(* Induction is by least and minimal elements: the library's well-founded  *)
(* orders give a least natural number and a minimal set of a family, and   *)
(* both are facts about sets, which the provers can use.                   *)
(***************************************************************************)
EXTENDS PipelineGraph, FiniteSetTheorems, TLAPS

-----------------------------------------------------------------------------
(* Least and minimal elements                                              *)

\* A family of subsets of a finite set has a minimal member.
LEMMA MinimalSubset ==
    ASSUME NEW X, IsFiniteSet(X), NEW F \in SUBSET (SUBSET X), F # {}
    PROVE  \E A \in F : \A B \in F : B \subseteq A => B = A
<1>1. IsWellFoundedOn(StrictSubsetOrdering(X), SUBSET X)
  BY FS_StrictSubsetOrderingWellFounded, FS_FiniteSubsetsOfFinite
<1>2. PICK A \in F : \A B \in F : ~(<<B, A>> \in StrictSubsetOrdering(X))
  BY <1>1, WFMin
<1> QED BY <1>2 DEF StrictSubsetOrdering

\* A set of natural numbers has a least one: the intervals below its members
\* are a family of finite sets.
LEMMA LeastNatural ==
    ASSUME NEW S \in SUBSET Nat, S # {}
    PROVE  \E n \in S : \A m \in S : n <= m
<1>1. PICK k \in S : TRUE
  OBVIOUS
<1> DEFINE F == {1..m : m \in {i \in S : i <= k}}
           X == 1..k
<1>2. IsFiniteSet(X)
  BY FS_Interval
<1>3. F \in SUBSET (SUBSET X) /\ F # {}
  BY <1>1
<1> HIDE DEF F, X
<1>4. PICK A \in F : \A B \in F : B \subseteq A => B = A
  BY <1>2, <1>3, MinimalSubset
<1> USE DEF F
<1>5. PICK n \in S : n <= k /\ A = 1..n
  BY <1>4
<1>6. ASSUME NEW m \in S, m < n PROVE FALSE
  <2>1. 1..m \in F
    BY <1>5, <1>6
  <2>2. 1..m \subseteq A
    BY <1>5, <1>6
  <2>3. n \in A /\ n \notin 1..m
    BY <1>5, <1>6
  <2> QED BY <1>4, <2>1, <2>2, <2>3
<1> QED BY <1>5, <1>6

\* A set of natural numbers with 0 and every successor is all of them.
LEMMA AllNaturals ==
    ASSUME NEW S \in SUBSET Nat, 0 \in S, \A n \in S : n + 1 \in S
    PROVE  S = Nat
<1> SUFFICES ASSUME Nat \ S # {} PROVE FALSE
  OBVIOUS
<1>1. PICK n \in Nat \ S : \A m \in Nat \ S : n <= m
  BY LeastNatural
<1>2. n - 1 \in Nat /\ n - 1 \in S
  BY <1>1
<1> QED BY <1>1, <1>2

-----------------------------------------------------------------------------
(* Iteration of a function                                                 *)

\* The first n + 1 values of the iteration of G from a.
Begins(X, G, a, n) ==
    {f \in [0..n -> X] : f[0] = a /\ \A i \in 1..n : f[i] = G[f[i - 1]]}

\* Two beginnings agree where both are defined.
LEMMA BeginningsAgree ==
    ASSUME NEW X, NEW G \in [X -> X], NEW a \in X, NEW n \in Nat, NEW m \in Nat,
           NEW f \in Begins(X, G, a, n), NEW g \in Begins(X, G, a, m),
           NEW i \in Nat, i <= n, i <= m
    PROVE  f[i] = g[i]
<1> DEFINE D == {k \in Nat : k <= n /\ k <= m /\ f[k] # g[k]}
<1> SUFFICES ASSUME D # {} PROVE FALSE
  OBVIOUS
<1>1. PICK k \in D : \A l \in D : k <= l
  BY LeastNatural
<1>2. k # 0
  BY <1>1 DEF Begins
<1>3. k - 1 \in Nat /\ k \in 1..n /\ k \in 1..m /\ k - 1 \notin D
  BY <1>1, <1>2
<1>4. f[k - 1] = g[k - 1]
  BY <1>1, <1>3
<1>5. f[k] = G[f[k - 1]] /\ g[k] = G[g[k - 1]]
  BY <1>3 DEF Begins
<1> QED BY <1>1, <1>4, <1>5

\* The iteration of G from a.
Iterations(X, G, a) == {f \in [Nat -> X] : f[0] = a /\ \A n \in Nat : f[n + 1] = G[f[n]]}

\* The iteration of a function exists.
LEMMA Iteration ==
    ASSUME NEW X, NEW G \in [X -> X], NEW a \in X
    PROVE  Iterations(X, G, a) # {}
<1> DEFINE B(n) == Begins(X, G, a, n)
           S == {n \in Nat : B(n) # {}}
<1>1. S = Nat
  <2>1. 0 \in S
    <3>1. [i \in 0..0 |-> a] \in B(0)
      BY DEF Begins
    <3> QED BY <3>1
  <2>2. ASSUME NEW n \in S PROVE n + 1 \in S
    <3>1. PICK f \in B(n) : TRUE
      BY <2>2
    <3>2. f \in [0..n -> X] /\ f[0] = a /\ \A i \in 1..n : f[i] = G[f[i - 1]]
      BY <3>1 DEF Begins
    <3> DEFINE g == [i \in 0..(n + 1) |-> IF i = n + 1 THEN G[f[n]] ELSE f[i]]
    <3>3. g \in [0..(n + 1) -> X] /\ g[0] = a
      BY <3>2
    <3>4. \A i \in 1..(n + 1) : g[i] = G[g[i - 1]]
      BY <3>2
    <3>5. g \in B(n + 1)
      BY <3>3, <3>4 DEF Begins
    <3> QED BY <3>5
  <2> HIDE DEF S
  <2> QED BY <2>1, <2>2, AllNaturals DEF S
<1> DEFINE h(n) == CHOOSE f \in B(n) : TRUE
           F == [n \in Nat |-> h(n)[n]]
<1>2. \A n \in Nat : h(n) \in B(n)
  BY <1>1
<1> HIDE DEF h, S
<1>3. \A n \in Nat : F[n] = h(n)[n] /\ F[n] \in X
  BY <1>2 DEF Begins
<1>4. F[0] = a
  BY <1>2, <1>3 DEF Begins
<1>5. ASSUME NEW n \in Nat PROVE F[n + 1] = G[F[n]]
  <2>1. h(n + 1) \in B(n + 1) /\ h(n) \in B(n)
    BY <1>2
  <2>2. h(n + 1)[n] = h(n)[n]
    BY <2>1, BeginningsAgree
  <2>3. h(n + 1)[n + 1] = G[h(n + 1)[n]]
    BY <2>1 DEF Begins
  <2> QED BY <1>3, <2>2, <2>3
<1>6. F \in [Nat -> X]
  BY <1>3
<1> QED BY <1>4, <1>5, <1>6 DEF Iterations

-----------------------------------------------------------------------------
(* The closure of needs:                                                   *)

\* The needs of the jobs in S, added to S.
Widened(p, S) == S \cup UNION {p.needs[k] : k \in S \cap p.jobs}

\* S holds the needs of its members.
NeedsClosed(p, S) == \A k \in S \cap p.jobs : p.needs[k] \subseteq S

\* What NeedsWithin computes: the needs of j, widened n times.
LEMMA NeedsWithinDef ==
    ASSUME NEW p, ValidateNeeds(p), NEW j \in p.jobs
    PROVE  /\ NeedsWithin(p, j) \in [Nat -> SUBSET p.jobs]
           /\ NeedsWithin(p, j)[0] = p.needs[j]
           /\ \A n \in Nat : NeedsWithin(p, j)[n + 1] = Widened(p, NeedsWithin(p, j)[n])
<1> DEFINE X == SUBSET p.jobs
           G == [S \in X |-> Widened(p, S)]
           R(f) == [n \in Nat |-> IF n = 0 THEN p.needs[j]
                      ELSE f[n - 1] \cup UNION {p.needs[k] : k \in f[n - 1] \cap p.jobs}]
           r == CHOOSE f : f = R(f)
<1>1. p.needs[j] \in X /\ \A k \in p.jobs : p.needs[k] \in X
  BY DEF ValidateNeeds
<1>2. \A S \in X : Widened(p, S) \in X
  BY <1>1 DEF Widened
<1>3. G \in [X -> X]
  BY <1>2
<1>4. PICK f \in [Nat -> X] : f[0] = p.needs[j] /\ \A n \in Nat : f[n + 1] = G[f[n]]
  <2>1. p.needs[j] \in X
    BY <1>1
  <2> HIDE DEF X, G
  <2>2. Iterations(X, G, p.needs[j]) # {}
    BY <1>3, <2>1, Iteration
  <2> QED BY <2>2 DEF Iterations
<1>5. f = R(f)
  <2>1. ASSUME NEW n \in Nat PROVE f[n] = R(f)[n]
    <3>1. CASE n = 0
      BY <1>4, <3>1
    <3>2. CASE n # 0
      <4>1. n - 1 \in Nat /\ n = (n - 1) + 1
        BY <3>2
      <4>2. f[n] = G[f[n - 1]] /\ f[n - 1] \in X
        BY <1>4, <4>1
      <4> QED BY <3>2, <4>2 DEF Widened
    <3> QED BY <3>1, <3>2
  <2>2. R(f) = [n \in Nat |-> R(f)[n]] /\ f = [n \in Nat |-> f[n]]
    BY <1>4
  <2> HIDE DEF R
  <2> QED BY <2>1, <2>2
<1>6. r = R(r)
  <2> HIDE DEF R
  <2> QED BY <1>5
<1>7. NeedsWithin(p, j) = r
  BY DEF NeedsWithin
<1> HIDE DEF r
<1>8. r[0] = p.needs[j]
  BY <1>6
<1>9. ASSUME NEW n \in Nat PROVE r[n + 1] = Widened(p, r[n])
  <2>1. n + 1 \in Nat /\ n + 1 # 0 /\ (n + 1) - 1 = n
    OBVIOUS
  <2>2. R(r)[n + 1] = r[(n + 1) - 1] \cup UNION {p.needs[k] : k \in r[(n + 1) - 1] \cap p.jobs}
    BY <2>1
  <2>3. r[n + 1] = R(r)[n + 1]
    <3> HIDE DEF R
    <3> QED BY <1>6
  <2> QED BY <2>1, <2>2, <2>3 DEF Widened
<1>10. \A n \in Nat : r[n] \in X
  <2> DEFINE S == {n \in Nat : r[n] \in X}
  <2>1. 0 \in S
    BY <1>1, <1>8
  <2>2. \A n \in S : n + 1 \in S
    BY <1>2, <1>9
  <2> HIDE DEF S
  <2>3. S \in SUBSET Nat
    BY DEF S
  <2>4. S = Nat
    BY <2>1, <2>2, <2>3, AllNaturals
  <2> QED BY <2>4 DEF S
<1>11. r \in [Nat -> X]
  BY <1>6, <1>10
<1> QED BY <1>7, <1>8, <1>9, <1>11

\* As many steps as there are jobs are enough: before the closure is reached
\* every step adds a job.
LEMMA ClosureIsClosed ==
    ASSUME NEW p, IsFiniteSet(p.jobs), ValidateNeeds(p), NEW j \in p.jobs
    PROVE  NeedsClosed(p, NeedsClosure(p, j))
<1> DEFINE r == NeedsWithin(p, j)
           Growing(n) == ~NeedsClosed(p, r[n])
           S == {n \in Nat : Growing(n) => Cardinality(r[n]) > n}
<1>1. /\ r \in [Nat -> SUBSET p.jobs]
      /\ \A n \in Nat : r[n + 1] = Widened(p, r[n])
  BY NeedsWithinDef
<1> HIDE DEF r
<1>2. \A n \in Nat : IsFiniteSet(r[n]) /\ Cardinality(r[n]) \in Nat
                   /\ Cardinality(r[n]) <= Cardinality(p.jobs)
  BY <1>1, FS_Subset, FS_CardinalityType
<1>3. 0 \in S
  <2> SUFFICES ASSUME Growing(0) PROVE Cardinality(r[0]) > 0
    OBVIOUS
  <2>1. r[0] # {}
    BY DEF NeedsClosed
  <2> QED BY <1>2, <2>1, FS_EmptySet
<1>4. ASSUME NEW n \in S PROVE n + 1 \in S
  <2>1. n \in Nat /\ n + 1 \in Nat
    OBVIOUS
  <2> SUFFICES ASSUME Growing(n + 1) PROVE Cardinality(r[n + 1]) > n + 1
    BY <2>1
  <2>2. r[n + 1] = Widened(p, r[n]) /\ r[n] \subseteq p.jobs
    BY <1>1, <2>1
  <2>3. Growing(n)
    <3> SUFFICES ASSUME NeedsClosed(p, r[n]) PROVE NeedsClosed(p, r[n + 1])
      OBVIOUS
    <3>1. r[n + 1] = r[n]
      BY <2>2 DEF Widened, NeedsClosed
    <3> QED BY <3>1
  <2>4. r[n] \subseteq r[n + 1] /\ r[n] # r[n + 1]
    BY <2>2, <2>3 DEF Widened, NeedsClosed
  <2>5. Cardinality(r[n]) < Cardinality(r[n + 1])
    BY <1>2, <2>1, <2>4, FS_Subset
  <2> QED BY <1>2, <2>1, <2>3, <2>5
<1>5. S = Nat
  <2>1. S \in SUBSET Nat
    OBVIOUS
  <2> HIDE DEF S
  <2> QED BY <1>3, <1>4, <2>1, AllNaturals
<1>6. Cardinality(p.jobs) \in Nat
  BY FS_CardinalityType
<1>7. ~Growing(Cardinality(p.jobs))
  BY <1>2, <1>5, <1>6
<1> QED BY <1>7 DEF NeedsClosure, r

\* The closure is below every closed set that has the needs of j.
LEMMA ClosureIsLeast ==
    ASSUME NEW p, IsFiniteSet(p.jobs), ValidateNeeds(p), NEW j \in p.jobs,
           NEW C, p.needs[j] \subseteq C, NeedsClosed(p, C)
    PROVE  NeedsClosure(p, j) \subseteq C
<1> DEFINE r == NeedsWithin(p, j)
           S == {n \in Nat : r[n] \subseteq C}
<1>1. r[0] = p.needs[j] /\ \A n \in Nat : r[n + 1] = Widened(p, r[n])
  BY NeedsWithinDef
<1> HIDE DEF r
<1>2. 0 \in S
  BY <1>1
<1>3. \A n \in S : n + 1 \in S
  BY <1>1 DEF Widened, NeedsClosed
<1>4. S = Nat
  <2>1. S \in SUBSET Nat
    OBVIOUS
  <2> HIDE DEF S
  <2> QED BY <1>2, <1>3, <2>1, AllNaturals
<1>5. Cardinality(p.jobs) \in Nat
  BY FS_CardinalityType
<1> QED BY <1>4, <1>5 DEF NeedsClosure, r

\* The closure has the needs of j itself.
LEMMA ClosureHasNeeds ==
    ASSUME NEW p, IsFiniteSet(p.jobs), ValidateNeeds(p), NEW j \in p.jobs
    PROVE  p.needs[j] \subseteq NeedsClosure(p, j) /\ NeedsClosure(p, j) \subseteq p.jobs
<1> DEFINE r == NeedsWithin(p, j)
           S == {n \in Nat : p.needs[j] \subseteq r[n]}
<1>1. r \in [Nat -> SUBSET p.jobs] /\ r[0] = p.needs[j]
      /\ \A n \in Nat : r[n + 1] = Widened(p, r[n])
  BY NeedsWithinDef
<1> HIDE DEF r
<1>2. 0 \in S /\ \A n \in S : n + 1 \in S
  BY <1>1 DEF Widened
<1>3. S = Nat
  <2>1. S \in SUBSET Nat
    OBVIOUS
  <2> HIDE DEF S
  <2> QED BY <1>2, <2>1, AllNaturals
<1>4. Cardinality(p.jobs) \in Nat
  BY FS_CardinalityType
<1> QED BY <1>1, <1>3, <1>4 DEF NeedsClosure, r

\* The closures are nested along needs:.
LEMMA ClosureNests ==
    ASSUME NEW p, IsFiniteSet(p.jobs), ValidateNeeds(p), NEW j \in p.jobs,
           NEW k \in NeedsClosure(p, j)
    PROVE  k \in p.jobs /\ NeedsClosure(p, k) \subseteq NeedsClosure(p, j)
<1>1. k \in p.jobs
  BY ClosureHasNeeds
<1>2. NeedsClosed(p, NeedsClosure(p, j)) /\ p.needs[k] \subseteq NeedsClosure(p, j)
  BY <1>1, ClosureIsClosed DEF NeedsClosed
<1> QED BY <1>1, <1>2, ClosureIsLeast

\* What a job needs, however far, is in no later stage.
LEMMA ClosureIsNotLater ==
    ASSUME NEW p, IsDefinition(p), ValidateNeeds(p), NEW j \in p.jobs,
           NEW k \in NeedsClosure(p, j)
    PROVE  k \in p.jobs /\ p.stage[k] <= p.stage[j]
<1> DEFINE C == {i \in p.jobs : p.stage[i] <= p.stage[j]}
<1>1. IsFiniteSet(p.jobs) /\ \A i \in p.jobs : p.stage[i] \in Int
  BY DEF IsDefinition
<1>2. p.needs[j] \subseteq C
  BY DEF ValidateNeeds
<1>3. NeedsClosed(p, C)
  BY <1>1 DEF ValidateNeeds, NeedsClosed
<1> HIDE DEF C
<1>4. NeedsClosure(p, j) \subseteq C
  BY <1>1, <1>2, <1>3, ClosureIsLeast
<1> QED BY <1>4 DEF C

\* What transitivelyNeeds computes with its visited set is reachability: the jobs
\* in every set that has the needs of j and the needs of its members.
THEOREM ClosureIsReachability ==
    ASSUME NEW p, IsFiniteSet(p.jobs), ValidateNeeds(p), NEW j \in p.jobs
    PROVE  NeedsClosure(p, j) =
             {k \in p.jobs : \A C \in SUBSET p.jobs :
                 p.needs[j] \subseteq C /\ NeedsClosed(p, C) => k \in C}
<1>1. NeedsClosure(p, j) \in SUBSET p.jobs /\ p.needs[j] \subseteq NeedsClosure(p, j)
      /\ NeedsClosed(p, NeedsClosure(p, j))
  BY ClosureHasNeeds, ClosureIsClosed
<1>2. \A C \in SUBSET p.jobs :
         p.needs[j] \subseteq C /\ NeedsClosed(p, C) => NeedsClosure(p, j) \subseteq C
  BY ClosureIsLeast
<1> QED BY <1>1, <1>2

\* What a job needs is what it lists and what the listed jobs need.
LEMMA ClosureUnfolds ==
    ASSUME NEW p, IsFiniteSet(p.jobs), ValidateNeeds(p), NEW j \in p.jobs
    PROVE  NeedsClosure(p, j) \subseteq
             p.needs[j] \cup UNION {NeedsClosure(p, k) : k \in p.needs[j]}
<1> DEFINE C == p.needs[j] \cup UNION {NeedsClosure(p, k) : k \in p.needs[j]}
<1>1. p.needs[j] \subseteq p.jobs
  BY DEF ValidateNeeds
<1>2. ASSUME NEW i \in C, i \in p.jobs PROVE p.needs[i] \subseteq C
  <2>1. CASE i \in p.needs[j]
    <3>1. p.needs[i] \subseteq NeedsClosure(p, i)
      BY <1>2, ClosureHasNeeds
    <3> QED BY <2>1, <3>1
  <2>2. ASSUME NEW k \in p.needs[j], i \in NeedsClosure(p, k) PROVE p.needs[i] \subseteq C
    <3>1. NeedsClosed(p, NeedsClosure(p, k))
      BY <1>1, ClosureIsClosed
    <3>2. p.needs[i] \subseteq NeedsClosure(p, k)
      BY <1>2, <2>2, <3>1 DEF NeedsClosed
    <3> QED BY <3>2
  <2> QED BY <1>2, <2>1, <2>2
<1>3. p.needs[j] \subseteq C /\ NeedsClosed(p, C)
  BY <1>2 DEF NeedsClosed
<1> HIDE DEF C
<1>4. NeedsClosure(p, j) \subseteq C
  BY <1>3, ClosureIsLeast
<1> QED BY <1>4 DEF C

\* validateNoCycles refuses exactly the definitions that could deadlock: it
\* accepts when every set of unfinished jobs has one that waits for none of them.
THEOREM CycleCheckIsExact ==
    ASSUME NEW p, IsFiniteSet(p.jobs), ValidateNeeds(p)
    PROVE  ValidateNoCycles(p) <=>
             \A D \in SUBSET p.jobs : D # {} => \E x \in D : p.needs[x] \cap D = {}
<1>1. ASSUME ValidateNoCycles(p), NEW D \in SUBSET p.jobs, D # {}
      PROVE  \E x \in D : p.needs[x] \cap D = {}
  <2> DEFINE F == {NeedsClosure(p, x) : x \in D}
  <2>1. F \in SUBSET (SUBSET p.jobs) /\ F # {}
    BY <1>1, ClosureHasNeeds
  <2>2. PICK A \in F : \A B \in F : B \subseteq A => B = A
    <3> HIDE DEF F
    <3> QED BY <2>1, MinimalSubset
  <2>3. PICK x \in D : A = NeedsClosure(p, x)
    BY <2>2
  <2>4. ASSUME NEW k \in p.needs[x] \cap D PROVE FALSE
    <3>1. x \in p.jobs /\ k \in p.jobs
      BY <1>1
    <3>2. k \in NeedsClosure(p, x)
      BY <3>1, ClosureHasNeeds
    <3>3. NeedsClosure(p, k) \subseteq A
      BY <2>3, <3>1, <3>2, ClosureNests
    <3>4. NeedsClosure(p, k) = A
      BY <2>2, <3>3
    <3> QED BY <1>1, <2>3, <3>1, <3>2, <3>4 DEF ValidateNoCycles
  <2> QED BY <2>4
<1>2. ASSUME \A D \in SUBSET p.jobs : D # {} => \E x \in D : p.needs[x] \cap D = {}
      PROVE  ValidateNoCycles(p)
  <2> SUFFICES ASSUME NEW j \in p.jobs, j \in NeedsClosure(p, j) PROVE FALSE
    BY DEF ValidateNoCycles
  <2> DEFINE D == {x \in p.jobs : j \in NeedsClosure(p, x)}
  <2>1. PICK x \in D : p.needs[x] \cap D = {}
    BY <1>2
  <2>2. j \in p.needs[x] \/ \E k \in p.needs[x] : j \in NeedsClosure(p, k)
    BY <2>1, ClosureUnfolds
  <2>3. p.needs[x] \subseteq p.jobs
    BY <2>1 DEF ValidateNeeds
  <2> QED BY <2>1, <2>2, <2>3
<1> QED BY <1>1, <1>2

-----------------------------------------------------------------------------
(* The must-pass-before order                                              *)

\* precedes is a strict order on the jobs of an accepted definition.
LEMMA PrecedesIsStrictOrder ==
    ASSUME NEW p, IsDefinition(p), Accepted(p)
    PROVE  /\ \A a \in p.jobs : ~Precedes(p, a, a)
           /\ \A a, b, c \in p.jobs : Precedes(p, a, b) /\ Precedes(p, b, c) => Precedes(p, a, c)
<1>1. IsFiniteSet(p.jobs) /\ ValidateNeeds(p) /\ \A i \in p.jobs : p.stage[i] \in Int
  BY DEF IsDefinition, Accepted
<1>2. ASSUME NEW a \in p.jobs PROVE ~Precedes(p, a, a)
  BY <1>1, <1>2 DEF Precedes, Accepted, ValidateNoCycles
<1>3. ASSUME NEW a \in p.jobs, NEW b \in p.jobs, NEW c \in p.jobs,
             Precedes(p, a, b), Precedes(p, b, c)
      PROVE  Precedes(p, a, c)
  <2>1. a \in NeedsClosure(p, b) => p.stage[a] <= p.stage[b]
    BY <1>1, ClosureIsNotLater
  <2>2. b \in NeedsClosure(p, c) => p.stage[b] <= p.stage[c]
    BY <1>1, ClosureIsNotLater
  <2>3. CASE p.stage[a] < p.stage[b] \/ p.stage[b] < p.stage[c]
    <3>1. p.stage[a] < p.stage[c]
      BY <1>1, <1>3, <2>1, <2>2, <2>3 DEF Precedes
    <3> QED BY <3>1 DEF Precedes
  <2>4. CASE a \in NeedsClosure(p, b) /\ b \in NeedsClosure(p, c)
    <3>1. NeedsClosure(p, b) \subseteq NeedsClosure(p, c)
      BY <1>1, <2>4, ClosureNests
    <3> QED BY <2>4, <3>1 DEF Precedes
  <2> QED BY <1>3, <2>3, <2>4 DEF Precedes
<1> QED BY <1>2, <1>3

\* Above every member of a set of jobs that is not itself last stands one that is.
LEMMA LastAbove ==
    ASSUME NEW p, IsDefinition(p), Accepted(p), NEW W \in SUBSET p.jobs, NEW g \in W
    PROVE  \E h \in W : /\ h = g \/ Precedes(p, g, h)
                        /\ \A x \in W \ {h} : ~Precedes(p, h, x)
<1> DEFINE T == {h \in W : h = g \/ Precedes(p, g, h)}
           Above(h) == {x \in W : Precedes(p, h, x)}
           F == {Above(h) : h \in T}
<1>1. IsFiniteSet(W)
  BY FS_Subset DEF IsDefinition
<1>2. F \in SUBSET (SUBSET W) /\ F # {}
  OBVIOUS
<1>3. PICK A \in F : \A B \in F : B \subseteq A => B = A
  <2> HIDE DEF F
  <2> QED BY <1>1, <1>2, MinimalSubset
<1>4. PICK h \in T : A = Above(h)
  BY <1>3
<1>5. ASSUME NEW x \in W, Precedes(p, h, x) PROVE FALSE
  <2>1. x \in T
    BY <1>4, <1>5, PrecedesIsStrictOrder
  <2>2. Above(x) \in F
    BY <2>1
  <2>3. Above(x) \subseteq A
    BY <1>4, <1>5, PrecedesIsStrictOrder
  <2>4. x \in A /\ x \notin Above(x)
    BY <1>4, <1>5, PrecedesIsStrictOrder
  <2> QED BY <1>3, <2>2, <2>3, <2>4
<1> QED BY <1>4, <1>5

-----------------------------------------------------------------------------
(* The execution of an accepted definition                                 *)

GraphInv == def # NoDefinition => def \in Definitions /\ Accepted(def) /\ passed \subseteq def.jobs

\* Among unfinished jobs of the first open stage, one needs none of the others.
LEMMA NeverStuck ==
    ASSUME NEW p, IsDefinition(p), Accepted(p), NEW done \in SUBSET p.jobs, done # p.jobs
    PROVE  \E j \in p.jobs \ done :
              /\ \A k \in p.jobs : p.stage[k] < p.stage[j] => k \in done
              /\ p.needs[j] \subseteq done
<1> DEFINE U == p.jobs \ done
           St == {p.stage[j] : j \in U}
<1>1. IsFiniteSet(p.jobs) /\ ValidateNeeds(p) /\ \A i \in p.jobs : p.stage[i] \in Nat
  BY DEF IsDefinition, Accepted
<1>2. PICK s \in St : \A t \in St : s <= t
  <2>1. St \in SUBSET Nat /\ St # {}
    BY <1>1
  <2> HIDE DEF St
  <2> QED BY <2>1, LeastNatural
<1> DEFINE M == {j \in U : p.stage[j] = s}
           F == {NeedsClosure(p, j) : j \in M}
<1>3. M # {} /\ M \subseteq p.jobs
  BY <1>2
<1>4. F \in SUBSET (SUBSET p.jobs) /\ F # {}
  BY <1>1, <1>3, ClosureHasNeeds
<1>5. PICK A \in F : \A B \in F : B \subseteq A => B = A
  <2> HIDE DEF F
  <2> QED BY <1>1, <1>4, MinimalSubset
<1>6. PICK j \in M : A = NeedsClosure(p, j)
  BY <1>5
<1>7. \A k \in p.jobs : p.stage[k] < p.stage[j] => k \in done
  BY <1>1, <1>2, <1>6
<1>8. ASSUME NEW k \in p.needs[j], k \notin done PROVE FALSE
  <2>1. k \in U /\ p.stage[k] <= p.stage[j]
    BY <1>1, <1>6, <1>8 DEF ValidateNeeds
  <2>2. k \in M
    <3>1. p.stage[k] \in St /\ p.stage[j] = s /\ j \in p.jobs /\ k \in p.jobs
      BY <1>6, <2>1
    <3>2. s <= p.stage[k] /\ p.stage[k] \in Nat /\ p.stage[j] \in Nat
      BY <1>1, <1>2, <3>1
    <3>3. p.stage[k] = s
      BY <2>1, <3>1, <3>2
    <3> QED BY <2>1, <3>3
  <2>3. k \in NeedsClosure(p, j)
    BY <1>1, <1>6, ClosureHasNeeds
  <2>4. NeedsClosure(p, k) \subseteq A
    BY <1>1, <1>6, <2>3, ClosureNests
  <2>5. k \notin NeedsClosure(p, k)
    BY <2>1 DEF Accepted, ValidateNoCycles
  <2>6. NeedsClosure(p, k) \in F
    BY <2>2
  <2> QED BY <1>5, <1>6, <2>3, <2>4, <2>5, <2>6
<1> QED BY <1>6, <1>7, <1>8

\* What the gate graph computes at a stage boundary, gate by gate.
LEMMA FrontierAtBoundary ==
    ASSUME NEW p, IsDefinition(p), NEW k \in 1..(p.stages - 1), NEW g \in p.gates,
           p.stage[g] = k + 1
    PROVE  LET done == {j \in p.jobs : p.stage[j] <= k} IN
           GateNeedsSatisfied(p, g, k) <=>
               /\ g \in p.jobs \ done
               /\ \A i \in p.jobs : p.stage[i] < p.stage[g] => i \in done
               /\ p.needs[g] \subseteq done
<1>1. g \in p.jobs /\ k \in Int /\ \A i \in p.jobs : p.stage[i] \in Int
  BY DEF IsDefinition
<1> QED BY <1>1 DEF GateNeedsSatisfied

\* For every accepted definition the three parts of GraphSound hold in any state
\* of its execution.
LEMMA GraphInvSound == GraphInv => GraphSound
<1> SUFFICES ASSUME GraphInv, def # NoDefinition PROVE GraphSound
  BY DEF GraphSound, AcceptedNeverStuck, GoverningGatesCover, ReadyScopeIsFrontier
<1>1. IsDefinition(def) /\ Accepted(def) /\ passed \in SUBSET def.jobs
  BY GraphAssumption DEF GraphInv
<1>2. AcceptedNeverStuck
  <2> SUFFICES ASSUME passed # def.jobs PROVE Reachable # {}
    BY DEF AcceptedNeverStuck
  <2>1. PICK j \in def.jobs \ passed :
              /\ \A k \in def.jobs : def.stage[k] < def.stage[j] => k \in passed
              /\ def.needs[j] \subseteq passed
    BY <1>1, NeverStuck
  <2> QED BY <2>1 DEF Reachable
<1>3. GoverningGatesCover
  <2> SUFFICES ASSUME NEW d \in TargetJobs(def), NEW g \in def.gates, Precedes(def, g, d)
               PROVE  \E h \in GoverningGatesForJob(def, d) : h = g \/ Precedes(def, g, h)
    BY DEF GoverningGatesCover
  <2> DEFINE W == {h \in def.gates : Precedes(def, h, d)}
  <2>1. W \in SUBSET def.jobs /\ g \in W
    BY <1>1 DEF IsDefinition
  <2> HIDE DEF W
  <2>2. PICK h \in W : /\ h = g \/ Precedes(def, g, h)
                       /\ \A x \in W \ {h} : ~Precedes(def, h, x)
    BY <1>1, <2>1, LastAbove
  <2> QED BY <2>2 DEF GoverningGatesForJob, W
<1>4. ReadyScopeIsFrontier
  <2> SUFFICES ASSUME NEW k \in 1..(def.stages - 1),
                      passed = {j \in def.jobs : def.stage[j] <= k}
               PROVE  ReadyGateEnvsAfterStage(def, k).envs =
                        UNION {GovernedEnvs(def, g) :
                               g \in {g \in Reachable \cap def.gates : def.stage[g] = k + 1}}
    BY DEF ReadyScopeIsFrontier
  <2> DEFINE G == {g \in Reachable \cap def.gates : def.stage[g] = k + 1}
             H == {g \in def.gates : def.stage[g] = k + 1 /\ GateNeedsSatisfied(def, g, k)}
  <2>1. G = H
    <3>1. ASSUME NEW g \in def.gates, def.stage[g] = k + 1
          PROVE  g \in Reachable <=> GateNeedsSatisfied(def, g, k)
      BY <1>1, <3>1, FrontierAtBoundary DEF Reachable
    <3> QED BY <3>1
  <2>2. def.stages \in Nat /\ ~(k + 1 <= 1 \/ k + 1 > def.stages)
    BY <1>1 DEF IsDefinition
  <2>3. ReadyGateEnvsAfterStage(def, k).envs = UNION {GovernedEnvs(def, g) : g \in H}
    BY <2>2 DEF ReadyGateEnvsAfterStage, ReadyScope
  <2> HIDE DEF G, H
  <2>4. ReadyGateEnvsAfterStage(def, k).envs = UNION {GovernedEnvs(def, g) : g \in G}
    BY <2>1, <2>3
  <2> QED BY <2>4 DEF G
<1> QED BY <1>2, <1>3, <1>4 DEF GraphSound

\* The validation and the gate graph of any set of definitions: an accepted one
\* never leaves the dispatcher with jobs none of which may run, shadowing loses
\* no gate, and the scope at a stage boundary is what the execution shows.
THEOREM GraphsAreSound == GraphSpec => []GraphSound
<1>1. GraphInit => GraphInv
  BY DEF GraphInit, GraphInv
<1>2. GraphInv /\ [GraphNext]_graphVars => GraphInv'
  <2> SUFFICES ASSUME GraphInv, [GraphNext]_graphVars PROVE GraphInv'
    OBVIOUS
  <2>1. ASSUME NEW p \in Definitions, ParsePipeline(p) PROVE GraphInv'
    BY <2>1 DEF ParsePipeline, GraphInv
  <2>2. ASSUME NEW j \in def.jobs, PassJob(j) PROVE GraphInv'
    BY <2>2 DEF PassJob, GraphInv
  <2>3. CASE RetireDefinition
    BY <2>3 DEF RetireDefinition, GraphInv
  <2>4. CASE UNCHANGED graphVars
    BY <2>4 DEF graphVars, GraphInv
  <2> QED BY <2>1, <2>2, <2>3, <2>4 DEF GraphNext
<1> QED BY <1>1, <1>2, GraphInvSound, PTL DEF GraphSpec
=============================================================================
