--------------------------- MODULE ResolverProofs ---------------------------
EXTENDS Resolver, FiniteSetTheorems, TLAPS

-----------------------------------------------------------------------------
(* What a module needs. *)

LEMMA Least ==
  ASSUME NEW T, T \subseteq Nat, T # {}
  PROVE  \E x \in T : \A y \in T : x <= y
<1>1. PICK x \in T : \A y \in T : <<y, x>> \notin OpToRel(<, Nat)
  BY NatLessThanWellFounded, WFMin
<1>2. \A y \in T : ~(y < x)
  BY <1>1 DEF OpToRel
<1>3. QED BY <1>2

\* A registry names modules only.
LEMMA DepsIn ==
  ASSUME NEW M, NEW reg, IsRegistry(reg, M), NEW x
  PROVE  /\ Deps(reg, x) \subseteq M /\ Deps(reg, x) \subseteq Known(reg)
         /\ Known(reg) \subseteq M /\ Requires(reg, x) \in Seq(M)
<1>1. Requires(reg, x) \in Seq(M)
  BY DEF IsRegistry, Requires
<1>2. \A m \in DOMAIN reg : reg[m] \in Seq(M) /\ ToSet(reg[m]) \subseteq M
  BY DEF IsRegistry, ToSet
<1>3. Known(reg) \subseteq M
  BY <1>2 DEF Known, IsRegistry
<1>4. Deps(reg, x) \subseteq M
  BY <1>1 DEF Deps, ToSet
<1>5. Deps(reg, x) \subseteq Known(reg)
  BY DEF Deps, Requires, Known, ToSet
<1>6. QED BY <1>1, <1>3, <1>4, <1>5

\* Closure(m) is the least closed set with m.
LEMMA ClosureIs ==
  ASSUME NEW M, NEW reg, IsRegistry(reg, M), NEW m \in M
  PROVE  /\ m \in Closure(reg, m) /\ Closure(reg, m) \subseteq M
         /\ Closed(reg, Closure(reg, m))
         /\ \A S : m \in S /\ Closed(reg, S) => Closure(reg, m) \subseteq S
<1> DEFINE all == Known(reg) \cup {m}
<1>1. Closure(reg, m) = {x \in all : \A S \in SUBSET all : m \in S /\ Closed(reg, S) => x \in S}
  BY DEF Closure
<1>2. all \subseteq M
  BY DepsIn
<1>3. \A x : Deps(reg, x) \subseteq all
  BY DepsIn
<1> HIDE DEF all
<1>4. m \in all
  BY DEF all
<1>5. Closed(reg, Closure(reg, m))
  BY <1>1, <1>3 DEF Closed
<1>6. ASSUME NEW S, m \in S, Closed(reg, S) PROVE Closure(reg, m) \subseteq S
  <2>1. S \cap all \in SUBSET all /\ m \in S \cap all /\ Closed(reg, S \cap all)
    BY <1>3, <1>4, <1>6 DEF Closed
  <2>2. QED BY <1>1, <2>1
<1>7. QED BY <1>1, <1>2, <1>4, <1>5, <1>6

\* What a dependency needs is needed.
LEMMA ClosureDown ==
  ASSUME NEW M, NEW reg, IsRegistry(reg, M), NEW m \in M, NEW x \in Closure(reg, m)
  PROVE  x \in M /\ Closure(reg, x) \subseteq Closure(reg, m) /\ Deps(reg, x) \subseteq Closure(reg, m)
<1>1. x \in M /\ Closed(reg, Closure(reg, m))
  BY ClosureIs
<1>2. Closure(reg, x) \subseteq Closure(reg, m)
  BY <1>1, ClosureIs
<1>3. Deps(reg, x) \subseteq Closure(reg, m)
  BY <1>1 DEF Closed
<1>4. QED BY <1>1, <1>2, <1>3

\* Nothing else is needed.
LEMMA ClosureStep ==
  ASSUME NEW M, NEW reg, IsRegistry(reg, M), NEW m \in M, NEW x \in Closure(reg, m), x # m
  PROVE  \E d \in Deps(reg, m) : x \in Closure(reg, d)
<1> DEFINE S == {m} \cup UNION {Closure(reg, d) : d \in Deps(reg, m)}
<1>1. Closed(reg, S)
  <2> SUFFICES ASSUME NEW y \in S PROVE Deps(reg, y) \subseteq S
    BY DEF Closed
  <2>1. CASE y = m
    <3>1. \A d \in Deps(reg, m) : d \in M /\ d \in Closure(reg, d)
      BY DepsIn, ClosureIs
    <3>2. QED BY <2>1, <3>1
  <2>2. ASSUME NEW d \in Deps(reg, m), y \in Closure(reg, d) PROVE Deps(reg, y) \subseteq S
    <3>1. d \in M
      BY DepsIn
    <3>2. Deps(reg, y) \subseteq Closure(reg, d)
      BY <2>2, <3>1, ClosureDown
    <3>3. QED BY <3>2
  <2>3. QED BY <2>1, <2>2
<1>2. Closure(reg, m) \subseteq S
  BY <1>1, ClosureIs
<1>3. QED BY <1>2

\* A module whose dependencies reach no cycle reaches none.
LEMMA AcyclicUp ==
  ASSUME NEW M, NEW reg, IsRegistry(reg, M), NEW m \in M, \A d \in Deps(reg, m) : ~Cyclic(reg, d)
  PROVE  ~Cyclic(reg, m)
<1> SUFFICES ASSUME NEW x \in Closure(reg, m), OnCycle(reg, x) PROVE FALSE
  BY DEF Cyclic
<1>1. CASE x = m
  BY <1>1 DEF OnCycle, Cyclic
<1>2. CASE x # m
  <2>1. PICK d \in Deps(reg, m) : x \in Closure(reg, d)
    BY <1>2, ClosureStep
  <2>2. QED BY <2>1 DEF Cyclic
<1>3. QED BY <1>1, <1>2

LEMMA AcyclicDown ==
  ASSUME NEW M, NEW reg, IsRegistry(reg, M), NEW m \in M, ~Cyclic(reg, m), NEW x \in Closure(reg, m)
  PROVE  ~Cyclic(reg, x) /\ ~OnCycle(reg, x)
BY ClosureDown DEF Cyclic

\* Where every module of a finite set depends on another of it there is a cycle:
\* the one that needs least is needed by what it depends on.
LEMMA NoSink ==
  ASSUME NEW M, NEW reg, IsRegistry(reg, M), IsFiniteSet(M),
         NEW S, S \subseteq M, S # {}, \A x \in S : Deps(reg, x) \cap S # {}
  PROVE  \E x \in S : OnCycle(reg, x)
<1> DEFINE Size(x) == Cardinality(Closure(reg, x))
           T == {Size(x) : x \in S}
<1>1. \A x \in M : IsFiniteSet(Closure(reg, x)) /\ Size(x) \in Nat
  BY ClosureIs, FS_Subset, FS_CardinalityType
<1>2. T \subseteq Nat /\ T # {}
  BY <1>1
<1>3. PICK t \in T : \A u \in T : t <= u
  BY <1>2, Least
<1>4. PICK x \in S : Size(x) = t
  OBVIOUS
<1>5. PICK d \in Deps(reg, x) : d \in S
  OBVIOUS
<1>6. x \in M /\ d \in M /\ d \in Closure(reg, x)
  <2>1. Closed(reg, Closure(reg, x)) /\ x \in Closure(reg, x)
    BY ClosureIs
  <2>2. QED BY <1>5, <2>1 DEF Closed
<1>7. Closure(reg, d) \subseteq Closure(reg, x)
  BY <1>6, ClosureDown
<1>8. Size(x) <= Size(d)
  BY <1>3, <1>4, <1>5
<1>9. Size(d) <= Size(x) /\ (Size(d) = Size(x) => Closure(reg, d) = Closure(reg, x))
  BY <1>1, <1>6, <1>7, FS_Subset
<1>10. Closure(reg, d) = Closure(reg, x)
  BY <1>1, <1>6, <1>8, <1>9
<1>11. x \in Closure(reg, d)
  BY <1>6, <1>10, ClosureIs
<1>12. QED BY <1>11 DEF OnCycle

-----------------------------------------------------------------------------
(* The order. *)

\* Without a cycle some module may always be next.
LEMMA SomeReady ==
  ASSUME NEW M, NEW reg, IsRegistry(reg, M), IsFiniteSet(M),
         NEW C, C \subseteq M, \A x \in C : ~OnCycle(reg, x),
         NEW done, ~(C \subseteq done)
  PROVE  \E x : x \in Ready(reg, C, done)
<1> DEFINE S == C \ done
<1>1. SUFFICES ASSUME \A x : x \notin Ready(reg, C, done) PROVE FALSE
  OBVIOUS
<1>2. \A x \in S : Deps(reg, x) \cap S # {}
  BY <1>1 DEF Ready
<1>3. S # {} => \E x \in S : OnCycle(reg, x)
  BY <1>2, NoSink
<1>4. QED BY <1>3

Taken(s, n) == {s[j] : j \in 1 .. n}

\* A start takes no module twice, and none before what it depends on.
LEMMA StartIs ==
  ASSUME NEW reg, NEW C, NEW n \in Nat, NEW s, IsStart(reg, C, s, n)
  PROVE  /\ s \in [1 .. n -> C]
         /\ \A i \in 1 .. n : /\ s[i] \in Ready(reg, C, Taken(s, i - 1))
                              /\ \A x \in Ready(reg, C, Taken(s, i - 1)) : s[i] <= x
         /\ IsInjective(s)
         /\ \A i, j \in 1 .. n : s[j] \in Deps(reg, s[i]) => j < i
         /\ \A x \in Taken(s, n) : Deps(reg, x) \cap C \subseteq Taken(s, n)
<1>1. /\ s \in [1 .. n -> C]
      /\ \A i \in 1 .. n : /\ s[i] \in Ready(reg, C, Taken(s, i - 1))
                           /\ \A x \in Ready(reg, C, Taken(s, i - 1)) : s[i] <= x
  BY DEF IsStart, Taken
<1>2. \A i \in 1 .. n : /\ s[i] \notin Taken(s, i - 1)
                        /\ Deps(reg, s[i]) \cap C \subseteq Taken(s, i - 1)
  BY <1>1 DEF Ready
<1>3. ASSUME NEW i \in 1 .. n, NEW j \in 1 .. n, j < i PROVE s[i] # s[j]
  BY <1>2, <1>3 DEF Taken
<1>4. \A i, j \in 1 .. n : s[i] = s[j] => i = j
  <2> SUFFICES ASSUME NEW i \in 1 .. n, NEW j \in 1 .. n, s[i] = s[j] PROVE i = j
    OBVIOUS
  <2>1. ~(i < j) /\ ~(j < i)
    BY <1>3
  <2>2. QED BY <2>1
<1>5. ASSUME NEW i \in 1 .. n, NEW j \in 1 .. n, s[j] \in Deps(reg, s[i]) PROVE j < i
  <2>1. s[j] \in Taken(s, i - 1)
    BY <1>1, <1>2, <1>5
  <2>2. PICK k \in 1 .. (i - 1) : s[j] = s[k]
    BY <2>1 DEF Taken
  <2>3. QED BY <1>4, <2>2
<1>6. ASSUME NEW x \in Taken(s, n) PROVE Deps(reg, x) \cap C \subseteq Taken(s, n)
  <2>1. PICK i \in 1 .. n : x = s[i]
    BY DEF Taken
  <2>2. Taken(s, i - 1) \subseteq Taken(s, n)
    BY DEF Taken
  <2>3. QED BY <1>2, <2>1, <2>2
<1>7. IsInjective(s)
  BY <1>1, <1>4 DEF IsInjective
<1>8. QED BY <1>1, <1>5, <1>6, <1>7

\* A start is as long as the set of what it takes is large.
LEMMA StartSize ==
  ASSUME NEW reg, NEW C, IsFiniteSet(C), NEW n \in Nat, NEW s, IsStart(reg, C, s, n)
  PROVE  n <= Cardinality(C) /\ (C \subseteq Taken(s, n) <=> n = Cardinality(C))
<1>1. s \in [1 .. n -> C]
  BY DEF IsStart
<1>2. IsInjective(s)
  BY StartIs
<1>3. s \in Injection(1 .. n, C)
  BY <1>1, <1>2 DEF Injection
<1>4. /\ Cardinality(1 .. n) <= Cardinality(C)
      /\ Cardinality(1 .. n) = Cardinality(C) <=> s \in Surjection(1 .. n, C)
  BY <1>3, FS_Injection
<1>5. Cardinality(1 .. n) = n
  BY FS_Interval
<1>6. s \in Surjection(1 .. n, C) <=> C \subseteq Taken(s, n)
  BY <1>1 DEF Surjection, Taken
<1>7. QED BY <1>4, <1>5, <1>6

\* A start goes on with the least module that may be next.
LEMMA StartGrows ==
  ASSUME NEW reg, NEW C, NEW n \in Nat, NEW s, IsStart(reg, C, s, n),
         NEW x, x \in Ready(reg, C, Taken(s, n)), \A y \in Ready(reg, C, Taken(s, n)) : x <= y,
         NEW t \in [1 .. (n + 1) -> C], t[n + 1] = x, \A i \in 1 .. n : t[i] = s[i]
  PROVE  IsStart(reg, C, t, n + 1)
<1>1. \A i \in 1 .. (n + 1) : Taken(t, i - 1) = Taken(s, i - 1)
  BY DEF Taken
<1>2. ASSUME NEW i \in 1 .. (n + 1)
      PROVE /\ t[i] \in Ready(reg, C, Taken(t, i - 1))
            /\ \A y \in Ready(reg, C, Taken(t, i - 1)) : t[i] <= y
  <2>1. CASE i = n + 1
    <3>1. i - 1 = n /\ t[i] = x
      BY <2>1
    <3>2. QED BY <1>1, <3>1
  <2>2. CASE i # n + 1
    <3>1. i \in 1 .. n /\ t[i] = s[i]
      BY <2>2
    <3>2. /\ s[i] \in Ready(reg, C, Taken(s, i - 1))
          /\ \A y \in Ready(reg, C, Taken(s, i - 1)) : s[i] <= y
      BY <3>1, StartIs
    <3>3. QED BY <1>1, <3>1, <3>2
  <2>3. QED BY <2>1, <2>2
<1>3. QED BY <1>2 DEF IsStart, Taken

\* Two starts agree as far as both go: at the first difference both would have
\* taken the least module of one set.
LEMMA StartsAgree ==
  ASSUME NEW reg, NEW C, C \subseteq Nat, NEW n \in Nat, NEW s, IsStart(reg, C, s, n),
         NEW t, IsStart(reg, C, t, n)
  PROVE  s = t
<1> DEFINE D == {i \in 1 .. n : s[i] # t[i]}
<1>1. s \in [1 .. n -> C] /\ t \in [1 .. n -> C]
  BY StartIs
<1>2. SUFFICES ASSUME D # {} PROVE FALSE
  BY <1>1
<1>3. PICK i \in D : \A j \in D : i <= j
  <2>1. D \subseteq Nat
    OBVIOUS
  <2>2. QED BY <1>2, <2>1, Least
<1>4. \A j \in 1 .. (i - 1) : s[j] = t[j]
  BY <1>3
<1>5. Taken(s, i - 1) = Taken(t, i - 1)
  BY <1>4 DEF Taken
<1>6. /\ s[i] \in Ready(reg, C, Taken(s, i - 1)) /\ t[i] \in Ready(reg, C, Taken(t, i - 1))
      /\ \A x \in Ready(reg, C, Taken(s, i - 1)) : s[i] <= x
      /\ \A x \in Ready(reg, C, Taken(t, i - 1)) : t[i] <= x
  BY StartIs
<1>7. s[i] <= t[i] /\ t[i] <= s[i] /\ s[i] \in Nat /\ t[i] \in Nat
  BY <1>1, <1>5, <1>6
<1>8. QED BY <1>7

\* Every set without a cycle has an order: a longest start takes all of it.
LEMMA OrderExists ==
  ASSUME NEW M, NEW reg, IsRegistry(reg, M), IsFiniteSet(M), M \subseteq Nat,
         NEW C, C \subseteq M, \A x \in C : ~OnCycle(reg, x)
  PROVE  IsInstallOrder(reg, C, InstallOrder(reg, C))
<1> DEFINE N == Cardinality(C)
           L == {d \in Nat : d <= N /\ \E s : IsStart(reg, C, s, N - d)}
<1>1. IsFiniteSet(C) /\ N \in Nat
  BY FS_Subset, FS_CardinalityType
<1>2. N \in L
  <2>1. IsStart(reg, C, [i \in 1 .. 0 |-> 0], 0)
    BY DEF IsStart
  <2>2. N - N = 0
    BY <1>1
  <2>3. QED BY <1>1, <2>1, <2>2
<1>3. PICK d \in L : \A e \in L : d <= e
  <2>1. L \subseteq Nat
    OBVIOUS
  <2>2. QED BY <1>2, <2>1, Least
<1>4. d \in Nat /\ d <= N /\ N - d \in Nat
  BY <1>1
<1>5. PICK s : IsStart(reg, C, s, N - d)
  BY <1>3
<1> DEFINE n == N - d
<1>6. SUFFICES ASSUME d # 0 PROVE FALSE
  <2>1. d = 0 => IsInstallOrder(reg, C, s)
    BY <1>1, <1>4, <1>5 DEF IsInstallOrder
  <2>2. IsInstallOrder(reg, C, s) => s \in [1 .. N -> C]
    BY DEF IsInstallOrder, IsStart
  <2>3. QED BY <1>6, <2>1, <2>2 DEF InstallOrder
<1>7. ~(C \subseteq Taken(s, n))
  <2>1. n \in Nat /\ n # N
    BY <1>1, <1>4, <1>6
  <2>2. QED BY <1>1, <1>5, <2>1, StartSize
<1> DEFINE R == Ready(reg, C, Taken(s, n))
<1>8. R # {} /\ R \subseteq C /\ R \subseteq Nat
  <2>1. \E x : x \in Ready(reg, C, Taken(s, n))
    BY <1>7, SomeReady
  <2>2. R \subseteq C
    BY DEF Ready
  <2>3. QED BY <2>1, <2>2
<1>9. PICK x \in R : \A y \in R : x <= y
  BY <1>8, Least
<1> DEFINE t == [i \in 1 .. (n + 1) |-> IF i = n + 1 THEN x ELSE s[i]]
<1>10. s \in [1 .. n -> C] /\ n \in Nat
  BY <1>4, <1>5, StartIs
<1>11. t \in [1 .. (n + 1) -> C] /\ t[n + 1] = x /\ \A i \in 1 .. n : t[i] = s[i]
  BY <1>8, <1>9, <1>10
<1>12. IsStart(reg, C, t, n + 1)
  <2> HIDE DEF t
  <2>1. QED BY <1>5, <1>9, <1>10, <1>11, StartGrows
<1>13. d - 1 \in L
  <2>1. d - 1 \in Nat /\ d - 1 <= N /\ N - (d - 1) = n + 1
    BY <1>1, <1>4, <1>6
  <2>2. QED BY <1>12, <2>1
<1>14. QED BY <1>3, <1>4, <1>13
\* Where in t each module of A stands.
IsPlace(pos, A, t) ==
  /\ pos \in [A -> 1 .. Cardinality(A)] /\ \A x \in A : t[pos[x]] = x
  /\ \A k \in 1 .. Cardinality(A) : pos[t[k]] = k

Rises(rank, s, n) == \A i, j \in 1 .. n : i < j => rank[s[i]] < rank[s[j]]

\* A subset without loose ends takes its modules in the order of the whole: of
\* the modules it takes too late let b be the first of the whole, and x the first
\* it takes before b though b is earlier in the whole.  Then b may be next when
\* x is taken, and x when the whole takes b, so each is at most the other.
LEMMA PartsFollow ==
  ASSUME NEW reg, NEW A, IsFiniteSet(A), A \subseteq Nat, NEW t, IsInstallOrder(reg, A, t),
         NEW C, C \subseteq A, Closed(reg, C), NEW s, IsInstallOrder(reg, C, s),
         NEW pos, IsPlace(pos, A, t)
  PROVE  Rises(pos, s, Cardinality(C))
<1> DEFINE N == Cardinality(A)
           n == Cardinality(C)
           Late == {j \in 1 .. n : \E i \in 1 .. n : i < j /\ pos[s[j]] < pos[s[i]]}
           V == {pos[s[j]] : j \in Late}
<1>1. N \in Nat /\ n \in Nat /\ IsFiniteSet(C)
  BY FS_Subset, FS_CardinalityType
<1>2. IsStart(reg, A, t, N) /\ IsStart(reg, C, s, n)
  BY DEF IsInstallOrder
<1> HIDE DEF N, n
<1>3. /\ s \in [1 .. n -> C] /\ IsInjective(s)
      /\ \A i \in 1 .. n : /\ s[i] \in Ready(reg, C, Taken(s, i - 1))
                           /\ \A x \in Ready(reg, C, Taken(s, i - 1)) : s[i] <= x
  BY <1>1, <1>2, StartIs
<1>4. /\ t \in [1 .. N -> A]
      /\ \A i \in 1 .. N : \A x \in Ready(reg, A, Taken(t, i - 1)) : t[i] <= x
      /\ \A i, j \in 1 .. N : t[j] \in Deps(reg, t[i]) => j < i
  BY <1>1, <1>2, StartIs
<1>5. \A x \in C : \E k \in 1 .. n : x = s[k]
  <2>1. C \subseteq Taken(s, n)
    BY <1>1, <1>2, StartSize DEF n
  <2>2. QED BY <2>1 DEF Taken
<1>6. \A i, j \in 1 .. n : i # j => s[i] # s[j]
  BY <1>3 DEF IsInjective
<1>7. \A x \in A : pos[x] \in 1 .. N /\ t[pos[x]] = x
  BY DEF N, IsPlace
<1>21. \A i \in 1 .. n : s[i] \in C /\ s[i] \in A /\ pos[s[i]] \in Nat
  <2>1. \A i \in 1 .. n : s[i] \in C /\ s[i] \in A
    BY <1>3
  <2>2. \A k \in 1 .. N : k \in Nat
    BY <1>1
  <2>3. QED BY <1>7, <2>1, <2>2
<1>8. ASSUME NEW i \in 1 .. n, NEW j \in 1 .. n, i # j PROVE pos[s[i]] # pos[s[j]]
  <2>1. t[pos[s[i]]] = s[i] /\ t[pos[s[j]]] = s[j]
    BY <1>7, <1>21
  <2>2. s[i] # s[j]
    BY <1>6, <1>8
  <2>3. QED BY <2>1, <2>2
<1>9. SUFFICES ASSUME V # {} PROVE FALSE
  <2> SUFFICES ASSUME NEW i \in 1 .. n, NEW j \in 1 .. n, i < j PROVE pos[s[i]] < pos[s[j]]
    BY DEF n, Rises
  <2>1. pos[s[i]] \in Nat /\ pos[s[j]] \in Nat
    BY <1>21
  <2>2. pos[s[i]] # pos[s[j]]
    BY <1>1, <1>8
  <2>3. j \notin Late
    BY <1>9
  <2>4. QED BY <2>1, <2>2, <2>3
<1>10. PICK p \in V : \A q \in V : p <= q
  <2>1. V \subseteq Nat
    BY <1>21
  <2>2. QED BY <1>9, <2>1, Least
<1>11. PICK j \in Late : p = pos[s[j]]
  BY <1>10
<1> DEFINE I == {i \in 1 .. n : p < pos[s[i]]}
<1>12. PICK i \in I : \A k \in I : i <= k
  <2>1. I \subseteq Nat /\ I # {}
    BY <1>11
  <2>2. QED BY <2>1, Least
<1>13. i \in 1 .. n /\ j \in 1 .. n /\ i < j /\ p < pos[s[i]]
  <2>1. PICK k \in 1 .. n : k < j /\ p < pos[s[k]]
    BY <1>11
  <2>2. QED BY <1>12, <2>1
<1> DEFINE b == s[j]
           x == s[i]
<1>14. b \in C /\ x \in C /\ p \in 1 .. N /\ pos[b] = p /\ t[p] = b
  BY <1>3, <1>7, <1>11, <1>13
<1>15. \A y \in C : y \in Taken(s, i - 1) <=> pos[y] < p
  <2> SUFFICES ASSUME NEW y \in C PROVE y \in Taken(s, i - 1) <=> pos[y] < p
    OBVIOUS
  <2>1. PICK k \in 1 .. n : y = s[k]
    BY <1>5
  <2>2. pos[y] \in 1 .. N
    BY <1>7
  <2>3. ASSUME y \in Taken(s, i - 1) PROVE pos[y] < p
    <3>1. PICK l \in 1 .. (i - 1) : y = s[l]
      BY <2>3 DEF Taken
    <3>2. l \in 1 .. n /\ l < i /\ l # j
      BY <1>1, <1>13
    <3>3. l \notin I /\ pos[s[l]] # p
      BY <1>8, <1>11, <1>12, <1>13, <3>2
    <3>4. QED BY <1>14, <2>2, <3>1, <3>2, <3>3
  <2>4. ASSUME pos[y] < p PROVE y \in Taken(s, i - 1)
    <3>1. k # i
      BY <1>13, <1>14, <2>1, <2>2, <2>4
    <3>2. ~(i < k)
      <4>1. SUFFICES ASSUME i < k PROVE FALSE
        OBVIOUS
      <4>2. pos[s[k]] < pos[s[i]]
        <5>1. pos[s[k]] = pos[y] /\ pos[s[k]] \in Nat /\ pos[s[i]] \in Nat
          BY <1>13, <1>21, <2>1
        <5>2. QED BY <1>13, <1>14, <2>4, <5>1
      <4>3. pos[s[k]] \in V
        BY <1>13, <4>1, <4>2
      <4>4. QED BY <1>10, <1>14, <2>1, <2>2, <2>4, <4>3
    <3>3. k \in 1 .. (i - 1)
      BY <1>1, <1>13, <3>1, <3>2
    <3>4. QED BY <2>1, <3>3 DEF Taken
  <2>5. QED BY <2>3, <2>4
<1>16. b \in Ready(reg, C, Taken(s, i - 1))
  <2>1. b \notin Taken(s, i - 1)
    <3>1. ~(pos[b] < p)
      BY <1>14
    <3>2. QED BY <1>14, <1>15, <3>1
  <2>2. ASSUME NEW y \in Deps(reg, b), y \in C PROVE y \in Taken(s, i - 1)
    <3>1. pos[y] \in 1 .. N /\ t[pos[y]] = y
      BY <1>7, <2>2
    <3>2. pos[y] < p
      BY <1>4, <1>14, <2>2, <3>1
    <3>3. QED BY <1>15, <2>2, <3>2
  <2>3. QED BY <1>14, <2>1, <2>2 DEF Ready
<1>17. x \in Ready(reg, A, Taken(t, p - 1))
  <2>1. \A y \in A : y \in Taken(t, p - 1) <=> pos[y] < p
    <3> SUFFICES ASSUME NEW y \in A PROVE y \in Taken(t, p - 1) <=> pos[y] < p
      OBVIOUS
    <3>1. pos[y] \in 1 .. N /\ t[pos[y]] = y
      BY <1>7
    <3>2. \A k \in 1 .. (p - 1) : k \in 1 .. N /\ pos[t[k]] = k
      BY <1>1, <1>14 DEF N, IsPlace
    <3>3. QED BY <1>14, <3>1, <3>2 DEF Taken
  <2>2. x \in A /\ x \notin Taken(t, p - 1)
    <3>1. x \in A /\ pos[x] \in Nat
      BY <1>13, <1>21
    <3>2. ~(pos[x] < p)
      BY <1>13, <1>14, <3>1
    <3>3. QED BY <2>1, <3>1, <3>2
  <2>3. ASSUME NEW y \in Deps(reg, x), y \in A PROVE y \in Taken(t, p - 1)
    <3>1. y \in C
      BY <1>14, <2>3 DEF Closed
    <3>2. y \in Taken(s, i - 1)
      BY <1>3, <1>13, <2>3, <3>1 DEF Ready
    <3>3. QED BY <1>15, <2>1, <2>3, <3>1, <3>2
  <2>4. QED BY <2>2, <2>3 DEF Ready
<1>18. x <= b /\ b <= x
  BY <1>3, <1>4, <1>13, <1>14, <1>16, <1>17
<1>19. x = b
  <2>1. x \in Nat /\ b \in Nat
    BY <1>14
  <2>2. QED BY <1>18, <2>1
<1>20. QED BY <1>6, <1>13, <1>19

\* A plan lists modules, and one rank rises along every plan: the place in the
\* order of all modules that reach no cycle.
LEMMA PlansInOneOrder ==
  ASSUME NEW M, NEW reg, IsRegistry(reg, M), IsFiniteSet(M), M \subseteq Nat, M # {}
  PROVE  /\ \A m \in M : ResolveInstallPlan(reg, m).order \in Seq(M)
         /\ \E rank \in [M -> 1 .. Cardinality(M)] :
              \A m \in M : LET order == ResolveInstallPlan(reg, m).order
                            IN  \A i, j \in DOMAIN order : i < j => rank[order[i]] < rank[order[j]]
<1> DEFINE A == {x \in M : ~Cyclic(reg, x)}
           N == Cardinality(A)
           t == InstallOrder(reg, A)
<1>1. \A x \in A : x \in M /\ ~OnCycle(reg, x)
  BY ClosureIs, AcyclicDown
<1>2. IsFiniteSet(A) /\ A \subseteq Nat /\ N \in Nat /\ N <= Cardinality(M) /\ Cardinality(M) \in Nat
  BY FS_Subset, FS_CardinalityType
<1>3. IsInstallOrder(reg, A, t)
  <2> HIDE DEF A
  <2>1. A \subseteq M
    BY DEF A
  <2>2. QED BY <1>1, <2>1, OrderExists
<1>4. Cardinality(M) > 0
  BY <1>2, FS_EmptySet
<1> HIDE DEF t
<1>5. t \in [1 .. N -> A] /\ IsInjective(t) /\ \A x \in A : \E k \in 1 .. N : t[k] = x
  <2> HIDE DEF A, N
  <2>1. IsStart(reg, A, t, N)
    BY <1>3 DEF IsInstallOrder, N
  <2>2. A \subseteq Taken(t, N)
    BY <1>2, <2>1, StartSize DEF N
  <2>3. t \in [1 .. N -> A] /\ IsInjective(t)
    BY <1>2, <2>1, StartIs DEF N
  <2>4. QED BY <2>2, <2>3 DEF Taken
<1> DEFINE pos == [x \in A |-> CHOOSE k \in 1 .. N : t[k] = x]
           rank == [x \in M |-> IF x \in A THEN pos[x] ELSE 1]
<1>6. pos \in [A -> 1 .. N] /\ \A x \in A : t[pos[x]] = x
  <2> HIDE DEF A, N
  <2>1. \A x \in A : pos[x] \in 1 .. N /\ t[pos[x]] = x
    BY <1>5
  <2>2. QED BY <2>1
<1>7. \A k \in 1 .. N : pos[t[k]] = k
  <2> HIDE DEF A, N, pos
  <2>1. ASSUME NEW k \in 1 .. N PROVE pos[t[k]] = k
    <3>1. t[k] \in A
      BY <1>5
    <3>2. pos[t[k]] \in 1 .. N /\ t[pos[t[k]]] = t[k]
      BY <1>6, <3>1
    <3>3. QED BY <1>5, <3>2 DEF IsInjective
  <2>2. QED BY <2>1
<1> HIDE DEF A, N, pos
<1>8. rank \in [M -> 1 .. Cardinality(M)] /\ \A x \in A : rank[x] = pos[x]
  <2>1. \A x \in A : x \in M /\ pos[x] \in 1 .. Cardinality(M)
    BY <1>1, <1>2, <1>6
  <2>2. QED BY <1>2, <1>4, <2>1
<1> HIDE DEF rank
<1>9. ASSUME NEW m \in M
      PROVE LET order == ResolveInstallPlan(reg, m).order
            IN  /\ order \in Seq(M)
                /\ \A i, j \in DOMAIN order : i < j => rank[order[i]] < rank[order[j]]
  <2>1. CASE Cyclic(reg, m)
    BY <2>1 DEF ResolveInstallPlan, Raised
  <2>2. CASE ~Cyclic(reg, m)
    <3> DEFINE C == Closure(reg, m)
               s == InstallOrder(reg, C)
    <3>1. ResolveInstallPlan(reg, m).order = s
      BY <2>2 DEF ResolveInstallPlan, Ordered
    <3>2. C \subseteq M /\ Closed(reg, C) /\ C \subseteq A /\ \A x \in C : ~OnCycle(reg, x)
      <4>1. C \subseteq M /\ Closed(reg, C)
        BY ClosureIs
      <4>2. \A x \in C : ~Cyclic(reg, x) /\ ~OnCycle(reg, x)
        BY <2>2, AcyclicDown
      <4>3. QED BY <4>1, <4>2 DEF A
    <3> HIDE DEF C
    <3>3. IsInstallOrder(reg, C, s)
      BY <3>2, OrderExists
    <3> HIDE DEF s
    <3>4. s \in [1 .. Cardinality(C) -> C]
      BY <3>3 DEF IsInstallOrder, IsStart
    <3>5. Rises(pos, s, Cardinality(C))
      <4>1. IsPlace(pos, A, t)
        BY <1>6, <1>7 DEF N, IsPlace
      <4>2. IsFiniteSet(A) /\ A \subseteq Nat /\ C \subseteq A /\ Closed(reg, C)
        BY <1>2, <3>2
      <4>3. QED BY <1>3, <3>3, <4>1, <4>2, PartsFollow
    <3>6. s \in Seq(M)
      <4>1. Cardinality(C) \in Nat
        BY <1>2, <3>2, FS_Subset, FS_CardinalityType
      <4>2. s \in [1 .. Cardinality(C) -> M]
        BY <3>2, <3>4
      <4>3. QED BY <4>1, <4>2
    <3>7. QED BY <1>8, <3>1, <3>2, <3>4, <3>5, <3>6 DEF Rises
  <2>3. QED BY <2>1, <2>2
<1>10. QED BY <1>8, <1>9

-----------------------------------------------------------------------------
(* The invariant. *)

\* The calls and the plan so far: a call has yet to look at dependencies of its
\* module only; no two are of one module; an inner call is needed by a dependency of an outer one; what a
\* call has looked at is being resolved or reaches no cycle; and what a module
\* of the plan depends on is in the plan, or has yet to be looked at.
FramesI ==
  \A i \in DOMAIN stack :
    stack[i].module \in modules /\ ToSet(stack[i].rest) \subseteq Deps(registry, stack[i].module)

DistinctI == \A i, j \in DOMAIN stack : stack[i].module = stack[j].module => i = j

ChainI ==
  \A i, j \in DOMAIN stack : i < j =>
    \E d \in Deps(registry, stack[i].module) : stack[j].module \in Closure(registry, d)

SeenI ==
  \A i \in DOMAIN stack : \A d \in Deps(registry, stack[i].module) :
    \/ d \in ToSet(stack[i].rest)
    \/ i + 1 \in DOMAIN stack /\ d = stack[i + 1].module
    \/ ~Cyclic(registry, d)

FoundI ==
  \A x \in modules : \A d \in Deps(registry, x) :
    \/ d \in modules
    \/ \E i \in DOMAIN stack : stack[i].module = x /\ d \in ToSet(stack[i].rest)

IdleI == pc = "idle" => modules = {} /\ stack = <<>>

\* The plan grows from the target and within what it needs; when the outermost
\* call is over the target reaches no cycle.
DescendI ==
  pc = "descend" =>
    /\ target \in modules /\ modules \subseteq Closure(registry, target)
    /\ stack # <<>> => stack[1].module = target
    /\ stack = <<>> => ~Cyclic(registry, target)

\* The sort has taken a start of the order; a module still waits for what it
\* depends on and is not in it, and the queue has those that wait for nothing.
SortI ==
  /\ pc # "sort" => result = <<>>
  /\ pc = "sort" =>
       /\ modules = Closure(registry, target) /\ ~Cyclic(registry, target)
       /\ IsStart(registry, modules, result, Len(result))
       /\ \A m \in modules : inDegree[m] = Cardinality(Entries(m, modules \ ToSet(result)))
       /\ queue = Ready(registry, modules, ToSet(result))

Inv ==
  /\ TypeOK /\ AnswersAsPromised
  /\ FramesI /\ DistinctI /\ ChainI /\ SeenI /\ FoundI /\ IdleI /\ DescendI /\ SortI

-----------------------------------------------------------------------------
(* resolve_install_plan. *)

LEMMA InitInv == Init => Inv
<1> SUFFICES ASSUME Init PROVE Inv
  OBVIOUS
<1> USE DEF Init
<1>1. TypeOK
  <2>1. IsRegistry(registry, Modules)
    BY RegistriesAssumption
  <2>2. answers \in [Modules -> [error : {"none", "unanswered", "CircularDependencyError"},
                                order : Seq(Modules)]]
    BY DEF Unanswered, Raised
  <2>3. target \in Modules
    BY ModulesAssumption
  <2>4. inDegree \in [{} -> Nat] /\ queue \subseteq modules /\ result \in Seq(modules)
    BY DEF Nothing
  <2>5. stack \in Seq(Frame)
    OBVIOUS
  <2>6. QED BY <2>1, <2>2, <2>3, <2>4, <2>5 DEF TypeOK
<1>2. AnswersAsPromised
  BY DEF AnswersAsPromised, Answered
<1>3. FramesI /\ DistinctI /\ ChainI /\ SeenI /\ FoundI
  BY DEF FramesI, DistinctI, ChainI, SeenI, FoundI
<1>4. DescendI /\ SortI
  BY DEF DescendI, SortI
<1>5. QED BY <1>1, <1>2, <1>3, <1>4 DEF Inv, IdleI

LEMMA AskStep ==
  ASSUME Inv, NEW m \in Modules, Ask(m)
  PROVE  Inv'
<1> USE DEF Ask
<1>1. /\ IsRegistry(registry, Modules) /\ IsRegistry(registry', Modules)
      /\ answers' = answers /\ registry' = registry /\ result' = result
      /\ Requires(registry, m) \in Seq(Modules)
  BY DepsIn DEF Inv, TypeOK
<1>2. /\ stack' = <<Call(m)>> /\ DOMAIN stack' = {1} /\ stack'[1] = Call(m)
      /\ Call(m).module = m /\ Call(m).rest = Requires(registry, m)
      /\ ToSet(stack'[1].rest) = Deps(registry, m)
  BY DEF Call, Deps
<1>3. m \in Closure(registry, m)
  BY <1>1, ClosureIs
<1>4. TypeOK'
  <2>1. stack' \in Seq(Frame)
    BY <1>1 DEF Call, Frame
  <2>2. inDegree' \in [IF pc' = "sort" THEN modules' ELSE {} -> Nat]
    BY DEF Inv, TypeOK
  <2>3. queue' \subseteq modules' /\ result' \in Seq(modules')
    <3>1. queue = {} /\ result = <<>>
      BY DEF Inv, TypeOK, SortI, IdleI
    <3>2. QED BY <3>1
  <2>4. QED BY <1>1, <2>1, <2>2, <2>3 DEF Inv, TypeOK
<1>5. AnswersAsPromised'
  BY <1>1 DEF Inv, AnswersAsPromised, Answered, Unanswered
<1>6. FramesI' /\ DistinctI' /\ ChainI' /\ SeenI' /\ FoundI'
  <2>1. FramesI'
    BY <1>1, <1>2 DEF FramesI
  <2>2. DistinctI' /\ ChainI'
    BY <1>2 DEF DistinctI, ChainI
  <2>3. SeenI'
    BY <1>1, <1>2 DEF SeenI
  <2>4. FoundI'
    BY <1>1, <1>2 DEF FoundI
  <2>5. QED BY <2>1, <2>2, <2>3, <2>4
<1>7. DescendI'
  BY <1>1, <1>2, <1>3 DEF DescendI
<1>8. SortI'
  BY DEF Inv, SortI
<1>9. QED BY <1>4, <1>5, <1>6, <1>7, <1>8 DEF Inv, IdleI

\* Every answer that is as promised keeps the invariant.
LEMMA AnswerStep ==
  ASSUME Inv, NEW a, Answer(a), a = ResolveInstallPlan(registry, target),
         a.error \in {"none", "CircularDependencyError"}, a.order \in Seq(Modules),
         a = [error |-> a.error, order |-> a.order]
  PROVE  Inv'
<1> USE DEF Answer
<1>1. /\ registry' = registry /\ target' = target /\ target \in Modules
      /\ answers \in [Modules -> [error : {"none", "unanswered", "CircularDependencyError"},
                                  order : Seq(Modules)]]
  BY DEF Inv, TypeOK
<1>2. TypeOK'
  <2>1. a \in [error : {"none", "unanswered", "CircularDependencyError"}, order : Seq(Modules)]
    OBVIOUS
  <2>2. answers' \in [Modules -> [error : {"none", "unanswered", "CircularDependencyError"},
                                 order : Seq(Modules)]]
    BY <1>1, <2>1
  <2>3. IsRegistry(registry', Modules)
    BY <1>1 DEF Inv, TypeOK
  <2>4. /\ inDegree' \in [{} -> Nat] /\ queue' \subseteq modules' /\ result' \in Seq(modules')
        /\ stack' \in Seq(Frame)
    BY DEF Nothing
  <2>5. QED BY <1>1, <2>2, <2>3, <2>4 DEF TypeOK
<1>3. AnswersAsPromised'
  <2> SUFFICES ASSUME NEW m \in Modules, answers'[m] # Unanswered
               PROVE  answers'[m] = ResolveInstallPlan(registry, m)
    BY <1>1 DEF AnswersAsPromised, Answered, Unanswered
  <2>1. CASE m = target
    BY <1>1, <2>1
  <2>2. CASE m # target
    BY <1>1, <2>2 DEF Inv, AnswersAsPromised, Answered
  <2>3. QED BY <2>1, <2>2
<1>4. FramesI' /\ DistinctI' /\ ChainI' /\ SeenI' /\ FoundI'
  BY DEF FramesI, DistinctI, ChainI, SeenI, FoundI
<1>5. DescendI' /\ SortI'
  BY DEF DescendI, SortI
<1>6. IdleI'
  BY DEF IdleI
<1>7. QED BY <1>2, <1>3, <1>4, <1>5, <1>6 DEF Inv

-----------------------------------------------------------------------------
(* _resolve_transitive_deps. *)

\* The innermost call.
LEMMA TopIs ==
  ASSUME Inv, Descending
  PROVE  /\ stack \in Seq(Frame) /\ Len(stack) \in Nat /\ Len(stack) >= 1
         /\ DOMAIN stack = 1 .. Len(stack) /\ Top = stack[Len(stack)]
         /\ Top.module \in Modules /\ Top.rest \in Seq(Modules)
         /\ Top.module \in modules /\ ToSet(Top.rest) \subseteq Deps(registry, Top.module)
<1>1. stack \in Seq(Frame) /\ stack # <<>>
  BY DEF Inv, TypeOK, Descending
<1>2. Len(stack) \in Nat /\ Len(stack) >= 1 /\ DOMAIN stack = 1 .. Len(stack)
  BY <1>1
<1>3. stack[Len(stack)] \in Frame
  BY <1>1, <1>2
<1>4. Top = stack[Len(stack)] /\ Top.module \in Modules /\ Top.rest \in Seq(Modules)
  BY <1>3 DEF Top, Frame
<1>5. Len(stack) \in DOMAIN stack
  BY <1>2
<1>6. Top.module \in modules /\ ToSet(Top.rest) \subseteq Deps(registry, Top.module)
  BY <1>4, <1>5 DEF Inv, FramesI
<1>7. QED BY <1>1, <1>2, <1>4, <1>6

LEMMA RestIs ==
  ASSUME NEW M, NEW rest \in Seq(M), rest # <<>>
  PROVE  /\ Head(rest) \in ToSet(rest) /\ Tail(rest) \in Seq(M)
         /\ ToSet(rest) = {Head(rest)} \cup ToSet(Tail(rest))
<1>1. Len(rest) \in Nat /\ Len(rest) >= 1 /\ DOMAIN rest = 1 .. Len(rest) /\ Head(rest) = rest[1]
  OBVIOUS
<1>2. /\ Tail(rest) \in Seq(M) /\ DOMAIN Tail(rest) = 1 .. (Len(rest) - 1)
      /\ \A i \in 1 .. (Len(rest) - 1) : Tail(rest)[i] = rest[i + 1]
  BY <1>1
<1>3. ASSUME NEW x \in ToSet(rest), x # Head(rest) PROVE x \in ToSet(Tail(rest))
  <2>1. PICK i \in 1 .. Len(rest) : x = rest[i]
    BY <1>1 DEF ToSet
  <2>2. i - 1 \in 1 .. (Len(rest) - 1) /\ Tail(rest)[i - 1] = x
    BY <1>1, <1>2, <1>3, <2>1
  <2>3. QED BY <1>2, <2>2 DEF ToSet
<1>4. Head(rest) \in ToSet(rest)
  BY <1>1 DEF ToSet
<1>5. ASSUME NEW x \in ToSet(Tail(rest)) PROVE x \in ToSet(rest)
  <2>1. PICK i \in 1 .. (Len(rest) - 1) : x = Tail(rest)[i]
    BY <1>2 DEF ToSet
  <2>2. i + 1 \in 1 .. Len(rest) /\ rest[i + 1] = x
    BY <1>1, <1>2, <2>1
  <2>3. QED BY <1>1, <2>2 DEF ToSet
<1>6. QED BY <1>2, <1>3, <1>4, <1>5

\* A dependency that is being resolved needs itself.
LEMMA VisitedIsCyclic ==
  ASSUME Inv, Descending, NEW d \in Deps(registry, Top.module), d \in Visited
  PROVE  Cyclic(registry, target)
<1> DEFINE x == Top.module
<1>1. /\ IsRegistry(registry, Modules) /\ target \in Modules /\ pc = "descend"
      /\ FramesI /\ ChainI /\ DescendI
  BY DEF Inv, TypeOK, Descending
<1>2. /\ Len(stack) \in Nat /\ DOMAIN stack = 1 .. Len(stack) /\ Len(stack) >= 1
      /\ x = stack[Len(stack)].module /\ x \in Modules
  BY TopIs
<1>3. PICK k \in 1 .. Len(stack) : d = stack[k].module
  BY <1>2 DEF Visited
<1>4. modules \subseteq Closure(registry, target)
  BY <1>1 DEF DescendI
<1>5. d \in Closure(registry, target)
  BY <1>1, <1>2, <1>3, <1>4 DEF FramesI
<1>6. d \in Modules /\ d \in Closure(registry, x)
  <2>1. x \in Closure(registry, x) /\ Closed(registry, Closure(registry, x))
    BY <1>1, <1>2, ClosureIs
  <2>2. QED BY <1>1, <2>1, DepsIn DEF Closed
<1>7. OnCycle(registry, d)
  <2>1. CASE k = Len(stack)
    <3>1. d = x
      BY <1>2, <1>3, <2>1
    <3>2. QED BY <1>6, <3>1 DEF OnCycle
  <2>2. CASE k # Len(stack)
    <3>1. k \in DOMAIN stack /\ Len(stack) \in DOMAIN stack /\ k < Len(stack)
      <4> DEFINE L == Len(stack)
      <4>1. L \in Nat /\ DOMAIN stack = 1 .. L /\ L >= 1 /\ k \in 1 .. L /\ k # L
        BY <1>2, <2>2
      <4> HIDE DEF L
      <4>2. k < L /\ L \in 1 .. L
        BY <4>1
      <4>3. QED BY <4>1, <4>2 DEF L
    <3>2. PICK e \in Deps(registry, d) : x \in Closure(registry, e)
      BY <1>1, <1>2, <1>3, <3>1 DEF ChainI
    <3>3. e \in Modules
      BY <1>1, DepsIn
    <3>4. d \in Closure(registry, e)
      BY <1>1, <1>6, <3>2, <3>3, ClosureDown
    <3>5. QED BY <3>2, <3>4 DEF OnCycle
  <2>3. QED BY <2>1, <2>2
<1>8. QED BY <1>5, <1>7 DEF Cyclic

LEMMA EnterStep ==
  ASSUME Inv, Enter
  PROVE  Inv'
<1> DEFINE L == Len(stack)
           x == Top.module
           d == Head(Top.rest)
<1>1. /\ IsRegistry(registry, Modules) /\ target \in Modules /\ pc = "descend"
      /\ FramesI /\ DistinctI /\ ChainI /\ SeenI /\ FoundI /\ DescendI /\ Descending
  BY DEF Inv, TypeOK, Enter, Descending
<1>2. /\ stack \in Seq(Frame) /\ L \in Nat /\ L >= 1 /\ DOMAIN stack = 1 .. L /\ Top = stack[L]
      /\ x \in Modules /\ Top.rest \in Seq(Modules) /\ x \in modules
      /\ ToSet(Top.rest) \subseteq Deps(registry, x)
  BY <1>1, TopIs
<1>3. /\ d \in ToSet(Top.rest) /\ Tail(Top.rest) \in Seq(Modules)
      /\ ToSet(Top.rest) = {d} \cup ToSet(Tail(Top.rest)) /\ Top.rest # <<>>
  BY <1>2, RestIs DEF Enter
<1>4. d \in Deps(registry, x) /\ d \in Modules
  BY <1>1, <1>2, <1>3, DepsIn
<1>8. x = stack[L].module /\ L \in 1 .. L /\ L \in DOMAIN stack /\ L + 1 \notin DOMAIN stack
  BY <1>2
<1>9. \A i \in 1 .. L : stack[i] \in Frame
  BY <1>2
<1> HIDE DEF L, x, d
<1>5. CASE d \in Visited
  <2>1. Answer(Raised("CircularDependencyError"))
    BY <1>5 DEF Enter, d
  <2>2. ResolveInstallPlan(registry, target) = Raised("CircularDependencyError")
    BY <1>1, <1>4, <1>5, VisitedIsCyclic DEF ResolveInstallPlan, x
  <2>3. /\ Raised("CircularDependencyError").error = "CircularDependencyError"
        /\ Raised("CircularDependencyError").order = <<>>
        /\ Raised("CircularDependencyError")
             = [error |-> "CircularDependencyError", order |-> <<>>]
        /\ <<>> \in Seq(Modules)
    BY DEF Raised
  <2>4. QED BY <2>1, <2>2, <2>3, AnswerStep
<1>6. CASE d \notin Visited
  <2>1. /\ modules' = modules \cup {d}
        /\ stack' = Append([stack EXCEPT ![L].rest = Tail(Top.rest)], Call(d))
        /\ registry' = registry /\ answers' = answers /\ pc' = pc /\ target' = target
        /\ inDegree' = inDegree /\ queue' = queue /\ result' = result
    BY <1>6 DEF Enter, d, L
  <2>2. Call(d) \in Frame /\ Call(d).module = d /\ ToSet(Call(d).rest) = Deps(registry, d)
    BY <1>1, <1>4, DepsIn DEF Call, Frame, Deps
  <2>3. /\ stack' \in Seq(Frame) /\ DOMAIN stack' = 1 .. (L + 1)
        /\ \A i \in 1 .. (L - 1) : stack'[i] = stack[i]
        /\ stack'[L].module = x /\ stack'[L].rest = Tail(Top.rest) /\ stack'[L + 1] = Call(d)
    <3> DEFINE s == [stack EXCEPT ![L].rest = Tail(Top.rest)]
    <3>1. stack[L] \in Frame
      BY <1>2
    <3>2. s[L] = [stack[L] EXCEPT !.rest = Tail(Top.rest)]
      BY <1>8
    <3>3. s[L] \in Frame /\ s[L].module = x /\ s[L].rest = Tail(Top.rest)
      BY <1>3, <1>8, <3>1, <3>2 DEF Frame
    <3>4. s \in Seq(Frame) /\ Len(s) = L /\ DOMAIN s = 1 .. L
      <4>1. DOMAIN s = 1 .. L /\ \A i \in 1 .. L : s[i] \in Frame
        <5>1. DOMAIN s = 1 .. L
          BY <1>2
        <5>2. ASSUME NEW i \in 1 .. L, i # L PROVE s[i] \in Frame
          <6>1. s[i] = stack[i]
            BY <1>2, <5>2
          <6>2. QED BY <1>9, <6>1
        <5>3. QED BY <3>3, <5>1, <5>2
      <4>2. s \in [1 .. L -> Frame]
        BY <4>1
      <4>3. QED BY <1>2, <4>2
    <3>5. \A i \in 1 .. (L - 1) : s[i] = stack[i] /\ i \in 1 .. L
      BY <1>2
    <3> HIDE DEF s
    <3>6. stack' = Append(s, Call(d))
      BY <2>1 DEF s
    <3>7. /\ stack' \in Seq(Frame) /\ Len(stack') = L + 1 /\ stack'[L + 1] = Call(d)
          /\ \A i \in 1 .. L : stack'[i] = s[i]
      BY <2>2, <3>4, <3>6
    <3>8. L \in 1 .. L /\ DOMAIN stack' = 1 .. (L + 1)
      BY <1>2, <3>7
    <3>9. QED BY <3>3, <3>5, <3>7, <3>8
  <2>4. \A i \in 1 .. L : stack'[i].module = stack[i].module
    <3>1. \A i \in 1 .. L : i = L \/ i \in 1 .. (L - 1)
      BY <1>2
    <3>2. QED BY <1>8, <2>3, <3>1
  <2>5. \A i \in 1 .. L : ToSet(stack'[i].rest) \subseteq ToSet(stack[i].rest)
    <3>1. \A i \in 1 .. L : i = L \/ i \in 1 .. (L - 1)
      BY <1>2
    <3>2. ToSet(stack'[L].rest) \subseteq ToSet(stack[L].rest)
      BY <1>2, <1>3, <2>3
    <3>3. QED BY <2>3, <3>1, <3>2
  <2>6. TypeOK'
    <3>1. /\ inDegree \in [{} -> Nat] /\ queue \subseteq modules /\ result = <<>>
          /\ modules \subseteq Modules
      BY <1>1 DEF Inv, TypeOK, SortI
    <3>2. inDegree' \in [IF pc' = "sort" THEN modules' ELSE {} -> Nat]
      BY <1>1, <2>1, <3>1
    <3>3. modules' \subseteq Modules /\ queue' \subseteq modules' /\ result' \in Seq(modules')
      BY <1>4, <2>1, <3>1
    <3>4. QED BY <2>1, <2>3, <3>2, <3>3 DEF Inv, TypeOK
  <2>7. AnswersAsPromised'
    BY <2>1 DEF Inv, AnswersAsPromised, Answered, Unanswered
  <2>8. FramesI'
    <3> SUFFICES ASSUME NEW i \in 1 .. (L + 1)
                 PROVE  /\ stack'[i].module \in modules'
                        /\ ToSet(stack'[i].rest) \subseteq Deps(registry, stack'[i].module)
      BY <2>1, <2>3 DEF FramesI
    <3>1. CASE i = L + 1
      BY <2>1, <2>2, <2>3, <3>1
    <3>2. CASE i # L + 1
      <4>1. i \in 1 .. L
        BY <1>2, <3>2
      <4>2. QED BY <1>1, <1>2, <2>1, <2>4, <2>5, <4>1 DEF FramesI
    <3>3. QED BY <3>1, <3>2
  <2>15. DistinctI'
    <3>1. \A i \in 1 .. L : stack[i].module # d
      BY <1>2, <1>6 DEF Visited
    <3>2. \A i \in 1 .. (L + 1) : i = L + 1 \/ i \in 1 .. L
      BY <1>2
    <3>3. stack'[L + 1].module = d
      BY <2>2, <2>3
    <3>4. \A i, j \in 1 .. L : stack[i].module = stack[j].module => i = j
      BY <1>1, <1>2 DEF DistinctI
    <3>5. \A i, j \in 1 .. (L + 1) : stack'[i].module = stack'[j].module => i = j
      BY <2>4, <3>1, <3>2, <3>3, <3>4
    <3>6. QED BY <2>3, <3>5 DEF DistinctI
  <2>9. ChainI'
    <3> SUFFICES ASSUME NEW i \in 1 .. (L + 1), NEW j \in 1 .. (L + 1), i < j
                 PROVE  \E e \in Deps(registry, stack'[i].module) :
                          stack'[j].module \in Closure(registry, e)
      BY <2>1, <2>3 DEF ChainI
    <3>1. i \in 1 .. L
      BY <1>2
    <3>2. CASE j # L + 1
      <4>1. j \in 1 .. L
        BY <1>2, <3>2
      <4>2. QED BY <1>1, <1>2, <2>4, <3>1, <4>1 DEF ChainI
    <3>3. CASE j = L + 1 /\ i = L
      <4>1. d \in Closure(registry, d)
        BY <1>1, <1>4, ClosureIs
      <4>2. QED BY <1>4, <2>2, <2>3, <3>3, <4>1
    <3>4. CASE j = L + 1 /\ i # L
      <4>1. i \in DOMAIN stack /\ L \in DOMAIN stack /\ i < L
        BY <1>2, <3>1, <3>4
      <4>2. PICK e \in Deps(registry, stack[i].module) : x \in Closure(registry, e)
        BY <1>1, <1>8, <4>1 DEF ChainI
      <4>3. e \in Modules
        BY <1>1, DepsIn
      <4>4. d \in Closure(registry, e)
        BY <1>1, <1>4, <4>2, <4>3, ClosureDown
      <4>5. QED BY <2>2, <2>3, <2>4, <3>1, <3>4, <4>2, <4>4
    <3>5. QED BY <3>2, <3>3, <3>4
  <2>10. SeenI'
    <3> SUFFICES ASSUME NEW i \in 1 .. (L + 1), NEW e \in Deps(registry, stack'[i].module),
                        e \notin ToSet(stack'[i].rest), Cyclic(registry, e)
                 PROVE  i + 1 \in 1 .. (L + 1) /\ e = stack'[i + 1].module
      BY <2>1, <2>3 DEF SeenI
    <3>1. CASE i = L + 1
      BY <2>2, <2>3, <3>1
    <3>2. CASE i = L
      <4>1. e \in Deps(registry, x) /\ e \notin ToSet(Tail(Top.rest))
        BY <2>3, <3>2
      <4>2. L \in DOMAIN stack /\ L + 1 \notin DOMAIN stack
        BY <1>2
      <4>3. e \in ToSet(Top.rest)
        BY <1>1, <1>2, <1>8, <4>1, <4>2 DEF SeenI
      <4>4. QED BY <1>2, <1>3, <2>2, <2>3, <3>2, <4>1, <4>3
    <3>3. CASE i # L /\ i # L + 1
      <4>1. i \in 1 .. (L - 1) /\ i \in DOMAIN stack /\ i + 1 \in 1 .. L
        BY <1>2, <3>3
      <4>2. e \in Deps(registry, stack[i].module) /\ e \notin ToSet(stack[i].rest)
        BY <2>3, <4>1
      <4>3. e = stack[i + 1].module
        BY <1>1, <4>1, <4>2 DEF SeenI
      <4>4. QED BY <1>2, <2>4, <4>1, <4>3
    <3>4. QED BY <3>1, <3>2, <3>3
  <2>11. FoundI'
    <3> SUFFICES ASSUME NEW y \in modules', NEW e \in Deps(registry, y), e \notin modules'
                 PROVE  \E i \in 1 .. (L + 1) : stack'[i].module = y /\ e \in ToSet(stack'[i].rest)
      BY <2>1, <2>3 DEF FoundI
    <3>1. CASE y = d
      BY <1>2, <2>2, <2>3, <3>1
    <3>2. CASE y # d
      <4>1. y \in modules /\ e \notin modules /\ e # d
        BY <2>1, <3>2
      <4>2. PICK i \in DOMAIN stack : stack[i].module = y /\ e \in ToSet(stack[i].rest)
        BY <1>1, <4>1 DEF FoundI
      <4>3. CASE i = L
        <5>1. y = x /\ e \in ToSet(Tail(Top.rest))
          BY <1>2, <1>3, <1>8, <4>1, <4>2, <4>3
        <5>2. QED BY <1>2, <2>3, <5>1
      <4>4. CASE i # L
        BY <1>2, <2>3, <4>2, <4>4
      <4>5. QED BY <4>3, <4>4
    <3>3. QED BY <3>1, <3>2
  <2>12. DescendI'
    <3>1. stack' # <<>> /\ stack'[1].module = target
      <4>1. stack # <<>> /\ stack[1].module = target
        BY <1>1 DEF DescendI, Descending
      <4>2. 1 \in 1 .. L /\ 1 \in DOMAIN stack'
        BY <1>2, <2>3
      <4>3. stack' # <<>>
        BY <4>2
      <4>4. QED BY <2>4, <4>1, <4>2, <4>3
    <3>2. d \in Closure(registry, target)
      <4>1. x \in Closure(registry, target)
        BY <1>1, <1>2 DEF DescendI
      <4>2. QED BY <1>1, <1>4, <4>1, ClosureDown
    <3>3. QED BY <1>1, <2>1, <3>1, <3>2 DEF DescendI
  <2>13. SortI' /\ IdleI'
    BY <1>1, <2>1 DEF Inv, SortI, IdleI
  <2>14. QED BY <2>6, <2>7, <2>8, <2>9, <2>10, <2>11, <2>12, <2>13, <2>15 DEF Inv
<1>7. QED BY <1>5, <1>6

LEMMA ReturnStep ==
  ASSUME Inv, Return
  PROVE  Inv'
<1> DEFINE L == Len(stack)
           x == Top.module
<1>1. /\ IsRegistry(registry, Modules) /\ target \in Modules /\ pc = "descend"
      /\ FramesI /\ DistinctI /\ ChainI /\ SeenI /\ FoundI /\ DescendI /\ Descending
  BY DEF Inv, TypeOK, Return, Descending
<1>2. /\ stack \in Seq(Frame) /\ L \in Nat /\ L >= 1 /\ DOMAIN stack = 1 .. L /\ Top = stack[L]
      /\ x \in Modules
  BY <1>1, TopIs
<1>3. /\ stack' = Front(stack) /\ Top.rest = <<>>
      /\ registry' = registry /\ answers' = answers /\ pc' = pc /\ target' = target
      /\ inDegree' = inDegree /\ queue' = queue /\ result' = result /\ modules' = modules
  BY DEF Return
<1>4. /\ stack' \in Seq(Frame) /\ DOMAIN stack' = 1 .. (L - 1)
      /\ \A i \in 1 .. (L - 1) : stack'[i] = stack[i]
  BY <1>2, <1>3 DEF Front
<1>5. ToSet(stack[L].rest) = {}
  BY <1>2, <1>3 DEF ToSet
<1>6. ~Cyclic(registry, x)
  <2>1. ASSUME NEW e \in Deps(registry, x) PROVE ~Cyclic(registry, e)
    <3>1. L \in DOMAIN stack /\ L + 1 \notin DOMAIN stack
      BY <1>2
    <3>2. QED BY <1>1, <1>2, <1>5, <3>1 DEF SeenI
  <2>2. QED BY <1>1, <1>2, <2>1, AcyclicUp
<1>7. TypeOK'
  BY <1>3, <1>4 DEF Inv, TypeOK
<1>8. AnswersAsPromised'
  BY <1>3 DEF Inv, AnswersAsPromised, Answered, Unanswered
<1>9. FramesI' /\ DistinctI' /\ ChainI'
  <2>1. \A i \in 1 .. (L - 1) : i \in DOMAIN stack /\ stack'[i] = stack[i]
    BY <1>2, <1>4
  <2>2. FramesI'
    BY <1>1, <1>3, <1>4, <2>1 DEF FramesI
  <2>3. ChainI'
    BY <1>1, <1>3, <1>4, <2>1 DEF ChainI
  <2>4. DistinctI'
    BY <1>1, <1>4, <2>1 DEF DistinctI
  <2>5. QED BY <2>2, <2>3, <2>4
<1>10. SeenI'
  <2> SUFFICES ASSUME NEW i \in 1 .. (L - 1), NEW e \in Deps(registry, stack[i].module),
                      e \notin ToSet(stack[i].rest), Cyclic(registry, e)
               PROVE  i + 1 \in 1 .. (L - 1) /\ e = stack'[i + 1].module
    BY <1>3, <1>4 DEF SeenI
  <2>1. i \in DOMAIN stack /\ i + 1 \in 1 .. L
    BY <1>2
  <2>2. e = stack[i + 1].module
    BY <1>1, <2>1 DEF SeenI
  <2>3. i + 1 # L
    BY <1>2, <1>6, <2>2
  <2>4. QED BY <1>2, <1>4, <2>1, <2>2, <2>3
<1>11. FoundI'
  <2> SUFFICES ASSUME NEW y \in modules, NEW e \in Deps(registry, y), e \notin modules
               PROVE  \E i \in 1 .. (L - 1) : stack'[i].module = y /\ e \in ToSet(stack'[i].rest)
    BY <1>3, <1>4 DEF FoundI
  <2>1. PICK i \in DOMAIN stack : stack[i].module = y /\ e \in ToSet(stack[i].rest)
    BY <1>1 DEF FoundI
  <2>2. i \in 1 .. (L - 1)
    BY <1>2, <1>5, <2>1
  <2>3. QED BY <1>4, <2>1, <2>2
<1>12. DescendI'
  <2>1. stack[1].module = target
    BY <1>1 DEF DescendI, Descending
  <2>2. CASE L = 1
    <3>1. DOMAIN stack' = {} /\ x = target
      BY <1>2, <1>4, <2>1, <2>2
    <3>2. stack' = <<>>
      BY <1>4, <3>1
    <3>3. QED BY <1>1, <1>3, <1>6, <3>1, <3>2 DEF DescendI
  <2>3. CASE L # 1
    <3>1. 1 \in 1 .. (L - 1)
      BY <1>2, <2>3
    <3>2. stack'[1].module = target /\ stack' # <<>>
      BY <1>4, <2>1, <3>1
    <3>3. QED BY <1>1, <1>3, <3>2 DEF DescendI
  <2>4. QED BY <2>2, <2>3
<1>13. SortI' /\ IdleI'
  BY <1>1, <1>3 DEF Inv, SortI, IdleI
<1>14. QED BY <1>7, <1>8, <1>9, <1>10, <1>11, <1>12, <1>13 DEF Inv

-----------------------------------------------------------------------------
(* _topological_sort. *)

LEMMA EntriesAre ==
  ASSUME IsRegistry(registry, Modules), NEW m, NEW S
  PROVE  /\ IsFiniteSet(Entries(m, S)) /\ Cardinality(Entries(m, S)) \in Nat
         /\ Cardinality(Entries(m, S)) = 0 <=> Deps(registry, m) \cap S = {}
         /\ \A x \in S : Entries(m, {x}) # {} <=> x \in Deps(registry, m)
<1>1. Requires(registry, m) \in Seq(Modules)
  BY DepsIn
<1>2. Entries(m, S) \subseteq 1 .. Len(Requires(registry, m)) /\ Len(Requires(registry, m)) \in Nat
  BY <1>1 DEF Entries
<1>3. IsFiniteSet(Entries(m, S)) /\ Cardinality(Entries(m, S)) \in Nat
  <2> DEFINE k == Len(Requires(registry, m))
  <2> HIDE DEF k
  <2>1. Entries(m, S) \subseteq 1 .. k /\ k \in Nat
    BY <1>2 DEF k
  <2>2. IsFiniteSet(1 .. k)
    BY <2>1, FS_Interval
  <2>3. QED BY <2>1, <2>2, FS_Subset, FS_CardinalityType
<1>4. Cardinality(Entries(m, S)) = 0 <=> Entries(m, S) = {}
  BY <1>3, FS_EmptySet
<1>5. Entries(m, S) = {} <=> Deps(registry, m) \cap S = {}
  BY DEF Entries, Deps, ToSet
<1>6. \A x \in S : Entries(m, {x}) # {} <=> x \in Deps(registry, m)
  BY DEF Entries, Deps, ToSet
<1>7. QED BY <1>3, <1>4, <1>5, <1>6

\* Taking a module takes its entries.
LEMMA EntriesSplit ==
  ASSUME IsRegistry(registry, Modules), NEW m, NEW S, NEW x \in S
  PROVE  Cardinality(Entries(m, S)) - Cardinality(Entries(m, {x})) = Cardinality(Entries(m, S \ {x}))
<1> DEFINE A == Entries(m, S)
           B == Entries(m, {x})
<1>1. A \cap B = B /\ A \ B = Entries(m, S \ {x})
  BY DEF Entries
<1>2. IsFiniteSet(A)
  BY EntriesAre
<1> HIDE DEF A, B
<1>3. Cardinality(A \ B) = Cardinality(A) - Cardinality(A \cap B)
  BY <1>2, FS_Difference
<1>4. QED BY <1>1, <1>3 DEF A, B

LEMMA PrepareStep ==
  ASSUME Inv, Prepare
  PROVE  Inv'
<1>1. /\ IsRegistry(registry, Modules) /\ target \in Modules /\ modules \subseteq Modules
      /\ pc = "descend" /\ stack = <<>> /\ pc' = "sort"
      /\ registry' = registry /\ answers' = answers /\ target' = target /\ result' = result
      /\ modules' = modules /\ stack' = stack
  BY DEF Inv, TypeOK, Prepare
<1>2. target \in modules /\ modules \subseteq Closure(registry, target) /\ ~Cyclic(registry, target)
  BY <1>1 DEF Inv, DescendI
<1>3. Closed(registry, modules)
  BY <1>1 DEF Inv, FoundI, Closed
<1>4. modules = Closure(registry, target)
  BY <1>1, <1>2, <1>3, ClosureIs
<1>5. result = <<>>
  BY <1>1 DEF Inv, SortI
<1>6. \A m \in modules : /\ InDegrees[m] = Cardinality(Entries(m, modules)) /\ InDegrees[m] \in Nat
                         /\ InDegrees[m] = 0 <=> Deps(registry, m) \cap modules = {}
  BY <1>1, EntriesAre DEF InDegrees
<1>7. inDegree' = InDegrees /\ queue' = {m \in modules : InDegrees[m] = 0}
  BY DEF Prepare
<1>8. TypeOK'
  <2>1. inDegree' \in [IF pc' = "sort" THEN modules' ELSE {} -> Nat]
    <3>1. InDegrees \in [modules -> Nat]
      BY <1>6 DEF InDegrees
    <3>2. QED BY <1>1, <1>7, <3>1
  <2>2. queue' \subseteq modules' /\ result' \in Seq(modules')
    BY <1>1, <1>5, <1>7
  <2>3. QED BY <1>1, <2>1, <2>2 DEF Inv, TypeOK
<1>9. AnswersAsPromised'
  BY <1>1 DEF Inv, AnswersAsPromised, Answered, Unanswered
<1>10. FramesI' /\ DistinctI' /\ ChainI' /\ SeenI' /\ FoundI'
  BY <1>1 DEF Inv, FramesI, DistinctI, ChainI, SeenI, FoundI
<1>11. SortI'
  <2>1. IsStart(registry, modules, result, Len(result)) /\ ToSet(result) = {}
    BY <1>5 DEF IsStart, ToSet
  <2>2. \A m \in modules : Entries(m, modules \ ToSet(result))' = Entries(m, modules)
    BY <1>1, <2>1 DEF Entries
  <2>3. queue' = Ready(registry, modules, ToSet(result))
    <3>1. Ready(registry, modules, {}) = {m \in modules : Deps(registry, m) \cap modules = {}}
      BY DEF Ready
    <3>2. QED BY <1>6, <1>7, <2>1, <3>1
  <2>4. \A m \in modules : inDegree'[m] = Cardinality(Entries(m, modules \ ToSet(result))')
    BY <1>6, <1>7, <2>2
  <2>5. QED BY <1>1, <1>2, <1>4, <2>1, <2>3, <2>4 DEF SortI
<1>12. DescendI' /\ IdleI'
  BY <1>1 DEF DescendI, IdleI
<1>13. QED BY <1>8, <1>9, <1>10, <1>11, <1>12 DEF Inv

\* What the sort has taken, as a set of places and as a set of modules.
LEMMA SortIs ==
  ASSUME Inv, pc = "sort"
  PROVE  /\ result \in Seq(modules) /\ Len(result) \in Nat
         /\ IsStart(registry, modules, result, Len(result))
         /\ Taken(result, Len(result)) = ToSet(result)
         /\ modules \subseteq Modules /\ IsFiniteSet(modules) /\ modules \subseteq Nat
         /\ Closed(registry, modules) /\ modules = Closure(registry, target)
         /\ \A x \in modules : ~OnCycle(registry, x)
<1>1. /\ IsRegistry(registry, Modules) /\ target \in Modules /\ modules \subseteq Modules
      /\ result \in Seq(modules) /\ modules = Closure(registry, target) /\ ~Cyclic(registry, target)
      /\ IsStart(registry, modules, result, Len(result))
  BY DEF Inv, TypeOK, SortI
<1>2. Len(result) \in Nat /\ DOMAIN result = 1 .. Len(result)
  BY <1>1
<1>3. Taken(result, Len(result)) = ToSet(result)
  BY <1>2 DEF Taken, ToSet
<1>4. IsFiniteSet(modules) /\ modules \subseteq Nat
  BY <1>1, ModulesAssumption, FS_Subset
<1>5. Closed(registry, modules)
  BY <1>1, ClosureIs
<1>6. \A x \in modules : ~OnCycle(registry, x)
  BY <1>1, AcyclicDown
<1>7. QED BY <1>1, <1>2, <1>3, <1>4, <1>5, <1>6

LEMMA RoundStep ==
  ASSUME Inv, NEW m \in Modules, Round(m)
  PROVE  Inv'
<1> DEFINE n == Len(result)
           D == ToSet(result)
<1>1. /\ IsRegistry(registry, Modules) /\ pc = "sort" /\ pc' = pc
      /\ registry' = registry /\ answers' = answers /\ target' = target
      /\ modules' = modules /\ stack' = stack
  BY DEF Inv, TypeOK, Round
<1>2. /\ result \in Seq(modules) /\ n \in Nat /\ IsStart(registry, modules, result, n)
      /\ Taken(result, n) = D /\ modules \subseteq Modules /\ Closed(registry, modules)
  BY <1>1, SortIs
<1>3. /\ queue = Ready(registry, modules, D) /\ m \in queue /\ \A x \in queue : m <= x
      /\ \A x \in modules : inDegree[x] = Cardinality(Entries(x, modules \ D))
  BY <1>1 DEF Inv, SortI, Round, First
<1>4. m \in modules /\ m \notin D /\ Deps(registry, m) \cap modules \subseteq D
  BY <1>3 DEF Ready
<1>5. /\ result' = Append(result, m)
      /\ inDegree' = [x \in modules |-> inDegree[x] - Cardinality(Entries(x, {m}))]
      /\ queue' = (queue \ {m}) \cup {x \in modules : Entries(x, {m}) # {} /\ inDegree'[x] = 0}
  BY DEF Round
<1>6. /\ result' \in Seq(modules) /\ Len(result') = n + 1 /\ result' \in [1 .. (n + 1) -> modules]
      /\ result'[n + 1] = m /\ \A i \in 1 .. n : result'[i] = result[i]
  <2>1. /\ result' \in Seq(modules) /\ Len(result') = n + 1
        /\ result'[n + 1] = m /\ \A i \in 1 .. n : result'[i] = result[i]
    BY <1>2, <1>4, <1>5
  <2> HIDE DEF n
  <2>2. result' \in [1 .. (n + 1) -> modules]
    BY <2>1
  <2>3. QED BY <2>1, <2>2
<1>7. ToSet(result') = D \cup {m}
  <2>1. DOMAIN result = 1 .. n /\ DOMAIN result' = 1 .. (n + 1)
    BY <1>2, <1>6
  <2>2. \A i : i \in 1 .. (n + 1) <=> (i \in 1 .. n \/ i = n + 1)
    BY <1>2
  <2> HIDE DEF n
  <2>3. ToSet(result') = {result'[i] : i \in 1 .. (n + 1)} /\ D = {result[i] : i \in 1 .. n}
    BY <2>1 DEF ToSet
  <2> HIDE DEF D
  <2>4. QED BY <1>6, <2>2, <2>3
<1> DEFINE E == D \cup {m}
<1> HIDE DEF n, D
<1>8. IsStart(registry, modules, result', n + 1)
  <2>1. m \in Ready(registry, modules, Taken(result, n))
    BY <1>2, <1>3
  <2>2. \A y \in Ready(registry, modules, Taken(result, n)) : m <= y
    BY <1>2, <1>3
  <2>3. QED BY <1>2, <1>6, <2>1, <2>2, StartGrows
<1>9. ASSUME NEW x \in modules
      PROVE  /\ inDegree'[x] = Cardinality(Entries(x, modules \ E)) /\ inDegree'[x] \in Nat
             /\ inDegree'[x] = 0 <=> Deps(registry, x) \cap (modules \ E) = {}
             /\ Entries(x, {m}) # {} <=> m \in Deps(registry, x)
  <2>1. m \in modules \ D /\ (modules \ D) \ {m} = modules \ E
    BY <1>4
  <2>2. inDegree'[x] = Cardinality(Entries(x, modules \ E))
    <3>1. Cardinality(Entries(x, modules \ D)) - Cardinality(Entries(x, {m}))
            = Cardinality(Entries(x, (modules \ D) \ {m}))
      BY <1>1, <2>1, EntriesSplit
    <3>2. QED BY <1>3, <1>5, <2>1, <3>1
  <2>3. QED BY <1>1, <1>4, <2>2, EntriesAre
<1>10. queue' = Ready(registry, modules, E)
  <2>1. ASSUME NEW x, x \in queue' PROVE x \in Ready(registry, modules, E)
    <3>1. CASE x \in queue \ {m}
      BY <1>3, <3>1 DEF Ready
    <3>2. CASE x \in modules /\ Entries(x, {m}) # {} /\ inDegree'[x] = 0
      <4>1. m \in Deps(registry, x) /\ Deps(registry, x) \cap modules \subseteq E
        BY <1>9, <3>2
      <4>2. x # m
        BY <1>4, <4>1
      <4>3. x \notin D
        <5>1. \A y \in Taken(result, n) : Deps(registry, y) \cap modules \subseteq Taken(result, n)
          BY <1>2, StartIs
        <5>2. QED BY <1>2, <1>4, <4>1, <5>1
      <4>4. QED BY <3>2, <4>1, <4>2, <4>3 DEF Ready
    <3>3. QED BY <1>5, <2>1, <3>1, <3>2
  <2>2. ASSUME NEW x, x \in Ready(registry, modules, E) PROVE x \in queue'
    <3>1. x \in modules /\ x \notin D /\ x # m /\ Deps(registry, x) \cap modules \subseteq E
      BY <2>2 DEF Ready
    <3>2. CASE m \in Deps(registry, x)
      BY <1>5, <1>9, <3>1, <3>2
    <3>3. CASE m \notin Deps(registry, x)
      <4>1. x \in queue
        BY <1>3, <3>1, <3>3 DEF Ready
      <4>2. QED BY <1>5, <3>1, <4>1
    <3>4. QED BY <3>2, <3>3
  <2>3. QED BY <2>1, <2>2
<1>11. SortI'
  <2>1. \A x \in modules : Entries(x, modules \ ToSet(result))' = Entries(x, modules \ E)
    BY <1>1, <1>7 DEF Entries
  <2>2. \A x \in modules : inDegree'[x] = Cardinality(Entries(x, modules \ ToSet(result))')
    BY <1>9, <2>1
  <2>3. modules = Closure(registry, target) /\ ~Cyclic(registry, target)
    BY <1>1 DEF Inv, SortI
  <2>4. queue' = Ready(registry, modules, ToSet(result'))
    BY <1>7, <1>10
  <2>5. IsStart(registry, modules, result', Len(result'))
    BY <1>6, <1>8
  <2>6. QED BY <1>1, <2>2, <2>3, <2>4, <2>5 DEF SortI
<1>12. TypeOK'
  <2>1. inDegree' \in [IF pc' = "sort" THEN modules' ELSE {} -> Nat]
    <3>1. \A x \in modules : inDegree'[x] \in Nat
      BY <1>9
    <3>2. QED BY <1>1, <1>5, <3>1
  <2>2. queue' \subseteq modules' /\ result' \in Seq(modules')
    BY <1>1, <1>6, <1>10 DEF Ready
  <2>3. QED BY <1>1, <2>1, <2>2 DEF Inv, TypeOK
<1>13. AnswersAsPromised'
  BY <1>1 DEF Inv, AnswersAsPromised, Answered, Unanswered
<1>14. FramesI' /\ DistinctI' /\ ChainI' /\ SeenI' /\ FoundI'
  BY <1>1 DEF Inv, FramesI, DistinctI, ChainI, SeenI, FoundI
<1>15. DescendI' /\ IdleI'
  BY <1>1 DEF DescendI, IdleI
<1>16. QED BY <1>11, <1>12, <1>13, <1>14, <1>15 DEF Inv

\* When no entry is left to take, all are taken, in the promised order.
LEMMA FinishStep ==
  ASSUME Inv, Finish
  PROVE  Inv'
<1> DEFINE n == Len(result)
<1>1. IsRegistry(registry, Modules) /\ pc = "sort" /\ queue = {} /\ target \in Modules
  BY DEF Inv, TypeOK, Finish
<1>2. /\ result \in Seq(modules) /\ n \in Nat /\ IsStart(registry, modules, result, n)
      /\ Taken(result, n) = ToSet(result)
      /\ modules \subseteq Modules /\ IsFiniteSet(modules) /\ modules \subseteq Nat
      /\ modules = Closure(registry, target) /\ \A x \in modules : ~OnCycle(registry, x)
  BY <1>1, SortIs
<1>3. ~Cyclic(registry, target) /\ queue = Ready(registry, modules, ToSet(result))
  BY <1>1 DEF Inv, SortI
<1>4. modules \subseteq Taken(result, n)
  <2>1. ~\E x : x \in Ready(registry, modules, Taken(result, n))
    BY <1>1, <1>2, <1>3
  <2>2. QED BY <1>1, <1>2, <2>1, ModulesAssumption, SomeReady
<1>5. n = Cardinality(modules)
  BY <1>2, <1>4, StartSize
<1>6. result = InstallOrder(registry, modules)
  <2>1. IsStart(registry, modules, InstallOrder(registry, modules), n)
    BY <1>1, <1>2, <1>5, ModulesAssumption, OrderExists DEF IsInstallOrder
  <2>2. QED BY <1>2, <2>1, StartsAgree
<1>7. Answer(Ordered(result)) /\ Ordered(result) = ResolveInstallPlan(registry, target)
  BY <1>2, <1>3, <1>5, <1>6 DEF Finish, ResolveInstallPlan
<1>8. /\ Ordered(result).error = "none" /\ Ordered(result).order = result
      /\ Ordered(result) = [error |-> "none", order |-> result] /\ result \in Seq(Modules)
  BY <1>2 DEF Ordered
<1>9. QED BY <1>7, <1>8, AnswerStep

-----------------------------------------------------------------------------
(* The theorems. *)

LEMMA NextInv == Inv /\ [Next]_vars => Inv'
<1> SUFFICES ASSUME Inv, [Next]_vars PROVE Inv'
  OBVIOUS
<1>1. ASSUME NEW m \in Modules, Ask(m) PROVE Inv'
  BY <1>1, AskStep
<1>2. ASSUME NEW m \in Modules, Round(m) PROVE Inv'
  BY <1>2, RoundStep
<1>3. CASE Enter
  BY <1>3, EnterStep
<1>4. CASE Return
  BY <1>4, ReturnStep
<1>5. CASE Prepare
  BY <1>5, PrepareStep
<1>6. CASE Finish
  BY <1>6, FinishStep
<1>7. CASE UNCHANGED vars
  <2> USE <1>7 DEF vars
  <2>1. TypeOK' /\ AnswersAsPromised'
    BY DEF Inv, TypeOK, AnswersAsPromised, Answered, Unanswered
  <2>2. FramesI' /\ DistinctI' /\ ChainI' /\ SeenI' /\ FoundI'
    BY DEF Inv, FramesI, DistinctI, ChainI, SeenI, FoundI
  <2>3. IdleI' /\ DescendI'
    BY DEF Inv, IdleI, DescendI
  <2>4. SortI'
    <3>1. \A m \in modules : Entries(m, modules \ ToSet(result))' = Entries(m, modules \ ToSet(result))
      BY DEF Entries
    <3>2. QED BY <3>1 DEF Inv, SortI
  <2>5. QED BY <2>1, <2>2, <2>3, <2>4 DEF Inv
<1>8. QED BY <1>1, <1>2, <1>3, <1>4, <1>5, <1>6, <1>7 DEF Next

LEMMA Invariance == Spec => []Inv
BY InitInv, NextInv, PTL DEF Spec

\* The resolver stays within its types: in particular it never answers with
\* UnresolvableConflictError.
THEOREM TypeCorrect == Spec => []TypeOK
<1>1. Inv => TypeOK
  BY DEF Inv
<1>2. QED BY <1>1, Invariance, PTL

\* Depth-first search with its visited sets and the sort with its in-degrees
\* give for every registry what InstallPlan promises: refusal exactly when the
\* target reaches a cycle, and else the order that always takes the least module
\* that may be next.
THEOREM AnswersMeetPromise == Spec => []AnswersAsPromised
<1>1. Inv => AnswersAsPromised
  BY DEF Inv
<1>2. QED BY <1>1, Invariance, PTL

\* The recursion is never deeper than there are modules.
THEOREM RecursionIsBounded == Spec => []DepthBounded
<1>1. ASSUME Inv PROVE DepthBounded
  <2> DEFINE L == Len(stack)
             f == [i \in 1 .. L |-> stack[i].module]
  <2>1. stack \in Seq(Frame) /\ L \in Nat /\ DOMAIN stack = 1 .. L
    BY <1>1 DEF Inv, TypeOK
  <2>2. \A i \in 1 .. L : stack[i].module \in Modules
    <3>1. \A i \in 1 .. L : stack[i] \in Frame
      BY <2>1
    <3>2. QED BY <3>1 DEF Frame
  <2>3. \A i, j \in 1 .. L : stack[i].module = stack[j].module => i = j
    BY <1>1, <2>1 DEF Inv, DistinctI
  <2> HIDE DEF L
  <2>4. f \in [1 .. L -> Modules] /\ IsInjective(f)
    BY <2>2, <2>3 DEF IsInjective
  <2> HIDE DEF f
  <2>5. f \in Injection(1 .. L, Modules) /\ IsFiniteSet(1 .. L) /\ IsFiniteSet(Modules)
    BY <2>1, <2>4, FS_Interval, ModulesAssumption DEF Injection
  <2>6. Cardinality(1 .. L) <= Cardinality(Modules) /\ Cardinality(1 .. L) = L
    BY <2>1, <2>5, FS_Injection, FS_Interval
  <2>7. QED BY <2>6 DEF DepthBounded, L
<1>2. Inv => DepthBounded
  BY <1>1
<1>3. QED BY <1>2, Invariance, PTL

\* Every plan has the target and all it needs, once, dependencies first.
THEOREM PlansAreSound == Spec => []PlanSound
<1>1. ASSUME Inv, NEW m \in Planned
      PROVE LET plan == answers[m].order IN
            /\ plan \in Seq(Modules) /\ ToSet(plan) = Closure(registry, m)
            /\ \A i, j \in DOMAIN plan :
                 /\ plan[i] = plan[j] => i = j
                 /\ plan[j] \in Deps(registry, plan[i]) => j < i
  <2> DEFINE C == Closure(registry, m)
             N == Cardinality(C)
             s == InstallOrder(registry, C)
  <2>1. m \in Modules /\ m \in Answered /\ IsRegistry(registry, Modules)
    BY <1>1 DEF Planned, Answered, Unanswered, Raised, Inv, TypeOK
  <2>2. answers[m] = ResolveInstallPlan(registry, m) /\ answers[m].error = "none"
    BY <1>1, <2>1 DEF Inv, AnswersAsPromised, Planned
  <2>3. ~Cyclic(registry, m) /\ answers[m].order = s
    BY <2>2 DEF ResolveInstallPlan, Raised, Ordered
  <2>4. C \subseteq Modules /\ IsFiniteSet(C) /\ N \in Nat
    BY <2>1, ClosureIs, ModulesAssumption, FS_Subset, FS_CardinalityType
  <2>5. IsStart(registry, C, s, N)
    <3>1. \A x \in C : ~OnCycle(registry, x)
      BY <2>1, <2>3, AcyclicDown
    <3>2. QED BY <2>1, <2>4, <3>1, ModulesAssumption, OrderExists DEF IsInstallOrder
  <2> HIDE DEF C, N, s
  <2>6. /\ s \in [1 .. N -> C] /\ IsInjective(s)
        /\ \A i, j \in 1 .. N : s[j] \in Deps(registry, s[i]) => j < i
    BY <2>4, <2>5, StartIs
  <2>7. C \subseteq Taken(s, N)
    BY <2>4, <2>5, StartSize DEF N
  <2>8. DOMAIN s = 1 .. N /\ ToSet(s) = C
    BY <2>6, <2>7 DEF Taken, ToSet
  <2>9. s \in Seq(Modules)
    <3>1. s \in [1 .. N -> Modules]
      BY <2>4, <2>6
    <3>2. QED BY <2>4, <3>1
  <2>10. QED BY <2>3, <2>6, <2>8, <2>9 DEF IsInjective, C
<1>2. Inv => PlanSound
  BY <1>1 DEF PlanSound
<1>3. QED BY <1>2, Invariance, PTL

\* One rank of the modules rises along every plan.
THEOREM PlansShareOneOrder == Spec => []OneInstallOrder
<1>1. ASSUME Inv PROVE OneInstallOrder
  <2>1. IsRegistry(registry, Modules)
    BY <1>1 DEF Inv, TypeOK
  <2>2. PICK rank \in [Modules -> 1 .. Cardinality(Modules)] :
          \A m \in Modules : LET order == ResolveInstallPlan(registry, m).order
                             IN  \A i, j \in DOMAIN order : i < j => rank[order[i]] < rank[order[j]]
    BY <2>1, ModulesAssumption, PlansInOneOrder
  <2>3. \A m \in Planned : m \in Modules /\ answers[m] = ResolveInstallPlan(registry, m)
    <3>1. \A m \in Planned : m \in Answered
      BY DEF Planned, Answered, Unanswered, Raised
    <3>2. QED BY <1>1, <3>1 DEF Inv, AnswersAsPromised, Answered
  <2>4. QED BY <2>2, <2>3 DEF OneInstallOrder
<1>2. Inv => OneInstallOrder
  BY <1>1
<1>3. QED BY <1>2, Invariance, PTL

=============================================================================
