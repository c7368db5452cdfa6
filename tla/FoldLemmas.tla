------------------------------ MODULE FoldLemmas ------------------------------
(***************************************************************************)
(* What the folds of the library compute: sums over finite sets, and the   *)
(* sequence of all elements of a sequence of sequences.  An induction is   *)
(* over the set of the numbers a fact holds for, because the provers       *)
(* cannot instantiate the library's rules, which take a predicate.         *)
(***************************************************************************)
EXTENDS Integers, Sequences, FiniteSets, Functions, SequencesExt, FiniteSetTheorems,
        WellFoundedInduction, SequenceTheorems, TLAPS

(* A nonempty set of natural numbers has a least one. *)
LEMMA NatMin ==
  ASSUME NEW T, T \subseteq Nat, T # {}
  PROVE  \E x \in T : \A y \in T : x <= y
<1> DEFINE Less == {ss \in Nat \X Nat : ss[1] < ss[2]}
<1>1. IsWellFoundedOn(Less, Nat)
  BY NatLessThanWellFounded DEF OpToRel
<1>. HIDE DEF Less
<1>2. \E x \in T : \A y \in T : ~ (<<y, x>> \in Less)
  BY <1>1, WFMin
<1>3. \A x, y \in Nat : <<y, x>> \notin Less => x <= y
  BY DEF Less
<1>. QED BY <1>2, <1>3

(* Induction over the natural numbers, for the set a fact holds on. *)
LEMMA NatInduct ==
  ASSUME NEW T, 0 \in T, \A n \in Nat : n \in T => n + 1 \in T
  PROVE  \A n \in Nat : n \in T
<1> SUFFICES ASSUME NEW m \in Nat, m \notin T PROVE FALSE
  OBVIOUS
<1>1. PICK x \in Nat \ T : \A y \in Nat \ T : x <= y
  BY NatMin
<1>2. x # 0 /\ x - 1 \in Nat
  BY <1>1
<1>3. x - 1 \in T
  BY <1>1, <1>2
<1>. QED BY <1>1, <1>2, <1>3

-------------------------------------------------------------------------------
(***************************************************************************)
(* Sums: SumFunctionOnSet, which picks the elements in an order of its own.*)
(***************************************************************************)
Pick(s) == CHOOSE x \in s : TRUE
Iterates(it, f, S) ==
  it = [s \in SUBSET S |-> IF s = {} THEN 0 ELSE f[Pick(s)] + it[s \ {Pick(s)}]]

(* What is picked is an element. *)
LEMMA PickIn ==
  ASSUME NEW s, s # {}
  PROVE  Pick(s) \in s
BY DEF Pick

(* What the fold iterates to exists, for every finite set. *)
LEMMA IterExists ==
  ASSUME NEW S, IsFiniteSet(S), NEW f \in [S -> Int]
  PROVE  \E it \in [SUBSET S -> Int] : Iterates(it, f, S)
<1> DEFINE Small(n) == {s \in SUBSET S : Cardinality(s) <= n}
           Good(h, n) == \A s \in Small(n) : h[s] = IF s = {} THEN 0 ELSE f[Pick(s)] + h[s \ {Pick(s)}]
           T == {n \in Nat : \E h \in [Small(n) -> Int] : Good(h, n)}
<1>0. \A s \in SUBSET S : IsFiniteSet(s) /\ Cardinality(s) \in Nat
  BY FS_Subset, FS_CardinalityType
<1>1. 0 \in T
  <2>1. \A s \in Small(0) : s = {}
    BY <1>0, FS_EmptySet
  <2>2. [s \in Small(0) |-> 0] \in [Small(0) -> Int] /\ Good([s \in Small(0) |-> 0], 0)
    BY <2>1
  <2>. QED BY <2>2
<1>2. ASSUME NEW n \in Nat, n \in T
      PROVE  n + 1 \in T
  <2>1. PICK h \in [Small(n) -> Int] : Good(h, n)
    BY <1>2
  <2> DEFINE g == [s \in Small(n + 1) |-> IF s = {} THEN 0 ELSE f[Pick(s)] + h[s \ {Pick(s)}]]
  <2>2. \A s \in Small(n + 1) : s # {} => Pick(s) \in S /\ s \ {Pick(s)} \in Small(n)
    <3> SUFFICES ASSUME NEW s \in Small(n + 1), s # {}
                 PROVE  Pick(s) \in S /\ s \ {Pick(s)} \in Small(n)
      OBVIOUS
    <3>1. Pick(s) \in s
      BY PickIn
    <3>2. Cardinality(s \ {Pick(s)}) = Cardinality(s) - 1
      BY <1>0, <3>1, FS_RemoveElement
    <3>. QED BY <1>0, <3>1, <3>2
  <2>3. Small(n) \subseteq Small(n + 1)
    BY <1>0
  <2>4. g \in [Small(n + 1) -> Int]
    BY <2>2
  <2>5. \A s \in Small(n) : g[s] = h[s]
    BY <2>1, <2>3
  <2>6. Good(g, n + 1)
    BY <2>2, <2>5
  <2>. HIDE DEF g, Small, Good
  <2>. QED BY <2>4, <2>6
<1>3. Cardinality(S) \in T
  <2>. HIDE DEF T
  <2>1. \A n \in Nat : n \in T
    BY <1>1, <1>2, NatInduct
  <2>. QED BY <2>1, FS_CardinalityType
<1>4. Small(Cardinality(S)) = SUBSET S
  BY FS_Subset
<1>5. PICK h \in [SUBSET S -> Int] : Good(h, Cardinality(S))
  BY <1>3, <1>4
<1>6. h = [s \in SUBSET S |-> IF s = {} THEN 0 ELSE f[Pick(s)] + h[s \ {Pick(s)}]]
  BY <1>4, <1>5
<1>. QED BY <1>6 DEF Iterates

(* It is unique, so that a smaller set iterates to the same. *)
LEMMA IterUnique ==
  ASSUME NEW S, NEW R, NEW f, NEW g, NEW it, NEW jt, Iterates(it, f, S), Iterates(jt, g, R),
         NEW U, U \subseteq S, U \subseteq R, IsFiniteSet(U), \A x \in U : f[x] = g[x]
  PROVE  it[U] = jt[U]
<1> DEFINE T == {n \in Nat : \A s \in SUBSET U : Cardinality(s) = n => it[s] = jt[s]}
<1>0. \A s \in SUBSET U : IsFiniteSet(s) /\ Cardinality(s) \in Nat
  BY FS_Subset, FS_CardinalityType
<1>1. 0 \in T
  BY <1>0, FS_EmptySet DEF Iterates
<1>2. ASSUME NEW n \in Nat, n \in T
      PROVE  n + 1 \in T
  <2> SUFFICES ASSUME NEW s \in SUBSET U, Cardinality(s) = n + 1
               PROVE  it[s] = jt[s]
    OBVIOUS
  <2>1. s # {}
    BY FS_EmptySet
  <2>2. Pick(s) \in s
    BY <2>1, PickIn
  <2>3. Cardinality(s \ {Pick(s)}) = n
    BY <1>0, <2>2, FS_RemoveElement
  <2>4. it[s \ {Pick(s)}] = jt[s \ {Pick(s)}]
    BY <1>2, <2>3
  <2>5. s \in SUBSET S /\ s \in SUBSET R /\ f[Pick(s)] = g[Pick(s)]
    BY <2>2
  <2>6. it[s] = f[Pick(s)] + it[s \ {Pick(s)}]
    BY <2>1, <2>5 DEF Iterates
  <2>7. jt[s] = g[Pick(s)] + jt[s \ {Pick(s)}]
    BY <2>1, <2>5 DEF Iterates
  <2>. QED BY <2>4, <2>5, <2>6, <2>7
<1>3. Cardinality(U) \in T
  <2>. HIDE DEF T
  <2>1. \A n \in Nat : n \in T
    BY <1>1, <1>2, NatInduct
  <2>. QED BY <2>1, FS_CardinalityType
<1>. QED BY <1>3

(* The fold is what it iterates to. *)
LEMMA SumIterates ==
  ASSUME NEW S, IsFiniteSet(S), NEW f, \A x \in S : f[x] \in Int
  PROVE  \E it \in [SUBSET S -> Int] : Iterates(it, f, S) /\ SumFunctionOnSet(f, S) = it[S]
<1> DEFINE g == [x \in S |-> f[x]]
           jt == CHOOSE it : Iterates(it, f, S)
<1>1. PICK it \in [SUBSET S -> Int] : Iterates(it, g, S)
  <2>1. g \in [S -> Int]
    OBVIOUS
  <2>. HIDE DEF g
  <2>. QED BY <2>1, IterExists
<1>2. Iterates(it, f, S)
  <2>1. \A s \in SUBSET S : s # {} => g[Pick(s)] = f[Pick(s)]
    BY PickIn
  <2>. QED BY <1>1, <2>1 DEF Iterates
<1>3. Iterates(jt, f, S)
  BY <1>2
<1>4. SumFunctionOnSet(f, S) = jt[S]
  BY DEF SumFunctionOnSet, FoldFunctionOnSet, MapThenFoldSet, Iterates, Pick
<1>. HIDE DEF jt, g
<1>5. jt[S] = it[S]
  BY <1>2, <1>3, IterUnique
<1>. QED BY <1>2, <1>4, <1>5

(* The empty sum. *)
LEMMA SumEmpty ==
  ASSUME NEW f
  PROVE  SumFunctionOnSet(f, {}) = 0
<1>1. PICK it : Iterates(it, f, {}) /\ SumFunctionOnSet(f, {}) = it[{}]
  BY SumIterates, FS_EmptySet
<1>. QED BY <1>1 DEF Iterates

(* A sum of integers is an integer. *)
LEMMA SumType ==
  ASSUME NEW S, IsFiniteSet(S), NEW f, \A x \in S : f[x] \in Int
  PROVE  SumFunctionOnSet(f, S) \in Int
<1>1. PICK it \in [SUBSET S -> Int] : SumFunctionOnSet(f, S) = it[S]
  BY SumIterates
<1>2. it[S] \in Int
  OBVIOUS
<1>. QED BY <1>1, <1>2

(* The elements decide the sum. *)
LEMMA SumExtensional ==
  ASSUME NEW S, IsFiniteSet(S), NEW f, NEW g, \A x \in S : f[x] \in Int /\ f[x] = g[x]
  PROVE  SumFunctionOnSet(f, S) = SumFunctionOnSet(g, S)
<1>1. PICK it : Iterates(it, f, S) /\ SumFunctionOnSet(f, S) = it[S]
  BY SumIterates
<1>2. PICK jt : Iterates(jt, g, S) /\ SumFunctionOnSet(g, S) = jt[S]
  BY SumIterates
<1>. QED BY <1>1, <1>2, IterUnique

(* A sum is what was picked first and the sum of the rest. *)
LEMMA SumPick ==
  ASSUME NEW S, IsFiniteSet(S), S # {}, NEW f, \A x \in S : f[x] \in Int
  PROVE  SumFunctionOnSet(f, S) = f[Pick(S)] + SumFunctionOnSet(f, S \ {Pick(S)})
<1> DEFINE R == S \ {Pick(S)}
<1>0. IsFiniteSet(R) /\ R \subseteq S
  BY FS_Subset
<1>1. PICK it : Iterates(it, f, S) /\ SumFunctionOnSet(f, S) = it[S]
  BY SumIterates
<1>2. PICK jt : Iterates(jt, f, R) /\ SumFunctionOnSet(f, R) = jt[R]
  BY <1>0, SumIterates
<1>3. it[R] = jt[R]
  BY <1>0, <1>1, <1>2, IterUnique
<1>4. it[S] = f[Pick(S)] + it[R]
  BY <1>1 DEF Iterates
<1>. QED BY <1>1, <1>2, <1>3, <1>4

(* One more element adds its value, whichever is picked first. *)
LEMMA SumAdd ==
  ASSUME NEW S, IsFiniteSet(S), NEW f, \A x \in S : f[x] \in Int,
         NEW a, a \notin S, f[a] \in Int
  PROVE  SumFunctionOnSet(f, S \cup {a}) = SumFunctionOnSet(f, S) + f[a]
<1> DEFINE A == S \cup {a}
           Adds(s, b) == SumFunctionOnSet(f, s \cup {b}) = SumFunctionOnSet(f, s) + f[b]
           T == {n \in Nat : \A s \in SUBSET A : \A b \in A \ s : Cardinality(s) = n => Adds(s, b)}
<1>. IsFiniteSet(A) /\ \A x \in A : f[x] \in Int
  BY FS_AddElement
<1>. HIDE DEF A
<1>0. \A s \in SUBSET A : /\ IsFiniteSet(s) /\ Cardinality(s) \in Nat /\ SumFunctionOnSet(f, s) \in Int
  BY FS_Subset, FS_CardinalityType, SumType
<1>1. 0 \in T
  <2> SUFFICES ASSUME NEW s \in SUBSET A, NEW b \in A \ s, Cardinality(s) = 0
               PROVE  Adds(s, b)
    OBVIOUS
  <2>1. s = {}
    BY <1>0, FS_EmptySet
  <2>2. Pick({b}) = b
    BY PickIn
  <2>3. SumFunctionOnSet(f, {b}) = f[Pick({b})] + SumFunctionOnSet(f, {b} \ {Pick({b})})
    BY FS_Singleton, SumPick
  <2>4. {b} \ {Pick({b})} = {} /\ s \cup {b} = {b}
    BY <2>1, <2>2
  <2>5. /\ SumFunctionOnSet(f, s \cup {b}) = SumFunctionOnSet(f, {b})
        /\ SumFunctionOnSet(f, s) = 0
    BY <2>1, <2>4, SumEmpty, Zenon
  <2>6. SumFunctionOnSet(f, {b}) = f[b] + 0
    BY <2>2, <2>3, <2>4, SumEmpty, Zenon
  <2>. QED BY <2>5, <2>6
<1>2. ASSUME NEW n \in Nat, n \in T
      PROVE  n + 1 \in T
  <2> SUFFICES ASSUME NEW s \in SUBSET A, NEW b \in A \ s, Cardinality(s) = n + 1
               PROVE  Adds(s, b)
    OBVIOUS
  <2> DEFINE u == s \cup {b}
             y == Pick(u)
             r == s \ {y}
  <2>1. y \in u
    BY PickIn
  <2>2. u \in SUBSET A
    OBVIOUS
  <2>3. SumFunctionOnSet(f, u) = f[y] + SumFunctionOnSet(f, u \ {y})
    <3>1. IsFiniteSet(u) /\ u # {}
      BY <1>0
    <3>. QED BY <3>1, SumPick
  <2>. HIDE DEF y
  <2>4. CASE y = b
    <3>1. u \ {y} = s
      BY <2>4
    <3>2. SumFunctionOnSet(f, u) = f[b] + SumFunctionOnSet(f, s)
      BY <2>3, <2>4, <3>1, Zenon
    <3>. QED BY <1>0, <3>2
  <2>5. CASE y \in s
    <3>1. r \in SUBSET A /\ y \in A \ r /\ b \in A \ r
      BY <2>5
    <3>2. Cardinality(r) = n
      BY <1>0, <2>5, FS_RemoveElement
    <3>3. Adds(r, b) /\ Adds(r, y)
      BY <1>2, <3>1, <3>2
    <3>4. u \ {y} = r \cup {b} /\ r \cup {y} = s
      BY <2>5
    <3>5. /\ SumFunctionOnSet(f, u) = f[y] + (SumFunctionOnSet(f, r) + f[b])
          /\ SumFunctionOnSet(f, s) = SumFunctionOnSet(f, r) + f[y]
      BY <2>3, <3>3, <3>4, Zenon
    <3>6. SumFunctionOnSet(f, r) \in Int /\ f[b] \in Int /\ f[y] \in Int
      BY <1>0, <3>1
    <3>. QED BY <3>5, <3>6
  <2>. QED BY <2>1, <2>4, <2>5
<1>3. S \in SUBSET A /\ a \in A \ S
  BY DEF A
<1>4. Cardinality(S) \in T
  <2>. HIDE DEF T
  <2>1. \A n \in Nat : n \in T
    BY <1>1, <1>2, NatInduct
  <2>. QED BY <2>1, FS_CardinalityType
<1>. QED BY <1>3, <1>4

(* A sum over a sequence that grows at its end. *)
LEMMA SumAppend ==
  ASSUME NEW n \in Nat, NEW f, \A i \in 1..n : f[i] \in Int,
         NEW g, \A i \in 1..n : g[i] = f[i], g[n + 1] \in Int
  PROVE  SumFunctionOnSet(g, 1..n + 1) = SumFunctionOnSet(f, 1..n) + g[n + 1]
<1>1. n + 1 \notin 1..n /\ \A i \in 1..n : g[i] \in Int /\ g[i] = f[i]
  OBVIOUS
<1>. IsFiniteSet(1..n)
  BY FS_Interval
<1>2. SumFunctionOnSet(g, 1..n) = SumFunctionOnSet(f, 1..n)
  BY <1>1, SumExtensional
<1>3. SumFunctionOnSet(g, (1..n) \cup {n + 1}) = SumFunctionOnSet(g, 1..n) + g[n + 1]
  BY <1>1, SumAdd
<1>4. (1..n) \cup {n + 1} = 1..n + 1
  OBVIOUS
<1>. QED BY <1>2, <1>3, <1>4, Zenon

(* Without one of its n + 1 elements, a set has n. *)
LEMMA OneLess ==
  ASSUME NEW s, IsFiniteSet(s), NEW x \in s, NEW n \in Nat, Cardinality(s) = n + 1
  PROVE  IsFiniteSet(s \ {x}) /\ Cardinality(s \ {x}) = n
BY FS_RemoveElement

(* A sum of parts that are at least a is at least as many times a. *)
LEMMA SumAtLeast ==
  ASSUME NEW S, IsFiniteSet(S), NEW a \in Int, NEW f, \A x \in S : f[x] \in Int /\ f[x] >= a
  PROVE  SumFunctionOnSet(f, S) >= a * Cardinality(S)
<1> DEFINE T == {n \in Nat : \A s \in SUBSET S : Cardinality(s) = n => SumFunctionOnSet(f, s) >= a * n}
<1>0. \A s \in SUBSET S : IsFiniteSet(s) /\ Cardinality(s) \in Nat
  BY FS_Subset, FS_CardinalityType
<1>t. \A s \in SUBSET S : SumFunctionOnSet(f, s) \in Int
  BY <1>0, SumType
<1>1. 0 \in T
  <2>1. \A s \in SUBSET S : Cardinality(s) = 0 => SumFunctionOnSet(f, s) = 0
    BY <1>0, FS_EmptySet, SumEmpty
  <2>. QED BY <2>1
<1>2. ASSUME NEW n \in Nat, n \in T
      PROVE  n + 1 \in T
  <2> SUFFICES ASSUME NEW s \in SUBSET S, Cardinality(s) = n + 1
               PROVE  SumFunctionOnSet(f, s) >= a * (n + 1)
    OBVIOUS
  <2>1. s # {} /\ IsFiniteSet(s)
    BY <1>0, FS_EmptySet
  <2>2. Pick(s) \in s
    BY <2>1, PickIn
  <2>3. Cardinality(s \ {Pick(s)}) = n
    BY <2>1, <2>2, OneLess
  <2>4. SumFunctionOnSet(f, s \ {Pick(s)}) >= a * n
    BY <1>2, <2>3
  <2>5. SumFunctionOnSet(f, s) = f[Pick(s)] + SumFunctionOnSet(f, s \ {Pick(s)})
    BY <1>0, <2>1, SumPick
  <2>6. /\ SumFunctionOnSet(f, s \ {Pick(s)}) \in Int /\ f[Pick(s)] \in Int /\ f[Pick(s)] >= a
        /\ a * (n + 1) = a * n + a /\ a * n \in Int
    BY <1>t, <2>2
  <2>. QED BY <2>4, <2>5, <2>6
<1>3. Cardinality(S) \in T
  <2>. HIDE DEF T
  <2>1. \A n \in Nat : n \in T
    BY <1>1, <1>2, NatInduct
  <2>. QED BY <2>1, FS_CardinalityType
<1>. QED BY <1>3

(* One of parts that are at most b is at most as many times b. *)
LEMMA SumAtMost ==
  ASSUME NEW S, IsFiniteSet(S), NEW b \in Int, NEW f, \A x \in S : f[x] \in Int /\ f[x] <= b
  PROVE  SumFunctionOnSet(f, S) <= b * Cardinality(S)
<1> DEFINE T == {n \in Nat : \A s \in SUBSET S : Cardinality(s) = n => SumFunctionOnSet(f, s) <= b * n}
<1>0. \A s \in SUBSET S : IsFiniteSet(s) /\ Cardinality(s) \in Nat
  BY FS_Subset, FS_CardinalityType
<1>t. \A s \in SUBSET S : SumFunctionOnSet(f, s) \in Int
  BY <1>0, SumType
<1>1. 0 \in T
  <2>1. \A s \in SUBSET S : Cardinality(s) = 0 => SumFunctionOnSet(f, s) = 0
    BY <1>0, FS_EmptySet, SumEmpty
  <2>. QED BY <2>1
<1>2. ASSUME NEW n \in Nat, n \in T
      PROVE  n + 1 \in T
  <2> SUFFICES ASSUME NEW s \in SUBSET S, Cardinality(s) = n + 1
               PROVE  SumFunctionOnSet(f, s) <= b * (n + 1)
    OBVIOUS
  <2>1. s # {} /\ IsFiniteSet(s)
    BY <1>0, FS_EmptySet
  <2>2. Pick(s) \in s
    BY <2>1, PickIn
  <2>3. Cardinality(s \ {Pick(s)}) = n
    BY <2>1, <2>2, OneLess
  <2>4. SumFunctionOnSet(f, s \ {Pick(s)}) <= b * n
    BY <1>2, <2>3
  <2>5. SumFunctionOnSet(f, s) = f[Pick(s)] + SumFunctionOnSet(f, s \ {Pick(s)})
    BY <1>0, <2>1, SumPick
  <2>6. /\ SumFunctionOnSet(f, s \ {Pick(s)}) \in Int /\ f[Pick(s)] \in Int /\ f[Pick(s)] <= b
        /\ b * (n + 1) = b * n + b /\ b * n \in Int
    BY <1>t, <2>2
  <2>. QED BY <2>4, <2>5, <2>6
<1>3. Cardinality(S) \in T
  <2>. HIDE DEF T
  <2>1. \A n \in Nat : n \in T
    BY <1>1, <1>2, NatInduct
  <2>. QED BY <2>1, FS_CardinalityType
<1>. QED BY <1>3

(* A sum of natural numbers is one. *)
LEMMA SumNat ==
  ASSUME NEW S, IsFiniteSet(S), NEW f, \A x \in S : f[x] \in Nat
  PROVE  SumFunctionOnSet(f, S) \in Nat
<1>1. SumFunctionOnSet(f, S) \in Int /\ Cardinality(S) \in Nat
  BY SumType, FS_CardinalityType
<1>2. SumFunctionOnSet(f, S) >= 0 * Cardinality(S)
  BY SumAtLeast
<1>. QED BY <1>1, <1>2

(* The indices can be renumbered from another start. *)
LEMMA SumShift ==
  ASSUME NEW d \in Int, NEW S \in SUBSET Int, IsFiniteSet(S), NEW f, NEW g,
         \A n \in S : g[n] \in Int /\ g[n] = f[n + d]
  PROVE  SumFunctionOnSet(g, S) = SumFunctionOnSet(f, {n + d : n \in S})
<1> DEFINE Moved(s) == {n + d : n \in s}
           Same(s) == IsFiniteSet(Moved(s)) /\ SumFunctionOnSet(g, s) = SumFunctionOnSet(f, Moved(s))
           T == {k \in Nat : \A s \in SUBSET S : Cardinality(s) = k => Same(s)}
<1>0. \A s \in SUBSET S : IsFiniteSet(s) /\ Cardinality(s) \in Nat
  BY FS_Subset, FS_CardinalityType
<1>1. 0 \in T
  <2> SUFFICES ASSUME NEW s \in SUBSET S, Cardinality(s) = 0
               PROVE  Same(s)
    OBVIOUS
  <2>1. s = {}
    BY <1>0, FS_EmptySet
  <2>2. Moved(s) = {}
    BY <2>1
  <2>. QED BY <2>1, <2>2, SumEmpty, FS_EmptySet, Zenon
<1>2. ASSUME NEW k \in Nat, k \in T
      PROVE  k + 1 \in T
  <2> SUFFICES ASSUME NEW s \in SUBSET S, Cardinality(s) = k + 1
               PROVE  Same(s)
    OBVIOUS
  <2> DEFINE x == Pick(s)
             r == s \ {x}
  <2>1. s # {}
    BY FS_EmptySet
  <2>2. x \in s
    BY <2>1, PickIn
  <2>. HIDE DEF x
  <2>b. Cardinality(r) = k /\ IsFiniteSet(r)
    <3>1. IsFiniteSet(s)
      BY <1>0
    <3>. QED BY <2>2, <3>1, OneLess
  <2>3. Same(r)
    BY <1>2, <2>b
  <2>4. Moved(s) = Moved(r) \cup {x + d} /\ x + d \notin Moved(r) /\ s = r \cup {x}
    <3>1. x \in Int /\ s \subseteq Int
      BY <2>2
    <3>2. s = r \cup {x} /\ x \notin r
      BY <2>2
    <3>3. Moved(s) = Moved(r) \cup {x + d}
      BY <3>2
    <3>4. x + d \notin Moved(r)
      <4> SUFFICES ASSUME NEW y \in r, y + d = x + d
                   PROVE  FALSE
        OBVIOUS
      <4>1. y = x
        BY <3>1
      <4>. QED BY <3>2, <4>1
    <3>. QED BY <3>2, <3>3, <3>4
  <2>5. \A y \in Moved(r) : f[y] \in Int
    OBVIOUS
  <2>6. f[x + d] \in Int /\ g[x] = f[x + d] /\ x \notin r /\ \A y \in r : g[y] \in Int
    BY <2>2
  <2>. HIDE DEF Moved, r
  <2>7. SumFunctionOnSet(f, Moved(r) \cup {x + d}) = SumFunctionOnSet(f, Moved(r)) + f[x + d]
    BY <2>3, <2>4, <2>5, <2>6, SumAdd
  <2>8. SumFunctionOnSet(g, r \cup {x}) = SumFunctionOnSet(g, r) + g[x]
    BY <2>b, <2>6, SumAdd
  <2>9. IsFiniteSet(Moved(r) \cup {x + d})
    BY <2>3, FS_AddElement
  <2>. QED BY <2>3, <2>4, <2>6, <2>7, <2>8, <2>9, Zenon
<1>3. Cardinality(S) \in T
  <2>. HIDE DEF T
  <2>1. \A n \in Nat : n \in T
    BY <1>1, <1>2, NatInduct
  <2>. QED BY <2>1, FS_CardinalityType
<1>. QED BY <1>3

-------------------------------------------------------------------------------
(***************************************************************************)
(* Extremes and quotients.                                                 *)
(***************************************************************************)
(* A finite nonempty set of integers has a least and a greatest one. *)
LEMMA HasExtremes ==
  ASSUME NEW S \in SUBSET Int, IsFiniteSet(S), S # {}
  PROVE  /\ \E x \in S : \A y \in S : x <= y
         /\ \E x \in S : \A y \in S : x >= y
<1> DEFINE Both(s) == (\E x \in s : \A y \in s : x <= y) /\ (\E x \in s : \A y \in s : x >= y)
           T == {n \in Nat : \A s \in SUBSET S : s # {} /\ Cardinality(s) = n => Both(s)}
<1>0. \A s \in SUBSET S : IsFiniteSet(s) /\ Cardinality(s) \in Nat
  BY FS_Subset, FS_CardinalityType
<1>1. 0 \in T
  BY <1>0, FS_EmptySet
<1>2. ASSUME NEW n \in Nat, n \in T
      PROVE  n + 1 \in T
  <2> SUFFICES ASSUME NEW s \in SUBSET S, s # {}, Cardinality(s) = n + 1
               PROVE  Both(s)
    OBVIOUS
  <2>1. PICK x \in s : TRUE
    OBVIOUS
  <2> DEFINE r == s \ {x}
  <2>2. Cardinality(r) = n
    <3>1. IsFiniteSet(s)
      BY <1>0
    <3>. QED BY <3>1, OneLess
  <2>3. CASE r = {}
    BY <2>3
  <2>4. CASE r # {}
    <3>1. Both(r)
      BY <1>2, <2>2, <2>4
    <3>2. PICK low \in r : \A y \in r : low <= y
      BY <3>1
    <3>3. PICK high \in r : \A y \in r : high >= y
      BY <3>1
    <3>4. \E z \in s : \A y \in s : z <= y
      <4>1. CASE x <= low
        BY <3>2, <4>1
      <4>2. CASE low <= x
        BY <3>2, <4>2
      <4>. QED BY <4>1, <4>2
    <3>5. \E z \in s : \A y \in s : z >= y
      <4>1. CASE x >= high
        BY <3>3, <4>1
      <4>2. CASE high >= x
        BY <3>3, <4>2
      <4>. QED BY <4>1, <4>2
    <3>. QED BY <3>4, <3>5
  <2>. QED BY <2>3, <2>4
<1>3. Cardinality(S) \in T
  <2>. HIDE DEF T
  <2>1. \A n \in Nat : n \in T
    BY <1>1, <1>2, NatInduct
  <2>. QED BY <2>1, FS_CardinalityType
<1>. QED BY <1>3

(* The values a function has on a finite set are finitely many. *)
LEMMA ValuesAreFinite ==
  ASSUME NEW S, IsFiniteSet(S), NEW f
  PROVE  IsFiniteSet({f[x] : x \in S})
<1> DEFINE V == {f[x] : x \in S}
           g == [x \in S |-> f[x]]
<1>1. g \in Surjection(S, V)
  BY DEF Surjection
<1>. HIDE DEF g, V
<1>2. IsFiniteSet(V)
  BY <1>1, FS_Surjection
<1>. QED BY <1>2 DEF V

(* A quotient by a positive number lies between what its numerator does. *)
LEMMA QuotientBounds ==
  ASSUME NEW s \in Int, NEW n \in Nat \ {0}, NEW a \in Int, NEW b \in Int, a * n <= s, s <= b * n
  PROVE  s \div n \in Int /\ a <= s \div n /\ s \div n <= b
OBVIOUS

(* That of a natural number is one. *)
LEMMA QuotientType ==
  ASSUME NEW s \in Nat, NEW n \in Nat \ {0}
  PROVE  s \div n \in Nat
OBVIOUS

(* What a remainder is. *)
LEMMA Remainder ==
  ASSUME NEW n \in Nat, NEW d \in Nat \ {0}, NEW q \in Int, NEW r \in 0..d - 1, n = d * q + r
  PROVE  n % d = r
OBVIOUS

-------------------------------------------------------------------------------
(***************************************************************************)
(* FlattenSeq.                                                             *)
(***************************************************************************)
Flattens(fl, seqs) ==
  fl = [i \in 1..Len(seqs) |-> IF i = 1 THEN seqs[i] ELSE fl[i - 1] \o seqs[i]]

(* One after the other. *)
LEMMA FlattensAt ==
  ASSUME NEW seqs, NEW fl, Flattens(fl, seqs), NEW i \in 1..Len(seqs)
  PROVE  fl[i] = IF i = 1 THEN seqs[i] ELSE fl[i - 1] \o seqs[i]
BY Zenon DEF Flattens

(* Concatenating one sequence after the other can be done. *)
LEMMA FlattenExists ==
  ASSUME NEW E, NEW seqs \in Seq(Seq(E))
  PROVE  \E fl \in [1..Len(seqs) -> Seq(E)] : Flattens(fl, seqs)
<1> DEFINE Good(fl, n) == \A i \in 1..n : fl[i] = IF i = 1 THEN seqs[i] ELSE fl[i - 1] \o seqs[i]
           T == {n \in Nat : n <= Len(seqs) => \E fl \in [1..n -> Seq(E)] : Good(fl, n)}
<1>1. 0 \in T
  <2>1. [i \in 1..0 |-> <<>>] \in [1..0 -> Seq(E)] /\ Good([i \in 1..0 |-> <<>>], 0)
    OBVIOUS
  <2>. HIDE DEF Good
  <2>. QED BY <2>1
<1>2. ASSUME NEW n \in Nat, n \in T
      PROVE  n + 1 \in T
  <2>. HIDE DEF Good
  <2> SUFFICES ASSUME n + 1 <= Len(seqs)
               PROVE  \E fl \in [1..n + 1 -> Seq(E)] : Good(fl, n + 1)
    OBVIOUS
  <2>1. PICK fl \in [1..n -> Seq(E)] : Good(fl, n)
    BY <1>2
  <2> DEFINE last == IF n = 0 THEN seqs[1] ELSE fl[n] \o seqs[n + 1]
             gl == [i \in 1..n + 1 |-> IF i = n + 1 THEN last ELSE fl[i]]
  <2>2. last \in Seq(E)
    <3>1. seqs[n + 1] \in Seq(E)
      OBVIOUS
    <3>2. CASE n = 0
      BY <3>1, <3>2
    <3>3. CASE n # 0
      BY <3>1, <3>3, ConcatProperties
    <3>. QED BY <3>2, <3>3
  <2>3. Good(gl, n + 1)
    <3> SUFFICES ASSUME NEW i \in 1..n + 1
                 PROVE  gl[i] = IF i = 1 THEN seqs[i] ELSE gl[i - 1] \o seqs[i]
      BY DEF Good
    <3>1. CASE i = n + 1
      BY <3>1
    <3>2. CASE i \in 1..n
      <4>1. fl[i] = IF i = 1 THEN seqs[i] ELSE fl[i - 1] \o seqs[i]
        BY <2>1, <3>2 DEF Good
      <4>2. gl[i] = fl[i] /\ (i # 1 => gl[i - 1] = fl[i - 1])
        <5>. HIDE DEF last
        <5>. QED BY <3>2
      <4>. QED BY <4>1, <4>2
    <3>. QED BY <3>1, <3>2
  <2>4. gl \in [1..n + 1 -> Seq(E)]
    BY <2>2
  <2>. HIDE DEF Good, gl
  <2>. QED BY <2>3, <2>4
<1>3. Len(seqs) \in T
  <2>. HIDE DEF T
  <2>. QED BY <1>1, <1>2, NatInduct
<1>4. PICK fl \in [1..Len(seqs) -> Seq(E)] : Good(fl, Len(seqs))
  BY <1>3
<1>5. fl = [i \in 1..Len(seqs) |-> IF i = 1 THEN seqs[i] ELSE fl[i - 1] \o seqs[i]]
  BY <1>4
<1>. QED BY <1>5 DEF Flattens

(* Where two sequences agree, so do their concatenations. *)
LEMMA FlattenUnique ==
  ASSUME NEW r, NEW s, NEW fl, NEW gl, Flattens(fl, r), Flattens(gl, s),
         NEW n \in Nat, n # 0, n <= Len(r), n <= Len(s), Len(r) \in Nat, Len(s) \in Nat,
         \A i \in 1..n : r[i] = s[i]
  PROVE  fl[n] = gl[n]
<1> DEFINE T == {k \in Nat : k \in 1..n => fl[k] = gl[k]}
<1>1. 0 \in T
  OBVIOUS
<1>2. ASSUME NEW k \in Nat, k \in T
      PROVE  k + 1 \in T
  <2> SUFFICES ASSUME k + 1 \in 1..n
               PROVE  fl[k + 1] = gl[k + 1]
    OBVIOUS
  <2>1. /\ fl[k + 1] = IF k + 1 = 1 THEN r[k + 1] ELSE fl[k] \o r[k + 1]
        /\ gl[k + 1] = IF k + 1 = 1 THEN s[k + 1] ELSE gl[k] \o s[k + 1]
    <3>1. k + 1 \in 1..Len(r) /\ k + 1 \in 1..Len(s) /\ (k + 1) - 1 = k
      OBVIOUS
    <3>. QED BY <3>1, FlattensAt
  <2>. QED BY <1>2, <2>1
<1>3. \A k \in Nat : k \in T
  <2>. HIDE DEF T
  <2>. QED BY <1>1, <1>2, NatInduct
<1>. QED BY <1>3

(* FlattenSeq of a sequence with an element is the last concatenation. *)
LEMMA FlattenIsLast ==
  ASSUME NEW E, NEW seqs \in Seq(Seq(E)), Len(seqs) # 0
  PROVE  \E fl \in [1..Len(seqs) -> Seq(E)] : Flattens(fl, seqs) /\ FlattenSeq(seqs) = fl[Len(seqs)]
<1> DEFINE gl == CHOOSE fl : Flattens(fl, seqs)
<1>1. PICK fl \in [1..Len(seqs) -> Seq(E)] : Flattens(fl, seqs)
  BY FlattenExists
<1>2. Flattens(gl, seqs)
  BY <1>1
<1>3. FlattenSeq(seqs) = gl[Len(seqs)]
  BY DEF FlattenSeq, Flattens
<1>. HIDE DEF gl
<1>4. gl[Len(seqs)] = fl[Len(seqs)]
  BY <1>1, <1>2, FlattenUnique
<1>. QED BY <1>1, <1>3, <1>4

(* The elements of all sequences are a sequence of such elements. *)
LEMMA FlattenType ==
  ASSUME NEW E, NEW seqs \in Seq(Seq(E))
  PROVE  FlattenSeq(seqs) \in Seq(E)
<1>1. CASE Len(seqs) = 0
  BY <1>1 DEF FlattenSeq
<1>2. CASE Len(seqs) # 0
  <2>1. PICK fl \in [1..Len(seqs) -> Seq(E)] : FlattenSeq(seqs) = fl[Len(seqs)]
    BY <1>2, FlattenIsLast
  <2>2. Len(seqs) \in 1..Len(seqs)
    BY <1>2
  <2>. QED BY <2>1, <2>2
<1>. QED BY <1>1, <1>2

(* One more sequence comes after what the others hold. *)
LEMMA FlattenAppend ==
  ASSUME NEW E, NEW seqs \in Seq(Seq(E)), NEW s \in Seq(E)
  PROVE  FlattenSeq(Append(seqs, s)) = FlattenSeq(seqs) \o s
<1> DEFINE more == Append(seqs, s)
           n == Len(seqs)
<1>1. /\ more \in Seq(Seq(E)) /\ Len(more) = n + 1 /\ n \in Nat
      /\ more[n + 1] = s /\ \A i \in 1..n : more[i] = seqs[i]
  OBVIOUS
<1>. HIDE DEF more
<1>2. PICK gl \in [1..n + 1 -> Seq(E)] : Flattens(gl, more) /\ FlattenSeq(more) = gl[n + 1]
  BY <1>1, FlattenIsLast
<1>3. gl[n + 1] = IF n + 1 = 1 THEN s ELSE gl[n] \o s
  <2>1. n + 1 \in 1..Len(more) /\ (n + 1) - 1 = n
    BY <1>1
  <2>2. gl[n + 1] = IF n + 1 = 1 THEN more[n + 1] ELSE gl[(n + 1) - 1] \o more[n + 1]
    BY <1>2, <2>1, FlattensAt
  <2>. QED BY <1>1, <2>1, <2>2, Zenon
<1>4. CASE n = 0
  <2>1. FlattenSeq(seqs) = <<>>
    BY <1>4 DEF FlattenSeq
  <2>2. <<>> \o s = s
    BY ConcatEmptySeq
  <2>. QED BY <1>2, <1>3, <1>4, <2>1, <2>2 DEF more
<1>5. CASE n # 0
  <2>1. PICK fl \in [1..n -> Seq(E)] : Flattens(fl, seqs) /\ FlattenSeq(seqs) = fl[n]
    BY <1>5, FlattenIsLast
  <2>2. fl[n] = gl[n]
    <3>1. /\ n \in Nat /\ n <= Len(seqs) /\ n <= Len(more) /\ Len(seqs) \in Nat /\ Len(more) \in Nat
          /\ \A i \in 1..n : seqs[i] = more[i]
      BY <1>1
    <3>2. Flattens(fl, seqs) /\ Flattens(gl, more) /\ n # 0
      BY <1>2, <1>5, <2>1
    <3>. QED BY ONLY <3>1, <3>2, FlattenUnique, Z3
  <2>. QED BY <1>2, <1>3, <1>5, <2>1, <2>2 DEF more
<1>. QED BY <1>4, <1>5

(* An element more in the last sequence is the last element of all. *)
LEMMA FlattenGrow ==
  ASSUME NEW E, NEW seqs \in Seq(Seq(E)), NEW n \in Nat, Len(seqs) = n + 1, NEW e \in E,
         NEW more \in Seq(Seq(E)), Len(more) = n + 1, more[n + 1] = Append(seqs[n + 1], e),
         \A i \in 1..n : more[i] = seqs[i]
  PROVE  FlattenSeq(more) = Append(FlattenSeq(seqs), e)
<1> DEFINE front == SubSeq(seqs, 1, n)
           last == seqs[n + 1]
<1>1. front \in Seq(Seq(E)) /\ last \in Seq(E) /\ Append(last, e) \in Seq(E)
  OBVIOUS
<1>2. seqs = Append(front, last)
  OBVIOUS
<1>3. more = Append(front, Append(last, e))
  OBVIOUS
<1>. HIDE DEF front, last
<1>4. FlattenSeq(seqs) = FlattenSeq(front) \o last
  BY <1>1, <1>2, FlattenAppend
<1>5. FlattenSeq(more) = FlattenSeq(front) \o Append(last, e)
  BY <1>1, <1>3, FlattenAppend
<1>6. FlattenSeq(front) \in Seq(E)
  BY <1>1, FlattenType
<1>7. FlattenSeq(front) \o Append(last, e) = Append(FlattenSeq(front) \o last, e)
  BY <1>1, <1>6
<1>. QED BY <1>4, <1>5, <1>7

(* What is cut short, not longer than it was, begins as it did. *)
LEMMA CutShort ==
  ASSUME NEW E, NEW s \in Seq(E), NEW m \in 0..Len(s)
  PROVE  /\ SubSeq(s, 1, m) \in Seq(E) /\ Len(SubSeq(s, 1, m)) = m
         /\ \A i \in 1..m : SubSeq(s, 1, m)[i] = s[i]
OBVIOUS

(* Cutting the second of two sequences cuts both together. *)
LEMMA CutConcat ==
  ASSUME NEW E, NEW s \in Seq(E), NEW t \in Seq(E), NEW k \in 0..Len(t)
  PROVE  /\ k <= Len(s \o t)
         /\ s \o SubSeq(t, 1, Len(t) - k) = SubSeq(s \o t, 1, Len(s \o t) - k)
<1>n. PICK a \in Nat, b \in Nat : a = Len(s) /\ b = Len(t)
  OBVIOUS
<1>m. PICK m \in 0..b : m = b - k
  BY <1>n
<1>c. PICK c : c = SubSeq(t, 1, m)
  OBVIOUS
<1>1. c \in Seq(E) /\ Len(c) = m /\ \A i \in 1..m : c[i] = t[i]
  BY <1>n, <1>m, <1>c, CutShort
<1>2. /\ s \o t \in Seq(E) /\ Len(s \o t) = a + b
      /\ \A i \in 1..a + b : (s \o t)[i] = IF i <= a THEN s[i] ELSE t[i - a]
  BY <1>n, ConcatProperties
<1>3. /\ s \o c \in Seq(E) /\ Len(s \o c) = a + m
      /\ \A i \in 1..a + m : (s \o c)[i] = IF i <= a THEN s[i] ELSE c[i - a]
  BY <1>n, <1>1, ConcatProperties
<1>z. PICK z \in 0..Len(s \o t) : z = a + m
  <2>1. a + m \in 0..a + b
    BY <1>n, <1>m
  <2>2. a + m \in 0..Len(s \o t)
    BY <1>2, <2>1, Zenon
  <2>. QED BY <2>2, Zenon
<1>d. PICK d : d = SubSeq(s \o t, 1, z)
  OBVIOUS
<1>4. d \in Seq(E) /\ Len(d) = z /\ \A i \in 1..z : d[i] = (s \o t)[i]
  BY <1>2, <1>d, CutShort, Zenon
<1>5. \A i \in 1..z : (s \o c)[i] = d[i]
  <2> TAKE i \in 1..z
  <2>1. /\ i \in 1..a + b /\ i \in 1..a + m
        /\ (s \o t)[i] = (IF i <= a THEN s[i] ELSE t[i - a])
        /\ (s \o c)[i] = (IF i <= a THEN s[i] ELSE c[i - a])
    <3>1. i \in 1..a + b /\ i \in 1..a + m
      BY <1>m, <1>n, <1>z
    <3>. QED BY <1>2, <1>3, <3>1, Zenon
  <2>2. ~(i <= a) => c[i - a] = t[i - a]
    <3>1. ~(i <= a) => i - a \in 1..m
      BY <1>m, <1>n, <1>z
    <3>. QED BY <1>1, <3>1, Zenon
  <2>3. d[i] = (s \o t)[i]
    BY <1>4, Zenon
  <2>. QED BY <2>1, <2>2, <2>3, Zenon
<1>6. s \o c = d
  BY <1>3, <1>4, <1>5, <1>z, SeqEqual, Zenon
<1>7. Len(t) - k = m /\ Len(s \o t) - k = z /\ k <= Len(s \o t)
  BY <1>2, <1>n, <1>m, <1>z
<1>. QED BY <1>6, <1>7, <1>c, <1>d, Zenon

(* The last sequence cut short cuts the elements of all short. *)
LEMMA FlattenCut ==
  ASSUME NEW E, NEW seqs \in Seq(Seq(E)), NEW n \in Nat, Len(seqs) = n + 1,
         NEW k \in 0..Len(seqs[n + 1]),
         NEW less \in Seq(Seq(E)), Len(less) = n + 1, less[n + 1] = SubSeq(seqs[n + 1], 1, Len(seqs[n + 1]) - k),
         \A i \in 1..n : less[i] = seqs[i]
  PROVE  /\ k <= Len(FlattenSeq(seqs))
         /\ FlattenSeq(less) = SubSeq(FlattenSeq(seqs), 1, Len(FlattenSeq(seqs)) - k)
<1> DEFINE front == SubSeq(seqs, 1, n)
           last == seqs[n + 1]
           cut == SubSeq(last, 1, Len(last) - k)
<1>1. front \in Seq(Seq(E)) /\ last \in Seq(E) /\ cut \in Seq(E) /\ Len(cut) = Len(last) - k
  OBVIOUS
<1>2. seqs = Append(front, last)
  OBVIOUS
<1>3. less = Append(front, cut)
  OBVIOUS
<1>4. FlattenSeq(seqs) = FlattenSeq(front) \o last
  BY <1>1, <1>2, FlattenAppend
<1>5. FlattenSeq(less) = FlattenSeq(front) \o cut
  BY <1>1, <1>3, FlattenAppend
<1>6. FlattenSeq(front) \in Seq(E)
  BY <1>1, FlattenType
<1>7. k \in 0..Len(last)
  OBVIOUS
<1>. HIDE DEF front, last
<1>8. /\ k <= Len(FlattenSeq(front) \o last)
      /\ FlattenSeq(front) \o cut
            = SubSeq(FlattenSeq(front) \o last, 1, Len(FlattenSeq(front) \o last) - k)
  BY <1>1, <1>6, <1>7, CutConcat
<1>. QED BY <1>4, <1>5, <1>8, Zenon
===============================================================================
