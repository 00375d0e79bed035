--------------------------- MODULE InvoicingProofs ---------------------------
(* Proofs about Invoicing, for all tenants, tasks, checklists and price    *)
(* lists, any number of requests and every combination of faults; about    *)
(* Brief, which reads the books: the sums of its screens, and what its     *)
(* statements have found as far as they have been read; and about          *)
(* InvoiceText: the characters of a line, and the rows on their pages.     *)
EXTENDS Brief, InvoiceText, FiniteSetTheorems, WellFoundedInduction, TLAPS

-----------------------------------------------------------------------------
(* Induction over the natural numbers and over finite sets, and what it    *)
(* gives: a recursion over an interval has a solution, and the sum of a    *)
(* function over a finite set does not depend on the order.                *)

(* Induction over the natural numbers, for a set of them. *)
LEMMA Induction ==
  ASSUME NEW S, 0 \in S, \A n \in Nat : n \in S => n + 1 \in S
  PROVE  Nat \subseteq S
<1> DEFINE T == Nat \ S
           R == OpToRel(<, Nat)
<1>1. SUFFICES ASSUME T # {} PROVE FALSE
  OBVIOUS
<1>2. IsWellFoundedOn(R, Nat)
  BY NatLessThanWellFounded
<1>3. PICK x \in T : \A y \in T : ~(<<y, x>> \in R)
  <2>1. T \subseteq Nat
    OBVIOUS
  <2> HIDE DEF R, T
  <2> QED  BY <1>1, <1>2, <2>1, WFMin
<1>4. x # 0 /\ x \in Nat
  BY <1>3
<1>5. x - 1 \in Nat /\ x - 1 < x /\ x = (x - 1) + 1
  BY <1>4
<1>6. x - 1 \in T
  BY <1>5, <1>3
<1>7. <<x - 1, x>> \in R
  BY <1>5, <1>4 DEF OpToRel
<1> QED  BY <1>3, <1>6, <1>7

(* f is computed from b in N steps. *)
Computes(f, N, T, b, step) ==
  /\ f \in [0..N -> T] /\ f[0] = b
  /\ \A n \in 1..N : f[n] = step[<<n, f[n - 1]>>]

(* A recursion over 0..N has a solution. *)
LEMMA Recursion ==
  ASSUME NEW N \in Nat, NEW T, NEW b \in T, NEW step \in [(1..N) \X T -> T]
  PROVE  \E f : Computes(f, N, T, b, step)
<1> DEFINE Good(f, m) == f[0] = b /\ \A n \in 1..m : f[n] = step[<<n, f[n - 1]>>]
           S == {m \in Nat : m \in 0..N => \E f \in [0..m -> T] : Good(f, m)}
<1>1. 0 \in S
  <2>1. [n \in 0..0 |-> b] \in [0..0 -> T] /\ Good([n \in 0..0 |-> b], 0)
    OBVIOUS
  <2> QED  BY <2>1
<1>2. ASSUME NEW m \in Nat, m \in S PROVE m + 1 \in S
  <2>1. SUFFICES ASSUME m + 1 \in 0..N
                 PROVE  \E f \in [0..(m + 1) -> T] : Good(f, m + 1)
    OBVIOUS
  <2>2. m \in 0..N
    BY <2>1
  <2>3. PICK f \in [0..m -> T] : Good(f, m)
    BY <1>2, <2>2
  <2> DEFINE v == step[<<m + 1, f[m]>>]
             g == [n \in 0..(m + 1) |-> IF n = m + 1 THEN v ELSE f[n]]
  <2>4. v \in T
    BY <2>1, <2>3
  <2>5. g \in [0..(m + 1) -> T]
    <3> HIDE DEF v
    <3>1. \A n \in 0..(m + 1) : n = m + 1 \/ n \in 0..m
      OBVIOUS
    <3> QED  BY <2>3, <2>4, <3>1
  <2>6. g[0] = b
    BY <2>3
  <2>7. ASSUME NEW n \in 1..(m + 1) PROVE g[n] = step[<<n, g[n - 1]>>]
    <3>1. CASE n = m + 1
      <4>1. n - 1 = m /\ n \in 0..(m + 1) /\ n - 1 \in 0..(m + 1) /\ m # m + 1 /\ n - 1 # m + 1
        BY <3>1
      <4>2. g[n] = v
        BY <4>1, <3>1
      <4>3. g[n - 1] = f[m]
        BY <4>1, <3>1
      <4> QED  BY <4>2, <4>3, <3>1
    <3>2. CASE n # m + 1
      <4>1. n \in 1..m /\ n - 1 \in 0..m /\ n - 1 # m + 1 /\ n \in 0..(m + 1) /\ n - 1 \in 0..(m + 1)
        BY <3>2
      <4>2. g[n] = f[n]
        BY <4>1, <3>2
      <4>3. g[n - 1] = f[n - 1]
        BY <4>1, <3>2
      <4> QED  BY <4>2, <4>3, <2>3, <4>1
    <3> QED  BY <3>1, <3>2
  <2>8. Good(g, m + 1)
    <3> HIDE DEF g
    <3> QED  BY <2>6, <2>7
  <2> HIDE DEF g, Good
  <2> QED  BY <2>5, <2>8
<1>3. Nat \subseteq S
  <2> HIDE DEF S
  <2> QED  BY <1>1, <1>2, Induction
<1>4. N \in S
  BY <1>3
<1>5. PICK f \in [0..N -> T] : Good(f, N)
  BY <1>4
<1> QED  BY <1>5 DEF Computes

(* Induction over a finite set, for the subsets of it. *)
LEMMA SetInduction ==
  ASSUME NEW S, IsFiniteSet(S), NEW P, {} \in P,
         \A s \in SUBSET S : \A x \in S \ s : s \in P => s \cup {x} \in P
  PROVE  S \in P
<1> DEFINE N == {n \in Nat : \A s \in SUBSET S : Cardinality(s) = n => s \in P}
<1>1. \A s \in SUBSET S : IsFiniteSet(s) /\ Cardinality(s) \in Nat
  BY FS_Subset, FS_CardinalityType
<1>2. 0 \in N
  BY <1>1, FS_EmptySet
<1>3. ASSUME NEW n \in Nat, n \in N PROVE n + 1 \in N
  <2> SUFFICES ASSUME NEW s \in SUBSET S, Cardinality(s) = n + 1 PROVE s \in P
    OBVIOUS
  <2>0. n + 1 # 0 /\ (n + 1) - 1 = n /\ IsFiniteSet(s)
    BY <1>1
  <2>1. s # {}
    BY <2>0, FS_EmptySet
  <2>2. PICK x \in s : TRUE
    BY <2>1
  <2>3. Cardinality(s \ {x}) = n
    <3> HIDE DEF N
    <3> QED  BY <2>0, <2>2, FS_RemoveElement
  <2>4. s \ {x} \in P /\ x \in S \ (s \ {x}) /\ (s \ {x}) \cup {x} = s /\ s \ {x} \in SUBSET S
    BY <2>3, <1>3, <2>2
  <2> HIDE DEF N
  <2> QED  BY <2>4
<1>4. Nat \subseteq N
  <2> HIDE DEF N
  <2> QED  BY <1>2, <1>3, Induction
<1> QED  BY <1>1, <1>4

Chosen(s) == CHOOSE x \in s : TRUE

SumsUp(it, f, S) ==
  it = [s \in SUBSET S |-> IF s = {} THEN 0 ELSE f[Chosen(s)] + it[s \ {Chosen(s)}]]

(* The recursion of a sum has a solution. *)
LEMMA SumExists ==
  ASSUME NEW S, IsFiniteSet(S), NEW f, \A x \in S : f[x] \in Int
  PROVE  \E it \in [SUBSET S -> Int] : SumsUp(it, f, S)
<1> DEFINE N == Cardinality(S)
           T == [SUBSET S -> Int]
           Up(it) == [s \in SUBSET S |-> IF s = {} THEN 0 ELSE f[Chosen(s)] + it[s \ {Chosen(s)}]]
           step == [p \in (1..(N + 1)) \X T |-> Up(p[2])]
           b == [s \in SUBSET S |-> 0]
<1>1. N \in Nat /\ b \in T
  BY FS_CardinalityType
<1>2. \A s \in SUBSET S : s # {} => Chosen(s) \in s /\ Chosen(s) \in S /\ s \ {Chosen(s)} \in SUBSET S
  BY DEF Chosen
<1>3. \A it \in T : Up(it) \in T
  <2> SUFFICES ASSUME NEW it \in T, NEW s \in SUBSET S, s # {}
               PROVE  f[Chosen(s)] + it[s \ {Chosen(s)}] \in Int
    OBVIOUS
  <2> QED  BY <1>2
<1>4. \A n \in 1..(N + 1) : \A v \in T : step[<<n, v>>] \in T /\ step[<<n, v>>] = Up(v)
  BY <1>3
<1>5. PICK h \in [0..(N + 1) -> T] : h[0] = b /\ \A n \in 1..(N + 1) : h[n] = Up(h[n - 1])
  <2> HIDE DEF T, step, b, Up
  <2>1. N + 1 \in Nat
    BY <1>1
  <2> DEFINE M == N + 1
  <2>2. \E h : Computes(h, M, T, b, step)
    <3>1. M \in Nat /\ b \in T /\ step \in [(1..M) \X T -> T]
      <4>1. step \in [(1..M) \X T -> T]
        <5>1. \A p \in (1..M) \X T : Up(p[2]) \in T
          BY <1>3
        <5> HIDE DEF Up, T, M
        <5> QED  BY <5>1 DEF step, M
      <4> QED  BY <1>1, <2>1, <4>1
    <3> HIDE DEF M, N
    <3> QED  BY <3>1, Recursion
  <2> HIDE DEF N
  <2>3. PICK h \in [0..(N + 1) -> T] : h[0] = b /\ \A n \in 1..(N + 1) : h[n] = step[<<n, h[n - 1]>>]
    BY <2>2 DEF Computes
  <2>4. \A n \in 1..(N + 1) : h[n] = Up(h[n - 1])
    <3> SUFFICES ASSUME NEW n \in 1..(N + 1) PROVE h[n] = Up(h[n - 1])
      OBVIOUS
    <3>1. n - 1 \in 0..(N + 1)
      BY <1>1
    <3> QED  BY <1>4, <2>3, <3>1
  <2> QED  BY <2>3, <2>4
<1> DEFINE K == {n \in Nat : n \in 0..N => \A s \in SUBSET S : Cardinality(s) <= n => h[n + 1][s] = h[n][s]}
<1>6. \A s \in SUBSET S : IsFiniteSet(s) /\ Cardinality(s) \in Nat /\ Cardinality(s) <= N
  BY FS_Subset, FS_CardinalityType
<1>7. \A n \in 0..N : \A s \in SUBSET S :
        h[n + 1][s] = IF s = {} THEN 0 ELSE f[Chosen(s)] + h[n][s \ {Chosen(s)}]
  <2> SUFFICES ASSUME NEW n \in 0..N PROVE h[n + 1] = Up(h[n])
    OBVIOUS
  <2> HIDE DEF Up, N
  <2>1. n + 1 \in 1..(N + 1) /\ (n + 1) - 1 = n
    BY <1>1
  <2>2. h[n + 1] = Up(h[(n + 1) - 1])
    BY <1>5, <2>1
  <2> QED  BY <2>1, <2>2
<1>8. 0 \in K
  <2> SUFFICES ASSUME 0 \in 0..N, NEW s \in SUBSET S, Cardinality(s) <= 0 PROVE h[0 + 1][s] = h[0][s]
    OBVIOUS
  <2>1. s = {}
    BY <1>6, FS_EmptySet
  <2> HIDE DEF N, T, K
  <2>2. h[0 + 1][s] = 0
    BY <1>7, <2>1
  <2>3. h[0][s] = 0
    BY <1>5, <2>1 DEF T
  <2> QED  BY <2>2, <2>3
<1>9. ASSUME NEW n \in Nat, n \in K PROVE n + 1 \in K
  <2> SUFFICES ASSUME n + 1 \in 0..N, NEW s \in SUBSET S, Cardinality(s) <= n + 1
               PROVE  h[(n + 1) + 1][s] = h[n + 1][s]
    OBVIOUS
  <2>1. n \in 0..N
    BY <1>1
  <2>2. CASE s = {}
    BY <1>7, <2>1, <2>2
  <2>3. CASE s # {}
    <3>1. Chosen(s) \in s /\ s \ {Chosen(s)} \in SUBSET S
      BY <1>2, <2>3
    <3>2. Cardinality(s \ {Chosen(s)}) = Cardinality(s) - 1
      BY <3>1, <1>6, FS_RemoveElement
    <3>3. h[n + 1][s \ {Chosen(s)}] = h[n][s \ {Chosen(s)}]
      BY <3>1, <3>2, <1>6, <1>9, <2>1
    <3>4. n + 1 \in 0..N
      OBVIOUS
    <3>5. h[n + 1][s] = f[Chosen(s)] + h[n][s \ {Chosen(s)}]
      BY <1>7, <2>1, <2>3
    <3>6. h[(n + 1) + 1][s] = f[Chosen(s)] + h[n + 1][s \ {Chosen(s)}]
      <4> HIDE DEF N, K, T
      <4> QED  BY <1>7, <3>4, <2>3
    <3> QED  BY <3>3, <3>5, <3>6
  <2> QED  BY <2>2, <2>3
<1>10. Nat \subseteq K
  <2> HIDE DEF K
  <2> QED  BY <1>8, <1>9, Induction
<1>11. h[N] \in T /\ N \in 0..N
  <2> HIDE DEF N, T
  <2>1. N \in 0..N /\ N \in 0..(N + 1)
    BY <1>1
  <2> QED  BY <2>1, <1>5
<1>12. \A s \in SUBSET S : h[N][s] = IF s = {} THEN 0 ELSE f[Chosen(s)] + h[N][s \ {Chosen(s)}]
  <2> SUFFICES ASSUME NEW s \in SUBSET S PROVE h[N][s] = h[N + 1][s]
    BY <1>7, <1>11
  <2> QED  BY <1>10, <1>11, <1>6
<1>13. SumsUp(h[N], f, S)
  <2> HIDE DEF N
  <2> QED  BY <1>11, <1>12 DEF SumsUp
<1> QED  BY <1>11, <1>13

(* ... and only one. *)
LEMMA SumUnique ==
  ASSUME NEW S, IsFiniteSet(S), NEW f, \A x \in S : f[x] \in Int,
         NEW R, R \subseteq S,
         NEW it, SumsUp(it, f, S), NEW jt, SumsUp(jt, f, R)
  PROVE  it[R] = jt[R]
<1> DEFINE K == {n \in Nat : \A s \in SUBSET R : Cardinality(s) = n => it[s] = jt[s]}
<1>1. \A s \in SUBSET R : IsFiniteSet(s) /\ Cardinality(s) \in Nat
  BY FS_Subset, FS_CardinalityType
<1>2. 0 \in K
  <2> SUFFICES ASSUME NEW s \in SUBSET R, Cardinality(s) = 0 PROVE it[s] = jt[s]
    OBVIOUS
  <2>1. s = {} /\ s \in SUBSET S
    BY <1>1, FS_EmptySet
  <2>2. it[s] = 0
    BY <2>1 DEF SumsUp
  <2>3. jt[s] = 0
    BY <2>1 DEF SumsUp
  <2> QED  BY <2>2, <2>3
<1>3. ASSUME NEW n \in Nat, n \in K PROVE n + 1 \in K
  <2> SUFFICES ASSUME NEW s \in SUBSET R, Cardinality(s) = n + 1 PROVE it[s] = jt[s]
    OBVIOUS
  <2>0. n + 1 # 0 /\ (n + 1) - 1 = n /\ IsFiniteSet(s)
    BY <1>1
  <2>1. s # {} /\ s \in SUBSET S
    BY <2>0, FS_EmptySet
  <2>2. Chosen(s) \in s
    BY <2>1 DEF Chosen
  <2>3. Cardinality(s \ {Chosen(s)}) = n /\ s \ {Chosen(s)} \in SUBSET R
    <3>1. Cardinality(s \ {Chosen(s)}) = Cardinality(s) - 1
      BY <2>0, <2>2, FS_RemoveElement
    <3> QED  BY <2>0, <3>1
  <2>4. it[s \ {Chosen(s)}] = jt[s \ {Chosen(s)}]
    BY <2>3, <1>3
  <2>5. it[s] = f[Chosen(s)] + it[s \ {Chosen(s)}]
    BY <2>1 DEF SumsUp
  <2>6. jt[s] = f[Chosen(s)] + jt[s \ {Chosen(s)}]
    BY <2>1 DEF SumsUp
  <2> QED  BY <2>4, <2>5, <2>6
<1>4. Nat \subseteq K
  <2> HIDE DEF K
  <2> QED  BY <1>2, <1>3, Induction
<1>5. Cardinality(R) \in K
  BY <1>1, <1>4
<1> QED  BY <1>5

(* So a sum over a finite set is what that recursion says. *)
LEMMA SumIs ==
  ASSUME NEW S, IsFiniteSet(S), NEW f, \A x \in S : f[x] \in Int
  PROVE  \E it \in [SUBSET S -> Int] : SumsUp(it, f, S) /\ SumFunctionOnSet(f, S) = it[S]
<1> DEFINE it == CHOOSE it : SumsUp(it, f, S)
<1>1. PICK jt \in [SUBSET S -> Int] : SumsUp(jt, f, S)
  BY SumExists
<1>2. SumsUp(it, f, S)
  BY <1>1
<1>3. SumFunctionOnSet(f, S) = it[S]
  BY Zenon DEF SumFunctionOnSet, FoldFunctionOnSet, MapThenFoldSet, SumsUp, Chosen
<1>4. it[S] = jt[S]
  <2> HIDE DEF it
  <2> QED  BY <1>1, <1>2, SumUnique
<1> QED  BY <1>1, <1>3, <1>4

(* A sum of nothing. *)
LEMMA SumEmpty ==
  ASSUME NEW f PROVE SumFunctionOnSet(f, {}) = 0
<1>1. PICK it \in [SUBSET {} -> Int] : SumsUp(it, f, {}) /\ SumFunctionOnSet(f, {}) = it[{}]
  BY FS_EmptySet, SumIs
<1>2. it[{}] = 0
  BY <1>1 DEF SumsUp
<1> QED  BY <1>1, <1>2

(* An element may be taken out first, whichever it is. *)
TakesOut(it, f, S, x) == it[S] = f[x] + it[S \ {x}]

(* Any element can be taken out of it first, ... *)
LEMMA SumAnyOrder ==
  ASSUME NEW S, IsFiniteSet(S), NEW f, \A x \in S : f[x] \in Int,
         NEW it, SumsUp(it, f, S), it \in [SUBSET S -> Int],
         NEW x \in S
  PROVE  TakesOut(it, f, S, x)
<1> DEFINE K == {n \in Nat : \A s \in SUBSET S : Cardinality(s) = n => \A y \in s : it[s] = f[y] + it[s \ {y}]}
<1>1. \A s \in SUBSET S : IsFiniteSet(s) /\ Cardinality(s) \in Nat
  BY FS_Subset, FS_CardinalityType
<1>2. 0 \in K
  <2> SUFFICES ASSUME NEW s \in SUBSET S, Cardinality(s) = 0 PROVE s = {}
    OBVIOUS
  <2> QED  BY <1>1, FS_EmptySet
<1>3. ASSUME NEW n \in Nat, n \in K PROVE n + 1 \in K
  <2> SUFFICES ASSUME NEW s \in SUBSET S, Cardinality(s) = n + 1, NEW y \in s
               PROVE  it[s] = f[y] + it[s \ {y}]
    OBVIOUS
  <2> DEFINE z == Chosen(s)
  <2>1. (n + 1) - 1 = n /\ IsFiniteSet(s)
    BY <1>1
  <2>2. z \in s /\ s # {}
    BY DEF Chosen
  <2> HIDE DEF z
  <2>3. it[s] = f[z] + it[s \ {z}]
    BY <2>2 DEF SumsUp, z
  <2>4. CASE z = y
    BY <2>3, <2>4
  <2>5. CASE z # y
    <3>1. Cardinality(s \ {z}) = n
      <4>1. Cardinality(s \ {z}) = Cardinality(s) - 1
        BY <2>1, <2>2, FS_RemoveElement
      <4> QED  BY <2>1, <4>1
    <3>2. Cardinality(s \ {y}) = n
      <4>1. Cardinality(s \ {y}) = Cardinality(s) - 1
        BY <2>1, FS_RemoveElement
      <4> QED  BY <2>1, <4>1
    <3>3. it[s \ {z}] = f[y] + it[(s \ {z}) \ {y}]
      BY <1>3, <3>1, <2>5
    <3>4. it[s \ {y}] = f[z] + it[(s \ {y}) \ {z}]
      BY <1>3, <3>2, <2>2, <2>5
    <3>5. (s \ {z}) \ {y} = (s \ {y}) \ {z} /\ (s \ {y}) \ {z} \in SUBSET S /\ y \in S /\ z \in S
      BY <2>2
    <3> DEFINE u == (s \ {y}) \ {z}
    <3>6. it[u] \in Int /\ f[y] \in Int /\ f[z] \in Int
      BY <3>5
    <3>7. it[s \ {z}] = f[y] + it[u] /\ it[s \ {y}] = f[z] + it[u]
      BY <3>3, <3>4, <3>5
    <3> HIDE DEF u, K
    <3> QED  BY <2>3, <3>6, <3>7
  <2> QED  BY <2>4, <2>5
<1>4. Nat \subseteq K
  <2> HIDE DEF K
  <2> QED  BY <1>2, <1>3, Induction
<1> QED  BY <1>1, <1>4 DEF TakesOut

(* ... and any element can be added to it. *)
LEMMA SumAdd ==
  ASSUME NEW S, IsFiniteSet(S), NEW x, x \notin S, NEW f, \A y \in S \cup {x} : f[y] \in Int
  PROVE  SumFunctionOnSet(f, S \cup {x}) = f[x] + SumFunctionOnSet(f, S)
<1> DEFINE W == S \cup {x}
<1>1. IsFiniteSet(W) /\ S \subseteq W /\ W \ {x} = S /\ x \in W
  BY FS_AddElement
<1>2. PICK it \in [SUBSET W -> Int] : SumsUp(it, f, W) /\ SumFunctionOnSet(f, W) = it[W]
  <2> HIDE DEF W
  <2> QED  BY <1>1, SumIs DEF W
<1>3. PICK jt \in [SUBSET S -> Int] : SumsUp(jt, f, S) /\ SumFunctionOnSet(f, S) = jt[S]
  BY SumIs
<1>4. it[W] = f[x] + it[W \ {x}]
  <2>1. \A y \in W : f[y] \in Int
    OBVIOUS
  <2> HIDE DEF W
  <2>2. it \in [SUBSET W -> Int] /\ SumsUp(it, f, W)
    BY <1>2
  <2>3. IsFiniteSet(W) /\ x \in W
    BY <1>1
  <2>4. TakesOut(it, f, W, x)
    BY <2>3, <2>2, <2>1, SumAnyOrder
  <2> QED  BY <2>4 DEF TakesOut
<1>5. it[S] = jt[S]
  <2> HIDE DEF W
  <2> QED  BY <1>1, <1>2, <1>3, SumUnique DEF W
<1> QED  BY <1>1, <1>2, <1>3, <1>4, <1>5

(* The type of a sum. *)
LEMMA SumInt ==
  ASSUME NEW S, IsFiniteSet(S), NEW f, \A x \in S : f[x] \in Int
  PROVE  SumFunctionOnSet(f, S) \in Int
<1>1. PICK it \in [SUBSET S -> Int] : SumsUp(it, f, S) /\ SumFunctionOnSet(f, S) = it[S]
  BY SumIs
<1> QED  BY <1>1

(* Sums of the same terms are the same. *)
LEMMA SumSame ==
  ASSUME NEW S, IsFiniteSet(S), NEW f, NEW g, \A x \in S : f[x] \in Int /\ g[x] = f[x]
  PROVE  SumFunctionOnSet(g, S) = SumFunctionOnSet(f, S)
<1> DEFINE P == {s \in SUBSET S : SumFunctionOnSet(g, s) = SumFunctionOnSet(f, s)}
<1>1. {} \in P
  BY SumEmpty
<1>2. ASSUME NEW s \in SUBSET S, NEW x \in S \ s, s \in P PROVE s \cup {x} \in P
  <2>1. IsFiniteSet(s)
    BY FS_Subset
  <2>2. (\A y \in s \cup {x} : f[y] \in Int) /\ (\A y \in s \cup {x} : g[y] \in Int) /\ g[x] = f[x]
    OBVIOUS
  <2>3. SumFunctionOnSet(g, s \cup {x}) = g[x] + SumFunctionOnSet(g, s)
    BY <2>1, <2>2, SumAdd
  <2>4. SumFunctionOnSet(f, s \cup {x}) = f[x] + SumFunctionOnSet(f, s)
    BY <2>1, <2>2, SumAdd
  <2> QED  BY <1>2, <2>2, <2>3, <2>4
<1>3. S \in P
  <2> HIDE DEF P
  <2> QED  BY <1>1, <1>2, SetInduction
<1> QED  BY <1>3

(* What adds up to what. *)
LEMMA SumJoin ==
  ASSUME NEW S, IsFiniteSet(S), NEW R, IsFiniteSet(R), S \cap R = {},
         NEW f, \A x \in S \cup R : f[x] \in Int
  PROVE  SumFunctionOnSet(f, S \cup R) = SumFunctionOnSet(f, S) + SumFunctionOnSet(f, R)
<1> DEFINE P == {s \in SUBSET R : SumFunctionOnSet(f, S \cup s) = SumFunctionOnSet(f, S) + SumFunctionOnSet(f, s)}
<1>1. {} \in P
  <2>1. S \cup {} = S
    OBVIOUS
  <2>2. SumFunctionOnSet(f, S) \in Int
    BY SumInt
  <2> QED  BY <2>1, <2>2, SumEmpty
<1>2. ASSUME NEW s \in SUBSET R, NEW x \in R \ s, s \in P PROVE s \cup {x} \in P
  <2>1. IsFiniteSet(s)
    BY FS_Subset
  <2> DEFINE W == S \cup s
  <2>2. IsFiniteSet(W) /\ x \notin W /\ W \cup {x} = S \cup (s \cup {x})
    BY <2>1, FS_Union
  <2>3. (\A y \in W \cup {x} : f[y] \in Int) /\ (\A y \in s \cup {x} : f[y] \in Int) /\ \A y \in S : f[y] \in Int
    OBVIOUS
  <2>4. SumFunctionOnSet(f, S) \in Int
    BY SumInt
  <2>5. SumFunctionOnSet(f, s) \in Int
    BY <2>1, <2>3, SumInt
  <2>6. SumFunctionOnSet(f, s \cup {x}) = f[x] + SumFunctionOnSet(f, s)
    BY <2>1, <2>3, SumAdd
  <2>7. SumFunctionOnSet(f, W) = SumFunctionOnSet(f, S) + SumFunctionOnSet(f, s)
    BY <1>2
  <2>8. SumFunctionOnSet(f, W \cup {x}) = f[x] + SumFunctionOnSet(f, W)
    <3> HIDE DEF W
    <3> QED  BY <2>2, <2>3, SumAdd
  <2>9. SumFunctionOnSet(f, S \cup (s \cup {x})) = SumFunctionOnSet(f, S) + SumFunctionOnSet(f, s \cup {x})
    <3>1. f[x] \in Int
      OBVIOUS
    <3> DEFINE a == SumFunctionOnSet(f, S)
               b == SumFunctionOnSet(f, s)
               c == f[x]
    <3>2. a \in Int /\ b \in Int /\ c \in Int
      BY <2>4, <2>5, <3>1
    <3>3. SumFunctionOnSet(f, S \cup (s \cup {x})) = c + (a + b)
      <4> HIDE DEF W, P
      <4> QED  BY <2>2, <2>7, <2>8
    <3>4. c + (a + b) = a + (c + b)
      <4> HIDE DEF a, b, c
      <4> QED  BY <3>2
    <3> QED  BY <2>6, <3>3, <3>4
  <2> QED  BY <2>9
<1>3. R \in P
  <2> HIDE DEF P
  <2> QED  BY <1>1, <1>2, SetInduction
<1> QED  BY <1>3

(* A sum of numbers that are not negative is 0 only if they all are. *)
AllZero(f, S) == \A x \in S : f[x] = 0
ZeroRight(f, S) ==
  SumFunctionOnSet(f, S) \in Nat /\ (SumFunctionOnSet(f, S) = 0 <=> AllZero(f, S))

LEMMA SumZero ==
  ASSUME NEW S, IsFiniteSet(S), NEW f, \A x \in S : f[x] \in Nat
  PROVE  ZeroRight(f, S)
<1> DEFINE P == {s \in SUBSET S : ZeroRight(f, s)}
<1>1. {} \in P
  BY SumEmpty DEF AllZero, ZeroRight
<1>2. ASSUME NEW s \in SUBSET S, NEW x \in S \ s, s \in P PROVE s \cup {x} \in P
  <2>1. IsFiniteSet(s) /\ ZeroRight(f, s)
    BY <1>2, FS_Subset
  <2>2. (\A y \in s \cup {x} : f[y] \in Int) /\ f[x] \in Nat
    OBVIOUS
  <2>3. SumFunctionOnSet(f, s \cup {x}) = f[x] + SumFunctionOnSet(f, s)
    BY <2>1, <2>2, SumAdd
  <2>4. SumFunctionOnSet(f, s) \in Nat
    BY <2>1 DEF ZeroRight
  <2>5. SumFunctionOnSet(f, s \cup {x}) \in Nat
    BY <2>2, <2>3, <2>4
  <2>6. SumFunctionOnSet(f, s \cup {x}) = 0 <=> f[x] = 0 /\ SumFunctionOnSet(f, s) = 0
    BY <2>2, <2>3, <2>4
  <2>7. AllZero(f, s \cup {x}) <=> f[x] = 0 /\ AllZero(f, s)
    BY DEF AllZero
  <2>8. ZeroRight(f, s \cup {x})
    BY <2>1, <2>5, <2>6, <2>7 DEF ZeroRight
  <2> QED  BY <2>8
<1>3. S \in P
  <2> HIDE DEF P
  <2> QED  BY <1>1, <1>2, SetInduction
<1> QED  BY <1>3

(* A sum of ones counts. *)
LEMMA SumOnes ==
  ASSUME NEW S, IsFiniteSet(S), NEW f, \A x \in S : f[x] = 1
  PROVE  SumFunctionOnSet(f, S) = Cardinality(S)
<1> DEFINE P == {s \in SUBSET S : SumFunctionOnSet(f, s) = Cardinality(s)}
<1>1. {} \in P
  BY SumEmpty, FS_EmptySet
<1>2. ASSUME NEW s \in SUBSET S, NEW x \in S \ s, s \in P PROVE s \cup {x} \in P
  <2>1. IsFiniteSet(s)
    BY FS_Subset
  <2>2. (\A y \in s \cup {x} : f[y] \in Int) /\ f[x] = 1 /\ x \notin s
    OBVIOUS
  <2>3. SumFunctionOnSet(f, s \cup {x}) = f[x] + SumFunctionOnSet(f, s)
    BY <2>1, <2>2, SumAdd
  <2>4. Cardinality(s \cup {x}) = Cardinality(s) + 1 /\ Cardinality(s) \in Nat
    BY <2>1, <2>2, FS_AddElement, FS_CardinalityType
  <2>5. SumFunctionOnSet(f, s) = Cardinality(s)
    BY <1>2
  <2>6. SumFunctionOnSet(f, s \cup {x}) = Cardinality(s \cup {x})
    BY <2>2, <2>3, <2>4, <2>5
  <2> QED  BY <2>6
<1>3. S \in P
  <2> HIDE DEF P
  <2> QED  BY <1>1, <1>2, SetInduction
<1> QED  BY <1>3

(* A sum by groups. *)
Group(S, key, k) == {x \in S : key[x] = k}
IntOn(f, S) == \A x \in S : f[x] \in Int
GroupsOf(S, key, K) == \A x \in S : key[x] \in K
SumsOf(g, K, f, S, key) == \A k \in K : g[k] = SumFunctionOnSet(f, Group(S, key, k))

(* A sum is the sum of the sums of its groups. *)
LEMMA SumByGroups ==
  ASSUME NEW S, IsFiniteSet(S), NEW f, IntOn(f, S),
         NEW K, IsFiniteSet(K), NEW key, GroupsOf(S, key, K), NEW g, SumsOf(g, K, f, S, key)
  PROVE  SumFunctionOnSet(g, K) = SumFunctionOnSet(f, S)
<1> DEFINE In(s) == {x \in S : key[x] \in s}
           P == {s \in SUBSET K : SumFunctionOnSet(g, s) = SumFunctionOnSet(f, In(s))}
<1>1. {} \in P
  <2>1. In({}) = {}
    OBVIOUS
  <2>2. SumFunctionOnSet(g, {}) = SumFunctionOnSet(f, In({}))
    BY <2>1, SumEmpty
  <2> HIDE DEF In
  <2> QED  BY <2>2
<1>2. \A k : IsFiniteSet(Group(S, key, k)) /\ \A x \in Group(S, key, k) : f[x] \in Int
  <2> SUFFICES ASSUME NEW k PROVE IsFiniteSet(Group(S, key, k)) /\ \A x \in Group(S, key, k) : f[x] \in Int
    OBVIOUS
  <2>1. Group(S, key, k) \in SUBSET S
    BY DEF Group
  <2> QED  BY <2>1, FS_Subset DEF IntOn
<1>3. \A k \in K : g[k] \in Int
  <2> SUFFICES ASSUME NEW k \in K PROVE SumFunctionOnSet(f, Group(S, key, k)) \in Int
    BY DEF SumsOf
  <2> DEFINE G == Group(S, key, k)
  <2>1. IsFiniteSet(G) /\ \A x \in G : f[x] \in Int
    BY <1>2
  <2> HIDE DEF G
  <2>2. SumFunctionOnSet(f, G) \in Int
    BY <2>1, SumInt
  <2> QED  BY <2>2 DEF G
<1>4. ASSUME NEW s \in SUBSET K, NEW k \in K \ s, s \in P PROVE s \cup {k} \in P
  <2> DEFINE A == In(s)
             B == Group(S, key, k)
  <2>1. IsFiniteSet(s) /\ k \notin s
    BY FS_Subset
  <2>2. A \cap B = {} /\ A \cup B = In(s \cup {k}) /\ A \in SUBSET S
    BY <2>1 DEF Group
  <2>3. IsFiniteSet(A) /\ IsFiniteSet(B) /\ \A x \in A \cup B : f[x] \in Int
    <3>1. IsFiniteSet(A)
      <4> HIDE DEF A, In
      <4> QED  BY <2>2, FS_Subset
    <3> QED  BY <1>2, <3>1 DEF IntOn
  <2>4. SumFunctionOnSet(g, s) = SumFunctionOnSet(f, A)
    BY <1>4
  <2>5. g[k] = SumFunctionOnSet(f, B) /\ \A y \in s \cup {k} : g[y] \in Int
    BY <1>3 DEF SumsOf
  <2>6. SumFunctionOnSet(g, s \cup {k}) = g[k] + SumFunctionOnSet(g, s)
    <3> HIDE DEF A, B, P, In
    <3> QED  BY <2>1, <2>5, SumAdd
  <2> HIDE DEF A, B
  <2>7. SumFunctionOnSet(f, A \cup B) = SumFunctionOnSet(f, A) + SumFunctionOnSet(f, B)
    <3> HIDE DEF P, In
    <3> QED  BY <2>2, <2>3, SumJoin
  <2>8. SumFunctionOnSet(f, A) \in Int /\ SumFunctionOnSet(f, B) \in Int
    <3> HIDE DEF P, In
    <3> QED  BY <2>3, SumInt
  <2> HIDE DEF In
  <2>9. SumFunctionOnSet(g, s \cup {k}) = SumFunctionOnSet(f, In(s \cup {k}))
    <3> DEFINE a == SumFunctionOnSet(f, A)
               b == SumFunctionOnSet(f, B)
    <3>1. a + b = b + a
      <4>1. a \in Int /\ b \in Int
        BY <2>8
      <4> HIDE DEF a, b
      <4> QED  BY <4>1
    <3>2. SumFunctionOnSet(g, s \cup {k}) = b + a
      BY <2>4, <2>5, <2>6
    <3>3. SumFunctionOnSet(f, In(s \cup {k})) = a + b
      BY <2>2, <2>7
    <3> HIDE DEF a, b
    <3> QED  BY <3>1, <3>2, <3>3
  <2> QED  BY <2>9
<1>5. K \in P
  <2> HIDE DEF P
  <2> QED  BY <1>1, <1>4, SetInduction
<1>6. In(K) = S
  BY DEF GroupsOf
<1> HIDE DEF In
<1> QED  BY <1>5, <1>6

(* A sum over the images of different elements. *)
ImageOf(e, S) == {e[x] : x \in S}
TellsApart(e, S) == \A x, y \in S : e[x] = e[y] => x = y
Carries(e, S, f, g) == \A x \in S : g[e[x]] = f[x]

(* The terms of a sum may be given other names. *)
LEMMA SumOverImages ==
  ASSUME NEW S, IsFiniteSet(S), NEW e, TellsApart(e, S),
         NEW f, IntOn(f, S), NEW g, Carries(e, S, f, g)
  PROVE  IsFiniteSet(ImageOf(e, S)) /\ SumFunctionOnSet(g, ImageOf(e, S)) = SumFunctionOnSet(f, S)
<1> DEFINE Im(s) == {e[x] : x \in s}
           P == {s \in SUBSET S : IsFiniteSet(Im(s)) /\ SumFunctionOnSet(g, Im(s)) = SumFunctionOnSet(f, s)}
<1>1. {} \in P
  <2>1. Im({}) = {}
    OBVIOUS
  <2>2. IsFiniteSet(Im({})) /\ SumFunctionOnSet(g, Im({})) = SumFunctionOnSet(f, {})
    BY <2>1, SumEmpty, FS_EmptySet
  <2> HIDE DEF Im
  <2> QED  BY <2>2
<1>2. ASSUME NEW s \in SUBSET S, NEW x \in S \ s, s \in P PROVE s \cup {x} \in P
  <2> DEFINE A == Im(s)
             y == e[x]
  <2>1. IsFiniteSet(s) /\ IsFiniteSet(A) /\ SumFunctionOnSet(g, A) = SumFunctionOnSet(f, s)
    BY <1>2, FS_Subset
  <2>2. y \notin A /\ A \cup {y} = Im(s \cup {x})
    BY DEF TellsApart
  <2>3. /\ \A z \in A \cup {y} : g[z] \in Int
        /\ \A z \in s \cup {x} : f[z] \in Int
        /\ g[y] = f[x] /\ x \notin s
    <3>1. (\A z \in s \cup {x} : f[z] \in Int) /\ g[y] = f[x] /\ x \notin s
      BY DEF Carries, IntOn
    <3>2. \A z \in A \cup {y} : \E w \in s \cup {x} : z = e[w]
      OBVIOUS
    <3>3. \A z \in A \cup {y} : g[z] \in Int
      <4> HIDE DEF A, y
      <4> QED  BY <3>1, <3>2 DEF Carries
    <3> QED  BY <3>1, <3>3
  <2> HIDE DEF A, y
  <2>4. SumFunctionOnSet(f, s \cup {x}) = f[x] + SumFunctionOnSet(f, s)
    BY <2>1, <2>3, SumAdd
  <2>5. SumFunctionOnSet(g, A \cup {y}) = g[y] + SumFunctionOnSet(g, A)
    BY <2>1, <2>2, <2>3, SumAdd
  <2>6. IsFiniteSet(A \cup {y})
    BY <2>1, FS_AddElement
  <2> HIDE DEF Im
  <2>7. IsFiniteSet(Im(s \cup {x})) /\ SumFunctionOnSet(g, Im(s \cup {x})) = SumFunctionOnSet(f, s \cup {x})
    BY <2>1, <2>2, <2>3, <2>4, <2>5, <2>6
  <2> QED  BY <2>7
<1>3. S \in P
  <2> HIDE DEF P
  <2> QED  BY <1>1, <1>2, SetInduction
<1> QED  BY <1>3 DEF ImageOf

(* A finite set has finitely many images. *)
LEMMA FiniteImage ==
  ASSUME NEW S, IsFiniteSet(S), NEW e
  PROVE  IsFiniteSet(ImageOf(e, S))
<1> DEFINE Im(s) == {e[x] : x \in s}
           P == {s \in SUBSET S : IsFiniteSet(Im(s))}
<1>1. {} \in P
  <2>1. Im({}) = {}
    OBVIOUS
  <2>2. IsFiniteSet(Im({}))
    BY <2>1, FS_EmptySet
  <2> HIDE DEF Im
  <2> QED  BY <2>2
<1>2. ASSUME NEW s \in SUBSET S, NEW x \in S \ s, s \in P PROVE s \cup {x} \in P
  <2> DEFINE A == Im(s)
             y == e[x]
  <2>1. IsFiniteSet(A)
    BY <1>2
  <2>3. Im(s \cup {x}) = A \cup {y}
    OBVIOUS
  <2> HIDE DEF A, y
  <2>4. IsFiniteSet(A \cup {y})
    BY <2>1, FS_AddElement
  <2> HIDE DEF Im
  <2>2. IsFiniteSet(Im(s \cup {x}))
    BY <2>3, <2>4
  <2> QED  BY <2>2
<1>3. S \in P
  <2> HIDE DEF P
  <2> QED  BY <1>1, <1>2, SetInduction
<1> QED  BY <1>3 DEF ImageOf

(* A set of numbers that has a bound and is not empty has a largest one. *)
LEMMA MaxExists ==
  ASSUME NEW S, S \subseteq Nat, S # {}, NEW n \in Nat, \A x \in S : x <= n
  PROVE  Max(S) \in S /\ \A x \in S : x <= Max(S)
<1> DEFINE T == {m \in Nat : (\E x \in S : x + m >= n) => \E y \in S : \A x \in S : x <= y}
<1>1. 0 \in T
  OBVIOUS
<1>2. ASSUME NEW m \in Nat, m \in T PROVE m + 1 \in T
  <2> SUFFICES ASSUME NEW x \in S, x + (m + 1) >= n PROVE \E y \in S : \A z \in S : z <= y
    OBVIOUS
  <2>1. CASE \E z \in S : z > x
    <3>1. PICK z \in S : z > x
      BY <2>1
    <3>2. z + m >= n
      BY <3>1
    <3> QED  BY <1>2, <3>2
  <2>2. CASE ~\E z \in S : z > x
    <3>1. \A z \in S : z <= x
      BY <2>2
    <3> QED  BY <3>1
  <2> QED  BY <2>1, <2>2
<1>3. Nat \subseteq T
  <2> HIDE DEF T
  <2> QED  BY <1>1, <1>2, Induction
<1>4. n \in T
  BY <1>3
<1>5. \E x \in S : x + n >= n
  <2>1. PICK w \in S : TRUE
    OBVIOUS
  <2>2. w \in Nat /\ w + n >= n
    OBVIOUS
  <2> QED  BY <2>2
<1>6. PICK y \in S : \A x \in S : x <= y
  BY <1>4, <1>5
<1>7. \A x \in S : y >= x
  BY <1>6
<1> QED  BY <1>7 DEF Max

-----------------------------------------------------------------------------
(* InvoiceText: the line. *)

(* A line, and a direction for each of its characters. *)
Directed == line \in Seq(Characters) /\ dir \in [1..Len(line) -> {"L", "R"}]

(* The places from one to another have one direction. *)
Even(i, j) == \A l \in i..j : dir[l] = dir[i]

(* r is as long as its direction lasts. *)
IsRun(r) ==
  /\ r = [from |-> r.from, to |-> r.to, dir |-> dir[r.from]]
  /\ r.from \in 1..Len(line) /\ r.to \in r.from..Len(line)
  /\ \A l \in r.from..r.to : dir[l] = r.dir
  /\ r.from = 1 \/ dir[r.from] # dir[r.from - 1]
  /\ r.to = Len(line) \/ dir[r.to + 1] # r.dir

LEMMA DirLength ==
  Directed => /\ Len(line) \in Nat /\ DOMAIN line = 1..Len(line)
              /\ DOMAIN dir = 1..Len(line) /\ Len(dir) = Len(line)
<1> SUFFICES ASSUME Directed
             PROVE  /\ Len(line) \in Nat /\ DOMAIN line = 1..Len(line)
                    /\ DOMAIN dir = 1..Len(line) /\ Len(dir) = Len(line)
  OBVIOUS
<1>1. line \in Seq(Characters) /\ dir \in [1..Len(line) -> {"L", "R"}]
  BY DEF Directed
<1>2. Len(line) \in Nat /\ DOMAIN line = 1..Len(line)
  BY <1>1
<1>3. dir \in Seq({"L", "R"}) /\ DOMAIN dir = 1..Len(line)
  BY <1>1, <1>2
<1>4. Len(dir) \in Nat /\ DOMAIN dir = 1..Len(dir)
  BY <1>3
<1>5. Len(dir) = Len(line)
  BY <1>2, <1>3, <1>4
<1> QED  BY <1>2, <1>3, <1>5

(* Where a run that begins at i ends. *)
LEMMA EndIs ==
  ASSUME Directed, NEW i \in 1..Len(line)
  PROVE  /\ EndOf(i) \in i..Len(line) /\ Even(i, EndOf(i))
         /\ EndOf(i) = Len(line) \/ dir[EndOf(i) + 1] # dir[i]
<1> DEFINE n == Len(line)
           S == {j \in i..n : Even(i, j)}
           j0 == Max(S)
<1>1. n \in Nat /\ Len(dir) = n
  BY DirLength
<1>2. i \in S
  BY <1>1 DEF Even
<1>3. j0 \in S /\ \A x \in S : x <= j0
  <2>1. S \subseteq Nat /\ S # {} /\ \A x \in S : x <= n
    <3>1. \A x \in S : x \in i..n
      OBVIOUS
    <3>2. \A x \in i..n : x \in Nat /\ x <= n
      BY <1>1
    <3> HIDE DEF S, n
    <3> QED  BY <1>2, <3>1, <3>2
  <2> HIDE DEF S, n
  <2> QED  BY <1>1, <2>1, MaxExists
<1>4. j0 \in i..n /\ Even(i, j0) /\ \A x \in i..n : Even(i, x) => x <= j0
  BY <1>3
<1> HIDE DEF S, j0
<1>5. \A k \in i..n : k <= j0 <=> \A l \in i..k : dir[l] = dir[i]
  <2>1. ASSUME NEW k \in i..n, k <= j0 PROVE \A l \in i..k : dir[l] = dir[i]
    BY <1>1, <1>4, <2>1 DEF Even
  <2>2. ASSUME NEW k \in i..n, \A l \in i..k : dir[l] = dir[i] PROVE k <= j0
    BY <1>4, <2>2 DEF Even
  <2> QED  BY <2>1, <2>2
<1>6. \E j \in i..n : \A k \in i..n : k <= j <=> \A l \in i..k : dir[l] = dir[i]
  BY <1>4, <1>5
<1> DEFINE e == EndOf(i)
<1>7. e \in i..n /\ \A k \in i..n : k <= e <=> \A l \in i..k : dir[l] = dir[i]
  BY <1>1, <1>6 DEF EndOf
<1> HIDE DEF e
<1>8. Even(i, e)
  BY <1>1, <1>7 DEF Even
<1>9. e = n \/ dir[e + 1] # dir[i]
  <2> SUFFICES ASSUME e # n, dir[e + 1] = dir[i] PROVE FALSE
    OBVIOUS
  <2>1. e + 1 \in i..n /\ ~(e + 1 <= e)
    BY <1>1, <1>7
  <2>2. \A l \in i..(e + 1) : dir[l] = dir[i]
    BY <1>1, <1>7, <1>8 DEF Even
  <2> QED  BY <1>7, <2>1, <2>2
<1> QED  BY <1>7, <1>8, <1>9 DEF e

LEMMA RunIs == Directed => \A r \in TextRuns : IsRun(r)
<1> SUFFICES ASSUME Directed, NEW i \in Starts PROVE IsRun(Run(i))
  BY DEF TextRuns
<1>1. i \in 1..Len(line) /\ (i = 1 \/ dir[i] # dir[i - 1])
  BY DirLength DEF Starts
<1>2. /\ EndOf(i) \in i..Len(line) /\ Even(i, EndOf(i))
      /\ EndOf(i) = Len(line) \/ dir[EndOf(i) + 1] # dir[i]
  BY <1>1, EndIs
<1> DEFINE e == EndOf(i)
           r == Run(i)
<1>3. r = [from |-> i, to |-> e, dir |-> dir[i]]
  BY DEF Run
<1> HIDE DEF e, r
<1>4. r.from = i /\ r.to = e /\ r.dir = dir[i] /\ r = [from |-> r.from, to |-> r.to, dir |-> dir[r.from]]
  BY <1>3
<1>5. IsRun(r)
  BY <1>1, <1>2, <1>4 DEF IsRun, Even, e
<1> QED  BY <1>5 DEF r

(* Every place is in a run, ... *)
LEMMA RunOf == Directed => \A i \in 1..Len(line) : \E r \in TextRuns : i \in r.from..r.to
<1> SUFFICES ASSUME Directed, NEW i \in 1..Len(line) PROVE \E r \in TextRuns : i \in r.from..r.to
  OBVIOUS
<1> DEFINE n == Len(line)
           S == {d \in 0..i : i - d >= 1 /\ Even(i - d, i)}
           m == i - Max(S)
<1>1. n \in Nat /\ DOMAIN dir = 1..n /\ i \in 1..n
  BY DirLength
<1>2. 0 \in S
  BY <1>1 DEF Even
<1>3. Max(S) \in S /\ \A x \in S : x <= Max(S)
  <2>1. \A x \in S : x \in 0..i
    OBVIOUS
  <2>2. i \in Nat
    BY <1>1
  <2>3. \A x \in 0..i : x \in Nat /\ x <= i
    BY <2>2
  <2>4. S \subseteq Nat /\ S # {} /\ \A x \in S : x <= i
    <3> HIDE DEF S
    <3> QED  BY <1>2, <2>1, <2>3
  <2> HIDE DEF S
  <2> QED  BY <2>2, <2>4, MaxExists
<1>4. m \in 1..i /\ Even(m, i) /\ \A k \in 1..i : Even(k, i) => m <= k
  <2> DEFINE x == Max(S)
  <2>1. x \in 0..i /\ i - x >= 1 /\ Even(i - x, i)
    BY <1>3
  <2>2. ASSUME NEW k \in 1..i, Even(k, i) PROVE i - x <= k
    <3>1. i - k \in 0..i /\ i - (i - k) = k
      BY <1>1
    <3>2. i - k \in S
      BY <1>1, <2>2, <3>1
    <3>3. i - k <= x
      BY <1>3, <3>2
    <3> HIDE DEF x
    <3> QED  BY <1>1, <2>1, <3>3
  <2>3. m = i - x
    OBVIOUS
  <2> HIDE DEF x, m
  <2> QED  BY <1>1, <2>1, <2>2, <2>3
<1> HIDE DEF m
<1>5. m \in Starts
  <2> SUFFICES ASSUME m # 1, dir[m] = dir[m - 1] PROVE FALSE
    BY <1>1, <1>4 DEF Starts
  <2>1. m - 1 \in 1..i /\ ~(m <= m - 1)
    BY <1>1, <1>4
  <2>2. \A l \in (m - 1)..i : l = m - 1 \/ l \in m..i
    BY <1>1, <1>4
  <2>3. Even(m - 1, i)
    BY <1>4, <2>2 DEF Even
  <2> QED  BY <1>4, <2>1, <2>3
<1>6. /\ EndOf(m) \in m..n /\ Even(m, EndOf(m))
      /\ EndOf(m) = n \/ dir[EndOf(m) + 1] # dir[m]
  <2>1. m \in 1..n
    BY <1>1, <1>4
  <2> QED  BY <2>1, EndIs
<1>7. i <= EndOf(m)
  <2> SUFFICES ASSUME EndOf(m) < i PROVE FALSE
    BY <1>1, <1>6
  <2>1. EndOf(m) # n /\ EndOf(m) + 1 \in m..i
    BY <1>1, <1>4, <1>6
  <2> QED  BY <1>4, <1>6, <2>1 DEF Even
<1>8. Run(m) \in TextRuns
  BY <1>5 DEF TextRuns
<1>9. i \in Run(m).from..Run(m).to
  BY <1>1, <1>4, <1>6, <1>7 DEF Run
<1> QED  BY <1>8, <1>9

(* ... in one only, and the runs follow each other. *)
LEMMA Ordered ==
  ASSUME Directed, NEW q \in TextRuns, NEW r \in TextRuns
  PROVE  (q.from < r.from => q.to < r.from) /\ (q.from = r.from => q = r)
<1>1. Len(line) \in Nat /\ IsRun(q) /\ IsRun(r)
  BY DirLength, RunIs
<1>2. ASSUME q.from < r.from PROVE q.to < r.from
  <2> SUFFICES ASSUME r.from <= q.to PROVE FALSE
    BY <1>1 DEF IsRun
  <2>1. r.from \in q.from..q.to /\ r.from - 1 \in q.from..q.to /\ r.from # 1
    BY <1>1, <1>2 DEF IsRun
  <2>2. dir[r.from] = q.dir /\ dir[r.from - 1] = q.dir
    BY <1>1, <2>1 DEF IsRun
  <2> QED  BY <1>1, <2>1, <2>2 DEF IsRun
<1>3. ASSUME q.from = r.from PROVE q = r
  <2>1. q \in {Run(j) : j \in Starts} /\ r \in {Run(j) : j \in Starts}
    BY DEF TextRuns
  <2>2. PICK j \in Starts : q = Run(j)
    BY <2>1
  <2>3. PICK k \in Starts : r = Run(k)
    BY <2>1
  <2>4. j = k
    BY <1>3, <2>2, <2>3 DEF Run
  <2> QED  BY <2>2, <2>3, <2>4
<1> QED  BY <1>2, <1>3

LEMMA OneRun ==
  ASSUME Directed, NEW q \in TextRuns, NEW r \in TextRuns, NEW i \in 1..Len(line),
         i \in q.from..q.to, i \in r.from..r.to
  PROVE  q = r
<1>1. Len(line) \in Nat /\ IsRun(q) /\ IsRun(r)
  BY DirLength, RunIs
<1>2. ~(q.from < r.from) /\ ~(r.from < q.from)
  <2>1. (q.from < r.from => q.to < r.from) /\ (r.from < q.from => r.to < q.from)
    BY Ordered
  <2> QED  BY <1>1, <2>1 DEF IsRun
<1>3. q.from = r.from
  BY <1>1, <1>2 DEF IsRun
<1> QED  BY <1>3, Ordered

(* What is drawn before r is what stands after it in the text. *)
LEMMA CursorIs == Directed => \A r \in TextRuns : Cursor(r) = Len(line) - r.to
<1> SUFFICES ASSUME Directed, NEW r \in TextRuns PROVE Cursor(r) = Len(line) - r.to
  OBVIOUS
<1> DEFINE n == Len(line)
           U == UNION {q.from..q.to : q \in {p \in TextRuns : Leads(p, r)}}
<1>1. n \in Nat /\ r.from \in 1..n /\ r.to \in r.from..n
  BY DirLength, RunIs DEF IsRun
<1>2. U \subseteq (r.to + 1)..n
  <2> SUFFICES ASSUME NEW q \in TextRuns, Leads(q, r), NEW i \in q.from..q.to PROVE i \in (r.to + 1)..n
    OBVIOUS
  <2>1. q.from \in 1..n /\ q.to \in q.from..n
    BY RunIs DEF IsRun
  <2>2. r.from < q.from
    BY <1>1, <2>1 DEF Leads
  <2>3. r.to < q.from
    BY <2>2, Ordered
  <2> QED  BY <1>1, <2>1, <2>3
<1>3. (r.to + 1)..n \subseteq U
  <2> SUFFICES ASSUME NEW i \in (r.to + 1)..n PROVE \E q \in TextRuns : Leads(q, r) /\ i \in q.from..q.to
    OBVIOUS
  <2>1. i \in 1..n /\ i > r.to
    BY <1>1
  <2>2. PICK q \in TextRuns : i \in q.from..q.to
    BY <2>1, RunOf
  <2>3. q.from \in 1..n /\ q.to \in q.from..n
    BY RunIs DEF IsRun
  <2>4. (q.from < r.from => q.to < r.from) /\ (q.from = r.from => q = r)
    BY Ordered
  <2>5. ~(q.from < r.from) /\ q.from # r.from
    BY <1>1, <2>1, <2>2, <2>3, <2>4
  <2>6. Leads(q, r)
    BY <1>1, <2>3, <2>5 DEF Leads
  <2> QED  BY <2>2, <2>6
<1>4. U = (r.to + 1)..n
  BY <1>2, <1>3
<1>5. r.to + 1 \in Int /\ n \in Int
  BY <1>1
<1> DEFINE b == r.to + 1
<1>6. Cardinality(b..n) = IF b > n THEN 0 ELSE n - b + 1
  <2>1. b \in Int
    BY <1>5
  <2> HIDE DEF b, n
  <2> QED  BY <1>5, <2>1, FS_Interval
<1>7. Cardinality(b..n) = n - r.to
  BY <1>1, <1>6
<1>8. Cursor(r) = Cardinality(U)
  BY DEF Cursor
<1> QED  BY <1>4, <1>7, <1>8

(* What is drawn n + 1 - i characters from the left, i in the run r. *)
Turned(r, i) == IF HasLetters(line, r) THEN i ELSE r.from + r.to - i

LEMMA ShownIs ==
  ASSUME Directed, NEW r \in TextRuns, NEW i \in r.from..r.to
  PROVE  Shown(Len(line) + 1 - i) = Turned(r, i)
<1> DEFINE n == Len(line)
           c == n + 1 - i
<1>1. n \in Nat /\ r.from \in 1..n /\ r.to \in r.from..n /\ i \in 1..n
  BY DirLength, RunIs DEF IsRun
<1>2. \A q \in TextRuns : (c \in Cursor(q) + 1..Cursor(q) + q.to - q.from + 1) <=> i \in q.from..q.to
  <2> SUFFICES ASSUME NEW q \in TextRuns
               PROVE  (c \in Cursor(q) + 1..Cursor(q) + q.to - q.from + 1) <=> i \in q.from..q.to
    OBVIOUS
  <2>1. q.from \in 1..n /\ q.to \in q.from..n
    BY RunIs DEF IsRun
  <2>2. Cursor(q) = n - q.to
    BY CursorIs
  <2>3. (c \in (n - q.to) + 1..(n - q.to) + q.to - q.from + 1) <=> i \in q.from..q.to
    BY <1>1, <2>1
  <2> QED  BY <2>2, <2>3
<1>3. \A q \in TextRuns : i \in q.from..q.to => q = r
  BY <1>1, OneRun
<1> DEFINE s == CHOOSE q \in TextRuns : c \in Cursor(q) + 1..Cursor(q) + q.to - q.from + 1
<1>4. s = r
  <2>1. \E q \in TextRuns : c \in Cursor(q) + 1..Cursor(q) + q.to - q.from + 1
    BY <1>2
  <2>2. s \in TextRuns /\ c \in Cursor(s) + 1..Cursor(s) + s.to - s.from + 1
    BY <2>1
  <2> HIDE DEF s, c
  <2> QED  BY <1>2, <1>3, <2>2
<1>5. Shown(c) = Drawn(line, s, c - Cursor(s))
  BY DEF Shown
<1>6. Shown(c) = Drawn(line, r, c - (n - r.to))
  <2> HIDE DEF s, c
  <2> QED  BY <1>4, <1>5, CursorIs
<1>7. Drawn(line, r, c - (n - r.to)) = Turned(r, i)
  BY <1>1 DEF Drawn, Turned
<1> QED  BY <1>6, <1>7

LEMMA TurnedIs ==
  ASSUME Directed, NEW r \in TextRuns, NEW i \in r.from..r.to
  PROVE  /\ i \in 1..Len(line) /\ Len(line) \in Nat
         /\ Turned(r, i) \in r.from..r.to /\ Turned(r, i) \in 1..Len(line)
         /\ Turned(r, Turned(r, i)) = i
<1>1. Len(line) \in Nat /\ r.from \in 1..Len(line) /\ r.to \in r.from..Len(line)
  BY DirLength, RunIs DEF IsRun
<1> QED  BY <1>1 DEF Turned

LEMMA PlaceIs ==
  ASSUME Directed, NEW r \in TextRuns, NEW i \in r.from..r.to
  PROVE  Place(i) = Len(line) + 1 - (IF r.dir = "L" THEN r.from + r.to - i ELSE i)
<1>1. i \in 1..Len(line) /\ Len(dir) = Len(line)
  BY TurnedIs, DirLength
<1> DEFINE s == CHOOSE q \in TextRuns : i \in q.from..q.to
<1>2. s \in TextRuns /\ i \in s.from..s.to
  <2>1. \E q \in TextRuns : i \in q.from..q.to
    OBVIOUS
  <2> QED  BY <2>1
<1> HIDE DEF s
<1>3. s = r
  BY <1>1, <1>2, OneRun
<1>4. Place(i) = Len(dir) + 1 - (IF s.dir = "L" THEN s.from + s.to - i ELSE i)
  BY DEF Place, s
<1> QED  BY <1>1, <1>3, <1>4

-----------------------------------------------------------------------------
(* What is on the page once a line is drawn. *)

Resolved ==
  LET cls == [i \in DOMAIN line |-> Class(line, i)] IN
  [i \in DOMAIN line |->
     IF cls[i] # "N" THEN cls[i]
     ELSE IF \E j \in Before(cls, i), k \in After(cls, i) : cls[j] = "L" /\ cls[k] = "L"
          THEN "L" ELSE "R"]

Printed ==
  LET start == CursorStart(line) IN
  [x \in start + 1..start + Len(line) |->
     LET i == Shown(x - start) IN [place |-> i, glyph |-> Glyph(line[i], dir[i])]]

(* Letters go to the left, words and what is within a number to the right. *)
LEMMA ResolvedIs ==
  ASSUME line \in Seq(Characters)
  PROVE  /\ Resolved \in [1..Len(line) -> {"L", "R"}]
         /\ \A i \in 1..Len(line) : line[i] \in Letters => Resolved[i] = "R"
         /\ \A i \in 1..Len(line) : line[i] = "digit" \/ Glued(line, i) => Resolved[i] = "L"
<1> DEFINE cls == [i \in DOMAIN line |-> Class(line, i)]
<1>1. DOMAIN line = 1..Len(line)
  OBVIOUS
<1>2. \A i \in 1..Len(line) : cls[i] = Class(line, i) /\ cls[i] \in {"L", "R", "N"}
  BY <1>1 DEF Class, Classify
<1>3. /\ DOMAIN Resolved = 1..Len(line)
      /\ Resolved = [i \in 1..Len(line) |-> Resolved[i]]
      /\ \A i \in 1..Len(line) : Resolved[i] \in {"L", "R"} /\ (cls[i] # "N" => Resolved[i] = cls[i])
  <2>1. Resolved = [i \in DOMAIN line |->
           IF cls[i] # "N" THEN cls[i]
           ELSE IF \E j \in Before(cls, i), k \in After(cls, i) : cls[j] = "L" /\ cls[k] = "L"
                THEN "L" ELSE "R"]
    BY DEF Resolved
  <2> HIDE DEF cls
  <2> QED  BY <1>1, <1>2, <2>1
<1>4. Resolved \in [1..Len(line) -> {"L", "R"}]
  <2> HIDE DEF cls
  <2> QED  BY <1>3
<1>5. ASSUME NEW i \in 1..Len(line), line[i] \in Letters PROVE Resolved[i] = "R"
  <2>1. Class(line, i) = "R"
    BY <1>5 DEF Class, Classify, Glued, Letters
  <2> HIDE DEF cls
  <2> QED  BY <1>2, <1>3, <2>1
<1>6. ASSUME NEW i \in 1..Len(line), line[i] = "digit" \/ Glued(line, i) PROVE Resolved[i] = "L"
  <2>1. Class(line, i) = "L"
    BY <1>6 DEF Class, Classify, Letters, Words
  <2> HIDE DEF cls
  <2> QED  BY <1>2, <1>3, <2>1
<1> QED  BY <1>4, <1>5, <1>6

LineDrawn == line \in Seq(Characters) /\ dir = Resolved /\ drawn = Printed

LEMMA DrawnDirected == line \in Seq(Characters) /\ dir = Resolved => Directed
  BY ResolvedIs DEF Directed

(* Letters are only in runs from right to left. *)
LEMMA LettersTurn ==
  ASSUME line \in Seq(Characters), dir = Resolved, NEW r \in TextRuns, HasLetters(line, r)
  PROVE  r.dir = "R"
<1>1. Directed
  BY DrawnDirected
<1>2. PICK i \in r.from..r.to : line[i] \in Letters
  BY DEF HasLetters
<1>3. i \in 1..Len(line) /\ dir[i] = r.dir
  BY <1>1, <1>2, RunIs, TurnedIs DEF IsRun
<1> QED  BY <1>2, <1>3, ResolvedIs

(* Where a character is drawn. *)
Spot(r, i) == CursorStart(line) + Len(line) + 1 - Turned(r, i)
At(i) == CHOOSE x \in DOMAIN drawn : drawn[x].place = i

LEMMA StartIs == Box \in Nat /\ line \in Seq(Characters) =>
  /\ CursorStart(line) \in Nat
  /\ Len(line) <= Box => CursorStart(line) + Len(line) <= Box
<1> SUFFICES ASSUME Box \in Nat, line \in Seq(Characters)
             PROVE  /\ CursorStart(line) \in Nat
                    /\ Len(line) <= Box => CursorStart(line) + Len(line) <= Box
  OBVIOUS
<1>1. Box \in Nat /\ Len(line) \in Nat
  OBVIOUS
<1>2. CursorStart(line) = IF align = "left" \/ Len(line) > Box THEN 0 ELSE Box - Len(line)
  BY DEF CursorStart
<1> DEFINE n == Len(line)
           c == CursorStart(line)
<1>3. n \in Nat /\ (c = 0 \/ (~(n > Box) /\ c = Box - n))
  BY <1>1, <1>2
<1> HIDE DEF n, c
<1>4. c \in Nat /\ (n <= Box => c + n <= Box)
  BY <1>1, <1>3
<1> QED  BY <1>4 DEF n, c

LEMMA PrintedIs ==
  ASSUME Box \in Nat, LineDrawn, NEW r \in TextRuns, NEW i \in r.from..r.to
  PROVE  /\ Spot(r, i) \in DOMAIN drawn
         /\ drawn[Spot(r, i)] = [place |-> i, glyph |-> Glyph(line[i], dir[i])]
<1> DEFINE n == Len(line)
           s == CursorStart(line)
           t == Turned(r, i)
           x == Spot(r, i)
<1>1. Directed /\ line \in Seq(Characters) /\ dir = Resolved /\ drawn = Printed
  BY DrawnDirected DEF LineDrawn
<1>2. n \in Nat /\ s \in Nat
  BY <1>1, DirLength, StartIs
<1>3. t \in r.from..r.to /\ t \in 1..n /\ Turned(r, t) = i
  BY <1>1, TurnedIs
<1>4. x = s + n + 1 - t
  BY DEF Spot
<1>5. Shown(n + 1 - t) = i
  <2> HIDE DEF t, n
  <2>1. Shown(Len(line) + 1 - t) = Turned(r, t)
    BY <1>1, <1>3, ShownIs
  <2> QED  BY <1>3, <2>1 DEF n
<1>6. drawn = [y \in s + 1..s + n |->
                  [place |-> Shown(y - s), glyph |-> Glyph(line[Shown(y - s)], dir[Shown(y - s)])]]
  BY <1>1 DEF Printed
<1> HIDE DEF s, n, t, x
<1>7. x \in s + 1..s + n /\ x - s = n + 1 - t
  BY <1>2, <1>3, <1>4
<1>8. /\ x \in DOMAIN drawn
      /\ drawn[x] = [place |-> Shown(x - s), glyph |-> Glyph(line[Shown(x - s)], dir[Shown(x - s)])]
  BY <1>6, <1>7
<1>9. Shown(x - s) = i
  BY <1>5, <1>7
<1> QED  BY <1>8, <1>9 DEF x

(* Each place of the page shows one character, which is nowhere else. *)
LEMMA DrawnOnce ==
  ASSUME Box \in Nat, LineDrawn, NEW x \in DOMAIN drawn
  PROVE  \E r \in TextRuns : drawn[x].place \in r.from..r.to /\ x = Spot(r, drawn[x].place)
<1> DEFINE n == Len(line)
           s == CursorStart(line)
           j == s + n + 1 - x
<1>1. Directed /\ line \in Seq(Characters) /\ drawn = Printed
  BY DrawnDirected DEF LineDrawn
<1>2. n \in Nat /\ s \in Nat
  BY <1>1, DirLength, StartIs
<1>3. x \in s + 1..s + n
  BY <1>1 DEF Printed
<1> HIDE DEF n, s
<1>4. j \in 1..n /\ x = s + n + 1 - j
  BY <1>2, <1>3
<1> HIDE DEF j
<1>5. PICK r \in TextRuns : j \in r.from..r.to
  BY <1>1, <1>4, RunOf DEF n
<1> DEFINE i == Turned(r, j)
<1>6. i \in r.from..r.to /\ Turned(r, i) = j
  BY <1>1, <1>5, TurnedIs
<1>7. x = Spot(r, i)
  BY <1>4, <1>6 DEF Spot, n, s
<1>8. drawn[Spot(r, i)].place = i
  <2> HIDE DEF i
  <2>1. drawn[Spot(r, i)] = [place |-> i, glyph |-> Glyph(line[i], dir[i])]
    BY <1>6, PrintedIs
  <2> QED  BY <2>1
<1> HIDE DEF i
<1>9. drawn[x].place = i
  BY <1>7, <1>8
<1> QED  BY <1>6, <1>7, <1>9

LEMMA AtIs ==
  ASSUME Box \in Nat, LineDrawn, NEW r \in TextRuns, NEW i \in r.from..r.to
  PROVE  At(i) = Spot(r, i)
<1>1. Directed
  BY DrawnDirected DEF LineDrawn
<1>2. Spot(r, i) \in DOMAIN drawn /\ drawn[Spot(r, i)].place = i
  <2>1. Spot(r, i) \in DOMAIN drawn /\ drawn[Spot(r, i)] = [place |-> i, glyph |-> Glyph(line[i], dir[i])]
    BY PrintedIs
  <2> QED  BY <2>1
<1> DEFINE x == At(i)
<1>3. x \in DOMAIN drawn /\ drawn[x].place = i
  BY <1>2 DEF At
<1> HIDE DEF x
<1>4. PICK q \in TextRuns : drawn[x].place \in q.from..q.to /\ x = Spot(q, drawn[x].place)
  BY <1>3, DrawnOnce
<1>5. i \in q.from..q.to /\ x = Spot(q, i)
  BY <1>3, <1>4
<1>6. q = r
  BY <1>1, <1>5, OneRun, TurnedIs
<1> QED  BY <1>5, <1>6 DEF x

LEMMA DrawnGlyph ==
  ASSUME Box \in Nat, LineDrawn, NEW i \in 1..Len(line)
  PROVE  At(i) \in Nat /\ drawn[At(i)] = [place |-> i, glyph |-> Glyph(line[i], dir[i])]
<1>1. Directed /\ line \in Seq(Characters)
  BY DrawnDirected DEF LineDrawn
<1>2. PICK r \in TextRuns : i \in r.from..r.to
  BY <1>1, RunOf
<1>3. At(i) = Spot(r, i)
  BY <1>2, AtIs
<1>4. drawn[Spot(r, i)] = [place |-> i, glyph |-> Glyph(line[i], dir[i])]
  BY <1>2, PrintedIs
<1>5. Spot(r, i) \in Nat
  <2>1. Turned(r, i) \in 1..Len(line) /\ Len(line) \in Nat /\ CursorStart(line) \in Nat
    BY <1>1, <1>2, TurnedIs, StartIs
  <2> DEFINE t == Turned(r, i)
             n == Len(line)
             s == CursorStart(line)
  <2>2. Spot(r, i) = s + n + 1 - t /\ t \in 1..n /\ n \in Nat /\ s \in Nat
    BY <2>1 DEF Spot
  <2> HIDE DEF t, n, s
  <2> QED  BY <2>2
<1> QED  BY <1>3, <1>4, <1>5

(* Characters of one direction that follow each other are in one run. *)
LEMMA SameRun ==
  ASSUME Directed, NEW i \in 1..Len(line), NEW j \in i..Len(line), Even(i, j)
  PROVE  \E r \in TextRuns : i \in r.from..r.to /\ j \in r.from..r.to /\ r.dir = dir[i]
<1>1. Len(line) \in Nat
  BY DirLength
<1>2. PICK r \in TextRuns : i \in r.from..r.to
  BY RunOf
<1>3. IsRun(r)
  BY RunIs
<1>4. r.dir = dir[i]
  BY <1>1, <1>2, <1>3 DEF IsRun
<1>5. j <= r.to
  <2> SUFFICES ASSUME r.to < j PROVE FALSE
    BY <1>1, <1>3 DEF IsRun
  <2>1. r.to # Len(line) /\ r.to + 1 \in i..j
    BY <1>1, <1>2, <1>3 DEF IsRun
  <2> QED  BY <1>3, <1>4, <2>1 DEF IsRun, Even
<1>6. j \in r.from..r.to
  BY <1>1, <1>2, <1>3, <1>5 DEF IsRun
<1> QED  BY <1>2, <1>4, <1>6

LEMMA LineRight == Box \in Nat /\ LineDrawn => LineIsReadable
<1> SUFFICES ASSUME Box \in Nat, LineDrawn PROVE LineIsReadable
  OBVIOUS
<1> DEFINE n == Len(line)
           s == CursorStart(line)
<1>1. Directed /\ line \in Seq(Characters) /\ dir = Resolved /\ drawn = Printed
  BY DrawnDirected DEF LineDrawn
<1>2. n \in Nat /\ s \in Nat /\ DOMAIN line = 1..n
  BY <1>1, DirLength, StartIs
<1>3. {drawn[x].place : x \in DOMAIN drawn} = DOMAIN line
  <2>1. ASSUME NEW x \in DOMAIN drawn PROVE drawn[x].place \in 1..n
    <3>1. PICK r \in TextRuns : drawn[x].place \in r.from..r.to
      BY DrawnOnce
    <3> QED  BY <1>1, <3>1, TurnedIs
  <2>2. ASSUME NEW i \in 1..n PROVE \E x \in DOMAIN drawn : drawn[x].place = i
    <3>1. PICK r \in TextRuns : i \in r.from..r.to
      BY <1>1, RunOf
    <3>2. Spot(r, i) \in DOMAIN drawn /\ drawn[Spot(r, i)] = [place |-> i, glyph |-> Glyph(line[i], dir[i])]
      BY <3>1, PrintedIs
    <3>3. drawn[Spot(r, i)].place = i
      BY <3>2
    <3> QED  BY <3>2, <3>3
  <2> QED  BY <1>2, <2>1, <2>2
<1>4. Len(line) <= Box => DOMAIN drawn \subseteq 1..Box
  <2>1. DOMAIN drawn = s + 1..s + n
    BY <1>1 DEF Printed
  <2>2. n <= Box => s + n <= Box
    BY <1>1, StartIs
  <2>3. (n <= Box => DOMAIN drawn \subseteq 1..Box)
    <3> HIDE DEF n, s
    <3> QED  BY <1>2, <2>1, <2>2
  <2> QED  BY <2>3
<1>5. \A i \in DOMAIN line : ~Unturned(line, i) => At(i) = CursorStart(line) + Place(i)
  <2> SUFFICES ASSUME NEW i \in 1..n, ~Unturned(line, i) PROVE At(i) = CursorStart(line) + Place(i)
    BY <1>2
  <2>1. PICK r \in TextRuns : i \in r.from..r.to
    BY <1>1, RunOf
  <2>2. r.dir \in {"L", "R"} /\ r.from \in Int /\ r.to \in Int
    <3>1. IsRun(r)
      BY <1>1, RunIs
    <3> QED  BY <1>1, <1>2, <3>1 DEF IsRun, Directed
  <2>3. r.dir = "R" => HasLetters(line, r)
    BY <2>1 DEF Unturned
  <2>4. HasLetters(line, r) => r.dir = "R"
    BY <1>1, LettersTurn
  <2>5. At(i) = s + n + 1 - Turned(r, i)
    BY <2>1, AtIs DEF Spot
  <2>6. Place(i) = n + 1 - Turned(r, i)
    BY <1>1, <2>1, <2>2, <2>3, <2>4, PlaceIs DEF Turned
  <2>7. Turned(r, i) \in 1..n
    BY <1>1, <2>1, TurnedIs
  <2> DEFINE t == Turned(r, i)
  <2> HIDE DEF s, n, t
  <2>8. s + n + 1 - t = s + (n + 1 - t)
    BY <1>2, <2>7 DEF t
  <2> QED  BY <2>5, <2>6, <2>8 DEF s, t
<1>6. \A i, j \in DOMAIN line : i <= j /\ IsNumber(line, i, j) => At(j) = At(i) + j - i
  <2> SUFFICES ASSUME NEW i \in 1..n, NEW j \in 1..n, i <= j, IsNumber(line, i, j)
               PROVE  At(j) = At(i) + j - i
    BY <1>2
  <2>1. \A k \in i..j : dir[k] = "L"
    <3> SUFFICES ASSUME NEW k \in i..j PROVE dir[k] = "L"
      OBVIOUS
    <3>1. k \in 1..n
      BY <1>2
    <3>2. CASE line[k] = "digit"
      BY <1>1, <3>1, <3>2, ResolvedIs
    <3>3. CASE line[k] # "digit"
      <4>1. line[k] = "glue" /\ line[k - 1] = "digit" /\ line[k + 1] = "digit"
        BY <3>3 DEF IsNumber
      <4>2. line[i] = "digit" /\ line[j] = "digit"
        BY DEF IsNumber
      <4>3. i # k /\ k # j
        BY <3>3, <4>2
      <4>4. 1 < k /\ k < n
        BY <1>2, <4>3
      <4>5. Glued(line, k)
        BY <4>1, <4>4 DEF Glued
      <4> QED  BY <1>1, <3>1, <4>5, ResolvedIs
    <3> QED  BY <3>2, <3>3
  <2>2. j \in i..n
    BY <1>2
  <2>3. PICK r \in TextRuns : i \in r.from..r.to /\ j \in r.from..r.to /\ r.dir = "L"
    <3>1. Even(i, j) /\ dir[i] = "L"
      BY <1>2, <2>1, <2>2 DEF Even
    <3> QED  BY <1>1, <2>2, <3>1, SameRun
  <2>4. ~HasLetters(line, r)
    <3>1. "L" # "R"
      OBVIOUS
    <3> QED  BY <1>1, <2>3, <3>1, LettersTurn
  <2>5. Turned(r, i) = r.from + r.to - i /\ Turned(r, j) = r.from + r.to - j
    BY <2>4 DEF Turned
  <2>6. At(i) = s + n + 1 - (r.from + r.to - i) /\ At(j) = s + n + 1 - (r.from + r.to - j)
    BY <2>3, <2>5, AtIs DEF Spot
  <2>7. r.from \in Int /\ r.to \in Int
    <3>1. IsRun(r)
      BY <1>1, RunIs
    <3> QED  BY <1>2, <3>1 DEF IsRun
  <2> HIDE DEF s, n
  <2> QED  BY <1>2, <2>6, <2>7
<1>7. \A i, j \in DOMAIN line :
        /\ i + 1 < j /\ line[i] = "(" /\ line[j] = ")" /\ \A k \in i + 1..j - 1 : line[k] \in Letters
        /\ {dir[i], dir[j]} = {"R"}
        => At(j) < At(i) /\ drawn[At(j)].glyph = "(" /\ drawn[At(i)].glyph = ")"
  <2> SUFFICES ASSUME NEW i \in 1..n, NEW j \in 1..n, i + 1 < j, line[i] = "(", line[j] = ")",
                      \A k \in i + 1..j - 1 : line[k] \in Letters, {dir[i], dir[j]} = {"R"}
               PROVE  At(j) < At(i) /\ drawn[At(j)].glyph = "(" /\ drawn[At(i)].glyph = ")"
    BY <1>2
  <2>1. dir[i] = "R" /\ dir[j] = "R"
    OBVIOUS
  <2>2. \A k \in i..j : dir[k] = "R"
    <3> SUFFICES ASSUME NEW k \in i..j, k # i, k # j PROVE dir[k] = "R"
      BY <2>1
    <3>1. k \in 1..n /\ k \in i + 1..j - 1
      BY <1>2
    <3> QED  BY <1>1, <3>1, ResolvedIs
  <2>3. j \in i..n
    BY <1>2
  <2>4. PICK r \in TextRuns : i \in r.from..r.to /\ j \in r.from..r.to /\ r.dir = "R"
    <3>1. Even(i, j) /\ dir[i] = "R"
      BY <1>2, <2>2, <2>3 DEF Even
    <3> QED  BY <1>1, <2>3, <3>1, SameRun
  <2>5. HasLetters(line, r)
    <3>1. IsRun(r)
      BY <1>1, RunIs
    <3>2. i + 1 \in i + 1..j - 1 /\ i + 1 \in r.from..r.to
      BY <1>2, <2>4, <3>1 DEF IsRun
    <3> QED  BY <3>2 DEF HasLetters
  <2>6. Turned(r, i) = i /\ Turned(r, j) = j
    BY <2>5 DEF Turned
  <2>7. At(i) = s + n + 1 - i /\ At(j) = s + n + 1 - j
    BY <2>4, <2>6, AtIs DEF Spot
  <2>8. At(j) < At(i)
    <3> HIDE DEF s, n
    <3> QED  BY <1>2, <2>7
  <2>9. /\ drawn[At(i)] = [place |-> i, glyph |-> Glyph("(", "R")]
        /\ drawn[At(j)] = [place |-> j, glyph |-> Glyph(")", "R")]
    BY <2>1, DrawnGlyph
  <2>10. Glyph("(", "R") = ")" /\ Glyph(")", "R") = "("
    BY DEF Glyph, Mirrored
  <2>11. drawn[At(i)].glyph = ")" /\ drawn[At(j)].glyph = "("
    BY <2>9, <2>10
  <2> QED  BY <2>8, <2>11
<1> HIDE DEF n, s
<1> QED  BY <1>3, <1>4, <1>5, <1>6, <1>7 DEF LineIsReadable, At

-----------------------------------------------------------------------------
(* The pages. *)

(* doc.moveDown(0.4), as far as the heights go. *)
Space == (4 * RowLine) \div 10

(* The assumption, of the heights. *)
HeightsOK ==
  /\ Height \in Nat /\ Margin \in Nat /\ Reserve \in Nat /\ Header \in Nat
  /\ RowLine \in Nat /\ TotalLine \in Nat /\ Space \in Nat
  /\ 2 * RowLine + Space + TotalLine <= Reserve
  /\ Margin + Reserve + Margin <= Height /\ Header + Reserve + Margin <= Height

LEMMA Heights == TextAssumption => HeightsOK /\ Box \in Nat /\ Lines \subseteq Seq(Characters)
<1> SUFFICES ASSUME TextAssumption PROVE HeightsOK /\ Box \in Nat /\ Lines \subseteq Seq(Characters)
  OBVIOUS
<1>1. /\ Height \in Nat /\ Margin \in Nat /\ Reserve \in Nat /\ Header \in Nat
      /\ RowLine \in Nat /\ TotalLine \in Nat /\ Box \in Nat
  BY DEF TextAssumption
<1>2. Space \in Nat
  BY <1>1 DEF Space
<1>3. 2 * RowLine + Space + TotalLine <= Reserve
  BY DEF TextAssumption, Space
<1> QED  BY <1>1, <1>2, <1>3 DEF TextAssumption, HeightsOK

(* The row k is on its page, and under the row before it or first of the next page. *)
RowOK(rows, k) ==
  /\ rows[k][2] + RowLine <= Height - Margin
  /\ k > 1 =>
       \/ rows[k][1] = rows[k - 1][1] /\ rows[k][2] >= rows[k - 1][2] + RowLine
       \/ rows[k][1] = rows[k - 1][1] + 1 /\ rows[k][2] = Margin

PagesKept ==
  /\ DOMAIN sheet = {"pages", "y", "rows", "total"}
  /\ sheet.pages \in Nat /\ sheet.y \in Nat /\ sheet.rows \in Seq(Nat \X Nat)
  /\ sheet.y + Margin + Reserve <= Height + RowLine + Space
  /\ \A k \in 1..Len(sheet.rows) : RowOK(sheet.rows, k)
  /\ sheet.rows # <<>> =>
       /\ sheet.pages = sheet.rows[Len(sheet.rows)][1]
       /\ sheet.y = sheet.rows[Len(sheet.rows)][2] + RowLine + Space
  /\ sheet.total # <<>> => sheet.total[2] + TotalLine <= Height - Margin

LEMMA PagesInit == TextAssumption /\ TextInit => PagesKept
<1> SUFFICES ASSUME TextAssumption, TextInit PROVE PagesKept
  OBVIOUS
<1>1. HeightsOK
  BY Heights
<1>2. sheet = [pages |-> 1, y |-> Header, rows |-> <<>>, total |-> <<>>]
  BY DEF TextInit
<1>3. DOMAIN sheet = {"pages", "y", "rows", "total"}
  BY <1>2
<1>4. sheet.pages = 1 /\ sheet.y = Header /\ sheet.rows = <<>> /\ sheet.total = <<>>
  BY <1>2
<1>5. sheet.y + Margin + Reserve <= Height + RowLine + Space
  BY <1>1, <1>4 DEF HeightsOK
<1>6. sheet.rows \in Seq(Nat \X Nat) /\ Len(sheet.rows) = 0
  BY <1>4
<1> QED  BY <1>1, <1>3, <1>4, <1>5, <1>6 DEF PagesKept, HeightsOK

(* A row more. *)
LEMMA RowMore ==
  ASSUME NEW rows \in Seq(Nat \X Nat), NEW row \in Nat \X Nat
  PROVE  /\ Append(rows, row) \in Seq(Nat \X Nat) /\ Append(rows, row) # <<>>
         /\ Len(rows) \in Nat /\ Len(Append(rows, row)) = Len(rows) + 1
         /\ Append(rows, row)[Len(rows) + 1] = row
         /\ \A k \in 1..Len(rows) : Append(rows, row)[k] = rows[k] /\ rows[k] \in Nat \X Nat
<1> DEFINE E == Nat \X Nat
           n == Len(rows)
           new == Append(rows, row)
<1>1. rows \in Seq(E) /\ row \in E
  OBVIOUS
<1> HIDE DEF E
<1>2. n \in Nat /\ new \in Seq(E) /\ Len(new) = n + 1
  BY <1>1
<1>3. new[n + 1] = row
  BY <1>1
<1>4. ASSUME NEW k \in 1..n PROVE new[k] = rows[k] /\ rows[k] \in E
  BY <1>1
<1>5. new # <<>>
  <2>1. Len(<<>>) = 0
    OBVIOUS
  <2> HIDE DEF new, n
  <2> QED  BY <1>2, <2>1
<1> HIDE DEF new, n
<1>6. /\ new \in Seq(E) /\ new # <<>> /\ n \in Nat /\ Len(new) = n + 1 /\ new[n + 1] = row
      /\ \A k \in 1..n : new[k] = rows[k] /\ rows[k] \in E
  BY <1>2, <1>3, <1>4, <1>5
<1> QED  BY <1>6 DEF E, n, new

LEMMA RowKeeps == HeightsOK /\ PagesKept /\ WriteRow => PagesKept'
<1> SUFFICES ASSUME HeightsOK, PagesKept, WriteRow PROVE PagesKept'
  OBVIOUS
<1> DEFINE full == IsFull(sheet.y)
           y == IF full THEN Margin ELSE sheet.y
           pages == IF full THEN sheet.pages + 1 ELSE sheet.pages
           n == Len(sheet.rows)
           rows == sheet.rows
           new == sheet'.rows
<1>1. /\ sheet.pages \in Nat /\ sheet.y \in Nat /\ rows \in Seq(Nat \X Nat)
      /\ sheet.total = <<>> /\ DOMAIN sheet = {"pages", "y", "rows", "total"}
  BY DEF PagesKept, WriteRow
<1>2. sheet' = [sheet EXCEPT !.rows = Append(@, <<pages, y>>), !.pages = pages,
                             !.y = y + RowLine + (4 * RowLine) \div 10]
  BY DEF WriteRow
<1>3. /\ DOMAIN sheet' = {"pages", "y", "rows", "total"}
      /\ sheet'.pages = pages /\ new = Append(rows, <<pages, y>>)
      /\ sheet'.y = y + RowLine + Space /\ sheet'.total = sheet.total
  <2> DEFINE yy == y + RowLine + Space
  <2>1. sheet' = [sheet EXCEPT !.rows = Append(@, <<pages, y>>), !.pages = pages, !.y = yy]
    BY <1>2 DEF Space
  <2> HIDE DEF y, pages, yy
  <2>2. DOMAIN sheet' = DOMAIN sheet
    BY <2>1
  <2>3. /\ sheet'.pages = pages /\ new = Append(rows, <<pages, y>>)
        /\ sheet'.y = yy /\ sheet'.total = sheet.total
    BY <1>1, <2>1
  <2> QED  BY <1>1, <2>2, <2>3 DEF yy
<1>4. /\ pages \in Nat /\ y \in Nat /\ y + Margin + Reserve <= Height
      /\ \/ pages = sheet.pages /\ y = sheet.y
         \/ pages = sheet.pages + 1 /\ y = Margin
  BY <1>1 DEF HeightsOK, IsFull
<1> HIDE DEF y, pages
<1>5. <<pages, y>> \in Nat \X Nat
  BY <1>4
<1>6. /\ new \in Seq(Nat \X Nat) /\ new # <<>> /\ n \in Nat /\ Len(new) = n + 1
      /\ new[n + 1] = <<pages, y>>
      /\ \A k \in 1..n : new[k] = rows[k] /\ rows[k] \in Nat \X Nat
  <2> HIDE DEF rows, new
  <2>1. /\ Append(rows, <<pages, y>>) \in Seq(Nat \X Nat) /\ Append(rows, <<pages, y>>) # <<>>
        /\ Len(rows) \in Nat /\ Len(Append(rows, <<pages, y>>)) = Len(rows) + 1
        /\ Append(rows, <<pages, y>>)[Len(rows) + 1] = <<pages, y>>
        /\ \A k \in 1..Len(rows) : Append(rows, <<pages, y>>)[k] = rows[k] /\ rows[k] \in Nat \X Nat
    BY <1>1, <1>5, RowMore
  <2>2. new = Append(rows, <<pages, y>>)
    BY <1>3
  <2> QED  BY <2>1, <2>2 DEF rows
<1>7. n > 0 => sheet.pages = rows[n][1] /\ sheet.y = rows[n][2] + RowLine + Space
  <2>1. n > 0 => rows # <<>>
    BY <1>1, <1>6
  <2> QED  BY <2>1 DEF PagesKept
<1>8. \A k \in 1..n : RowOK(rows, k)
  BY DEF PagesKept
<1> HIDE DEF n, rows, new
<1>9. ASSUME NEW k \in 1..n PROVE RowOK(new, k)
  <2>1. new[k] = rows[k] /\ (k > 1 => new[k - 1] = rows[k - 1])
    <3>1. k > 1 => k - 1 \in 1..n
      BY <1>6
    <3> QED  BY <1>6, <3>1
  <2>2. RowOK(rows, k)
    BY <1>8
  <2> QED  BY <2>1, <2>2 DEF RowOK
<1>10. RowOK(new, n + 1)
  <2>1. new[n + 1][1] = pages /\ new[n + 1][2] = y
    BY <1>6
  <2>2. y + RowLine <= Height - Margin
    BY <1>4 DEF HeightsOK
  <2>3. ASSUME n + 1 > 1
        PROVE  \/ pages = rows[n][1] /\ y >= rows[n][2] + RowLine
               \/ pages = rows[n][1] + 1 /\ y = Margin
    <3>1. n > 0 /\ n \in 1..n
      BY <1>6, <2>3
    <3>2. sheet.pages = rows[n][1] /\ sheet.y = rows[n][2] + RowLine + Space
      BY <1>7, <3>1
    <3>3. rows[n][2] \in Nat
      BY <1>6, <3>1
    <3>4. CASE pages = sheet.pages /\ y = sheet.y
      BY <3>2, <3>3, <3>4 DEF HeightsOK
    <3>5. CASE pages = sheet.pages + 1 /\ y = Margin
      BY <3>2, <3>5
    <3> QED  BY <1>4, <3>4, <3>5
  <2>4. (n + 1) - 1 = n /\ (n > 0 => n \in 1..n)
    BY <1>6
  <2>5. n > 0 => new[n] = rows[n]
    BY <1>6, <2>4
  <2>6. n + 1 > 1 => n > 0
    BY <1>6
  <2> QED  BY <2>1, <2>2, <2>3, <2>4, <2>5, <2>6 DEF RowOK
<1>11. \A k \in 1..Len(new) : RowOK(new, k)
  <2> SUFFICES ASSUME NEW k \in 1..Len(new) PROVE RowOK(new, k)
    OBVIOUS
  <2>1. k \in 1..n \/ k = n + 1
    BY <1>6
  <2> QED  BY <1>9, <1>10, <2>1
<1>12. sheet'.y + Margin + Reserve <= Height + RowLine + Space /\ sheet'.y \in Nat
  <2> DEFINE z == sheet'.y
  <2>1. z = y + RowLine + Space
    BY <1>3
  <2>2. /\ y \in Nat /\ y + Margin + Reserve <= Height
        /\ RowLine \in Nat /\ Space \in Nat /\ Margin \in Nat /\ Reserve \in Nat /\ Height \in Nat
    BY <1>4 DEF HeightsOK
  <2> HIDE DEF z
  <2>3. z + Margin + Reserve <= Height + RowLine + Space /\ z \in Nat
    BY <2>1, <2>2
  <2> QED  BY <2>3 DEF z
<1>13. sheet'.pages = new[Len(new)][1] /\ sheet'.y = new[Len(new)][2] + RowLine + Space
  BY <1>3, <1>6
<1> QED  BY <1>1, <1>3, <1>4, <1>6, <1>11, <1>12, <1>13 DEF PagesKept, RowOK, new

LEMMA TotalKeeps == HeightsOK /\ PagesKept /\ WriteTotal => PagesKept'
<1> SUFFICES ASSUME HeightsOK, PagesKept, WriteTotal PROVE PagesKept'
  OBVIOUS
<1>1. sheet' = [sheet EXCEPT !.total = <<sheet.pages, sheet.y + RowLine>>]
  BY DEF WriteTotal
<1>2. DOMAIN sheet = {"pages", "y", "rows", "total"}
  BY DEF PagesKept
<1>3. /\ DOMAIN sheet' = {"pages", "y", "rows", "total"}
      /\ sheet'.pages = sheet.pages /\ sheet'.y = sheet.y /\ sheet'.rows = sheet.rows
      /\ sheet'.total = <<sheet.pages, sheet.y + RowLine>>
  BY <1>1, <1>2
<1>4. sheet'.total[2] = sheet.y + RowLine
  BY <1>3
<1>5. sheet'.total[2] + TotalLine <= Height - Margin
  <2>1. sheet.y \in Nat /\ sheet.y + Margin + Reserve <= Height + RowLine + Space
    BY DEF PagesKept
  <2> QED  BY <1>4, <2>1 DEF HeightsOK
<1> QED  BY <1>3, <1>5 DEF PagesKept, RowOK

LEMMA PagesRight == PagesKept => PagesHold
<1> SUFFICES ASSUME PagesKept PROVE PagesHold
  OBVIOUS
<1>1. DOMAIN sheet.rows = 1..Len(sheet.rows) /\ \A k \in 1..Len(sheet.rows) : RowOK(sheet.rows, k)
  BY DEF PagesKept
<1>2. sheet.total # <<>> => sheet.total[2] + TotalLine <= Height - Margin
  BY DEF PagesKept
<1> QED  BY <1>1, <1>2 DEF PagesHold, RowOK

-----------------------------------------------------------------------------
(* InvoiceText: the lines and the pages. *)

TextKept ==
  /\ line \in Lines
  /\ dir \in {<<>>, Resolved}
  /\ drawn # <<>> => LineDrawn
  /\ PagesKept

LEMMA TextStart == TextAssumption /\ TextInit => TextKept
  BY PagesInit DEF TextInit, TextKept

(* What the characters, their side and their directions decide. *)
LEMMA SamePrinted == UNCHANGED <<line, align, dir>> => Printed' = Printed
  BY DEF EndOf, TextRuns, Run, Starts, Printed, Shown, Drawn, HasLetters, Cursor, Leads, CursorStart

LEMMA SameResolved == UNCHANGED line => Resolved' = Resolved
  BY DEF Resolved

LEMMA SameLine == UNCHANGED <<line, align, dir, drawn>> /\ LineDrawn => LineDrawn'
  BY SamePrinted, SameResolved DEF LineDrawn

LEMMA SameSheet == UNCHANGED sheet /\ PagesKept => PagesKept'
  BY DEF PagesKept, RowOK

LEMMA TextStep ==
  TextAssumption /\ TextKept /\ [ResolveDirections \/ Write \/ WriteRow \/ WriteTotal]_textVars => TextKept'
<1> SUFFICES ASSUME TextAssumption, TextKept,
                    [ResolveDirections \/ Write \/ WriteRow \/ WriteTotal]_textVars
             PROVE  TextKept'
  OBVIOUS
<1>1. HeightsOK /\ Lines \subseteq Seq(Characters)
  BY Heights
<1>2. CASE ResolveDirections
  <2>1. UNCHANGED <<line, align, drawn, sheet>> /\ dir = <<>> /\ dir' = Resolved
    BY <1>2 DEF ResolveDirections, Resolved
  <2>2. Resolved' = Resolved /\ PagesKept'
    BY <2>1, SameResolved, SameSheet DEF TextKept
  <2>3. drawn # <<>> => LineDrawn'
    <3> SUFFICES ASSUME drawn # <<>> PROVE LineDrawn'
      OBVIOUS
    <3>1. LineDrawn /\ dir = Resolved
      BY DEF TextKept, LineDrawn
    <3>2. dir' = dir
      BY <2>1, <3>1
    <3> QED  BY <2>1, <3>1, <3>2, SameLine
  <2> QED  BY <2>1, <2>2, <2>3 DEF TextKept
<1>3. CASE Write
  <2>1. UNCHANGED <<line, align, dir, sheet>> /\ dir = Resolved /\ drawn' = Printed
    BY <1>3 DEF Write, Printed, TextKept
  <2>2. Resolved' = Resolved /\ Printed' = Printed /\ PagesKept'
    BY <2>1, SameResolved, SamePrinted, SameSheet DEF TextKept
  <2>3. line \in Seq(Characters)
    BY <1>1 DEF TextKept
  <2>4. LineDrawn'
    BY <2>1, <2>2, <2>3 DEF LineDrawn
  <2> QED  BY <2>1, <2>2, <2>4 DEF TextKept
<1>4. ASSUME UNCHANGED <<line, align, dir, drawn>>, PagesKept' PROVE TextKept'
  <2>1. Resolved' = Resolved
    BY <1>4, SameResolved
  <2>2. drawn' # <<>> => LineDrawn'
    BY <1>4, SameLine DEF TextKept
  <2> QED  BY <1>4, <2>1, <2>2 DEF TextKept
<1>5. CASE WriteRow
  <2>1. PagesKept'
    BY <1>1, <1>5, RowKeeps DEF TextKept
  <2> QED  BY <1>4, <1>5, <2>1 DEF WriteRow
<1>6. CASE WriteTotal
  <2>1. PagesKept'
    BY <1>1, <1>6, TotalKeeps DEF TextKept
  <2> QED  BY <1>4, <1>6, <2>1 DEF WriteTotal
<1>7. CASE UNCHANGED textVars
  <2>1. PagesKept'
    BY <1>7, SameSheet DEF textVars, TextKept
  <2> QED  BY <1>4, <1>7, <2>1 DEF textVars
<1> QED  BY <1>2, <1>3, <1>5, <1>6, <1>7

(* What the customer gets can be read, for lines of any length and every   *)
(* arrangement of letters, words, numbers, marks and brackets in them, any *)
(* number of rows and every page that holds its margins: every character   *)
(* is drawn once, where the bidirectional algorithm puts it and inside its *)
(* column if the line fits; numbers are in one piece; brackets enclose     *)
(* what they enclose; and rows and the total stay on the pages.            *)
THEOREM InvoiceReadable == TextSpec => []InvoiceIsReadable
<1>1. TextInit => TextKept
  BY TextAssumption, TextStart
<1>2. TextKept /\ [ResolveDirections \/ Write \/ WriteRow \/ WriteTotal]_textVars => TextKept'
  BY TextAssumption, TextStep
<1>3. TextKept => InvoiceIsReadable
  <2> SUFFICES ASSUME TextKept PROVE InvoiceIsReadable
    OBVIOUS
  <2>1. Box \in Nat
    BY TextAssumption, Heights
  <2>2. LineIsReadable
    <3>1. CASE drawn = <<>>
      BY <3>1 DEF LineIsReadable
    <3>2. CASE drawn # <<>>
      BY <2>1, <3>2, LineRight DEF TextKept
    <3> QED  BY <3>1, <3>2
  <2>3. PagesHold
    BY PagesRight DEF TextKept
  <2> QED  BY <2>2, <2>3 DEF InvoiceIsReadable
<1> QED  BY <1>1, <1>2, <1>3, PTL DEF TextSpec

-----------------------------------------------------------------------------
(* Invoicing. *)

USE InvoicingAssumption

(* The transaction that allocates a number has the lock of its tenant.     *)
LockOK ==
  \A r \in Runs : pc[r] \in {"number", "insert"} => lock[Key(r)] = r

(* An allocated number is the next one of its tenant until it is used.     *)
NextOK ==
  \A r \in Runs : pc[r] = "insert" =>
    /\ next[r] > 0
    /\ \A k \in Numbers(Tenant(r)) : k < next[r]
    /\ \A k \in 1..next[r] : k = next[r] \/ k \in Numbers(Tenant(r))

(* A run has no invoice before it has inserted it, and one afterwards.     *)
CreatedOK ==
  \A r \in Runs :
    /\ pc[r] \in {"idle", "tasks", "prices", "lock", "number", "insert"} =>
         invoice[r] = NoInvoice
    /\ pc[r] \in {"upload", "finalize"} => invoice[r] # NoInvoice

IInv == TypeOK /\ LockOK /\ NextOK /\ CreatedOK /\ NumbersAreDense /\ BilledOnce

LEMMA KeyType == \A r \in Runs : Tenant(r) \in Tenants /\ Key(r) \in Keys
  BY DEF Tenant, Key, Keys

LEMMA PricedType == TypeOK => \A r \in Runs : Priced(r) \subseteq Line
<1> SUFFICES ASSUME TypeOK, NEW r \in Runs, NEW l \in Priced(r) PROVE l \in Line
  OBVIOUS
<1>1. PICK t \in picked[r] : \E k \in DOMAIN Checklist[t] :
        /\ price[Tenant(r)][Checklist[t][k]] # NoPrice
        /\ l = [task |-> t, pos |-> k, code |-> Checklist[t][k],
                amount |-> price[Tenant(r)][Checklist[t][k]]]
  BY DEF Priced
<1>2. t \in Tasks /\ Checklist[t] \in Seq(Codes)
  BY DEF TypeOK
<1>3. price[Tenant(r)] \in [Codes -> Prices \cup {NoPrice}]
  BY KeyType DEF TypeOK
<1>4. QED
  BY <1>1, <1>2, <1>3 DEF Line

LEMMA InitIInv == Init => IInv
<1> SUFFICES ASSUME Init PROVE IInv
  OBVIOUS
<1>1. Created = {}
  BY DEF Init, Created
<1>2. TypeOK
  BY DEF Init, TypeOK, Pcs
<1>3. LockOK /\ NextOK /\ CreatedOK
  BY DEF Init, LockOK, NextOK, CreatedOK
<1>4. NumbersAreDense /\ BilledOnce
  BY <1>1 DEF NumbersAreDense, BilledOnce
<1>5. QED
  BY <1>2, <1>3, <1>4 DEF IInv

(* Which numbers are taken, in this state and in the next one.             *)
LEMMA TakenNumbers ==
  /\ \A n, k : k \in Numbers(n) <=>
       \E r \in Created : Tenant(r) = n /\ invoice[r].number = k
  /\ \A n, k : k \in Numbers(n)' <=>
       \E r \in Created' : Tenant(r) = n /\ invoice'[r].number = k
  BY DEF Numbers, Tenant

(* What depends on the numbers and lines of the invoices alone.            *)
LEMMA SameInvoices ==
  ASSUME UNCHANGED invoice
  PROVE  /\ Created' = Created
         /\ \A n : Numbers(n)' = Numbers(n)
         /\ NumbersAreDense => NumbersAreDense'
         /\ BilledOnce => BilledOnce'
  BY DEF Created, Numbers, NumbersAreDense, BilledOnce, Tenant

LEMMA StepType == TypeOK /\ NextOK /\ CreatedOK /\ [Next]_vars => TypeOK'
<1> SUFFICES ASSUME TypeOK, NextOK, CreatedOK, [Next]_vars PROVE TypeOK'
  OBVIOUS
<1> USE DEF TypeOK, Goto, Pcs, Ended, runVars
<1>1. ASSUME NEW t \in Tasks, Close(t) PROVE TypeOK'
  BY <1>1 DEF Close
<1>2. ASSUME NEW n \in Tenants, NEW c \in Codes, NEW p \in Prices \cup {NoPrice},
             EditPrice(n, c, p)
      PROVE  TypeOK'
  BY <1>2 DEF EditPrice
<1>3. ASSUME NEW r \in Runs, ReadBilled(r) PROVE TypeOK'
  BY <1>3 DEF ReadBilled, InvoicesOf, Created
<1>4. ASSUME NEW r \in Runs, ReadTasks(r) PROVE TypeOK'
  BY <1>4 DEF ReadTasks
<1>5. ASSUME NEW r \in Runs, ReadPrices(r) PROVE TypeOK'
  BY <1>5, PricedType DEF ReadPrices
<1>6. ASSUME NEW r \in Runs, Lock(r) PROVE TypeOK'
  BY <1>6, KeyType DEF Lock
<1>7. ASSUME NEW r \in Runs, Number(r) PROVE TypeOK'
  BY <1>7 DEF Number, Numbers, Created, Invoice
<1>8. ASSUME NEW r \in Runs, Refused(r) PROVE TypeOK'
  BY <1>8 DEF Refused, Unlocked
<1>9. ASSUME NEW r \in Runs, Insert(r) PROVE TypeOK'
  <2>1. [number |-> next[r], lines |-> lines[r], status |-> "DRAFT"] \in Invoice
    BY <1>9 DEF Insert, NextOK, Invoice
  <2>2. invoice' \in [Runs -> Invoice \cup {NoInvoice}]
    BY <1>9, <2>1 DEF Insert
  <2>3. lock' \in [Keys -> Runs \cup {NoRun}] /\ pc' \in [Runs -> Pcs]
    BY <1>9 DEF Insert, Unlocked
  <2>4. QED
    BY <1>9, <2>2, <2>3 DEF Insert
<1>10. ASSUME NEW r \in Runs, Upload(r) PROVE TypeOK'
  BY <1>10 DEF Upload
<1>11. ASSUME NEW r \in Runs, Finalize(r) PROVE TypeOK'
  BY <1>11 DEF Finalize, CreatedOK, Invoice
<1>12. ASSUME NEW r \in Runs, DbError(r) PROVE TypeOK'
  BY <1>12 DEF DbError, Unlocked
<1>13. ASSUME NEW r \in Runs, Crash(r) PROVE TypeOK'
  BY <1>13 DEF Crash, Unlocked
<1>14. CASE UNCHANGED vars
  BY <1>14 DEF vars
<1>15. QED
  BY <1>1, <1>2, <1>3, <1>4, <1>5, <1>6, <1>7, <1>8, <1>9, <1>10, <1>11, <1>12,
     <1>13, <1>14 DEF Next, Step

(* Steps that leave the invoices alone.                                    *)
LEMMA SameStep ==
  ASSUME IInv, UNCHANGED invoice, LockOK', NextOK', CreatedOK', TypeOK'
  PROVE  IInv'
  BY SameInvoices DEF IInv

(* Releasing the lock of r takes it from nobody else.                      *)
LEMMA UnlockedOthers ==
  ASSUME TypeOK, LockOK, NEW r \in Runs, lock' = Unlocked(r),
         NEW l, l \notin {"number", "insert"}, pc' = [pc EXCEPT ![r] = l]
  PROVE  LockOK'
  BY KeyType DEF TypeOK, LockOK, Unlocked, Key, Tenant

LEMMA StepIInv == IInv /\ [Next]_vars => IInv'
<1> SUFFICES ASSUME IInv, [Next]_vars PROVE IInv'
  OBVIOUS
<1>0. TypeOK'
  BY StepType DEF IInv
<1> USE DEF IInv, LockOK, NextOK, CreatedOK, Goto, Tenant, Key
<1>1. ASSUME NEW t \in Tasks, Close(t) PROVE IInv'
  <2>1. UNCHANGED <<invoice, lock, pc, next>>
    BY <1>1 DEF Close, runVars
  <2>2. LockOK' /\ NextOK' /\ CreatedOK'
    BY <2>1, SameInvoices
  <2> QED BY <1>0, <2>1, <2>2, SameStep
<1>2. ASSUME NEW n \in Tenants, NEW c \in Codes, NEW p \in Prices \cup {NoPrice},
             EditPrice(n, c, p)
      PROVE  IInv'
  <2>1. UNCHANGED <<invoice, lock, pc, next>>
    BY <1>2 DEF EditPrice, runVars
  <2>2. LockOK' /\ NextOK' /\ CreatedOK'
    BY <2>1, SameInvoices
  <2> QED BY <1>0, <2>1, <2>2, SameStep
<1>3. ASSUME NEW r \in Runs, ReadBilled(r) PROVE IInv'
  BY <1>0, <1>3, SameStep, SameInvoices DEF ReadBilled, TypeOK
<1>4. ASSUME NEW r \in Runs, ReadTasks(r) PROVE IInv'
  BY <1>0, <1>4, SameStep, SameInvoices DEF ReadTasks, TypeOK
<1>5. ASSUME NEW r \in Runs, ReadPrices(r) PROVE IInv'
  BY <1>0, <1>5, SameStep, SameInvoices DEF ReadPrices, TypeOK
<1>6. ASSUME NEW r \in Runs, Lock(r) PROVE IInv'
  <2>1. LockOK'
    BY <1>6, KeyType DEF Lock, TypeOK
  <2>2. NextOK' /\ CreatedOK'
    BY <1>6, SameInvoices DEF Lock, TypeOK, runVars
  <2>3. QED
    BY <1>0, <1>6, <2>1, <2>2, SameStep DEF Lock
<1>7. ASSUME NEW r \in Runs, Number(r) PROVE IInv'
  <2>1. PICK m \in Numbers(Tenant(r)) \cup {0} :
          MaxNumber(Tenant(r), m) /\ next' = [next EXCEPT ![r] = m + 1]
    BY <1>7 DEF Number
  <2>2. m \in Nat /\ Numbers(Tenant(r)) \subseteq Nat
    BY DEF Numbers, Created, TypeOK, Invoice
  <2>3. \A k \in 1..m : k \in Numbers(Tenant(r))
    <3>1. CASE m = 0
      BY <3>1
    <3>2. CASE m # 0
      <4>1. PICK q \in Created : Tenant(q) = Tenant(r) /\ invoice[q].number = m
        BY <3>2, TakenNumbers
      <4>2. QED
        BY <4>1 DEF NumbersAreDense
    <3>3. QED
      BY <3>1, <3>2
  <2>4. NextOK'
    <3>1. next'[r] = m + 1
      BY <2>1 DEF TypeOK
    <3>2. next'[r] > 0 /\ \A k \in Numbers(Tenant(r)) : k < next'[r]
      BY <2>1, <2>2, <3>1 DEF MaxNumber
    <3>3. \A k \in 1..next'[r] : k = next'[r] \/ k \in Numbers(Tenant(r))
      BY <2>2, <2>3, <3>1
    <3>4. QED
      BY <1>7, <2>1, <3>2, <3>3, SameInvoices DEF Number, TypeOK
  <2>5. LockOK' /\ CreatedOK'
    BY <1>7 DEF Number, TypeOK
  <2>6. QED
    BY <1>0, <1>7, <2>4, <2>5, SameStep DEF Number
<1>8. ASSUME NEW r \in Runs, Refused(r) PROVE IInv'
  <2>1. LockOK'
    BY <1>8, UnlockedOthers DEF Refused
  <2>2. NextOK' /\ CreatedOK'
    BY <1>8, SameInvoices DEF Refused, TypeOK, runVars
  <2>3. QED
    BY <1>0, <1>8, <2>1, <2>2, SameStep DEF Refused
<1>9. ASSUME NEW r \in Runs, Insert(r) PROVE IInv'
  <2>1. /\ invoice[r] = NoInvoice /\ r \notin Created /\ Created' = Created \cup {r}
        /\ invoice'[r] = [number |-> next[r], lines |-> lines[r], status |-> "DRAFT"]
        /\ \A q \in Runs \ {r} : invoice'[q] = invoice[q] /\ pc'[q] = pc[q]
        /\ pc'[r] \in {"upload", "failed"} /\ UNCHANGED <<next, lines>>
    BY <1>9 DEF Insert, Created, TypeOK, runVars, Invoice
  <2>2. \A n, k : k \in Numbers(n)' <=> k \in Numbers(n) \/ (n = Tenant(r) /\ k = next[r])
    <3>1. \A q \in Created : q # r /\ q \in Runs /\ invoice'[q].number = invoice[q].number
      BY <2>1 DEF Created
    <3>2. invoice'[r].number = next[r]
      BY <2>1
    <3>3. \A q \in Created : Tenant(q)' = Tenant(q)
      BY DEF Tenant
    <3>4. SUFFICES ASSUME NEW n, NEW k
                   PROVE  k \in Numbers(n)' <=>
                          k \in Numbers(n) \/ (n = Tenant(r) /\ k = next[r])
      OBVIOUS
    <3>5. k \in Numbers(n)' <=>
            \/ \E q \in Created : Tenant(q) = n /\ invoice[q].number = k
            \/ Tenant(r) = n /\ next[r] = k
      <4>1. k \in Numbers(n)' <=> \E q \in Created' : Tenant(q) = n /\ invoice'[q].number = k
        BY TakenNumbers
      <4>2. Created' = Created \cup {r}
        BY <2>1
      <4>3. (\E q \in Created' : Tenant(q) = n /\ invoice'[q].number = k) <=>
              \/ \E q \in Created : Tenant(q) = n /\ invoice'[q].number = k
              \/ Tenant(r) = n /\ invoice'[r].number = k
        BY <4>2, Zenon
      <4>4. (\E q \in Created : Tenant(q) = n /\ invoice'[q].number = k) <=>
              \E q \in Created : Tenant(q) = n /\ invoice[q].number = k
        BY <3>1
      <4> QED
        BY <3>2, <4>1, <4>3, <4>4
    <3>6. QED
      BY <3>5, TakenNumbers
  <2>3. LockOK'
    BY <1>9, UnlockedOthers DEF Insert
  <2>4. \A q \in Runs \ {r} : pc[q] = "insert" => Tenant(q) # Tenant(r)
    BY <1>9 DEF Insert
  <2>5. NextOK'
    BY <2>1, <2>2, <2>4
  <2>6. CreatedOK'
    BY <1>9, <2>1 DEF Insert, Created
  <2>7. NumbersAreDense'
    <3>1. \A q \in Created : Tenant(q) = Tenant(r) => invoice[q].number < next[r]
      BY <1>9 DEF Insert, Numbers
    <3>2. \A q \in Created : q # r /\ q \in Runs /\ invoice[q].number \in Nat
      BY <2>1 DEF Created, TypeOK, Invoice
    <3>3. 1..next[r] \subseteq Numbers(Tenant(r))'
      BY <1>9, <2>2 DEF Insert
    <3>4. next[r] \in Nat
      BY DEF TypeOK
    <3>5. ASSUME NEW p \in Created', NEW q \in Created', Tenant(p) = Tenant(q),
                 invoice'[p].number = invoice'[q].number
          PROVE  p = q
      BY <2>1, <3>1, <3>2, <3>4, <3>5 DEF NumbersAreDense
    <3>6. ASSUME NEW q \in Created'
          PROVE  1..invoice'[q].number \subseteq Numbers(Tenant(q))'
      <4>1. CASE q = r
        BY <2>1, <3>3, <4>1
      <4>2. CASE q # r
        BY <2>1, <2>2, <3>2, <4>2 DEF NumbersAreDense
      <4>3. QED
        BY <4>1, <4>2
    <3>7. QED
      BY <3>5, <3>6 DEF NumbersAreDense
  <2>8. BilledOnce'
    <3>1. \A q \in Created : \A l \in invoice[q].lines : l \in BilledLines
      BY DEF BilledLines
    <3>2. ASSUME NEW l \in lines[r], NEW q \in Created, NEW m \in invoice[q].lines
          PROVE  ~(l.task = m.task /\ l.code = m.code)
      BY <1>9, <3>1, <3>2 DEF Insert, Violates, Billed
    <3>3. ASSUME NEW l \in lines[r], NEW m \in lines[r],
                 l.task = m.task, l.code = m.code
          PROVE  l = m
      BY <1>9, <3>3 DEF Insert, Violates
    <3>4. \A q \in Created : q # r /\ q \in Runs
      BY <2>1 DEF Created
    <3>5. ASSUME NEW p \in Created', NEW q \in Created',
                 NEW l \in invoice'[p].lines, NEW m \in invoice'[q].lines,
                 l.task = m.task, l.code = m.code
          PROVE  p = q /\ l = m
      <4>1. CASE p = r /\ q = r
        BY <2>1, <3>3, <3>5, <4>1
      <4>2. CASE p = r /\ q # r
        <5>1. invoice'[p].lines = lines[r] /\ q \in Created /\ invoice'[q].lines = invoice[q].lines
          BY <2>1, <3>4, <4>2
        <5>2. QED
          BY <3>2, <3>5, <5>1
      <4>3. CASE p # r /\ q = r
        <5>1. invoice'[q].lines = lines[r] /\ p \in Created /\ invoice'[p].lines = invoice[p].lines
          BY <2>1, <3>4, <4>3
        <5>2. QED
          BY <3>2, <3>5, <5>1
      <4>4. CASE p # r /\ q # r
        BY <2>1, <3>4, <3>5, <4>4 DEF BilledOnce
      <4>5. QED
        BY <4>1, <4>2, <4>3, <4>4
    <3>6. QED
      BY <3>5 DEF BilledOnce
  <2>9. QED
    BY <1>0, <2>3, <2>5, <2>6, <2>7, <2>8
<1>10. ASSUME NEW r \in Runs, Upload(r) PROVE IInv'
  BY <1>0, <1>10, SameStep, SameInvoices DEF Upload, TypeOK, runVars
<1>11. ASSUME NEW r \in Runs, Finalize(r) PROVE IInv'
  <2>1. /\ Created' = Created
        /\ \A q \in Created : q \in Runs /\ invoice'[q].number = invoice[q].number
                              /\ invoice'[q].lines = invoice[q].lines
    BY <1>11 DEF Finalize, Created, TypeOK, Invoice
  <2>2. ASSUME NEW n, NEW k PROVE k \in Numbers(n)' <=> k \in Numbers(n)
    <3>1. k \in Numbers(n)' <=> \E q \in Created' : Tenant(q) = n /\ invoice'[q].number = k
      BY TakenNumbers
    <3>2. k \in Numbers(n) <=> \E q \in Created : Tenant(q) = n /\ invoice[q].number = k
      BY TakenNumbers
    <3>3. QED
      BY <2>1, <3>1, <3>2
  <2>3. NumbersAreDense'
    <3>1. ASSUME NEW p \in Created, NEW q \in Created, Tenant(p) = Tenant(q),
                 invoice'[p].number = invoice'[q].number
          PROVE  p = q
      BY <2>1, <3>1 DEF NumbersAreDense
    <3>2. ASSUME NEW q \in Created
          PROVE  1..invoice'[q].number \subseteq Numbers(Tenant(q))'
      <4>1. 1..invoice[q].number \subseteq Numbers(Tenant(q))
        BY DEF NumbersAreDense
      <4>2. QED
        BY <2>1, <2>2, <4>1
    <3>3. QED
      BY <2>1, <3>1, <3>2 DEF NumbersAreDense
  <2>4. BilledOnce'
    BY <2>1 DEF BilledOnce
  <2>5. LockOK' /\ NextOK'
    BY <1>11, <2>2 DEF Finalize, TypeOK, runVars
  <2>6. CreatedOK'
    BY <1>11 DEF Finalize, TypeOK, Invoice
  <2>7. QED
    BY <1>0, <2>3, <2>4, <2>5, <2>6
<1>12. ASSUME NEW r \in Runs, DbError(r) \/ Crash(r) PROVE IInv'
  <2>1. LockOK'
    <3>1. PICK l \in {"failed", "killed"} : lock' = Unlocked(r) /\ pc' = [pc EXCEPT ![r] = l]
      BY <1>12 DEF DbError, Crash, Goto
    <3>2. QED
      BY <1>0, <3>1, UnlockedOthers
  <2>2. NextOK' /\ CreatedOK'
    BY <1>12, SameInvoices DEF DbError, Crash, TypeOK, runVars
  <2>3. QED
    BY <1>0, <1>12, <2>1, <2>2, SameStep DEF DbError, Crash
<1>13. CASE UNCHANGED vars
  BY <1>0, <1>13, SameStep, SameInvoices DEF vars, runVars
<1>14. QED
  BY <1>1, <1>2, <1>3, <1>4, <1>5, <1>6, <1>7, <1>8, <1>9, <1>10, <1>11, <1>12,
     <1>13 DEF Next, Step

LEMMA AlwaysIInv == Spec => []IInv
  BY InitIInv, StepIInv, PTL DEF Spec

(* Every reachable state is well typed; in particular every line has a     *)
(* price the list may hold, and an invoice has a positive number.          *)
THEOREM TypeCorrect == Spec => []TypeOK
  BY AlwaysIInv, PTL DEF IInv

(* The invoice numbers of every tenant are 1, 2, ... without a repetition  *)
(* and without a gap, whatever runs at the same time, fails or is killed.  *)
THEOREM DenseNumbers == Spec => []NumbersAreDense
  BY AlwaysIInv, PTL DEF IInv

(* A price code of a task is on at most one line of all invoices.          *)
THEOREM NoDoubleBilling == Spec => []BilledOnce
  BY AlwaysIInv, PTL DEF IInv

(* The numbers of every tenant are sound, for any number of runs.          *)
THEOREM NumbersSound == Spec => []NumbersAreSound
  BY TypeCorrect, DenseNumbers, PTL DEF NumbersAreSound

-----------------------------------------------------------------------------
(* Why 409 can be believed.                                                *)

(* The lines of a run are items of the tasks it picked, each item once.    *)
LinesOK ==
  \A r \in Runs :
    /\ pc[r] \in {"idle", "tasks", "prices"} => lines[r] = {}
    /\ \A l \in lines[r] : /\ l.task \in picked[r] /\ l.pos \in DOMAIN Checklist[l.task]
                           /\ l.code = Checklist[l.task][l.pos]
    /\ \A l, m \in lines[r] : l.task = m.task /\ l.pos = m.pos => l = m

(* An invoice stays, with its lines. *)
LEMMA InvoiceStays ==
  ASSUME IInv, [Next]_vars, NEW q \in Created
  PROVE  q \in Created' /\ invoice'[q].lines = invoice[q].lines
<1>2. q \in Runs /\ invoice[q] # NoInvoice
  BY DEF Created
<1>3. invoice'[q] # NoInvoice /\ invoice'[q].lines = invoice[q].lines
  <2>1. CASE UNCHANGED invoice
    BY <1>2, <2>1
  <2>2. ASSUME NEW r \in Runs, Insert(r) PROVE q # r /\ invoice'[q] = invoice[q]
    BY <1>2, <2>2 DEF Insert, IInv, TypeOK, CreatedOK
  <2>3. ASSUME NEW r \in Runs, Finalize(r), q # r PROVE invoice'[q] = invoice[q]
    BY <1>2, <2>3 DEF Finalize, IInv, TypeOK
  <2>4. ASSUME Finalize(q)
        PROVE  invoice'[q] # NoInvoice /\ invoice'[q].lines = invoice[q].lines
    BY <1>2, <2>4 DEF Finalize, IInv, TypeOK, Invoice
  <2> QED
    BY <1>2, <2>1, <2>2, <2>3, <2>4
    DEF Next, Step, Close, EditPrice, ReadBilled, ReadTasks, ReadPrices, Lock, Number,
        Refused, Upload, DbError, Crash, vars
<1> QED BY <1>2, <1>3 DEF Created

LEMMA LinesStep == IInv /\ LinesOK /\ [Next]_vars => LinesOK'
<1> SUFFICES ASSUME IInv, LinesOK, [Next]_vars PROVE LinesOK'
  OBVIOUS
<1>1. ASSUME NEW r \in Runs, ReadTasks(r) PROVE LinesOK'
  <2>1. lines[r] = {} /\ lines' = lines
    BY <1>1 DEF ReadTasks, LinesOK
  <2>2. \A q \in Runs : q # r => picked'[q] = picked[q] /\ pc'[q] = pc[q]
    BY <1>1 DEF ReadTasks, Goto, IInv, TypeOK
  <2> QED BY <2>1, <2>2 DEF LinesOK
<1>2. ASSUME NEW r \in Runs, ReadPrices(r) PROVE LinesOK'
  <2>1. /\ lines'[r] = Priced(r) /\ pc'[r] \notin {"idle", "tasks", "prices"}
        /\ picked' = picked
        /\ \A q \in Runs : q # r => lines'[q] = lines[q] /\ pc'[q] = pc[q]
    BY <1>2 DEF ReadPrices, Goto, IInv, TypeOK
  <2>2. \A l \in Priced(r) : /\ l.task \in picked[r] /\ l.pos \in DOMAIN Checklist[l.task]
                             /\ l.code = Checklist[l.task][l.pos]
                             /\ l = [task |-> l.task, pos |-> l.pos,
                                     code |-> Checklist[l.task][l.pos],
                                     amount |-> price[Tenant(r)][Checklist[l.task][l.pos]]]
    BY DEF Priced
  <2>3. \A l, m \in Priced(r) : l.task = m.task /\ l.pos = m.pos => l = m
    BY <2>2, Zenon
  <2> QED BY <2>1, <2>2, <2>3 DEF LinesOK
<1>3. CASE /\ UNCHANGED <<lines, picked>>
           /\ \A q \in Runs : pc'[q] \in {"idle", "tasks", "prices"} =>
                                pc[q] \in {"idle", "tasks", "prices"}
  BY <1>3 DEF LinesOK
<1>4. ASSUME NEW r \in Runs,
             ReadBilled(r) \/ Lock(r) \/ Number(r) \/ Refused(r) \/ Insert(r) \/ Upload(r)
               \/ Finalize(r) \/ DbError(r) \/ Crash(r)
      PROVE  /\ UNCHANGED <<lines, picked>>
             /\ \A q \in Runs : pc'[q] \in {"idle", "tasks", "prices"} =>
                                  pc[q] \in {"idle", "tasks", "prices"}
  BY <1>4 DEF ReadBilled, Lock, Number, Refused, Insert, Upload, Finalize, DbError, Crash,
              Goto, runVars, IInv, TypeOK
<1>5. ASSUME \/ \E t \in Tasks : Close(t)
             \/ \E n \in Tenants, c \in Codes, p \in Prices \cup {NoPrice} : EditPrice(n, c, p)
             \/ UNCHANGED vars
      PROVE  UNCHANGED <<lines, picked, pc>>
  BY <1>5 DEF Close, EditPrice, vars, runVars
<1> QED BY <1>1, <1>2, <1>3, <1>4, <1>5 DEF Next, Step

(* What a run found billed is excluded from what it picks, all of it.      *)
LookedOK ==
  \A r \in Runs :
    /\ pc[r] \in {"idle", "tasks"} => picked[r] = {}
    /\ \A t \in picked[r] : t \notin excluded[r]
    /\ \A q \in looked[r] : q \in Created /\ \A l \in invoice[q].lines : l.task \in excluded[r]

LEMMA LookedStep == IInv /\ LookedOK /\ [Next]_vars => LookedOK'
<1> SUFFICES ASSUME IInv, LookedOK, [Next]_vars PROVE LookedOK'
  OBVIOUS
<1>1. ASSUME NEW r \in Runs, ReadBilled(r) PROVE LookedOK'
  <2>1. /\ looked'[r] = InvoicesOf(Asks[r]) /\ UNCHANGED <<picked, invoice>> /\ picked[r] = {}
        /\ excluded'[r] = {t \in Tasks : \E q \in InvoicesOf(Asks[r]) :
                                          \E l \in invoice[q].lines : l.task = t}
        /\ \A q \in Runs \ {r} : looked'[q] = looked[q] /\ excluded'[q] = excluded[q] /\ pc'[q] = pc[q]
    BY <1>1 DEF ReadBilled, Goto, IInv, TypeOK, LookedOK
  <2>2. Created' = Created /\ \A q \in Created : \A l \in invoice[q].lines : l.task \in Tasks
    BY <2>1 DEF Created, IInv, TypeOK, Invoice, Line
  <2>3. ASSUME NEW q \in looked'[r], NEW l \in invoice[q].lines PROVE q \in Created /\ l.task \in excluded'[r]
    <3>1. q \in InvoicesOf(Asks[r]) /\ q \in Created
      BY <2>1, <2>3 DEF InvoicesOf
    <3> QED BY <2>1, <2>2, <3>1
  <2>4. \A q \in looked'[r] : q \in Created
    BY <2>1 DEF InvoicesOf
  <2> QED BY <2>1, <2>2, <2>3, <2>4 DEF LookedOK
<1>2. ASSUME NEW r \in Runs, ReadTasks(r) PROVE LookedOK'
  <2>1. /\ UNCHANGED <<excluded, looked, invoice>> /\ pc'[r] \notin {"idle", "tasks"}
        /\ \A t \in picked'[r] : t \notin excluded[r]
        /\ \A q \in Runs \ {r} : picked'[q] = picked[q] /\ pc'[q] = pc[q]
    BY <1>2 DEF ReadTasks, Goto, IInv, TypeOK
  <2>2. Created' = Created
    BY <2>1 DEF Created
  <2> QED BY <2>1, <2>2 DEF LookedOK
<1>3. CASE /\ UNCHANGED <<picked, excluded, looked>>
           /\ \A q \in Runs : pc'[q] \in {"idle", "tasks"} => pc[q] \in {"idle", "tasks"}
  <2>1. \A q \in Created : q \in Created' /\ invoice'[q].lines = invoice[q].lines
    BY InvoiceStays
  <2> QED BY <1>3, <2>1 DEF LookedOK
<1>4. ASSUME NEW r \in Runs,
             ReadPrices(r) \/ Lock(r) \/ Number(r) \/ Refused(r) \/ Insert(r) \/ Upload(r)
               \/ Finalize(r) \/ DbError(r) \/ Crash(r)
      PROVE  /\ UNCHANGED <<picked, excluded, looked>>
             /\ \A q \in Runs : pc'[q] \in {"idle", "tasks"} => pc[q] \in {"idle", "tasks"}
  BY <1>4 DEF ReadPrices, Lock, Number, Refused, Insert, Upload, Finalize, DbError, Crash,
              Goto, runVars, IInv, TypeOK
<1>5. ASSUME \/ \E t \in Tasks : Close(t)
             \/ \E n \in Tenants, c \in Codes, p \in Prices \cup {NoPrice} : EditPrice(n, c, p)
             \/ UNCHANGED vars
      PROVE  UNCHANGED <<picked, excluded, looked, pc>>
  BY <1>5 DEF Close, EditPrice, vars, runVars
<1> QED BY <1>1, <1>2, <1>3, <1>4, <1>5 DEF Next, Step

(* An item of r that a run has billed whose invoice r did not find.        *)
Overtaken(r) ==
  \E q \in Created \ looked[r] : \E l \in lines[r], m \in invoice[q].lines :
    l.task = m.task /\ l.code = m.code

LEMMA OvertakenStays ==
  ASSUME IInv, [Next]_vars, NEW r \in Runs, Overtaken(r),
         lines'[r] = lines[r], looked'[r] = looked[r]
  PROVE  Overtaken(r)'
<1>1. PICK q \in Created \ looked[r] : \E l \in lines[r], m \in invoice[q].lines :
        l.task = m.task /\ l.code = m.code
  BY DEF Overtaken
<1>2. q \in Created' /\ invoice'[q].lines = invoice[q].lines
  BY InvoiceStays
<1> QED BY <1>1, <1>2 DEF Overtaken

(* A run meets 409 because of a line that another has billed since, unless *)
(* one of its own tasks names a code twice.                                *)
LEMMA ConflictStep ==
  IInv /\ LinesOK /\ LookedOK /\ ConflictMeansRace /\ [Next]_vars => ConflictMeansRace'
<1> SUFFICES ASSUME IInv, LinesOK, LookedOK, ConflictMeansRace, [Next]_vars,
                    NEW r \in Runs, pc'[r] = "conflict",
                    \A t \in picked'[r] : NamesCodesOnce(t)
             PROVE  invoice'[r] = NoInvoice /\ Overtaken(r)'
  BY DEF ConflictMeansRace, NamesCodesOnce, Overtaken
<1>1. CASE pc[r] = "conflict"
  <2>1. /\ lines'[r] = lines[r] /\ picked'[r] = picked[r] /\ looked'[r] = looked[r]
        /\ invoice'[r] = invoice[r]
    BY <1>1 DEF Next, Step, Close, EditPrice, ReadBilled, ReadTasks, ReadPrices, Lock, Number,
        Refused, Insert, Upload, Finalize, DbError, Crash, vars, runVars, IInv, TypeOK
  <2>2. invoice[r] = NoInvoice /\ Overtaken(r)
    BY <1>1, <2>1 DEF ConflictMeansRace, Overtaken
  <2> QED BY <2>1, <2>2, OvertakenStays
<1>2. CASE pc[r] # "conflict"
  <2>1. Refused(r) /\ ~NumberTaken(r)
    BY <1>2 DEF Next, Step, Close, EditPrice, ReadBilled, ReadTasks, ReadPrices, Lock, Number,
        Refused, Insert, Upload, Finalize, DbError, Crash, Goto, vars, runVars, IInv, TypeOK
  <2>2. Violates(r) /\ UNCHANGED <<lines, picked, looked, invoice>> /\ invoice[r] = NoInvoice
    BY <2>1 DEF Refused, runVars, IInv, CreatedOK
  <2>3. CASE \E l \in lines[r] : Billed(l.task, l.code)
    <3>1. PICK l \in lines[r] : Billed(l.task, l.code)
      BY <2>3
    <3>2. PICK q \in Created : \E m \in invoice[q].lines : m.task = l.task /\ m.code = l.code
      BY <3>1 DEF Billed, BilledLines
    <3>3. q \notin looked[r]
      BY <3>2 DEF LookedOK, LinesOK
    <3>4. Overtaken(r)
      BY <3>2, <3>3 DEF Overtaken
    <3> QED BY <2>2, <3>4, OvertakenStays
  <2>4. CASE \E l, m \in lines[r] : l # m /\ l.task = m.task /\ l.code = m.code
    <3>1. PICK l \in lines[r], m \in lines[r] : l # m /\ l.task = m.task /\ l.code = m.code
      BY <2>4
    <3>2. NamesCodesOnce(l.task)
      BY <2>2 DEF LinesOK
    <3>3. l.pos = m.pos
      BY <3>1, <3>2 DEF LinesOK, NamesCodesOnce
    <3> QED BY <3>1, <3>3 DEF LinesOK
  <2> QED BY <2>2, <2>3, <2>4 DEF Violates
<1> QED BY <1>1, <1>2

(* Who is told 409 was overtaken: one of its items is on an invoice that   *)
(* did not exist when it read what was billed, and it made none itself.    *)
THEOREM ConflictIsRace == Spec => []ConflictMeansRace
<1>1. Init => LinesOK /\ LookedOK /\ ConflictMeansRace
  BY DEF Init, LinesOK, LookedOK, ConflictMeansRace
<1> QED BY <1>1, AlwaysIInv, LinesStep, LookedStep, ConflictStep, PTL DEF Spec

-----------------------------------------------------------------------------
(* The books: only finitely much has been made, billed or picked, nothing  *)
(* is closed that was not made, and just what is closed has a day, which   *)
(* is not to come.                                                         *)

LinesFinite ==
  IsFiniteSet(BilledLines) /\ \A r \in Runs : IsFiniteSet(lines[r]) /\ IsFiniteSet(picked[r])

BooksKept ==
  /\ day \in Nat
  /\ made \subseteq Tasks /\ IsFiniteSet(made) /\ closed \subseteq made
  /\ closedOn \in [Tasks -> Nat \cup {Never}]
  /\ \A t \in Tasks : closedOn[t] # Never => t \in closed
  /\ \A t \in closed : closedOn[t] \in Nat /\ closedOn[t] <= day
  /\ kept \subseteq Units
  /\ LinesFinite

(* The lines of one task, by their places in its checklist. *)
PlacesOf(r, t) == {k \in DOMAIN Checklist[t] : price[Tenant(r)][Checklist[t][k]] # NoPrice}
LineAt(r, t, k) ==
  [task |-> t, pos |-> k, code |-> Checklist[t][k], amount |-> price[Tenant(r)][Checklist[t][k]]]
LinesOf(r, t) == {LineAt(r, t, k) : k \in PlacesOf(r, t)}

(* The lines of a bill come from the checklists of its tasks, ... *)
LEMMA PricedByTask == ASSUME NEW r PROVE Priced(r) = UNION {LinesOf(r, t) : t \in picked[r]}
  BY DEF Priced, LinesOf, LineAt, PlacesOf

(* ... which have finitely many items. *)
LEMMA FinitePlaces ==
  ASSUME NEW r, NEW t \in Tasks
  PROVE  IsFiniteSet(DOMAIN Checklist[t]) /\ IsFiniteSet(PlacesOf(r, t))
<1>1. Checklist[t] \in Seq(Codes)
  OBVIOUS
<1>2. DOMAIN Checklist[t] = 1..Len(Checklist[t]) /\ Len(Checklist[t]) \in Nat
  BY <1>1
<1>3. IsFiniteSet(1..Len(Checklist[t]))
  BY <1>2, FS_Interval
<1>4. PlacesOf(r, t) \in SUBSET (DOMAIN Checklist[t])
  BY DEF PlacesOf
<1> QED  BY <1>2, <1>3, <1>4, FS_Subset

LEMMA FiniteLines ==
  ASSUME NEW r, NEW t \in Tasks
  PROVE  IsFiniteSet(LinesOf(r, t))
<1> DEFINE S == PlacesOf(r, t)
           e == [k \in S |-> LineAt(r, t, k)]
<1>1. IsFiniteSet(S)
  BY FinitePlaces
<1>2. LinesOf(r, t) = {e[k] : k \in S}
  BY DEF LinesOf
<1>3. IsFiniteSet(ImageOf(e, S))
  <2> HIDE DEF S, e
  <2> QED  BY <1>1, FiniteImage
<1> QED  BY <1>2, <1>3 DEF ImageOf

LEMMA PricedFinite ==
  ASSUME NEW r, picked[r] \subseteq Tasks, IsFiniteSet(picked[r])
  PROVE  IsFiniteSet(Priced(r))
<1> DEFINE S == picked[r]
           e == [t \in S |-> LinesOf(r, t)]
           L == ImageOf(e, S)
<1>1. IsFiniteSet(L)
  <2> HIDE DEF e
  <2> QED  BY FiniteImage
<1>2. \A s \in L : IsFiniteSet(s)
  <2> SUFFICES ASSUME NEW t \in picked[r] PROVE IsFiniteSet(LinesOf(r, t))
    BY DEF ImageOf
  <2> QED  BY FiniteLines
<1>3. L = {LinesOf(r, t) : t \in picked[r]}
  BY DEF ImageOf
<1>4. IsFiniteSet(UNION L)
  <2> HIDE DEF L
  <2> QED  BY <1>1, <1>2, FS_UNION
<1> QED  BY <1>3, <1>4, PricedByTask

(* No step of a request makes infinitely many lines. *)
LEMMA LinesStayFinite ==
  ASSUME TypeOK, LinesFinite, IsFiniteSet(closed), CreatedOK, [Next]_vars
  PROVE  LinesFinite'
<1>1. ASSUME NEW r \in Runs, ReadTasks(r) PROVE LinesFinite'
  <2>1. picked'[r] \in SUBSET closed /\ lines' = lines /\ invoice' = invoice
    BY <1>1 DEF ReadTasks, TypeOK
  <2>2. \A q \in Runs : q # r => picked'[q] = picked[q]
    BY <1>1 DEF ReadTasks, TypeOK
  <2>3. IsFiniteSet(picked'[r])
    BY <2>1, FS_Subset
  <2>4. BilledLines' = BilledLines
    BY <2>1 DEF BilledLines, Created
  <2> QED  BY <2>1, <2>2, <2>3, <2>4 DEF LinesFinite
<1>2. ASSUME NEW r \in Runs, ReadPrices(r) PROVE LinesFinite'
  <2>1. lines'[r] = Priced(r) /\ picked' = picked /\ invoice' = invoice
    BY <1>2 DEF ReadPrices, TypeOK
  <2>2. \A q \in Runs : q # r => lines'[q] = lines[q]
    BY <1>2 DEF ReadPrices, TypeOK
  <2>3. IsFiniteSet(Priced(r))
    BY PricedFinite DEF TypeOK, LinesFinite
  <2>4. BilledLines' = BilledLines
    BY <2>1 DEF BilledLines, Created
  <2> QED  BY <2>1, <2>2, <2>3, <2>4 DEF LinesFinite
<1>3. ASSUME NEW r \in Runs, Insert(r) PROVE LinesFinite'
  <2>1. lines' = lines /\ picked' = picked
    BY <1>3 DEF Insert, runVars
  <2>2. /\ invoice'[r] = [number |-> next[r], lines |-> lines[r], status |-> "DRAFT"]
        /\ \A q \in Runs : q # r => invoice'[q] = invoice[q]
    BY <1>3 DEF Insert, TypeOK
  <2>3. invoice'[r].lines = lines[r]
    BY <2>2
  <2>4. BilledLines' \in SUBSET (BilledLines \cup lines[r])
    BY <2>2, <2>3 DEF BilledLines, Created
  <2>5. IsFiniteSet(BilledLines \cup lines[r])
    BY FS_Union DEF LinesFinite
  <2>6. IsFiniteSet(BilledLines')
    <3> HIDE DEF BilledLines
    <3> QED  BY <2>4, <2>5, FS_Subset
  <2> QED  BY <2>1, <2>6 DEF LinesFinite
<1>4. ASSUME NEW r \in Runs, Finalize(r) PROVE LinesFinite'
  <2>1. lines' = lines /\ picked' = picked
    BY <1>4 DEF Finalize, runVars
  <2>2. invoice[r] # NoInvoice
    BY <1>4 DEF Finalize, CreatedOK
  <2>3. /\ invoice'[r].lines = invoice[r].lines
        /\ \A q \in Runs : q # r => invoice'[q] = invoice[q]
    BY <1>4 DEF Finalize, TypeOK
  <2>4. BilledLines' \in SUBSET BilledLines
    BY <2>2, <2>3 DEF BilledLines, Created
  <2>5. IsFiniteSet(BilledLines')
    BY <2>4, FS_Subset DEF LinesFinite
  <2> QED  BY <2>1, <2>5 DEF LinesFinite
<1>5. CASE UNCHANGED <<invoice, lines, picked>>
  BY <1>5 DEF LinesFinite, BilledLines, Created
<1>6. ASSUME NEW r \in Runs, ReadBilled(r) \/ Lock(r) \/ Number(r) \/ Refused(r) \/ Upload(r)
               \/ DbError(r) \/ Crash(r)
      PROVE  UNCHANGED <<invoice, lines, picked>>
  BY <1>6 DEF ReadBilled, Lock, Number, Refused, Upload, DbError, Crash, runVars
<1>7. ASSUME \/ \E t \in Tasks : Close(t)
             \/ \E n \in Tenants, c \in Codes, p \in Prices \cup {NoPrice} : EditPrice(n, c, p)
             \/ UNCHANGED vars
      PROVE  UNCHANGED <<invoice, lines, picked>>
  BY <1>7 DEF Close, EditPrice, vars, runVars
<1> QED  BY <1>1, <1>2, <1>3, <1>4, <1>5, <1>6, <1>7 DEF Next, Step

(* To invoicing, a step of the books or of a page is one of its own or none. *)
LEMMA BriefStepIsNext == BriefAssumption /\ BriefNext => [Next]_vars
<1> SUFFICES ASSUME BriefAssumption, BriefNext PROVE [Next]_vars
  OBVIOUS
<1>1. ASSUME BookStep PROVE [Next]_vars
  <2>1. ASSUME NEW t \in Tasks, Arrives(t) \/ AskToMove(t) PROVE UNCHANGED vars
    BY <2>1 DEF Arrives, AskToMove
  <2>2. ASSUME NEW t \in Tasks, Complete(t) PROVE Next
    BY <2>2 DEF Complete, Next
  <2>3. ASSUME NEW t \in Tasks, NEW d, Schedule(t, d) PROVE UNCHANGED vars
    BY <2>3 DEF Schedule
  <2>4. ASSUME NextDay PROVE UNCHANGED vars
    BY <2>4 DEF NextDay
  <2>5. ASSUME NEW c \in Codes, NEW p \in Prices \cup {NoPrice}, EditPrice(Home, c, p) PROVE Next
    BY <2>5 DEF Next, BriefAssumption
  <2>6. ASSUME NEW r \in Runs, ReadBilled(r) \/ Step(r) PROVE Next
    BY <2>6 DEF Next
  <2> QED  BY <1>1, <2>1, <2>2, <2>3, <2>4, <2>5, <2>6 DEF BookStep
<1>2. ASSUME BriefBegins \/ BriefReads \/ BriefFails PROVE UNCHANGED vars
  BY <1>2 DEF BriefBegins, BriefReads, BriefFails
<1> QED  BY <1>1, <1>2 DEF BriefNext

(* The books are kept in the beginning, and by every step. *)
LEMMA BooksInit == BriefAssumption /\ Init /\ BriefInit => BooksKept
<1> SUFFICES ASSUME BriefAssumption, Init, BriefInit PROVE BooksKept
  OBVIOUS
<1>1. Created = {} /\ BilledLines = {}
  BY DEF Init, Created, BilledLines
<1>2. LinesFinite
  BY <1>1, FS_EmptySet DEF LinesFinite, Init
<1> QED  BY <1>2, FS_EmptySet DEF BooksKept, BriefInit, Init

LEMMA BooksStep == BriefAssumption /\ IInv /\ BooksKept /\ [BriefNext]_briefVars => BooksKept'
<1> SUFFICES ASSUME BriefAssumption, IInv, BooksKept, [BriefNext]_briefVars PROVE BooksKept'
  OBVIOUS
<1>1. [Next]_vars
  BY BriefStepIsNext DEF briefVars
<1>2. IsFiniteSet(closed)
  BY FS_Subset DEF BooksKept
<1>3. LinesFinite'
  BY <1>1, <1>2, LinesStayFinite DEF BooksKept, IInv
<1>4. closed \subseteq Tasks /\ Never \notin Nat
  BY DEF IInv, TypeOK, BriefAssumption
<1>5. ASSUME NEW t \in Tasks, Arrives(t) PROVE BooksKept'
  <2>1. made' = made \cup {t} /\ UNCHANGED <<closed, day, closedOn, kept>>
    BY <1>5 DEF Arrives, vars
  <2>2. IsFiniteSet(made')
    BY <2>1, FS_AddElement DEF BooksKept
  <2> QED  BY <1>3, <2>1, <2>2 DEF BooksKept
<1>6. ASSUME NEW t \in Tasks, Complete(t) PROVE BooksKept'
  <2>1. /\ closed' = closed \cup {t} /\ t \in made
        /\ closedOn' = [closedOn EXCEPT ![t] = day]
        /\ UNCHANGED <<day, made, kept>>
    BY <1>6 DEF Complete, Close
  <2>2. day \in Nat /\ closedOn \in [Tasks -> Nat \cup {Never}]
    BY DEF BooksKept
  <2>3. closedOn'[t] = day /\ \A u \in Tasks : u # t => closedOn'[u] = closedOn[u]
    BY <2>1, <2>2
  <2>4. closedOn' \in [Tasks -> Nat \cup {Never}]
    BY <2>1, <2>2
  <2>5. \A u \in Tasks : closedOn'[u] # Never => u \in closed'
    BY <2>1, <2>3 DEF BooksKept
  <2>6. \A u \in closed' : closedOn'[u] \in Nat /\ closedOn'[u] <= day'
    <3> SUFFICES ASSUME NEW u \in closed' PROVE closedOn'[u] \in Nat /\ closedOn'[u] <= day
      BY <2>1
    <3>1. CASE u = t
      BY <3>1, <2>2, <2>3
    <3>2. CASE u # t
      BY <3>2, <2>1, <2>3, <1>4 DEF BooksKept
    <3> QED  BY <3>1, <3>2
  <2> QED  BY <1>3, <2>1, <2>4, <2>5, <2>6 DEF BooksKept
<1>7. ASSUME NextDay PROVE BooksKept'
  <2>1. day' = day + 1 /\ UNCHANGED <<closed, made, closedOn, kept>>
    BY <1>7 DEF NextDay, vars
  <2>2. \A u \in closed' : closedOn'[u] \in Nat /\ closedOn'[u] <= day'
    BY <2>1 DEF BooksKept
  <2>3. day' \in Nat
    BY <2>1 DEF BooksKept
  <2> QED  BY <1>3, <2>1, <2>2, <2>3 DEF BooksKept
<1>8. CASE UNCHANGED <<closed, day, made, closedOn, kept>>
  BY <1>3, <1>8 DEF BooksKept
<1>9. ASSUME NEW t \in Tasks, AskToMove(t) \/ \E d : Schedule(t, d)
      PROVE  UNCHANGED <<closed, day, made, closedOn, kept>>
  BY <1>9 DEF AskToMove, Schedule, vars
<1>10. ASSUME UNCHANGED bookVars,
              \/ \E c \in Codes, p \in Prices \cup {NoPrice} : EditPrice(Home, c, p)
              \/ \E r \in Runs : ReadBilled(r) \/ Step(r)
       PROVE  UNCHANGED <<closed, day, made, closedOn, kept>>
  BY <1>10 DEF EditPrice, ReadBilled, Step, ReadTasks, ReadPrices, Lock, Number, Refused, Insert,
     Upload, Finalize, bookVars
<1>11. ASSUME BriefBegins \/ BriefReads \/ BriefFails \/ UNCHANGED briefVars
       PROVE  UNCHANGED <<closed, day, made, closedOn, kept>>
  BY <1>11 DEF BriefBegins, BriefReads, BriefFails, briefVars, bookVars, vars
<1> QED  BY <1>5, <1>6, <1>7, <1>8, <1>9, <1>10, <1>11 DEF BriefNext, BookStep

-----------------------------------------------------------------------------
(* What the screens take from the constants. *)
LEMMA Constants ==
  ASSUME BriefAssumption
  PROVE  /\ 0 \in MonthStarts /\ MonthStarts \subseteq Nat
         /\ Lookback \in Nat /\ WeekLength \in Nat /\ WeekLength < Lookback
         /\ DOMAIN Limit = {"today", "moves", "quotes", "unbilled", "facts", "list"}
         /\ \A s \in DOMAIN Limit : Limit[s] \in Nat /\ Limit[s] > 0
         /\ Parts \in [Tasks -> [cost : Nat, unknown : Nat]]
         /\ IsFiniteSet(Units) /\ Never \notin Nat
  BY DEF BriefAssumption

(* What a statement with a limit returns. *)
FoundRight(s, S) ==
  \A R \in Found(s, S) :
    /\ R \subseteq S /\ IsFiniteSet(R)
    /\ R = S \/ Full(s, R)
    /\ Fits(s, S) => R = S
    /\ R = {} => S = {}

LEMMA FoundIs ==
  ASSUME BriefAssumption, NEW s, NEW S, IsFiniteSet(S)
  PROVE  FoundRight(s, S)
<1> SUFFICES ASSUME NEW R \in Found(s, S)
             PROVE  /\ R \subseteq S /\ IsFiniteSet(R)
                    /\ R = S \/ Full(s, R)
                    /\ Fits(s, S) => R = S
                    /\ R = {} => S = {}
  BY DEF FoundRight
<1>1. CASE s \notin DOMAIN Limit
  <2>1. R = S
    BY <1>1 DEF Found
  <2> QED  BY <1>1, <2>1
<1>2. CASE s \in DOMAIN Limit
  <2> DEFINE n == Cardinality(S)
             m == Limit[s]
  <2>1. m \in Nat /\ m > 0
    BY <1>2, Constants
  <2>2. n \in Nat
    BY FS_CardinalityType
  <2>3. R \in kSubset(Min({n, m}), S)
    BY <1>2 DEF Found, Count
  <2>4. Full(s, R) <=> Cardinality(R) = m
    BY <1>2 DEF Full, Count
  <2>5. Fits(s, S) => n <= m
    BY <1>2 DEF Fits, Count
  <2> HIDE DEF n, m
  <2>6. (n <= m => Min({n, m}) = n) /\ (~(n <= m) => Min({n, m}) = m)
    BY <2>1, <2>2 DEF Min
  <2>7. R \in SUBSET S /\ Cardinality(R) = Min({n, m})
    BY <2>3 DEF kSubset
  <2>8. IsFiniteSet(R)
    BY <2>7, FS_Subset
  <2>9. Cardinality(R) = n => R = S
    BY <2>7, FS_Subset DEF n
  <2>10. R = {} => Cardinality(R) = 0
    BY FS_EmptySet
  <2>11. R = {} => S = {}
    <3> SUFFICES ASSUME R = {} PROVE S = {}
      OBVIOUS
    <3>1. Min({n, m}) = 0
      BY <2>7, <2>10
    <3>2. n = 0
      BY <3>1, <2>1, <2>2, <2>6
    <3> QED  BY <2>7, <2>9, <2>10, <3>2
  <2> QED  BY <2>4, <2>5, <2>6, <2>7, <2>8, <2>9, <2>11
<1> QED  BY <1>1, <1>2

(* The figures, as sums of functions. *)

PriceAt(of) == [c \in Codes |-> IF of[c] = NoPrice THEN 0 ELSE of[c]]
CodesOf(t) == {Checklist[t][k] : k \in DOMAIN Checklist[t]}
Est == [t \in Tasks |-> EstimateFromChecklist(t, price[Home])]
Bill == [t \in Tasks |-> BilledFor(t)]

LEMMA PriceListType ==
  ASSUME BriefAssumption, TypeOK
  PROVE  /\ price[Home] \in [Codes -> Nat \cup {NoPrice}]
         /\ PriceAt(price[Home]) \in [Codes -> Nat]
<1>1. price[Home] \in [Codes -> Prices \cup {NoPrice}] /\ Prices \subseteq Nat
  BY DEF TypeOK, BriefAssumption
<1>2. price[Home] \in [Codes -> Nat \cup {NoPrice}]
  BY <1>1
<1> QED  BY <1>2 DEF PriceAt

LEMMA FiniteCodes ==
  ASSUME NEW t \in Tasks
  PROVE  IsFiniteSet(CodesOf(t)) /\ CodesOf(t) \subseteq Codes
<1> DEFINE S == DOMAIN Checklist[t]
           e == Checklist[t]
<1>1. IsFiniteSet(S)
  BY FinitePlaces
<1>2. IsFiniteSet(ImageOf(e, S))
  <2> HIDE DEF S, e
  <2> QED  BY <1>1, FiniteImage
<1>3. Checklist[t] \in Seq(Codes)
  OBVIOUS
<1>4. CodesOf(t) \subseteq Codes
  BY <1>3 DEF CodesOf
<1> QED  BY <1>2, <1>4 DEF ImageOf, CodesOf

(* The estimate of a task is a number; it is 0 if nothing of it has a price. *)
LEMMA EstimateIs ==
  ASSUME BriefAssumption, TypeOK, NEW t \in Tasks
  PROVE  /\ EstimateFromChecklist(t, price[Home]) = SumFunctionOnSet(PriceAt(price[Home]), CodesOf(t))
         /\ EstimateFromChecklist(t, price[Home]) \in Nat
         /\ (\A c \in Codes : price[Home][c] = NoPrice) => EstimateFromChecklist(t, price[Home]) = 0
<1> DEFINE of == price[Home]
           S == CodesOf(t)
           f == PriceAt(of)
           g == [c \in S |-> IF of[c] = NoPrice THEN 0 ELSE of[c]]
<1>1. IsFiniteSet(S) /\ S \subseteq Codes /\ f \in [Codes -> Nat]
  BY FiniteCodes, PriceListType
<1>2. \A c \in S : f[c] \in Int /\ f[c] \in Nat /\ g[c] = f[c]
  BY <1>1 DEF PriceAt
<1>3. EstimateFromChecklist(t, of) = SumFunctionOnSet(g, S)
  BY DEF EstimateFromChecklist, Sum, CodesOf
<1>4. (\A c \in Codes : of[c] = NoPrice) => AllZero(f, S)
  BY <1>1 DEF AllZero, PriceAt
<1> HIDE DEF S, f, g
<1>5. SumFunctionOnSet(g, S) = SumFunctionOnSet(f, S)
  <2>1. \A c \in S : f[c] \in Int /\ g[c] = f[c]
    BY <1>2
  <2> QED  BY <1>1, <2>1, SumSame
<1>6. ZeroRight(f, S)
  <2>1. \A c \in S : f[c] \in Nat
    BY <1>2
  <2> QED  BY <1>1, <2>1, SumZero
<1> QED  BY <1>3, <1>4, <1>5, <1>6 DEF ZeroRight, S, f

LEMMA EstType == BriefAssumption /\ TypeOK => Est \in [Tasks -> Nat]
  BY EstimateIs DEF Est

(* The estimate of tasks is the sum of theirs. *)
LEMMA EstimateOfIs ==
  ASSUME BriefAssumption, TypeOK, NEW T \in SUBSET Tasks, IsFiniteSet(T)
  PROVE  /\ EstimateOf(T) = SumFunctionOnSet(Est, T) /\ EstimateOf(T) \in Nat
         /\ EstimateOf(T) = 0 <=> AllZero(Est, T)
<1> DEFINE g == [t \in T |-> EstimateFromChecklist(t, price[Home])]
<1>1. \A t \in T : Est[t] \in Int /\ Est[t] \in Nat /\ g[t] = Est[t]
  <2>1. Est \in [Tasks -> Nat]
    BY EstType
  <2>2. \A t \in Tasks : EstimateFromChecklist(t, price[Home]) = Est[t]
    BY DEF Est
  <2>3. \A t \in T : t \in Tasks /\ g[t] = EstimateFromChecklist(t, price[Home])
    OBVIOUS
  <2> HIDE DEF g
  <2> QED  BY <2>1, <2>2, <2>3
<1>2. EstimateOf(T) = SumFunctionOnSet(g, T)
  BY DEF EstimateOf, Sum
<1> HIDE DEF g
<1>3. SumFunctionOnSet(g, T) = SumFunctionOnSet(Est, T)
  BY <1>1, SumSame
<1>4. ZeroRight(Est, T)
  BY <1>1, SumZero
<1> QED  BY <1>2, <1>3, <1>4 DEF ZeroRight

LEMMA LineAmounts ==
  ASSUME BriefAssumption, TypeOK
  PROVE  BilledLines \subseteq Line /\ \A l \in BilledLines : l.amount \in Nat /\ l.task \in Tasks
<1>1. BilledLines \subseteq Line
  BY DEF BilledLines, Created, TypeOK, Invoice
<1>2. Prices \subseteq Nat
  BY DEF BriefAssumption
<1> QED  BY <1>1, <1>2 DEF Line

LEMMA BillType ==
  ASSUME BriefAssumption, TypeOK, BooksKept
  PROVE  Bill \in [Tasks -> Nat] /\ \A t \in Tasks \ BilledTasks : Bill[t] = 0
<1>1. IsFiniteSet(BilledLines)
  BY DEF BooksKept, LinesFinite
<1>2. ASSUME NEW t \in Tasks PROVE BilledFor(t) \in Nat /\ (t \notin BilledTasks => BilledFor(t) = 0)
  <2> DEFINE S == {l \in BilledLines : l.task = t}
             f == [l \in S |-> l.amount]
  <2>1. IsFiniteSet(S)
    <3>1. S \in SUBSET BilledLines
      OBVIOUS
    <3> HIDE DEF S
    <3> QED  BY <1>1, <3>1, FS_Subset
  <2>2. \A l \in S : f[l] \in Nat
    BY LineAmounts
  <2>3. BilledFor(t) = SumFunctionOnSet(f, S)
    BY DEF BilledFor, Sum
  <2>4. t \notin BilledTasks => S = {}
    BY DEF BilledTasks
  <2> HIDE DEF f, S
  <2>5. ZeroRight(f, S)
    BY <2>1, <2>2, SumZero
  <2> QED  BY <2>3, <2>4, <2>5, SumEmpty DEF ZeroRight
<1> QED  BY <1>2 DEF Bill

-----------------------------------------------------------------------------
(* What the report makes of its facts. *)

FactsRight(F) ==
  /\ IsFiniteSet(DOMAIN F) /\ DOMAIN F \subseteq Tasks
  /\ \A t \in DOMAIN F : F[t] \in Nat \cup {Never}

BilledIn(F) == {t \in DOMAIN F : F[t] # Never}
Rev(F) == [t \in DOMAIN F |-> RevenueOf(F, t)]

(* What a task of a report brought. *)
LEMMA RevType ==
  ASSUME BriefAssumption, TypeOK, NEW F, FactsRight(F)
  PROVE  /\ \A t \in DOMAIN F : Rev(F)[t] \in Nat
         /\ \A t \in DOMAIN F : Rev(F)[t] = IF F[t] = Never THEN Est[t] ELSE F[t]
<1>1. Est \in [Tasks -> Nat]
  BY EstType
<1> QED  BY <1>1 DEF Rev, RevenueOf, Est, FactsRight

(* The revenue is what was billed and the estimate of what was not. *)
LEMMA RevenueSplit ==
  ASSUME BriefAssumption, TypeOK, NEW F, FactsRight(F)
  PROVE  LET B == BilledIn(F)
             N == DOMAIN F \ B
         IN  /\ IsFiniteSet(B) /\ IsFiniteSet(N) /\ N \subseteq Tasks
             /\ LineOf(F).revenue = SumFunctionOnSet(Rev(F), DOMAIN F)
             /\ LineOf(F).revenue = SumFunctionOnSet(F, B) + EstimateOf(N)
             /\ SumFunctionOnSet(F, B) \in Int
             /\ LineOf(F).hasEstimates <=> EstimateOf(N) # 0
<1> DEFINE B == BilledIn(F)
           N == DOMAIN F \ B
           D == DOMAIN F
           h == Rev(F)
<1>1. B \in SUBSET D /\ N \in SUBSET D /\ B \cap N = {} /\ B \cup N = D /\ N \in SUBSET Tasks /\ IsFiniteSet(D)
  <2>1. B \subseteq D
    BY DEF BilledIn
  <2>2. D \subseteq Tasks /\ IsFiniteSet(D) /\ N = D \ B
    BY DEF FactsRight
  <2> HIDE DEF B, D, N
  <2> QED  BY <2>1, <2>2
<1>2. IsFiniteSet(B) /\ IsFiniteSet(N)
  <2> HIDE DEF B, N, D
  <2> QED  BY <1>1, FS_Subset
<1>3. /\ \A t \in D : h[t] \in Int
      /\ \A t \in B : F[t] \in Int /\ h[t] = F[t]
      /\ \A t \in N : Est[t] \in Int /\ h[t] = Est[t]
  <2>1. \A t \in D : h[t] \in Nat /\ h[t] = IF F[t] = Never THEN Est[t] ELSE F[t]
    <3> HIDE DEF D
    <3> QED  BY RevType DEF D
  <2>2. \A t \in D : (t \in B <=> F[t] # Never) /\ (t \in N <=> F[t] = Never)
    BY DEF BilledIn
  <2>3. \A t \in D : F[t] \in Nat \cup {Never} /\ Est[t] \in Nat
    <3>1. Est \in [Tasks -> Nat]
      BY EstType
    <3>2. D \subseteq Tasks /\ \A t \in D : F[t] \in Nat \cup {Never}
      BY DEF FactsRight
    <3> HIDE DEF D
    <3> QED  BY <3>1, <3>2
  <2> HIDE DEF B, N, D, h
  <2> QED  BY <1>1, <2>1, <2>2, <2>3
<1>4. LineOf(F).revenue = SumFunctionOnSet(h, D)
  BY DEF LineOf, Sum, Rev
<1>5. LineOf(F).hasEstimates <=> ~AllZero(Est, N)
  <2>1. LineOf(F).hasEstimates = \E t \in D : F[t] = Never /\ EstimateFromChecklist(t, price[Home]) # 0
    BY DEF LineOf
  <2>2. \A t \in D : EstimateFromChecklist(t, price[Home]) = Est[t]
    BY DEF FactsRight, Est
  <2>3. \A t \in D : t \in N <=> F[t] = Never
    BY DEF BilledIn
  <2> QED  BY <2>1, <2>2, <2>3 DEF AllZero
<1> HIDE DEF B, N, D, h
<1>6. EstimateOf(N) = SumFunctionOnSet(Est, N) /\ EstimateOf(N) \in Nat /\ (EstimateOf(N) = 0 <=> AllZero(Est, N))
  BY <1>1, <1>2, EstimateOfIs
<1>7. SumFunctionOnSet(h, B) = SumFunctionOnSet(F, B)
  BY <1>2, <1>3, SumSame
<1>8. SumFunctionOnSet(h, N) = SumFunctionOnSet(Est, N)
  BY <1>2, <1>3, SumSame
<1>9. SumFunctionOnSet(h, B \cup N) = SumFunctionOnSet(h, B) + SumFunctionOnSet(h, N)
  BY <1>1, <1>2, <1>3, SumJoin
<1>10. SumFunctionOnSet(F, B) \in Int
  BY <1>2, <1>3, SumInt
<1>11. LineOf(F).revenue = SumFunctionOnSet(F, B) + EstimateOf(N)
  BY <1>1, <1>4, <1>6, <1>7, <1>8, <1>9
<1>12. LineOf(F).hasEstimates <=> EstimateOf(N) # 0
  BY <1>5, <1>6
<1> QED  BY <1>1, <1>2, <1>4, <1>10, <1>11, <1>12 DEF B, N, D, h

(* Groups of a report add up. *)
LinesBy(T, key, L) == {[key |-> k, line |-> L[k]] : k \in {key[t] : t \in T}}
LinesSum(v, T, key, L, f) ==
  \A t \in T : v[[key |-> key[t], line |-> L[key[t]]]] = SumFunctionOnSet(f, Group(T, key, key[t]))

(* A sum over the lines of the groups is the sum over what they group. *)
LEMMA GroupsAdd ==
  ASSUME NEW T, IsFiniteSet(T), NEW f, IntOn(f, T), NEW key, NEW L, NEW v, LinesSum(v, T, key, L, f)
  PROVE  SumFunctionOnSet(v, LinesBy(T, key, L)) = SumFunctionOnSet(f, T)
<1> DEFINE K == ImageOf(key, T)
           e == [k \in K |-> [key |-> k, line |-> L[k]]]
           g == [k \in K |-> SumFunctionOnSet(f, Group(T, key, k))]
<1>1. IsFiniteSet(K)
  BY FiniteImage
<1>2. TellsApart(e, K)
  <2> SUFFICES ASSUME NEW j \in K, NEW k \in K, e[j] = e[k] PROVE j = k
    BY DEF TellsApart
  <2>1. e[j].key = j /\ e[k].key = k
    OBVIOUS
  <2> QED  BY <2>1
<1>3. Carries(e, K, g, v)
  BY DEF ImageOf, Carries, LinesSum
<1>4. IntOn(g, K)
  <2> SUFFICES ASSUME NEW k \in K PROVE g[k] \in Int
    BY DEF IntOn
  <2> DEFINE G == Group(T, key, k)
  <2>1. G \in SUBSET T
    BY DEF Group
  <2>2. IsFiniteSet(G) /\ \A t \in G : f[t] \in Int
    <3> HIDE DEF G
    <3> QED  BY <2>1, FS_Subset DEF IntOn
  <2>3. SumFunctionOnSet(f, G) \in Int
    <3> HIDE DEF G
    <3> QED  BY <2>2, SumInt
  <2> QED  BY <2>3
<1>5. GroupsOf(T, key, K)
  BY DEF ImageOf, GroupsOf
<1>6. SumsOf(g, K, f, T, key)
  BY DEF SumsOf
<1>7. LinesBy(T, key, L) = ImageOf(e, K)
  BY DEF ImageOf, LinesBy
<1> HIDE DEF K, e, g
<1>8. SumFunctionOnSet(v, ImageOf(e, K)) = SumFunctionOnSet(g, K)
  BY <1>1, <1>2, <1>3, <1>4, SumOverImages
<1>9. SumFunctionOnSet(g, K) = SumFunctionOnSet(f, T)
  BY <1>1, <1>5, <1>6, SumByGroups
<1> QED  BY <1>7, <1>8, <1>9

-----------------------------------------------------------------------------
(* Screens that speak of the same jobs. *)

(* What a report says of closed tasks. *)
LEMMA FactsAre ==
  ASSUME BriefAssumption, TypeOK, BooksKept, NEW T \in SUBSET closed
  PROVE  LET F == Facts(T) IN
         /\ DOMAIN F = T /\ FactsRight(F)
         /\ BilledIn(F) = T \cap BilledTasks
         /\ \A t \in BilledIn(F) : F[t] = Bill[t]
<1> DEFINE F == Facts(T)
<1>1. DOMAIN F = T
  BY DEF Facts
<1>2. T \in SUBSET made /\ IsFiniteSet(made) /\ T \subseteq Tasks
  BY DEF BooksKept, TypeOK
<1>3. IsFiniteSet(T)
  BY <1>2, FS_Subset
<1>4. \A t \in T : F[t] = IF t \in BilledTasks THEN Bill[t] ELSE Never
  BY <1>2 DEF Facts, Bill
<1>5. Bill \in [Tasks -> Nat] /\ Never \notin Nat
  BY BillType DEF BriefAssumption
<1> HIDE DEF F
<1>6. FactsRight(F)
  BY <1>1, <1>2, <1>3, <1>4, <1>5 DEF FactsRight
<1>7. BilledIn(F) = T \cap BilledTasks
  BY <1>1, <1>2, <1>4, <1>5 DEF BilledIn
<1> QED  BY <1>1, <1>4, <1>6, <1>7 DEF F

(* The reports of a period. *)
LEMMA ReportsAre ==
  ASSUME BriefAssumption, TypeOK, BooksKept, NEW period, NEW F \in Reports(period)
  PROVE  /\ DOMAIN F \in SUBSET closed /\ F = Facts(DOMAIN F) /\ FactsRight(F)
         /\ DOMAIN F \in Found("facts", JobsIn(period)) /\ IsFiniteSet(JobsIn(period))
<1>1. JobsIn(period) \in SUBSET closed /\ closed \in SUBSET made /\ IsFiniteSet(made)
  BY DEF JobsIn, BooksKept
<1>2. IsFiniteSet(JobsIn(period))
  BY <1>1, FS_Subset
<1>3. PICK T \in Found("facts", JobsIn(period)) : F = Facts(T)
  BY DEF Reports
<1>4. T \in SUBSET JobsIn(period)
  <2>1. FoundRight("facts", JobsIn(period))
    BY <1>2, FoundIs
  <2> QED  BY <1>3, <2>1 DEF FoundRight
<1>5. T \in SUBSET closed
  BY <1>1, <1>4
<1>6. DOMAIN Facts(T) = T /\ FactsRight(Facts(T))
  BY <1>5, FactsAre
<1> QED  BY <1>2, <1>3, <1>5, <1>6

LEMMA BilledForIs ==
  ASSUME BriefAssumption, TypeOK, BooksKept, NEW T \in SUBSET Tasks, IsFiniteSet(T)
  PROVE  Sum(BilledFor, T) = SumFunctionOnSet(Bill, T \cap BilledTasks)
<1> DEFINE g == [t \in T |-> BilledFor(t)]
           B == T \cap BilledTasks
           N == T \ BilledTasks
<1>1. Sum(BilledFor, T) = SumFunctionOnSet(g, T)
  BY DEF Sum
<1>2. \A t \in T : Bill[t] \in Int /\ g[t] = Bill[t]
  <2>1. Bill \in [Tasks -> Nat]
    BY BillType
  <2>2. \A t \in Tasks : BilledFor(t) = Bill[t]
    BY DEF Bill
  <2>3. \A t \in T : t \in Tasks /\ g[t] = BilledFor(t)
    OBVIOUS
  <2> HIDE DEF g
  <2> QED  BY <2>1, <2>2, <2>3
<1>3. B \cup N = T /\ B \cap N = {} /\ B \in SUBSET T /\ N \in SUBSET T
  OBVIOUS
<1>4. \A t \in N : Bill[t] \in Nat /\ Bill[t] = 0
  <2>1. Bill \in [Tasks -> Nat] /\ \A t \in Tasks \ BilledTasks : Bill[t] = 0
    BY BillType
  <2>2. \A t \in N : t \in Tasks \ BilledTasks
    OBVIOUS
  <2> HIDE DEF N
  <2> QED  BY <2>1, <2>2
<1> HIDE DEF g, B, N
<1>5. IsFiniteSet(B) /\ IsFiniteSet(N)
  BY <1>3, FS_Subset
<1>6. SumFunctionOnSet(g, T) = SumFunctionOnSet(Bill, T)
  BY <1>2, SumSame
<1>7. SumFunctionOnSet(Bill, B \cup N) = SumFunctionOnSet(Bill, B) + SumFunctionOnSet(Bill, N)
  BY <1>2, <1>3, <1>5, SumJoin
<1>8. SumFunctionOnSet(Bill, N) = 0
  <2>0. \A t \in N : Bill[t] \in Nat
    BY <1>4
  <2>1. ZeroRight(Bill, N)
    BY <2>0, <1>5, SumZero
  <2>2. AllZero(Bill, N)
    BY <1>4 DEF AllZero
  <2> QED  BY <2>1, <2>2 DEF ZeroRight
<1>9. SumFunctionOnSet(Bill, B) \in Int
  BY <1>2, <1>3, <1>5, SumInt
<1>10. SumFunctionOnSet(Bill, B \cup N) = SumFunctionOnSet(Bill, B)
  BY <1>7, <1>8, <1>9
<1> QED  BY <1>1, <1>3, <1>6, <1>10 DEF B

(* The total of a report, and the estimate of the jobs in it without a bill. *)
LEMMA EstimateAndRevenue ==
  ASSUME BriefAssumption, TypeOK, BooksKept, NEW rows \in SUBSET closed
  PROVE  LET total == LineOf(Facts(rows)) IN
         /\ EstimateOf(rows \ BilledTasks) + Sum(BilledFor, rows) = total.revenue
         /\ total.hasEstimates = (EstimateOf(rows \ BilledTasks) # 0)
         /\ total.revenue # Sum(BilledFor, rows) => "estimates" \in Caveats(total)
<1> DEFINE F == Facts(rows)
           total == LineOf(F)
           B == BilledIn(F)
           N == DOMAIN F \ B
           U == rows \ BilledTasks
<1>1. DOMAIN F = rows /\ FactsRight(F) /\ B = rows \cap BilledTasks /\ \A t \in B : F[t] = Bill[t]
  BY FactsAre
<1>2. N = U /\ rows \in SUBSET Tasks /\ IsFiniteSet(rows) /\ B \in SUBSET rows
  BY <1>1 DEF FactsRight
<1>3. IsFiniteSet(B)
  BY <1>2, FS_Subset
<1> HIDE DEF F, B, N, U
<1>4. Sum(BilledFor, rows) = SumFunctionOnSet(Bill, B)
  BY <1>1, <1>2, BilledForIs
<1>5. \A t \in B : Bill[t] \in Int /\ F[t] = Bill[t]
  <2>1. Bill \in [Tasks -> Nat]
    BY BillType
  <2>2. \A t \in B : t \in Tasks
    BY <1>2
  <2> QED  BY <1>1, <2>1, <2>2
<1>6. SumFunctionOnSet(F, B) = SumFunctionOnSet(Bill, B)
  BY <1>3, <1>5, SumSame
<1>7. /\ total.revenue = SumFunctionOnSet(F, B) + EstimateOf(N)
      /\ SumFunctionOnSet(F, B) \in Int
      /\ total.hasEstimates <=> EstimateOf(N) # 0
  BY <1>1, RevenueSplit DEF B, N
<1>8. IsFiniteSet(N) /\ N \in SUBSET Tasks
  BY <1>1, RevenueSplit DEF B, N
<1>9. EstimateOf(N) \in Nat
  BY <1>8, EstimateOfIs
<1>10. total.hasEstimates \in BOOLEAN
  BY DEF LineOf
<1> HIDE DEF total
<1>11. EstimateOf(U) + Sum(BilledFor, rows) = total.revenue
  BY <1>2, <1>4, <1>6, <1>7, <1>9
<1>12. total.hasEstimates = (EstimateOf(U) # 0)
  BY <1>2, <1>7, <1>10
<1>13. total.revenue # Sum(BilledFor, rows) => EstimateOf(U) # 0
  BY <1>2, <1>4, <1>6, <1>7, <1>9
<1>14. total.hasEstimates => "estimates" \in Caveats(total)
  BY DEF Caveats
<1>15. total.revenue # Sum(BilledFor, rows) => "estimates" \in Caveats(total)
  BY <1>2, <1>7, <1>13, <1>14
<1> QED  BY <1>11, <1>12, <1>15 DEF total, F, U

(* Of jobs the brief found, those that closed after the first of its days. *)
Shared(S) == {t \in S : closedOn[t] + Lookback > day}

(* The days that the pages ask for. *)
LEMMA DaysRight ==
  ASSUME BriefAssumption, BooksKept, TypeOK
  PROVE  /\ day \in Nat /\ \A t \in closed : closedOn[t] \in Nat /\ closedOn[t] <= day
         /\ MonthStart \in Nat /\ MonthStart <= day
         /\ Shared(Unbilled) = JobsIn(PeriodOf("90 days")) \ BilledTasks
         /\ ClosedThisMonth = JobsIn(PeriodOf("this month"))
         /\ ClosedThisMonth \cap JobsIn(PeriodOf("last month")) = {}
         /\ Recent(closedOn) \subseteq JobsIn(PeriodOf("90 days"))
<1>1. day \in Nat /\ \A t \in closed : closedOn[t] \in Nat /\ closedOn[t] <= day
  BY DEF BooksKept
<1>2. MonthStart \in Nat /\ MonthStart <= day
  <2> DEFINE S == {m \in MonthStarts : m <= day}
  <2>3. S \subseteq MonthStarts /\ MonthStarts \subseteq Nat /\ 0 \in MonthStarts /\ 0 <= day
    BY <1>1, Constants
  <2>1. S \subseteq Nat /\ 0 \in S /\ \A m \in S : m <= day
    BY <2>3
  <2> HIDE DEF S
  <2>2. Max(S) \in S
    BY <1>1, <2>1, MaxExists
  <2> QED  BY <2>1, <2>2 DEF MonthStart, S
<1>3. Lookback \in Nat /\ WeekLength \in Nat /\ WeekLength < Lookback
  BY Constants
<1> DEFINE low == day - Min({day, Lookback - 1})
<1>4. Min({day, Lookback - 1}) = IF day < Lookback THEN day ELSE Lookback - 1
  <2>1. CASE day < Lookback
    BY <2>1, <1>1, <1>3 DEF Min
  <2>2. CASE ~(day < Lookback)
    BY <2>2, <1>1, <1>3 DEF Min
  <2> QED  BY <2>1, <2>2
<1>5. \A d \in Nat : d + Lookback > day <=> low <= d
  BY <1>1, <1>3, <1>4
<1>6. PeriodOf("90 days") = <<low, day>> /\ PeriodOf("this month") = <<MonthStart, day>>
  BY DEF PeriodOf
<1>7. PeriodOf("last month")[2] = MonthStart - 1
  BY DEF PeriodOf
<1> HIDE DEF low
<1>12. /\ \A t : t \in JobsIn(PeriodOf("90 days")) <=> t \in closed /\ Ours(t) /\ low <= closedOn[t] /\ closedOn[t] <= day
       /\ \A t : t \in JobsIn(PeriodOf("this month")) <=>
            t \in closed /\ Ours(t) /\ MonthStart <= closedOn[t] /\ closedOn[t] <= day
       /\ \A t \in JobsIn(PeriodOf("last month")) : closedOn[t] <= MonthStart - 1
  <2>1. /\ <<low, day>>[1] = low /\ <<low, day>>[2] = day
        /\ <<MonthStart, day>>[1] = MonthStart /\ <<MonthStart, day>>[2] = day
    OBVIOUS
  <2> DEFINE q == PeriodOf("90 days")
             m == PeriodOf("this month")
             p == PeriodOf("last month")
  <2>2. q[1] = low /\ q[2] = day /\ m[1] = MonthStart /\ m[2] = day /\ p[2] = MonthStart - 1
    <3>1. q = <<low, day>> /\ m = <<MonthStart, day>> /\ p[2] = MonthStart - 1
      BY <1>6, <1>7
    <3> HIDE DEF q, m, p
    <3> QED  BY <2>1, <3>1
  <2> HIDE DEF q, m, p
  <2>3. \A t : t \in JobsIn(q) <=> t \in closed /\ Ours(t) /\ low <= closedOn[t] /\ closedOn[t] <= day
    BY <2>2 DEF JobsIn
  <2>4. \A t : t \in JobsIn(m) <=> t \in closed /\ Ours(t) /\ MonthStart <= closedOn[t] /\ closedOn[t] <= day
    BY <2>2 DEF JobsIn
  <2>5. \A t \in JobsIn(p) : closedOn[t] <= MonthStart - 1
    BY <2>2 DEF JobsIn
  <2> QED  BY <2>3, <2>4, <2>5 DEF q, m, p
<1>13. \A t \in closed : closedOn[t] + Lookback > day <=> low <= closedOn[t]
  BY <1>1, <1>5
<1>14. \A t \in closed : closedOn[t] >= MonthStart <=> MonthStart <= closedOn[t]
  BY <1>1, <1>2
<1>8. Shared(Unbilled) = JobsIn(PeriodOf("90 days")) \ BilledTasks
  <2>1. \A t : t \in Shared(Unbilled) <=>
          /\ t \in closed /\ Ours(t) /\ closedOn[t] + Lookback >= day /\ t \notin BilledTasks
          /\ closedOn[t] + Lookback > day
    BY DEF Unbilled, Shared
  <2>2. \A t : t \in Shared(Unbilled) <=> t \in JobsIn(PeriodOf("90 days")) /\ t \notin BilledTasks
    <3> SUFFICES ASSUME NEW t \in closed
                 PROVE  t \in Shared(Unbilled) <=> t \in JobsIn(PeriodOf("90 days")) /\ t \notin BilledTasks
      BY <1>12, <2>1
    <3>1. closedOn[t] <= day /\ (closedOn[t] + Lookback > day <=> low <= closedOn[t])
      BY <1>1, <1>13
    <3>2. closedOn[t] + Lookback > day => closedOn[t] + Lookback >= day
      BY <1>1, <1>3
    <3> QED  BY <1>12, <2>1, <3>1, <3>2
  <2> QED  BY <2>2
<1>9. ClosedThisMonth = JobsIn(PeriodOf("this month"))
  <2>1. \A t : t \in ClosedThisMonth <=> t \in closed /\ Ours(t) /\ closedOn[t] >= MonthStart
    BY DEF ClosedThisMonth
  <2>2. \A t : t \in ClosedThisMonth <=> t \in JobsIn(PeriodOf("this month"))
    <3> SUFFICES ASSUME NEW t \in closed PROVE t \in ClosedThisMonth <=> t \in JobsIn(PeriodOf("this month"))
      BY <1>12, <2>1
    <3>1. closedOn[t] <= day /\ (closedOn[t] >= MonthStart <=> MonthStart <= closedOn[t])
      BY <1>1, <1>14
    <3> QED  BY <1>12, <2>1, <3>1
  <2> DEFINE A == ClosedThisMonth
             C == JobsIn(PeriodOf("this month"))
  <2>3. \A t : t \in A <=> t \in C
    BY <2>2
  <2> HIDE DEF A, C
  <2>4. A = C
    BY <2>3, SetExtensionality, Zenon
  <2> QED  BY <2>4 DEF A, C
<1>10. ClosedThisMonth \cap JobsIn(PeriodOf("last month")) = {}
  <2> SUFFICES ASSUME NEW t \in closed, closedOn[t] >= MonthStart, closedOn[t] <= MonthStart - 1 PROVE FALSE
    BY <1>12 DEF ClosedThisMonth
  <2> QED  BY <1>1, <1>2
<1>11. Recent(closedOn) \subseteq JobsIn(PeriodOf("90 days"))
  <2> SUFFICES ASSUME NEW t \in Recent(closedOn) PROVE t \in JobsIn(PeriodOf("90 days"))
    OBVIOUS
  <2>1. t \in closed /\ Ours(t) /\ closedOn[t] + WeekLength >= day
    BY DEF Recent, BooksKept
  <2>3. closedOn[t] + Lookback > day
    BY <1>1, <1>3, <2>1
  <2>2. closedOn[t] <= day /\ low <= closedOn[t]
    BY <1>1, <1>13, <2>1, <2>3
  <2> QED  BY <1>12, <2>1, <2>2
<1> QED  BY <1>1, <1>2, <1>8, <1>9, <1>10, <1>11

(* A bill that takes its prices now comes to the estimate of its jobs. *)
LEMMA BillIsEstimate ==
  ASSUME BriefAssumption, TypeOK, BooksKept, NEW r \in Runs, Tenant(r) = Home,
         \A t \in picked[r] : NamesCodesOnce(t)
  PROVE  Sum(LAMBDA l : l.amount, Priced(r)) = EstimateOf(picked[r])
<1> DEFINE T == picked[r]
           S == Priced(r)
           f == [l \in S |-> l.amount]
           key == [l \in S |-> l.task]
           of == price[Home]
<1>1. T \in SUBSET Tasks /\ IsFiniteSet(T)
  BY DEF TypeOK, BooksKept, LinesFinite
<1>2. IsFiniteSet(S)
  BY <1>1, PricedFinite
<1>3. S \subseteq Line /\ Prices \subseteq Nat
  BY PricedType DEF BriefAssumption
<1>4. IntOn(f, S)
  <2>1. \A l \in Line : l.amount \in Prices
    BY DEF Line
  <2>2. \A l \in S : f[l] = l.amount
    OBVIOUS
  <2>3. \A l \in S : l.amount \in Int
    <3> SUFFICES ASSUME NEW l \in S PROVE l.amount \in Int
      OBVIOUS
    <3>1. l \in Line
      BY <1>3
    <3>2. l.amount \in Prices
      BY <2>1, <3>1
    <3>3. Prices \subseteq Int
      BY <1>3
    <3> QED  BY <3>2, <3>3
  <2> HIDE DEF S, f
  <2> QED  BY <2>2, <2>3 DEF IntOn
<1>5. GroupsOf(S, key, T)
  BY PricedByTask DEF GroupsOf, LinesOf, LineAt
<1>6. ASSUME NEW t \in T PROVE Est[t] = SumFunctionOnSet(f, Group(S, key, t))
  <2> DEFINE D == DOMAIN Checklist[t]
             P == PlacesOf(r, t)
             U == D \ P
             cl == Checklist[t]
             va == PriceAt(of)
             w == [k \in D |-> va[cl[k]]]
             e == [k \in P |-> LineAt(r, t, k)]
  <2>1. IsFiniteSet(D) /\ IsFiniteSet(P) /\ P \in SUBSET D /\ t \in Tasks /\ \A k \in D : cl[k] \in Codes
    <3>1. t \in Tasks /\ Checklist[t] \in Seq(Codes)
      BY <1>1
    <3>2. IsFiniteSet(D) /\ IsFiniteSet(P)
      BY <3>1, FinitePlaces
    <3> QED  BY <3>1, <3>2 DEF PlacesOf
  <2>2. va \in [Codes -> Nat] /\ of \in [Codes -> Nat \cup {NoPrice}]
    BY PriceListType
  <2>3. TellsApart(cl, D)
    BY DEF TellsApart, NamesCodesOnce
  <2>4. \A k \in D : w[k] \in Int /\ w[k] = va[cl[k]]
    BY <2>1, <2>2
  <2>5. Carries(cl, D, w, va)
    BY <2>4 DEF Carries
  <2>6. ImageOf(cl, D) = CodesOf(t)
    BY DEF ImageOf, CodesOf
  <2>7. Est[t] = SumFunctionOnSet(va, CodesOf(t))
    BY <2>1, EstimateIs DEF Est
  <2>8. \A k \in P : e[k] = LineAt(r, t, k) /\ e[k].pos = k /\ e[k].amount = of[cl[k]] /\ e[k].task = t
    BY DEF LineAt
  <2>9. TellsApart(e, P)
    <3> HIDE DEF e, P
    <3> SUFFICES ASSUME NEW x \in P, NEW y \in P, e[x] = e[y] PROVE x = y
      BY DEF TellsApart
    <3>1. e[x].pos = x /\ e[y].pos = y
      BY <2>8
    <3> QED  BY <3>1
  <2>10. ImageOf(e, P) = Group(S, key, t)
    <3>1. ImageOf(e, P) = LinesOf(r, t)
      BY DEF ImageOf, LinesOf
    <3>2. \A l : l \in S <=> \E u \in T : l \in LinesOf(r, u)
      BY PricedByTask
    <3>3. \A u, l : l \in LinesOf(r, u) => l.task = u
      BY DEF LinesOf, LineAt
    <3>4. \A l : l \in Group(S, key, t) <=> l \in S /\ l.task = t
      BY DEF Group
    <3> HIDE DEF S, T, e, P, key
    <3>5. \A l : l \in Group(S, key, t) <=> l \in LinesOf(r, t)
      <4> SUFFICES ASSUME NEW l PROVE l \in Group(S, key, t) <=> l \in LinesOf(r, t)
        OBVIOUS
      <4>1. ASSUME l \in Group(S, key, t) PROVE l \in LinesOf(r, t)
        <5>1. l \in S /\ l.task = t
          BY <3>4, <4>1
        <5>2. PICK u \in T : l \in LinesOf(r, u)
          BY <3>2, <5>1
        <5>3. l.task = u
          BY <3>3, <5>2
        <5> QED  BY <5>1, <5>2, <5>3
      <4>2. l \in LinesOf(r, t) => l \in S /\ l.task = t
        BY <3>2, <3>3
      <4> QED  BY <3>4, <4>1, <4>2
    <3>6. Group(S, key, t) = LinesOf(r, t)
      <4> DEFINE A == Group(S, key, t)
                 C == LinesOf(r, t)
      <4>1. \A l : l \in A <=> l \in C
        BY <3>5
      <4> HIDE DEF A, C
      <4>2. A = C
        BY <4>1, SetExtensionality, Zenon
      <4> QED  BY <4>2 DEF A, C
    <3> QED  BY <3>1, <3>6
  <2>11. \A k \in P : of[cl[k]] # NoPrice /\ w[k] = of[cl[k]]
    BY <2>1, <2>4 DEF PlacesOf, PriceAt
  <2>12. Carries(e, P, w, f)
    <3> SUFFICES ASSUME NEW k \in P PROVE f[e[k]] = w[k]
      BY DEF Carries
    <3>1. e[k] \in S
      <4>1. e[k] \in Group(S, key, t)
        <5> HIDE DEF e, P, S, key
        <5> QED  BY <2>10 DEF ImageOf
      <4> QED  BY <4>1 DEF Group
    <3>2. f[e[k]] = e[k].amount
      <4> HIDE DEF e, S
      <4> QED  BY <3>1
    <3> HIDE DEF e, f, w, va, P, S
    <3> QED  BY <2>8, <2>11, <3>2
  <2>13. \A k \in U : w[k] = 0 /\ w[k] \in Nat
    BY <2>1, <2>4 DEF PlacesOf, PriceAt
  <2>14. P \cap U = {} /\ P \cup U = D /\ U \in SUBSET D
    BY <2>1
  <2> HIDE DEF D, P, U, cl, va, w, e, S, T, f, key
  <2>15. IsFiniteSet(U)
    BY <2>1, <2>14, FS_Subset
  <2>22. IntOn(w, D) /\ IntOn(w, P)
    BY <2>4, <2>14 DEF IntOn
  <2>16. SumFunctionOnSet(va, ImageOf(cl, D)) = SumFunctionOnSet(w, D)
    BY <2>1, <2>3, <2>22, <2>5, SumOverImages
  <2>17. \A k \in P : w[k] \in Int
    BY <2>4, <2>14
  <2>18. SumFunctionOnSet(f, ImageOf(e, P)) = SumFunctionOnSet(w, P)
    BY <2>1, <2>9, <2>12, <2>22, SumOverImages
  <2>19. SumFunctionOnSet(w, P \cup U) = SumFunctionOnSet(w, P) + SumFunctionOnSet(w, U)
    BY <2>1, <2>4, <2>14, <2>15, SumJoin
  <2>20. SumFunctionOnSet(w, U) = 0
    <3>1. ZeroRight(w, U)
      <4>1. \A k \in U : w[k] \in Nat
        BY <2>13
      <4> QED  BY <4>1, <2>15, SumZero
    <3>2. AllZero(w, U)
      BY <2>13 DEF AllZero
    <3> QED  BY <3>1, <3>2 DEF ZeroRight
  <2>21. SumFunctionOnSet(w, P) \in Int
    BY <2>1, <2>17, SumInt
  <2>23. SumFunctionOnSet(w, P \cup U) = SumFunctionOnSet(w, P)
    BY <2>19, <2>20, <2>21
  <2>24. Est[t] = SumFunctionOnSet(w, D)
    BY <2>6, <2>7, <2>16
  <2>25. SumFunctionOnSet(f, Group(S, key, t)) = SumFunctionOnSet(w, P)
    BY <2>10, <2>18
  <2> QED  BY <2>14, <2>23, <2>24, <2>25
<1>7. SumsOf(Est, T, f, S, key)
  BY <1>6 DEF SumsOf
<1>8. EstimateOf(T) = SumFunctionOnSet(Est, T)
  BY <1>1, EstimateOfIs
<1>9. Sum(LAMBDA l : l.amount, S) = SumFunctionOnSet(f, S)
  BY DEF Sum
<1> HIDE DEF S, T, f, key
<1>10. SumFunctionOnSet(Est, T) = SumFunctionOnSet(f, S)
  BY <1>1, <1>2, <1>4, <1>5, <1>7, SumByGroups
<1> QED  BY <1>8, <1>9, <1>10 DEF S, T

-----------------------------------------------------------------------------
(* The groups of a report. *)

SubFacts(F, key, k) == [t \in Group(DOMAIN F, key, k) |-> F[t]]
Ones(T) == [t \in T |-> 1]
Costs == [t \in Tasks |-> Parts[t].cost]

(* A line of a report, ... *)
LEMMA LineIs ==
  ASSUME BriefAssumption, TypeOK, NEW F, FactsRight(F)
  PROVE  /\ LineOf(F).jobs = SumFunctionOnSet(Ones(DOMAIN F), DOMAIN F)
         /\ LineOf(F).revenue = SumFunctionOnSet(Rev(F), DOMAIN F)
         /\ LineOf(F).cost = SumFunctionOnSet(Costs, DOMAIN F)
         /\ IntOn(Ones(DOMAIN F), DOMAIN F) /\ IntOn(Rev(F), DOMAIN F) /\ IntOn(Costs, DOMAIN F)
<1> DEFINE T == DOMAIN F
           g == [t \in T |-> Parts[t].cost]
           o == Ones(T)
<1>1. IsFiniteSet(T) /\ T \subseteq Tasks
  BY DEF FactsRight
<1>2. \A t \in T : o[t] = 1
  BY DEF Ones
<1>3. \A t \in T : Costs[t] \in Int /\ g[t] = Costs[t]
  BY <1>1, Constants DEF Costs
<1>4. LineOf(F).jobs = Cardinality(T) /\ LineOf(F).cost = SumFunctionOnSet(g, T)
  BY DEF LineOf, Sum, Count
<1>5. LineOf(F).revenue = SumFunctionOnSet(Rev(F), T)
  BY DEF LineOf, Sum, Rev
<1>6. IntOn(Rev(F), T)
  BY RevType DEF IntOn
<1> HIDE DEF T, g, o
<1>7. SumFunctionOnSet(o, T) = Cardinality(T)
  BY <1>1, <1>2, SumOnes
<1>8. SumFunctionOnSet(g, T) = SumFunctionOnSet(Costs, T)
  BY <1>1, <1>3, SumSame
<1>9. IntOn(o, T) /\ IntOn(Costs, T)
  BY <1>2, <1>3 DEF IntOn
<1> QED  BY <1>4, <1>5, <1>6, <1>7, <1>8, <1>9 DEF T, o

(* ... one of a group of it, ... *)
LEMMA SubFactsAre ==
  ASSUME NEW F, FactsRight(F), NEW key, NEW k
  PROVE  /\ DOMAIN SubFacts(F, key, k) = Group(DOMAIN F, key, k)
         /\ FactsRight(SubFacts(F, key, k))
         /\ IsFiniteSet(Group(DOMAIN F, key, k))
         /\ \A t \in Group(DOMAIN F, key, k) : SubFacts(F, key, k)[t] = F[t] /\ t \in DOMAIN F
<1> DEFINE G == Group(DOMAIN F, key, k)
<1>1. G \in SUBSET (DOMAIN F) /\ IsFiniteSet(DOMAIN F) /\ DOMAIN F \subseteq Tasks
  BY DEF Group, FactsRight
<1>2. IsFiniteSet(G)
  <2> HIDE DEF G
  <2> QED  BY <1>1, FS_Subset
<1>3. DOMAIN SubFacts(F, key, k) = G /\ \A t \in G : SubFacts(F, key, k)[t] = F[t]
  BY DEF SubFacts
<1> HIDE DEF G
<1>4. FactsRight(SubFacts(F, key, k))
  BY <1>1, <1>2, <1>3 DEF FactsRight
<1> QED  BY <1>1, <1>2, <1>3, <1>4 DEF G

(* The line of a group sums over it. *)
SubLineRight(F, key, k) ==
  LET G == Group(DOMAIN F, key, k)
      l == LineOf(SubFacts(F, key, k))
  IN  /\ l.jobs = SumFunctionOnSet(Ones(DOMAIN F), G)
      /\ l.revenue = SumFunctionOnSet(Rev(F), G)
      /\ l.cost = SumFunctionOnSet(Costs, G)
      /\ l.partial <=> \E t \in G : Parts[t].unknown > 0
      /\ l.hasEstimates <=> \E t \in G : F[t] = Never /\ EstimateFromChecklist(t, price[Home]) # 0

LEMMA SubLineIs ==
  ASSUME BriefAssumption, TypeOK, NEW F, FactsRight(F), NEW key, NEW k
  PROVE  SubLineRight(F, key, k)
<1> DEFINE G == Group(DOMAIN F, key, k)
           H == SubFacts(F, key, k)
           l == LineOf(H)
<1>1. DOMAIN H = G /\ FactsRight(H) /\ IsFiniteSet(G) /\ \A t \in G : H[t] = F[t] /\ t \in DOMAIN F
  BY SubFactsAre
<1>2. /\ l.jobs = SumFunctionOnSet(Ones(DOMAIN H), DOMAIN H)
      /\ l.revenue = SumFunctionOnSet(Rev(H), DOMAIN H)
      /\ l.cost = SumFunctionOnSet(Costs, DOMAIN H)
  BY <1>1, LineIs
<1>3. \A t \in G : Ones(DOMAIN F)[t] \in Int /\ Ones(G)[t] = Ones(DOMAIN F)[t]
  BY <1>1 DEF Ones
<1>4. \A t \in G : Rev(F)[t] \in Int /\ Rev(H)[t] = Rev(F)[t]
  <2>1. \A t \in G : Rev(H)[t] = IF H[t] = Never THEN Est[t] ELSE H[t]
    <3> HIDE DEF G, H
    <3> QED  BY <1>1, RevType
  <2>2. \A t \in G : Rev(F)[t] \in Nat /\ Rev(F)[t] = IF F[t] = Never THEN Est[t] ELSE F[t]
    <3> HIDE DEF G, H
    <3> QED  BY <1>1, RevType
  <2> SUFFICES ASSUME NEW t \in G PROVE Rev(F)[t] \in Int /\ Rev(H)[t] = Rev(F)[t]
    OBVIOUS
  <2> HIDE DEF G, H
  <2>3. H[t] = F[t]
    BY <1>1
  <2>4. Rev(F)[t] \in Nat /\ Rev(H)[t] = Rev(F)[t]
    BY <2>1, <2>2, <2>3
  <2> QED  BY <2>4
<1>5. l.partial <=> \E t \in G : Parts[t].unknown > 0
  <2>1. l.partial = \E t \in DOMAIN H : Parts[t].unknown > 0
    BY DEF LineOf
  <2> QED  BY <1>1, <2>1
<1>6. l.hasEstimates <=> \E t \in G : F[t] = Never /\ EstimateFromChecklist(t, price[Home]) # 0
  <2>1. l.hasEstimates = \E t \in DOMAIN H : H[t] = Never /\ EstimateFromChecklist(t, price[Home]) # 0
    BY DEF LineOf
  <2> HIDE DEF G, H, l
  <2> QED  BY <1>1, <2>1
<1> HIDE DEF G, H, l
<1>7. SumFunctionOnSet(Ones(G), G) = SumFunctionOnSet(Ones(DOMAIN F), G)
  BY <1>1, <1>3, SumSame
<1>8. SumFunctionOnSet(Rev(H), G) = SumFunctionOnSet(Rev(F), G)
  BY <1>1, <1>4, SumSame
<1> QED  BY <1>1, <1>2, <1>5, <1>6, <1>7, <1>8 DEF G, H, l, SubLineRight

(* ... and all of these. *)
LEMMA AggregateIs ==
  ASSUME NEW F, NEW key
  PROVE  Aggregate(F, key) =
           LinesBy(DOMAIN F, key, [k \in {key[t] : t \in DOMAIN F} |-> LineOf(SubFacts(F, key, k))])
<1> DEFINE K == {key[t] : t \in DOMAIN F}
           M(k) == LineOf(SubFacts(F, key, k))
           L == [k \in K |-> M(k)]
           A == {[key |-> k, line |-> M(k)] : k \in K}
           B == {[key |-> k, line |-> L[k]] : k \in K}
<1>1. Aggregate(F, key) = A
  BY DEF Aggregate, SubFacts, Group
<1>2. \A k \in K : L[k] = M(k)
  OBVIOUS
<1>3. A \subseteq B /\ B \subseteq A
  <2> HIDE DEF K, M, L
  <2> QED  BY <1>2
<1> QED  BY <1>1, <1>3 DEF LinesBy

(* The groups of a report add up to its total. *)
LEMMA GroupsAgree ==
  ASSUME BriefAssumption, TypeOK, NEW F, FactsRight(F), NEW key
  PROVE  LET groups == Aggregate(F, key)
             total == LineOf(F)
         IN  /\ Sum(LAMBDA g : g.line.jobs, groups) = total.jobs
             /\ Sum(LAMBDA g : g.line.revenue, groups) = total.revenue
             /\ Sum(LAMBDA g : g.line.cost, groups) = total.cost
             /\ Caveats(total) = {"labour"} \cup UNION {Caveats(g.line) : g \in groups}
<1> DEFINE T == DOMAIN F
           K == {key[t] : t \in T}
           L == [k \in K |-> LineOf(SubFacts(F, key, k))]
           e(k) == [key |-> k, line |-> L[k]]
           groups == Aggregate(F, key)
           total == LineOf(F)
           vj == [g \in groups |-> g.line.jobs]
           vr == [g \in groups |-> g.line.revenue]
           vc == [g \in groups |-> g.line.cost]
           oj == Ones(T)
           or == Rev(F)
<1>0. groups = LinesBy(T, key, L)
  BY AggregateIs
<1>1. groups = {[key |-> k, line |-> L[k]] : k \in K}
  <2> HIDE DEF L, groups
  <2> QED  BY <1>0 DEF LinesBy
<1>2. IsFiniteSet(T)
  BY DEF FactsRight
<1>3. /\ total.jobs = SumFunctionOnSet(oj, T) /\ total.revenue = SumFunctionOnSet(or, T)
      /\ total.cost = SumFunctionOnSet(Costs, T)
      /\ IntOn(oj, T) /\ IntOn(or, T) /\ IntOn(Costs, T)
  BY LineIs
<1>4. \A k \in K : /\ L[k].jobs = SumFunctionOnSet(oj, Group(T, key, k))
                   /\ L[k].revenue = SumFunctionOnSet(or, Group(T, key, k))
                   /\ L[k].cost = SumFunctionOnSet(Costs, Group(T, key, k))
                   /\ L[k].partial <=> \E t \in Group(T, key, k) : Parts[t].unknown > 0
                   /\ L[k].hasEstimates <=> \E t \in Group(T, key, k) :
                        F[t] = Never /\ EstimateFromChecklist(t, price[Home]) # 0
  <2> TAKE k \in K
  <2> DEFINE l == LineOf(SubFacts(F, key, k))
             G == Group(T, key, k)
  <2>1. /\ l.jobs = SumFunctionOnSet(oj, G) /\ l.revenue = SumFunctionOnSet(or, G)
        /\ l.cost = SumFunctionOnSet(Costs, G)
        /\ l.partial <=> \E t \in G : Parts[t].unknown > 0
        /\ l.hasEstimates <=> \E t \in G : F[t] = Never /\ EstimateFromChecklist(t, price[Home]) # 0
    <3>1. SubLineRight(F, key, k)
      BY SubLineIs
    <3> QED  BY <3>1 DEF SubLineRight
  <2>2. L[k] = l
    OBVIOUS
  <2> HIDE DEF l, L, oj, or, G
  <2> QED  BY <2>1, <2>2 DEF G
<1>5. \A t \in T : key[t] \in K
  OBVIOUS
<1>6. /\ \A t \in T : [key |-> key[t], line |-> L[key[t]]] \in groups
      /\ \A t \in T : vj[[key |-> key[t], line |-> L[key[t]]]] = L[key[t]].jobs
      /\ \A t \in T : vr[[key |-> key[t], line |-> L[key[t]]]] = L[key[t]].revenue
      /\ \A t \in T : vc[[key |-> key[t], line |-> L[key[t]]]] = L[key[t]].cost
  <2> HIDE DEF L
  <2>1. \A t \in T : e(key[t]) \in groups
    <3> HIDE DEF groups
    <3> QED  BY <1>1
  <2>2. \A k : e(k).line = L[k]
    OBVIOUS
  <2> HIDE DEF e, groups
  <2>3. \A t \in T : /\ vj[e(key[t])] = L[key[t]].jobs /\ vr[e(key[t])] = L[key[t]].revenue
                     /\ vc[e(key[t])] = L[key[t]].cost
    BY <2>1, <2>2
  <2> HIDE DEF vj, vr, vc
  <2> QED  BY <2>1, <2>3 DEF e
<1>7. /\ Sum(LAMBDA g : g.line.jobs, groups) = SumFunctionOnSet(vj, groups)
      /\ Sum(LAMBDA g : g.line.revenue, groups) = SumFunctionOnSet(vr, groups)
      /\ Sum(LAMBDA g : g.line.cost, groups) = SumFunctionOnSet(vc, groups)
  <2> HIDE DEF groups
  <2> QED  BY DEF Sum
<1>8. Caveats(total) = {"labour"} \cup UNION {Caveats(g.line) : g \in groups}
  <2>1. /\ total.partial = \E t \in T : Parts[t].unknown > 0
        /\ total.hasEstimates = \E t \in T : F[t] = Never /\ EstimateFromChecklist(t, price[Home]) # 0
    BY DEF LineOf
  <2>2. \A t, k : t \in Group(T, key, k) <=> t \in T /\ key[t] = k
    BY DEF Group
  <2>3. (\A k \in K : \E t \in T : k = key[t])
    OBVIOUS
  <2>4. (\A t \in T : \E g \in groups : g.line = L[key[t]]) /\ (\A g \in groups : \E k \in K : g.line = L[k])
    <3>1. \A k : e(k).line = L[k]
      OBVIOUS
    <3>2. (\A k \in K : e(k) \in groups) /\ (\A g \in groups : \E k \in K : g = e(k))
      <4> HIDE DEF L, K, groups
      <4> QED  BY <1>1
    <3> HIDE DEF L, K, groups, e
    <3>3. \A t \in T : e(key[t]) \in groups /\ e(key[t]).line = L[key[t]]
      BY <3>1, <3>2, <1>5
    <3>4. ASSUME NEW g \in groups PROVE \E k \in K : g.line = L[k]
      <4>1. PICK k \in K : g = e(k)
        BY <3>2
      <4>2. g.line = L[k]
        BY <3>1, <4>1
      <4> QED  BY <4>2
    <3> QED  BY <3>3, <3>4
  <2> HIDE DEF T, K, L, groups, total
  <2>5. total.partial <=> \E g \in groups : g.line.partial
    <3>1. ASSUME total.partial PROVE \E g \in groups : g.line.partial
      <4>1. PICK t \in T : Parts[t].unknown > 0
        BY <2>1, <3>1
      <4>2. L[key[t]].partial
        BY <1>4, <1>5, <2>2, <4>1
      <4> QED  BY <2>4, <4>2
    <3>2. ASSUME NEW g \in groups, g.line.partial PROVE total.partial
      <4>1. PICK k \in K : g.line = L[k]
        BY <2>4
      <4>2. PICK t \in Group(T, key, k) : Parts[t].unknown > 0
        BY <1>4, <3>2, <4>1
      <4> QED  BY <2>1, <2>2, <4>2
    <3> QED  BY <3>1, <3>2
  <2>6. total.hasEstimates <=> \E g \in groups : g.line.hasEstimates
    <3>1. ASSUME total.hasEstimates PROVE \E g \in groups : g.line.hasEstimates
      <4>1. PICK t \in T : F[t] = Never /\ EstimateFromChecklist(t, price[Home]) # 0
        BY <2>1, <3>1
      <4>2. L[key[t]].hasEstimates
        BY <1>4, <1>5, <2>2, <4>1
      <4> QED  BY <2>4, <4>2
    <3>2. ASSUME NEW g \in groups, g.line.hasEstimates PROVE total.hasEstimates
      <4>1. PICK k \in K : g.line = L[k]
        BY <2>4
      <4>2. PICK t \in Group(T, key, k) : F[t] = Never /\ EstimateFromChecklist(t, price[Home]) # 0
        BY <1>4, <3>2, <4>1
      <4> QED  BY <2>1, <2>2, <4>2
    <3> QED  BY <3>1, <3>2
  <2>7. \A c, l : c \in Caveats(l) <=> \/ c = "labour" \/ (c = "partial" /\ l.partial)
                                      \/ (c = "estimates" /\ l.hasEstimates)
    BY DEF Caveats
  <2>8. \A c : c \in Caveats(total) <=> c = "labour" \/ \E g \in groups : c \in Caveats(g.line)
    BY <2>5, <2>6, <2>7
  <2>9. \A c : c \in Caveats(total) <=> c \in {"labour"} \cup UNION {Caveats(g.line) : g \in groups}
    BY <2>8
  <2> DEFINE A == Caveats(total)
             B == {"labour"} \cup UNION {Caveats(g.line) : g \in groups}
  <2>10. A \subseteq B /\ B \subseteq A
    BY <2>9
  <2> QED  BY <2>10
<1> HIDE DEF T, K, L, groups, total, vj, vr, vc, oj, or, e
<1>9. LinesSum(vj, T, key, L, oj) /\ LinesSum(vr, T, key, L, or) /\ LinesSum(vc, T, key, L, Costs)
  BY <1>4, <1>5, <1>6 DEF LinesSum
<1>10. SumFunctionOnSet(vj, groups) = SumFunctionOnSet(oj, T)
  BY <1>0, <1>2, <1>3, <1>9, GroupsAdd
<1>11. SumFunctionOnSet(vr, groups) = SumFunctionOnSet(or, T)
  BY <1>0, <1>2, <1>3, <1>9, GroupsAdd
<1>12. SumFunctionOnSet(vc, groups) = SumFunctionOnSet(Costs, T)
  BY <1>0, <1>2, <1>3, <1>9, GroupsAdd
<1>13. Sum(LAMBDA g : g.line.jobs, groups) = total.jobs
  BY <1>3, <1>7, <1>10
<1>14. Sum(LAMBDA g : g.line.revenue, groups) = total.revenue
  BY <1>3, <1>7, <1>11
<1>15. Sum(LAMBDA g : g.line.cost, groups) = total.cost
  BY <1>3, <1>7, <1>12
<1> QED  BY <1>8, <1>13, <1>14, <1>15 DEF groups, total

-----------------------------------------------------------------------------
LEMMA NothingCounts == ~(Count({}) > 0)
<1>1. Count({}) = 0
  BY FS_EmptySet DEF Count
<1> HIDE DEF Count
<1> QED  BY <1>1

(* The list of what is due, and what can be reminded. *)
LEMMA DueAgrees ==
  ASSUME BriefAssumption, TypeOK, BooksKept
  PROVE  /\ IsFiniteSet(MaintenanceDue)
         /\ \A R \in DueLists : R \subseteq MaintenanceDue /\ (R = MaintenanceDue \/ Full("list", R))
         /\ \A e \in MaintenanceDue : Remindable(e)
<1>1. MaintenanceDue \in SUBSET Units /\ IsFiniteSet(Units)
  BY Constants DEF BooksKept, MaintenanceDue
<1>2. IsFiniteSet(MaintenanceDue)
  BY <1>1, FS_Subset
<1>3. DueLists = Found("list", MaintenanceDue)
  BY DEF DueLists, MaintenanceDue
<1>4. \A e \in MaintenanceDue : Remindable(e)
  BY DEF MaintenanceDue, Remindable
<1> QED  BY <1>2, <1>3, <1>4, FoundIs DEF FoundRight

(* What is said of a report of the last days and of a brief of this moment. *)
LEMMA ReportAgrees ==
  ASSUME BriefAssumption, TypeOK, BooksKept,
         NEW F \in Reports(PeriodOf("90 days")), NEW U \in Found("unbilled", Unbilled)
  PROVE  LET rows == DOMAIN F
             total == LineOf(F)
         IN
         /\ Fits("facts", JobsIn(PeriodOf("90 days"))) /\ Fits("unbilled", Unbilled) =>
              /\ Shared(U) = rows \ BilledTasks
              /\ EstimateOf(Shared(U)) + Sum(BilledFor, rows) = total.revenue
              /\ total.hasEstimates = (EstimateOf(Shared(U)) # 0)
         /\ total.revenue # Sum(BilledFor, rows) => "estimates" \in Caveats(total)
         /\ rows = {} => "closed" \notin WeekLines(Week)
         /\ \A key \in Groupings :
              LET groups == Aggregate(F, key) IN
              /\ Sum(LAMBDA g : g.line.jobs, groups) = total.jobs
              /\ Sum(LAMBDA g : g.line.revenue, groups) = total.revenue
              /\ Sum(LAMBDA g : g.line.cost, groups) = total.cost
              /\ Caveats(total) = {"labour"} \cup UNION {Caveats(g.line) : g \in groups}
         /\ EstimateOf(U) # 0 => NextStep # "priceList"
<1> DEFINE P == PeriodOf("90 days")
           rows == DOMAIN F
           total == LineOf(F)
<1>1. /\ rows \in SUBSET closed /\ F = Facts(rows) /\ FactsRight(F)
      /\ rows \in Found("facts", JobsIn(P)) /\ IsFiniteSet(JobsIn(P))
  BY ReportsAre
<1>2. Shared(Unbilled) = JobsIn(P) \ BilledTasks
  BY DaysRight
<1>3. Unbilled \in SUBSET made /\ IsFiniteSet(made) /\ Unbilled \subseteq closed /\ closed \subseteq Tasks
  BY DEF Unbilled, BooksKept, TypeOK
<1>4. IsFiniteSet(Unbilled)
  BY <1>3, FS_Subset
<1>5. U \in SUBSET Tasks /\ IsFiniteSet(U) /\ (Fits("unbilled", Unbilled) => U = Unbilled)
  <2>1. U \subseteq Unbilled /\ IsFiniteSet(U) /\ (Fits("unbilled", Unbilled) => U = Unbilled)
    <3>1. FoundRight("unbilled", Unbilled)
      BY <1>4, FoundIs
    <3> QED  BY <3>1 DEF FoundRight
  <2> QED  BY <1>3, <2>1
<1>6. (Fits("facts", JobsIn(P)) => rows = JobsIn(P)) /\ (rows = {} => JobsIn(P) = {})
  <2> HIDE DEF P, rows
  <2>1. FoundRight("facts", JobsIn(P))
    BY <1>1, FoundIs
  <2> QED  BY <1>1, <2>1 DEF FoundRight
<1>8. /\ EstimateOf(rows \ BilledTasks) + Sum(BilledFor, rows) = total.revenue
      /\ total.hasEstimates = (EstimateOf(rows \ BilledTasks) # 0)
      /\ total.revenue # Sum(BilledFor, rows) => "estimates" \in Caveats(total)
  <2> HIDE DEF rows
  <2> QED  BY <1>1, EstimateAndRevenue
<1>9. Fits("facts", JobsIn(P)) /\ Fits("unbilled", Unbilled) => Shared(U) = rows \ BilledTasks
  BY <1>2, <1>5, <1>6
<1>10. rows = {} => "closed" \notin WeekLines(Week)
  <2> SUFFICES ASSUME rows = {} PROVE "closed" \notin WeekLines(Week)
    OBVIOUS
  <2>1. Recent(closedOn) = {}
    <3>1. Recent(closedOn) \subseteq JobsIn(P)
      BY DaysRight
    <3> QED  BY <1>6, <3>1
  <2>2. Week["closed"] = {}
    BY <2>1 DEF Week
  <2>4. ~(Count(Week["closed"]) > 0)
    BY <2>2, NothingCounts
  <2> QED  BY <2>4 DEF WeekLines
<1>11. \A key \in Groupings :
         LET groups == Aggregate(F, key) IN
         /\ Sum(LAMBDA g : g.line.jobs, groups) = total.jobs
         /\ Sum(LAMBDA g : g.line.revenue, groups) = total.revenue
         /\ Sum(LAMBDA g : g.line.cost, groups) = total.cost
         /\ Caveats(total) = {"labour"} \cup UNION {Caveats(g.line) : g \in groups}
  BY <1>1, GroupsAgree
<1>12. EstimateOf(U) # 0 => NextStep # "priceList"
  <2> SUFFICES ASSUME NextStep = "priceList" PROVE EstimateOf(U) = 0
    OBVIOUS
  <2>1. ~Activated.priceList
    BY DEF NextStep
  <2>2. \A c \in Codes : price[Home][c] = NoPrice
    BY <2>1 DEF Activated
  <2>3. AllZero(Est, U)
    BY <2>2, <1>5, EstimateIs DEF AllZero, Est
  <2> QED  BY <1>5, <2>3, EstimateOfIs
<1> HIDE DEF rows, total, P
<1>13. Fits("facts", JobsIn(P)) /\ Fits("unbilled", Unbilled) =>
         /\ Shared(U) = rows \ BilledTasks
         /\ EstimateOf(Shared(U)) + Sum(BilledFor, rows) = total.revenue
         /\ total.hasEstimates = (EstimateOf(Shared(U)) # 0)
  BY <1>8, <1>9
<1> QED  BY <1>8, <1>10, <1>11, <1>12, <1>13, Zenon DEF rows, total, P

(* All that the screens agree on. *)
LEMMA ScreensRight ==
  ASSUME BriefAssumption, TypeOK, BooksKept
  PROVE  ScreensAgree
<1>1. \A r \in Runs : pc[r] = "prices" /\ Tenant(r) = Home /\ (\A t \in picked[r] : NamesCodesOnce(t)) =>
        Sum(LAMBDA l : l.amount, Priced(r)) = EstimateOf(picked[r])
  BY BillIsEstimate
<1>2. ASSUME NEW F \in Reports(PeriodOf("this month"))
      PROVE  DOMAIN F \subseteq ClosedThisMonth /\ (DOMAIN F = ClosedThisMonth \/ Full("facts", DOMAIN F))
  <2>1. /\ DOMAIN F \in Found("facts", JobsIn(PeriodOf("this month")))
        /\ IsFiniteSet(JobsIn(PeriodOf("this month")))
    BY ReportsAre
  <2>2. ClosedThisMonth = JobsIn(PeriodOf("this month"))
    BY DaysRight
  <2>3. FoundRight("facts", ClosedThisMonth)
    BY <2>1, <2>2, FoundIs
  <2> QED  BY <2>1, <2>2, <2>3 DEF FoundRight
<1>3. ASSUME NEW F \in Reports(PeriodOf("last month")) PROVE ClosedThisMonth \cap DOMAIN F = {}
  <2>1. /\ DOMAIN F \in Found("facts", JobsIn(PeriodOf("last month")))
        /\ IsFiniteSet(JobsIn(PeriodOf("last month")))
    BY ReportsAre
  <2>2. DOMAIN F \subseteq JobsIn(PeriodOf("last month"))
    <3>1. FoundRight("facts", JobsIn(PeriodOf("last month")))
      BY <2>1, FoundIs
    <3> QED  BY <2>1, <3>1 DEF FoundRight
  <2>3. ClosedThisMonth \cap JobsIn(PeriodOf("last month")) = {}
    BY DaysRight
  <2> QED  BY <2>2, <2>3
<1>4. /\ \A R \in DueLists : R \subseteq MaintenanceDue /\ (R = MaintenanceDue \/ Full("list", R))
      /\ \A e \in MaintenanceDue : Remindable(e)
  BY DueAgrees
<1> QED  BY <1>1, <1>2, <1>3, <1>4, ReportAgrees, Zenon DEF ScreensAgree, Shared

-----------------------------------------------------------------------------
(* An answer as far as it has been read: what is in it is good for what    *)
(* the page says with it, and until it is complete, what waited all the    *)
(* time waits now, and what waits now has waited at some moment.           *)

WaitKinds == {"today", "moves", "quotes", "approved", "unbilled", "due"}

(* What an answer that has been read is good for. *)
ReadRight(s) ==
  /\ s \in Kinds =>
       /\ still[s] \subseteq brief.read[s] \/ Full(s, brief.read[s])
       /\ brief.read[s] \subseteq ever[s]
  /\ s \in MoneyKinds => IsFiniteSet(brief.read[s])
  /\ s = "facts" => FactsRight(brief.read.facts)
  /\ s = "report" =>
       (brief.read.report.revenue # Sum(LAMBDA t : brief.read.facts[t], BilledIn(brief.read.facts))
          => brief.read.report.hasEstimates)
  /\ s = "stats" => (brief.read.stats.overdue > 0 => brief.read.stats.open > 0)

BriefFields == {"plan", "preset", "period", "at", "page", "read"}

BriefShape ==
  /\ DOMAIN brief = BriefFields
  /\ brief.plan \in Plans
  /\ brief.at \in 0..(Len(brief.plan) + 1)
  /\ brief.page \in {"loading", "error", "data"}
  /\ brief.page = "data" => brief.at = Len(brief.plan) + 1
  /\ brief.read = [s \in {brief.plan[k] : k \in DOMAIN brief.plan} |-> brief.read[s]]

ReadsKept == \A j \in DOMAIN brief.plan : j < brief.at => ReadRight(brief.plan[j])

Followed ==
  brief.at \in DOMAIN brief.plan =>
    \A k \in Kinds : still[k] \subseteq Waiting(k) /\ Waiting(k) \subseteq ever[k]

ReadingKept == BriefShape /\ ReadsKept /\ Followed

LEMMA WaitingIs ==
  /\ Waiting("today") = Today /\ Waiting("moves") = Moves /\ Waiting("quotes") = ExpiringQuotes
  /\ Waiting("approved") = ApprovedUnscheduled /\ Waiting("unbilled") = Unbilled
  /\ Waiting("due") = MaintenanceDue
  BY DEF Waiting

LEMMA AnswersAre ==
  /\ \A s \in Kinds : Answers(s) = Found(s, Waiting(s))
  /\ Answers("facts") = Reports(brief.period)
  /\ Answers("report") = {LineOf(brief.read.facts)}
  /\ Answers("stats") = {[open |-> Count(OpenTasks), closed |-> Count(ClosedThisMonth),
                          overdue |-> Count(OverdueUrgent)]}
  BY DEF Answers, Kinds

LEMMA NextWaiting ==
  /\ Waiting("today")' = Today' /\ Waiting("moves")' = Moves' /\ Waiting("quotes")' = ExpiringQuotes'
  /\ Waiting("approved")' = ApprovedUnscheduled' /\ Waiting("unbilled")' = Unbilled'
  /\ Waiting("due")' = MaintenanceDue'
  BY DEF Waiting

(* What waits is read from the books alone. *)
LEMMA SameWaiting ==
  ASSUME UNCHANGED <<vars, bookVars>>, NEW k \in WaitKinds
  PROVE  Waiting(k)' = Waiting(k)
<1>1. UNCHANGED <<day, made, bornOn, fixed, moving, closedOn, serviced, kept, closed, invoice>>
  BY DEF vars, bookVars
<1>2. Today' = Today
  BY <1>1 DEF Today, Ours
<1>3. Moves' = Moves
  BY <1>1 DEF Moves, Ours, Open
<1>4. ExpiringQuotes' = ExpiringQuotes
  BY <1>1 DEF ExpiringQuotes, Ours, Quoted
<1>5. ApprovedUnscheduled' = ApprovedUnscheduled
  BY <1>1 DEF ApprovedUnscheduled, Ours, Quoted, Open
<1>6. Unbilled' = Unbilled
  BY <1>1 DEF Unbilled, Ours, BilledTasks, BilledLines, Created
<1>7. MaintenanceDue' = MaintenanceDue
  BY <1>1 DEF MaintenanceDue, OpenVisits, Open, Visits
<1> QED  BY <1>2, <1>3, <1>4, <1>5, <1>6, <1>7, WaitingIs, NextWaiting DEF WaitKinds

(* A report is computed after its jobs have been read. *)
LEMMA PlanFacts ==
  ASSUME BriefAssumption, NEW plan \in Plans
  PROVE  /\ Len(plan) \in Nat /\ DOMAIN plan = 1..Len(plan)
         /\ \A k \in DOMAIN plan : plan[k] \in StatementNames
         /\ \A j, k \in DOMAIN plan : plan[j] = plan[k] => j = k
         /\ \A k \in DOMAIN plan : plan[k] = "report" => \E j \in 1..(k - 1) : plan[j] = "facts"
<1>1. /\ plan \in Seq(StatementNames)
      /\ \A j, k \in DOMAIN plan : plan[j] = plan[k] => j = k
      /\ \A s \in DOMAIN Needs : \A k \in DOMAIN plan :
           plan[k] = s => \E j \in 1 .. k - 1 : plan[j] = Needs[s]
  BY DEF BriefAssumption
<1>2. "report" \in DOMAIN Needs /\ Needs["report"] = "facts"
  BY DEF Needs
<1>3. \A k \in DOMAIN plan : plan[k] = "report" => \E j \in 1..(k - 1) : plan[j] = "facts"
  <2> SUFFICES ASSUME NEW k \in DOMAIN plan, plan[k] = "report"
               PROVE  \E j \in 1..(k - 1) : plan[j] = "facts"
    OBVIOUS
  <2>1. \E j \in 1..(k - 1) : plan[j] = Needs["report"]
    BY <1>1, <1>2
  <2> QED  BY <1>2, <2>1
<1>4. Len(plan) \in Nat /\ DOMAIN plan = 1..Len(plan) /\ \A k \in DOMAIN plan : plan[k] \in StatementNames
  BY <1>1
<1> QED  BY <1>1, <1>3, <1>4

(* An answer of this moment is good for that. *)
LEMMA AnswersRight ==
  ASSUME BriefAssumption, TypeOK, BooksKept
  PROVE  /\ \A s \in WaitKinds : IsFiniteSet(Waiting(s))
         /\ \A F \in Reports(brief.period) : FactsRight(F)
         /\ Count(OverdueUrgent) > 0 => Count(OpenTasks) > 0
         /\ \A F : FactsRight(F) =>
              (LineOf(F).revenue # Sum(LAMBDA t : F[t], BilledIn(F)) => LineOf(F).hasEstimates)
<1>1. IsFiniteSet(made) /\ closed \subseteq made
  BY DEF BooksKept
<1>2. /\ ApprovedUnscheduled \in SUBSET made /\ Unbilled \in SUBSET made
      /\ OpenTasks \in SUBSET made /\ Today \in SUBSET made /\ Moves \in SUBSET made
  BY <1>1 DEF ApprovedUnscheduled, Unbilled, OpenTasks, Open, Today, Moves
<1>3. OverdueUrgent \in SUBSET OpenTasks
  BY DEF OverdueUrgent
<1>4. /\ IsFiniteSet(ApprovedUnscheduled) /\ IsFiniteSet(Unbilled) /\ IsFiniteSet(OpenTasks)
      /\ IsFiniteSet(Today) /\ IsFiniteSet(Moves)
  BY <1>1, <1>2, FS_Subset
<1>5. Count(OverdueUrgent) > 0 => Count(OpenTasks) > 0
  <2>1. IsFiniteSet(OverdueUrgent) /\ Cardinality(OverdueUrgent) <= Cardinality(OpenTasks)
    BY <1>3, <1>4, FS_Subset
  <2>2. Cardinality(OverdueUrgent) \in Nat /\ Cardinality(OpenTasks) \in Nat
    BY <2>1, <1>4, FS_CardinalityType
  <2> QED  BY <2>1, <2>2 DEF Count
<1>6. ASSUME NEW F, FactsRight(F), LineOf(F).revenue # Sum(LAMBDA t : F[t], BilledIn(F))
      PROVE  LineOf(F).hasEstimates
  <2> DEFINE B == BilledIn(F)
             N == DOMAIN F \ B
             g == [t \in B |-> F[t]]
  <2>1. /\ IsFiniteSet(B) /\ IsFiniteSet(N) /\ N \in SUBSET Tasks
        /\ LineOf(F).revenue = SumFunctionOnSet(F, B) + EstimateOf(N)
        /\ SumFunctionOnSet(F, B) \in Int
        /\ LineOf(F).hasEstimates <=> EstimateOf(N) # 0
    BY <1>6, RevenueSplit
  <2>2. \A t \in B : F[t] \in Int /\ g[t] = F[t]
    BY <1>6 DEF BilledIn, FactsRight
  <2>3. Sum(LAMBDA t : F[t], B) = SumFunctionOnSet(g, B)
    BY DEF Sum
  <2> HIDE DEF B, N, g
  <2>4. SumFunctionOnSet(g, B) = SumFunctionOnSet(F, B)
    BY <2>1, <2>2, SumSame
  <2>5. EstimateOf(N) \in Nat
    BY <2>1, EstimateOfIs
  <2>6. LineOf(F).revenue # SumFunctionOnSet(F, B)
    BY <1>6, <2>3, <2>4 DEF B
  <2> QED  BY <2>1, <2>5, <2>6
<1>7. \A s \in WaitKinds : IsFiniteSet(Waiting(s))
  <2>1. ExpiringQuotes \in SUBSET Quoted /\ IsFiniteSet(Quoted)
    BY DEF ExpiringQuotes, BriefAssumption
  <2>2. IsFiniteSet(ExpiringQuotes)
    BY <2>1, FS_Subset
  <2> QED  BY <1>4, <2>2, DueAgrees, WaitingIs DEF WaitKinds
<1> QED  BY <1>5, <1>6, <1>7, ReportsAre

(* Nothing has been read in the beginning. *)
LEMMA ReadingInit == BriefAssumption /\ BriefInit => ReadingKept
<1> SUFFICES ASSUME BriefAssumption, BriefInit PROVE ReadingKept
  OBVIOUS
<1>0. PICK plan \in Plans : \E p : brief = [plan |-> plan, preset |-> p, period |-> <<0, 0>>, at |-> 0,
                                           page |-> "loading", read |-> NotRead(plan)]
  BY DEF BriefInit
<1>1. PICK p : brief = [plan |-> plan, preset |-> p, period |-> <<0, 0>>, at |-> 0,
                        page |-> "loading", read |-> NotRead(plan)]
  BY <1>0
<1>2. /\ brief.plan = plan /\ brief.preset = p /\ brief.period = <<0, 0>> /\ brief.at = 0
      /\ brief.page = "loading" /\ brief.read = NotRead(plan)
  BY <1>1
<1>3. Len(plan) \in Nat /\ DOMAIN plan = 1..Len(plan)
  BY PlanFacts
<1>4. brief.read = [s \in {brief.plan[k] : k \in DOMAIN brief.plan} |-> brief.read[s]]
  BY <1>2 DEF NotRead
<1>7. DOMAIN brief = BriefFields
  BY <1>1 DEF BriefFields
<1>5. BriefShape
  BY <1>2, <1>3, <1>4, <1>7 DEF BriefShape
<1>6. ReadsKept /\ Followed
  BY <1>2, <1>3 DEF ReadsKept, Followed
<1> QED  BY <1>5, <1>6 DEF ReadingKept

(* A step of the business, or of nobody, while the brief is read.          *)
LEMMA FollowKeeps ==
  ASSUME BriefShape, ReadsKept, Follow, UNCHANGED brief
  PROVE  ReadsKept' /\ (Followed => Followed')
<1>1. Kinds' = Kinds /\ MoneyKinds' = MoneyKinds
  BY DEF Kinds, MoneyKinds
<1>2. CASE brief.at \in DOMAIN brief.plan
  <2>1. /\ still' = [k \in Kinds |-> still[k] \cap Waiting(k)']
        /\ ever' = [k \in Kinds |-> ever[k] \cup Waiting(k)']
    BY <1>2 DEF Follow, Statements
  <2>2. \A k \in Kinds : /\ still'[k] \subseteq still[k] /\ ever[k] \subseteq ever'[k]
                         /\ still'[k] \subseteq Waiting(k)' /\ Waiting(k)' \subseteq ever'[k]
    BY <2>1
  <2>3. Followed'
    BY <1>1, <2>2 DEF Followed
  <2>4. ASSUME NEW s, ReadRight(s) PROVE ReadRight(s)'
    <3>1. s \in Kinds =>
            /\ still'[s] \subseteq brief.read[s] \/ Full(s, brief.read[s])
            /\ brief.read[s] \subseteq ever'[s]
      BY <2>2, <2>4 DEF ReadRight
    <3> QED  BY <1>1, <2>4, <3>1 DEF ReadRight, FactsRight, BilledIn, Sum, Full, Count
  <2>5. ReadsKept'
    BY <2>4 DEF ReadsKept
  <2> QED  BY <2>3, <2>5
<1>3. CASE brief.at \notin DOMAIN brief.plan
  <2>1. UNCHANGED <<still, ever>>
    BY <1>3 DEF Follow, Statements
  <2>2. Followed'
    BY <1>3 DEF Followed
  <2>3. \A s : ReadRight(s) => ReadRight(s)'
    BY <1>1, <2>1 DEF ReadRight, FactsRight, BilledIn, Sum, Full, Count
  <2>4. ReadsKept'
    BY <2>3 DEF ReadsKept
  <2> QED  BY <2>2, <2>4
<1> QED  BY <1>2, <1>3

(* A page asks. *)
LEMMA BeginKeeps ==
  ASSUME BriefAssumption, BriefShape, BriefBegins
  PROVE  ReadingKept'
<1>1. /\ brief' = [brief EXCEPT !.at = 1, !.period = PeriodOf(brief.preset)]
      /\ brief.at = 0 /\ brief.page = "loading"
      /\ still' = [k \in Kinds |-> Waiting(k)] /\ ever' = still'
      /\ UNCHANGED <<vars, bookVars>>
  BY DEF BriefBegins
<1>3. /\ brief'.plan = brief.plan /\ brief'.at = 1 /\ DOMAIN brief' = BriefFields
      /\ brief'.page = "loading" /\ brief'.read = brief.read
  <2>1. DOMAIN brief = BriefFields
    BY DEF BriefShape
  <2> QED  BY <1>1, <2>1 DEF BriefFields
<1>4. Len(brief.plan) \in Nat /\ DOMAIN brief.plan = 1..Len(brief.plan) /\ brief.plan \in Plans
  BY PlanFacts DEF BriefShape
<1>5. BriefShape'
  <2>2. brief'.at \in 0..(Len(brief'.plan) + 1)
    BY <1>3, <1>4
  <2>3. brief'.page \in {"loading", "error", "data"} /\ ~(brief'.page = "data")
    BY <1>3
  <2>4. brief'.read = [s \in {brief'.plan[k] : k \in DOMAIN brief'.plan} |-> brief'.read[s]]
    BY <1>3 DEF BriefShape
  <2> QED  BY <1>3, <1>4, <2>2, <2>3, <2>4 DEF BriefShape
<1>6. ReadsKept'
  BY <1>3, <1>4 DEF ReadsKept
<1>7. Kinds' = Kinds
  BY <1>3 DEF Kinds
<1>8. \A k \in Kinds : still'[k] = Waiting(k)' /\ ever'[k] = Waiting(k)'
  <2>1. \A k \in Kinds : k \in WaitKinds
    BY DEF Kinds, WaitKinds
  <2>2. \A k \in Kinds : Waiting(k)' = Waiting(k)
    BY <1>1, <2>1, SameWaiting
  <2> QED  BY <1>1, <2>2
<1>9. Followed'
  BY <1>7, <1>8 DEF Followed
<1> QED  BY <1>5, <1>6, <1>9 DEF ReadingKept

LEMMA OneMore == \A n \in Nat : \A k \in 1..n : k + 1 \in 0..(n + 1)
  OBVIOUS

(* A statement is read. *)
LEMMA ReadsTo ==
  ASSUME BriefAssumption, BriefShape, BriefReads
  PROVE  LET s == brief.plan[brief.at] IN
         /\ brief.at \in DOMAIN brief.plan /\ s \in DOMAIN brief.read /\ s \in StatementNames
         /\ brief'.plan = brief.plan /\ brief'.at = brief.at + 1
         /\ brief'.read[s] \in Answers(s)
         /\ \A u \in DOMAIN brief.read : u # s => brief'.read[u] = brief.read[u]
         /\ DOMAIN brief'.read = DOMAIN brief.read
         /\ BriefShape'
<1> DEFINE s == brief.plan[brief.at]
           pg == IF brief.at = Len(brief.plan) THEN "data" ELSE "loading"
<1>1. brief.at \in DOMAIN brief.plan
  BY DEF BriefReads, Statements
<1>2. PICK an \in Answers(s) : brief' = [brief EXCEPT !.at = @ + 1, !.read[s] = an, !.page = pg]
  BY DEF BriefReads, Statements
<1> DEFINE rd == [brief.read EXCEPT ![s] = an]
<1>4. /\ brief'.plan = brief.plan /\ DOMAIN brief' = BriefFields
      /\ brief'.at = brief.at + 1 /\ brief'.page = pg /\ brief'.read = rd
  <2>1. DOMAIN brief = BriefFields
    BY DEF BriefShape
  <2>2. brief' = [brief EXCEPT !.at = @ + 1, !.read[s] = an, !.page = pg]
    BY <1>2
  <2> HIDE DEF pg, s
  <2>3. brief'.at = brief.at + 1 /\ brief'.page = pg
    BY <2>1, <2>2 DEF BriefFields
  <2>4. brief'.plan = brief.plan /\ DOMAIN brief' = BriefFields
    BY <2>1, <2>2 DEF BriefFields
  <2>5. brief'.read = [brief.read EXCEPT ![s] = an]
    BY <2>1, <2>2 DEF BriefFields
  <2> QED  BY <2>3, <2>4, <2>5
<1>5. /\ Len(brief.plan) \in Nat /\ DOMAIN brief.plan = 1..Len(brief.plan) /\ brief.plan \in Plans
      /\ s \in StatementNames
  BY <1>1, PlanFacts DEF BriefShape
<1>6. brief.read = [u \in {brief.plan[k] : k \in DOMAIN brief.plan} |-> brief.read[u]]
  BY DEF BriefShape
<1>7. s \in DOMAIN brief.read /\ DOMAIN brief.read = {brief.plan[k] : k \in DOMAIN brief.plan}
  BY <1>1, <1>6
<1>8. /\ rd[s] = an /\ DOMAIN rd = DOMAIN brief.read
      /\ \A u \in DOMAIN brief.read : u # s => rd[u] = brief.read[u]
      /\ rd = [u \in DOMAIN brief.read |-> rd[u]]
  <2> HIDE DEF s
  <2> QED  BY <1>7
<1>9. BriefShape'
  <2>2. brief'.at \in 0..(Len(brief'.plan) + 1)
    <3>1. brief.at \in 1..Len(brief.plan)
      BY <1>1, <1>5
    <3>2. brief.at + 1 \in 0..(Len(brief.plan) + 1)
      BY <1>5, <3>1, OneMore
    <3> QED  BY <1>4, <3>2
  <2>3. brief'.page \in {"loading", "error", "data"} /\ (brief'.page = "data" => brief'.at = Len(brief'.plan) + 1)
    BY <1>4
  <2>4. brief'.read = [u \in {brief'.plan[k] : k \in DOMAIN brief'.plan} |-> brief'.read[u]]
    <3> HIDE DEF rd
    <3> QED  BY <1>4, <1>7, <1>8
  <2> QED  BY <1>4, <1>5, <2>2, <2>3, <2>4 DEF BriefShape
<1> HIDE DEF rd, s
<1> QED  BY <1>1, <1>2, <1>4, <1>5, <1>7, <1>8, <1>9 DEF s

LEMMA Earlier ==
  \A n \in Nat : \A a, k \in 1..n : k <= a => \A j \in 1..(k - 1) : j \in 1..n /\ j < a
  OBVIOUS

(* What has been read before is another statement. *)
LEMMA EarlierOther ==
  ASSUME BriefAssumption, BriefShape,
         NEW a \in DOMAIN brief.plan, NEW j \in DOMAIN brief.plan, j < a
  PROVE  brief.plan[j] # brief.plan[a] /\ brief.plan[j] \in DOMAIN brief.read
<1>1. /\ Len(brief.plan) \in Nat /\ DOMAIN brief.plan = 1..Len(brief.plan)
      /\ \A i, k \in DOMAIN brief.plan : brief.plan[i] = brief.plan[k] => i = k
      /\ DOMAIN brief.read = {brief.plan[k] : k \in DOMAIN brief.plan}
  BY PlanFacts DEF BriefShape
<1>2. j # a
  BY <1>1
<1> QED  BY <1>1, <1>2

LEMMA FactsFirst ==
  ASSUME BriefAssumption, BriefShape,
         NEW a \in DOMAIN brief.plan, NEW k \in DOMAIN brief.plan, k <= a, brief.plan[k] = "report"
  PROVE  \E j \in DOMAIN brief.plan : brief.plan[j] = "facts" /\ j < a
<1>1. /\ Len(brief.plan) \in Nat /\ DOMAIN brief.plan = 1..Len(brief.plan)
      /\ \E j \in 1..(k - 1) : brief.plan[j] = "facts"
  BY PlanFacts DEF BriefShape
<1>2. PICK j \in 1..(k - 1) : brief.plan[j] = "facts"
  BY <1>1
<1>3. j \in 1..Len(brief.plan) /\ j < a
  BY <1>1, Earlier
<1> QED  BY <1>1, <1>2, <1>3

(* The answer that was read is good, and the earlier ones still are. *)
LEMMA ReadKeeps ==
  ASSUME BriefAssumption, TypeOK, BooksKept, ReadingKept, BriefReads, Follow
  PROVE  ReadingKept'
<1>0. PICK s : s = brief.plan[brief.at]
  OBVIOUS
<1>1. BriefShape /\ ReadsKept /\ Followed
  BY DEF ReadingKept
<1>2. /\ brief.at \in DOMAIN brief.plan /\ s \in DOMAIN brief.read /\ s \in StatementNames
      /\ brief'.plan = brief.plan /\ brief'.at = brief.at + 1
      /\ brief'.read[s] \in Answers(s)
      /\ \A u \in DOMAIN brief.read : u # s => brief'.read[u] = brief.read[u]
      /\ DOMAIN brief'.read = DOMAIN brief.read
      /\ BriefShape'
  BY <1>0, <1>1, ReadsTo
<1>3. UNCHANGED <<vars, bookVars>>
  BY DEF BriefReads
<1>4. /\ still' = [k \in Kinds |-> still[k] \cap Waiting(k)']
      /\ ever' = [k \in Kinds |-> ever[k] \cup Waiting(k)']
  BY <1>2 DEF Follow, Statements
<1>5. Kinds' = Kinds /\ MoneyKinds' = MoneyKinds /\ Kinds \subseteq WaitKinds
  BY <1>2 DEF Kinds, MoneyKinds, WaitKinds
<1>6. \A k \in Kinds :
        /\ Waiting(k)' = Waiting(k) /\ still[k] \subseteq Waiting(k) /\ Waiting(k) \subseteq ever[k]
        /\ still'[k] \subseteq still[k] /\ ever[k] \subseteq ever'[k]
        /\ still'[k] \subseteq Waiting(k) /\ Waiting(k) \subseteq ever'[k]
  <2> TAKE k \in Kinds
  <2>1. Waiting(k)' = Waiting(k)
    BY <1>3, <1>5, SameWaiting
  <2>2. still[k] \subseteq Waiting(k) /\ Waiting(k) \subseteq ever[k]
    BY <1>1, <1>2 DEF Followed
  <2>3. still'[k] = still[k] \cap Waiting(k) /\ ever'[k] = ever[k] \cup Waiting(k)
    BY <1>4, <2>1
  <2> QED  BY <2>1, <2>2, <2>3
<1>7. Followed'
  BY <1>5, <1>6 DEF Followed
<1>8. /\ Len(brief.plan) \in Nat /\ DOMAIN brief.plan = 1..Len(brief.plan)
      /\ \A j, k \in DOMAIN brief.plan : brief.plan[j] = brief.plan[k] => j = k
      /\ \A k \in DOMAIN brief.plan : brief.plan[k] = "report" => \E j \in 1..(k - 1) : brief.plan[j] = "facts"
      /\ DOMAIN brief.read = {brief.plan[k] : k \in DOMAIN brief.plan}
  BY <1>1, PlanFacts DEF BriefShape
<1>9. ASSUME NEW k \in DOMAIN brief.plan, k <= brief.at, brief.plan[k] = "report"
      PROVE  FactsRight(brief.read["facts"]) /\ brief'.read["facts"] = brief.read["facts"]
  <2>1. PICK j \in DOMAIN brief.plan : brief.plan[j] = "facts" /\ j < brief.at
    BY <1>1, <1>2, <1>9, FactsFirst
  <2>3. ReadRight("facts")
    BY <1>1, <2>1 DEF ReadsKept
  <2>4. "facts" # s /\ "facts" \in DOMAIN brief.read
    <3>1. brief.plan[j] # brief.plan[brief.at] /\ brief.plan[j] \in DOMAIN brief.read
      BY <1>1, <1>2, <2>1, EarlierOther
    <3> QED  BY <1>0, <2>1, <3>1, Zenon
  <2> QED  BY <1>2, <2>3, <2>4 DEF ReadRight
<1>10. ReadRight(s)'
  <2>0. s \in Kinds =>
          /\ brief'.read[s] \subseteq Waiting(s) /\ IsFiniteSet(brief'.read[s])
          /\ brief'.read[s] = Waiting(s) \/ Full(s, brief'.read[s])
    <3> SUFFICES ASSUME s \in Kinds
                 PROVE  /\ brief'.read[s] \subseteq Waiting(s) /\ IsFiniteSet(brief'.read[s])
                        /\ brief'.read[s] = Waiting(s) \/ Full(s, brief'.read[s])
      OBVIOUS
    <3>1. IsFiniteSet(Waiting(s))
      BY <1>5, AnswersRight
    <3>2. brief'.read[s] \in Found(s, Waiting(s))
      BY <1>2, AnswersAre
    <3> QED  BY <3>1, <3>2, FoundIs DEF FoundRight
  <2>1. s \in Kinds =>
          /\ still'[s] \subseteq brief'.read[s] \/ Full(s, brief'.read[s])
          /\ brief'.read[s] \subseteq ever'[s]
    BY <1>6, <2>0
  <2>2. s \in MoneyKinds => IsFiniteSet(brief'.read[s])
    BY <2>0 DEF MoneyKinds
  <2>3. s = "facts" => FactsRight(brief'.read["facts"])
    <3>1. \A F \in Reports(brief.period) : FactsRight(F)
      BY AnswersRight
    <3> QED  BY <1>2, <3>1, AnswersAre
  <2>4. s = "report" =>
          (brief'.read["report"].revenue # Sum(LAMBDA t : brief'.read["facts"][t], BilledIn(brief'.read["facts"]))
             => brief'.read["report"].hasEstimates)
    <3> SUFFICES ASSUME s = "report"
                 PROVE  brief'.read["report"].revenue #
                            Sum(LAMBDA t : brief'.read["facts"][t], BilledIn(brief'.read["facts"])) => brief'.read["report"].hasEstimates
      OBVIOUS
    <3> DEFINE F == brief.read["facts"]
    <3>1. FactsRight(F) /\ brief'.read["facts"] = F
      <4>1. brief.at <= brief.at
        BY <1>2, <1>8
      <4> QED  BY <1>0, <1>2, <1>9, <4>1
    <3>2. brief'.read["report"] = LineOf(F)
      BY <1>2, AnswersAre
    <3>3. LineOf(F).revenue # Sum(LAMBDA t : F[t], BilledIn(F)) => LineOf(F).hasEstimates
      BY <3>1, AnswersRight
    <3> HIDE DEF F
    <3> QED  BY <3>1, <3>2, <3>3 DEF Sum
  <2>5. s = "stats" => (brief'.read["stats"].overdue > 0 => brief'.read["stats"].open > 0)
    <3> SUFFICES ASSUME s = "stats" PROVE brief'.read["stats"].overdue > 0 => brief'.read["stats"].open > 0
      OBVIOUS
    <3>1. brief'.read["stats"] = [open |-> Count(OpenTasks), closed |-> Count(ClosedThisMonth),
                                  overdue |-> Count(OverdueUrgent)]
      BY <1>2, AnswersAre
    <3>2. /\ brief'.read["stats"].overdue = Count(OverdueUrgent)
          /\ brief'.read["stats"].open = Count(OpenTasks)
      BY <3>1
    <3> QED  BY <3>2, AnswersRight
  <2> QED  BY <1>5, <2>1, <2>2, <2>3, <2>4, <2>5 DEF ReadRight, FactsRight, BilledIn, Sum, Full, Count
<1>11. ASSUME NEW j \in DOMAIN brief.plan, j < brief.at PROVE ReadRight(brief.plan[j])'
  <2>0. PICK u : u = brief.plan[j]
    OBVIOUS
  <2>1. ReadRight(u)
    BY <1>1, <1>11, <2>0 DEF ReadsKept
  <2>2. u # s /\ u \in DOMAIN brief.read
    BY <1>0, <1>1, <1>2, <1>11, <2>0, EarlierOther
  <2>3. brief'.read[u] = brief.read[u]
    BY <1>2, <2>2
  <2>4. u = "report" => brief'.read["facts"] = brief.read["facts"]
    <3>1. j <= brief.at
      BY <1>2, <1>8, <1>11
    <3> QED  BY <1>9, <1>11, <2>0, <3>1
  <2>5. u \in Kinds =>
          /\ still'[u] \subseteq brief.read[u] \/ Full(u, brief.read[u])
          /\ brief.read[u] \subseteq ever'[u]
    BY <1>6, <2>1 DEF ReadRight
  <2>6. brief'.plan[j] = u
    BY <1>2, <2>0
  <2>7. (u \in MoneyKinds)' => IsFiniteSet(brief.read[u])'
    BY <1>5, <2>1, <2>3 DEF ReadRight
  <2>8. u = "facts" => FactsRight(brief.read.facts)'
    BY <2>1, <2>3 DEF ReadRight, FactsRight
  <2>9. u = "stats" => (brief'.read.stats.overdue > 0 => brief'.read.stats.open > 0)
    BY <2>1, <2>3 DEF ReadRight
  <2>10. u = "report" =>
           (brief'.read.report.revenue # Sum(LAMBDA t : brief'.read.facts[t], BilledIn(brief'.read.facts))
              => brief'.read.report.hasEstimates)
    <3> SUFFICES ASSUME u = "report"
                 PROVE  brief'.read.report.revenue # Sum(LAMBDA t : brief'.read.facts[t], BilledIn(brief'.read.facts))
                          => brief'.read.report.hasEstimates
      OBVIOUS
    <3> DEFINE F == brief.read.facts
    <3>1. brief.read.report.revenue # Sum(LAMBDA t : F[t], BilledIn(F)) => brief.read.report.hasEstimates
      BY <2>1 DEF ReadRight
    <3>2. brief'.read.facts = F /\ brief'.read.report = brief.read.report
      BY <2>3, <2>4
    <3> HIDE DEF F
    <3> QED  BY <3>1, <3>2 DEF Sum
  <2>11. ReadRight(u)'
    BY <1>5, <2>5, <2>3, <2>7, <2>8, <2>9, <2>10 DEF ReadRight, BilledIn, Sum, Full, Count
  <2> QED  BY <2>6, <2>11, <2>0
<1>12. ReadsKept'
  <2>1. ASSUME NEW j \in DOMAIN brief.plan, j < brief.at + 1 PROVE ReadRight(brief.plan[j])'
    <3>1. j < brief.at \/ j = brief.at
      BY <1>2, <1>8, <2>1
    <3>2. CASE j = brief.at
      <4>1. brief'.plan[j] = s /\ brief.plan' = brief'.plan
        BY <1>0, <1>2, <3>2
      <4> QED  BY <1>2, <1>10, <4>1
    <3> QED  BY <1>11, <3>1, <3>2
  <2> QED  BY <1>2, <2>1 DEF ReadsKept
<1> QED  BY <1>2, <1>7, <1>12 DEF ReadingKept

(* An answer that fails leaves nothing that was read.                      *)
LEMMA FailKeeps ==
  ASSUME BriefAssumption, BriefShape, BriefFails
  PROVE  ReadingKept'
<1>1. brief' = [brief EXCEPT !.at = 0, !.page = "error", !.read = NotRead(Statements)]
  BY DEF BriefFails
<1>2. /\ brief'.plan = brief.plan /\ brief'.at = 0 /\ DOMAIN brief' = BriefFields
      /\ brief'.page = "error" /\ brief'.read = NotRead(brief.plan)
  <2> DEFINE nr == NotRead(Statements)
  <2>1. DOMAIN brief = BriefFields /\ nr = NotRead(brief.plan)
    BY DEF BriefShape, Statements
  <2>2. brief' = [brief EXCEPT !.at = 0, !.page = "error", !.read = nr]
    BY <1>1
  <2> HIDE DEF nr
  <2>3. brief'.plan = brief.plan /\ brief'.at = 0 /\ DOMAIN brief' = BriefFields
    BY <2>1, <2>2 DEF BriefFields
  <2>4. brief'.page = "error" /\ brief'.read = nr
    BY <2>1, <2>2 DEF BriefFields
  <2> QED  BY <2>1, <2>3, <2>4
<1>3. Len(brief.plan) \in Nat /\ DOMAIN brief.plan = 1..Len(brief.plan) /\ brief.plan \in Plans
  BY PlanFacts DEF BriefShape
<1>4. BriefShape'
  <2>1. brief'.read = [s \in {brief'.plan[k] : k \in DOMAIN brief'.plan} |-> brief'.read[s]]
    BY <1>2 DEF NotRead
  <2>2. brief'.at \in 0..(Len(brief'.plan) + 1)
    BY <1>2, <1>3
  <2> QED  BY <1>2, <1>3, <2>1, <2>2 DEF BriefShape
<1>5. ReadsKept' /\ Followed'
  BY <1>2, <1>3 DEF ReadsKept, Followed
<1> QED  BY <1>4, <1>5 DEF ReadingKept

(* Every step keeps the reading good. *)
LEMMA ReadingStep ==
  BriefAssumption /\ TypeOK /\ BooksKept /\ ReadingKept /\ [BriefNext]_briefVars => ReadingKept'
<1> SUFFICES ASSUME BriefAssumption, TypeOK, BooksKept, ReadingKept, [BriefNext]_briefVars
             PROVE  ReadingKept'
  OBVIOUS
<1>1. BriefShape /\ ReadsKept /\ Followed
  BY DEF ReadingKept
<1>2. CASE BookStep /\ Follow /\ UNCHANGED brief
  <2>1. ReadsKept' /\ Followed'
    BY <1>1, <1>2, FollowKeeps
  <2>2. BriefShape'
    BY <1>1, <1>2 DEF BriefShape
  <2> QED  BY <2>1, <2>2 DEF ReadingKept
<1>3. CASE BriefBegins
  BY <1>1, <1>3, BeginKeeps
<1>4. CASE BriefReads /\ Follow
  BY <1>4, ReadKeeps
<1>5. CASE BriefFails
  BY <1>1, <1>5, FailKeeps
<1>6. CASE UNCHANGED briefVars
  <2>1. UNCHANGED <<vars, bookVars>> /\ UNCHANGED <<brief, still, ever>>
    BY <1>6 DEF briefVars, readVars
  <2>2. BriefShape'
    BY <1>1, <2>1 DEF BriefShape
  <2>3. Kinds' = Kinds /\ MoneyKinds' = MoneyKinds /\ Kinds \subseteq WaitKinds
    BY <2>1 DEF Kinds, MoneyKinds, WaitKinds
  <2>4. \A k \in Kinds : Waiting(k)' = Waiting(k)
    BY <2>1, <2>3, SameWaiting
  <2>5. Followed'
    BY <1>1, <2>1, <2>3, <2>4 DEF Followed
  <2>6. \A s : ReadRight(s) => ReadRight(s)'
    BY <2>1, <2>3 DEF ReadRight, FactsRight, BilledIn, Sum, Full, Count
  <2>7. ReadsKept'
    BY <1>1, <2>1, <2>6 DEF ReadsKept
  <2> QED  BY <2>2, <2>5, <2>7 DEF ReadingKept
<1> QED  BY <1>2, <1>3, <1>4, <1>5, <1>6 DEF BriefNext

LEMMA Positive == \A n \in Nat : n > 0 => n # 0
  OBVIOUS

LEMMA NotPositive == \A n \in Nat : ~(n > 0) => n = 0
  OBVIOUS

(* A page that shows what was read this way is honest. *)
LEMMA Honest == BriefAssumption /\ ReadingKept => BriefIsHonest
<1> SUFFICES ASSUME BriefAssumption, ReadingKept PROVE BriefIsHonest
  OBVIOUS
<1>1. BriefShape /\ ReadsKept
  BY DEF ReadingKept
<1>2. Len(brief.plan) \in Nat /\ DOMAIN brief.plan = 1..Len(brief.plan) /\ brief.plan \in Plans
  BY <1>1, PlanFacts DEF BriefShape
<1>3. brief.page = "data" => brief.at = Len(brief.plan) + 1
  BY <1>1 DEF BriefShape
<1>4. ASSUME brief.page = "data", NEW s \in DOMAIN brief.read PROVE ReadRight(s)
  <2>1. PICK j \in DOMAIN brief.plan : s = brief.plan[j]
    BY <1>1, <1>4 DEF BriefShape
  <2>2. j < brief.at
    BY <1>2, <1>3, <1>4
  <2> QED  BY <1>1, <2>1, <2>2 DEF ReadsKept
<1>5. /\ MoneyCard = "all is handled" => brief.page = "data" /\ MoneyRows(brief.read) = {}
      /\ MoneyCard = "rows" => brief.page = "data"
      /\ ReportCard = "lines" => brief.page = "data"
      /\ Banner => brief.page = "data"
  BY <1>1 DEF MoneyCard, ReportCard, Banner, BriefShape
<1>6. Kinds \subseteq DOMAIN brief.read /\ MoneyKinds \subseteq Kinds
  BY DEF Kinds, MoneyKinds
<1>7. brief.page = "data" =>
        \A k \in Kinds :
          /\ still[k] \subseteq brief.read[k] \/ Full(k, brief.read[k])
          /\ brief.read[k] \subseteq ever[k]
  BY <1>4, <1>6 DEF ReadRight
<1>8. MoneyCard = "all is handled" => \A k \in MoneyKinds : still[k] = {}
  <2> SUFFICES ASSUME MoneyCard = "all is handled", NEW k \in MoneyKinds PROVE still[k] = {}
    OBVIOUS
  <2>1. ReadRight(k)
    BY <1>4, <1>5, <1>6
  <2>2. IsFiniteSet(brief.read[k]) /\ (still[k] \subseteq brief.read[k] \/ Full(k, brief.read[k]))
    BY <1>6, <2>1 DEF ReadRight
  <2>3. ~(Cardinality(brief.read[k]) > 0)
    BY <1>5 DEF MoneyRows, Count
  <2>4. Cardinality(brief.read[k]) \in Nat
    BY <2>2, FS_CardinalityType
  <2>5. Cardinality(brief.read[k]) = 0
    BY <2>3, <2>4, NotPositive
  <2>6. brief.read[k] = {}
    BY <2>2, <2>5, FS_EmptySet
  <2>7. ~Full(k, brief.read[k])
    <3>1. k \in DOMAIN Limit => Limit[k] \in Nat /\ Limit[k] > 0
      BY Constants
    <3>2. k \in DOMAIN Limit => Limit[k] # 0
      BY <3>1, Positive
    <3> QED  BY <2>5, <3>2 DEF Full, Count
  <2> QED  BY <2>2, <2>6, <2>7
<1>9. MoneyCard = "rows" => brief.at > Len(Statements)
  BY <1>2, <1>3, <1>5 DEF Statements
<1>10. "stats" \in DOMAIN brief.read => (Banner => Stat("open") > 0)
  <2> SUFFICES ASSUME "stats" \in DOMAIN brief.read, Banner PROVE Stat("open") > 0
    OBVIOUS
  <2>1. brief.page = "data"
    BY <1>5
  <2>2. ReadRight("stats")
    BY <1>4, <2>1
  <2>3. Stat("open") = brief.read.stats.open
    BY <2>1 DEF Stat
  <2> QED  BY <2>2, <2>3 DEF ReadRight, Banner
<1>11. ASSUME "report" \in DOMAIN brief.read, ReportCard = "lines",
              brief.read.report.revenue #
                Sum(LAMBDA t : brief.read.facts[t],
                    {t \in DOMAIN brief.read.facts : brief.read.facts[t] # Never})
       PROVE  "estimates" \in Caveats(brief.read.report)
  <2>1. ReadRight("report")
    BY <1>4, <1>5, <1>11
  <2>2. brief.read.report.hasEstimates
    BY <1>11, <2>1 DEF ReadRight, BilledIn
  <2> QED  BY <2>2 DEF Caveats
<1> QED  BY <1>7, <1>8, <1>9, <1>10, <1>11 DEF BriefIsHonest

(* The brief, the counters, the list of what is due and the report tell    *)
(* the owner what is true, for every tenant, calendar, plan of statements  *)
(* and grouping and any number of tasks, and what is closed was made:      *)
(* screens that speak of the same thing agree at every moment, and a page  *)
(* read by statements at different moments claims only what was so.        *)
THEOREM FiguresTrue == BriefSpec => []((closed \subseteq made) /\ FiguresAreTrue)
<1>1. Init /\ BriefInit => IInv /\ BooksKept /\ ReadingKept
  BY BriefAssumption, InitIInv, BooksInit, ReadingInit
<1>2. IInv /\ BooksKept /\ ReadingKept /\ [BriefNext]_briefVars => (IInv /\ BooksKept /\ ReadingKept)'
  <2> SUFFICES ASSUME IInv, BooksKept, ReadingKept, [BriefNext]_briefVars
               PROVE  (IInv /\ BooksKept /\ ReadingKept)'
    OBVIOUS
  <2>1. [Next]_vars
    BY BriefAssumption, BriefStepIsNext DEF briefVars
  <2>2. TypeOK
    BY DEF IInv
  <2>3. IInv'
    BY <2>1, StepIInv
  <2>4. BooksKept'
    BY BriefAssumption, BooksStep
  <2>5. ReadingKept'
    BY BriefAssumption, <2>2, ReadingStep
  <2> QED  BY <2>3, <2>4, <2>5
<1>3. IInv /\ BooksKept /\ ReadingKept => (closed \subseteq made) /\ FiguresAreTrue
  <2> SUFFICES ASSUME IInv, BooksKept, ReadingKept PROVE (closed \subseteq made) /\ FiguresAreTrue
    OBVIOUS
  <2>1. TypeOK
    BY DEF IInv
  <2>2. ScreensAgree
    BY BriefAssumption, <2>1, ScreensRight
  <2>3. BriefIsHonest
    BY BriefAssumption, Honest
  <2> QED  BY <2>2, <2>3 DEF FiguresAreTrue, BooksKept
<1> QED  BY <1>1, <1>2, <1>3, PTL DEF BriefSpec
=============================================================================
