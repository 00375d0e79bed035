--------------------------- MODULE InventoryProofs ---------------------------
(***************************************************************************)
(* For any items, tasks, consumers and deliveries: the ledger replays to   *)
(* the stock, no quantity goes below zero, a task deducts an item once,    *)
(* low stock is in the outbox, and the transactions behave as the atomic   *)
(* deductions of StockLedger.  The argument is that of two-phase locking:  *)
(* what a transaction has written stays right until it commits, because    *)
(* nobody else changes a row it holds the lock of.  Then, that what was    *)
(* taken is what the checklists say, code by code; and that the lists in   *)
(* which stock, customers and tasks are shown miss no row, for any rows,   *)
(* any size of the page and any number of pages.                           *)
(***************************************************************************)
EXTENDS Inventory, Lists, FiniteSetTheorems, WellFoundedInduction, TLAPS

(* Which of its transaction's state a consumer has at each of its steps.   *)
StagesOK ==
  \A c \in Consumers :
    /\ pc[c] # "idle" => task[c] \in Tasks
    /\ pc[c] # "deducting" => todo[c] = {} /\ wrote[c] = {}
    /\ pc[c] \in {"idle", "items", "recorded"} => owed[c] = {}
    /\ pc[c] \in {"recorded", "deducting"} =>
         /\ known[c] \subseteq exists
         /\ PlanItems(task[c]) \cap Initially \subseteq known[c]

(* A row is locked by the one transaction that has written it.             *)
LocksOK ==
  \A c \in Consumers : \A i \in Items :
    lock[i] = c <=> \E m \in wrote[c] : m.item = i

(* What a transaction has written still follows from the committed state.  *)
WroteOK ==
  \A c \in Consumers : \A m \in wrote[c] :
    /\ m.item \in known[c]
    /\ m.after = qty[m.item] + m.delta /\ m.after >= 0
    /\ \E k \in DOMAIN Plan[task[c]] : Plan[task[c]][k] = <<m.item, 0 - m.delta>>
    /\ m.after <= Threshold => m.item \in owed[c]
    /\ \A n \in wrote[c] : n.item = m.item => n = m

(* What is left to do is part of the plan and not done yet.                *)
TodoOK ==
  \A c \in Consumers : \A e \in todo[c] :
    /\ e.item \in known[c]
    /\ e.at \in DOMAIN Plan[task[c]] /\ Plan[task[c]][e.at] = <<e.item, e.qty>>
    /\ \A m \in wrote[c] : m.item # e.item

(* No item of the plan is lost between the reads and the commit.           *)
NothingIsLost ==
  \A c \in Consumers : pc[c] = "deducting" =>
    \A i \in PlanItems(task[c]) \cap Initially :
      \/ i \in Moved(task[c])
      \/ \E e \in todo[c] : e.item = i
      \/ \E m \in wrote[c] : m.item = i

(* An item that does not exist has no history.                             *)
ExistsOK ==
  /\ Initially \subseteq exists
  /\ \A i \in Items \ exists : ledger[i] = <<>> /\ qty[i] = 0

IInv ==
  /\ TypeOK /\ StagesOK /\ LocksOK /\ WroteOK /\ TodoOK /\ NothingIsLost /\ ExistsOK
  /\ StockIsSound /\ LowStockIsRecorded

-----------------------------------------------------------------------------
(* The rows of one item. *)

(* s is a history that replays to q, which is not negative, and in which   *)
(* a task occurs once.                                                     *)
Books(s, q) ==
  /\ q \in Int /\ q >= 0
  /\ \A k \in DOMAIN s : s[k].after = s[k].delta + IF k = 1 THEN 0 ELSE s[k - 1].after
  /\ q = IF s = <<>> THEN 0 ELSE s[Len(s)].after
  /\ \A j, k \in DOMAIN s : s[j].task = s[k].task /\ s[j].task # NoTask => j = k

LEMMA SoundByItem ==
  ASSUME TypeOK
  PROVE  StockIsSound <=> \A i \in Items : Books(ledger[i], qty[i])
  BY InventoryAssumption DEF TypeOK, StockIsSound, LedgerReplays, NeverNegative, DeductedOnce, Books

LEMMA SoundAfter ==
  ASSUME TypeOK'
  PROVE  StockIsSound' <=> \A i \in Items : Books(ledger'[i], qty'[i])
  BY InventoryAssumption DEF TypeOK, StockIsSound, LedgerReplays, NeverNegative, DeductedOnce, Books

(* Appending keeps what was there and adds one entry. *)
LEMMA Appended ==
  ASSUME NEW S, NEW s \in Seq(S), NEW e \in S
  PROVE  /\ Append(s, e) \in Seq(S) /\ Append(s, e) # <<>>
         /\ Len(Append(s, e)) = Len(s) + 1 /\ Append(s, e)[Len(s) + 1] = e
         /\ Len(s) \in Nat /\ DOMAIN s = 1..Len(s)
         /\ DOMAIN Append(s, e) = 1..(Len(s) + 1)
         /\ \A k \in 1..Len(s) : Append(s, e)[k] = s[k]
  OBVIOUS

(* A movement by a task that has none yet, computed from the quantity.     *)
LEMMA BooksGrow ==
  ASSUME NEW s \in Seq(Movement), NEW q, Books(s, q),
         NEW d \in Int, q + d >= 0, NEW t \in Tasks \cup {NoTask},
         t = NoTask \/ \A k \in DOMAIN s : s[k].task # t
  PROVE  Books(Append(s, [delta |-> d, after |-> q + d, task |-> t]), q + d)
<1> DEFINE e == [delta |-> d, after |-> q + d, task |-> t]
           u == Append(s, e)
<1>1. e \in Movement /\ q \in Int
  BY DEF Movement, Books
<1>2. /\ u \in Seq(Movement) /\ u # <<>> /\ Len(u) = Len(s) + 1 /\ u[Len(s) + 1] = e
      /\ Len(s) \in Nat /\ DOMAIN s = 1..Len(s) /\ DOMAIN u = 1..(Len(s) + 1)
      /\ \A k \in 1..Len(s) : u[k] = s[k]
  BY <1>1, Appended
<1>3. e.delta = d /\ e.after = q + d /\ e.task = t
  OBVIOUS
<1> HIDE DEF e, u
<1>4. \A k \in DOMAIN u : u[k].after = u[k].delta + IF k = 1 THEN 0 ELSE u[k - 1].after
  <2> SUFFICES ASSUME NEW k \in DOMAIN u
               PROVE  u[k].after = u[k].delta + IF k = 1 THEN 0 ELSE u[k - 1].after
    OBVIOUS
  <2>1. CASE k \in 1..Len(s)
    BY <2>1, <1>2 DEF Books
  <2>2. CASE k = Len(s) + 1
    <3>1. CASE s = <<>>
      BY <3>1, <2>2, <1>2, <1>3, <1>1 DEF Books
    <3>2. CASE s # <<>>
      <4>1. Len(s) \in 1..Len(s) /\ Len(s) + 1 # 1 /\ (Len(s) + 1) - 1 = Len(s)
        BY <3>2, <1>2
      <4>2. u[Len(s)].after = q
        BY <4>1, <3>2, <1>2 DEF Books
      <4> QED BY <4>1, <4>2, <2>2, <1>2, <1>3, <1>1
    <3> QED BY <3>1, <3>2
  <2> QED BY <2>1, <2>2, <1>2
<1>5. q + d = IF u = <<>> THEN 0 ELSE u[Len(u)].after
  BY <1>2, <1>3
<1>6. \A j, k \in DOMAIN u : u[j].task = u[k].task /\ u[j].task # NoTask => j = k
  BY <1>2, <1>3 DEF Books
<1> QED BY <1>1, <1>4, <1>5, <1>6 DEF Books, u, e

(* What an item starts with. *)
LEMMA BooksOpen ==
  ASSUME NEW q \in Nat
  PROVE  Opening(q) \in Seq(Movement) /\ Books(Opening(q), q)
<1>1. [delta |-> q, after |-> q, task |-> NoTask] \in Movement
  BY DEF Movement
<1>2. CASE q = 0
  BY <1>2 DEF Opening, Books
<1>3. CASE q # 0
  <2> DEFINE e == [delta |-> q, after |-> q, task |-> NoTask]
  <2>1. Opening(q) = <<e>>
    BY <1>3 DEF Opening
  <2>2. <<e>> \in Seq(Movement) /\ Len(<<e>>) = 1 /\ DOMAIN <<e>> = {1} /\ <<e>>[1] = e /\ <<e>> # <<>>
    BY <1>1
  <2>3. e.delta = q /\ e.after = q /\ e.task = NoTask
    OBVIOUS
  <2> QED BY <2>1, <2>2, <2>3 DEF Books
<1> QED BY <1>2, <1>3

-----------------------------------------------------------------------------
(* Induction over the natural numbers and over finite sets, and what it    *)
(* gives: a recursion over an interval has a solution, and the sum of a    *)
(* function over a finite set does not depend on the order.                *)

LEMMA Induction ==
  ASSUME NEW S, 0 \in S, \A n \in Nat : n \in S => n + 1 \in S
  PROVE  Nat \subseteq S
<1> DEFINE T == Nat \ S
           R == OpToRel(<, Nat)
<1>1. SUFFICES ASSUME T # {} PROVE FALSE
  OBVIOUS
<1>2. IsWellFoundedOn(R, Nat)
  BY NatLessThanWellFounded
<1>3. PICK x \in T : \A y \in T : ~(<<y, x>> \in R)
  <2>1. T \subseteq Nat
    OBVIOUS
  <2> HIDE DEF R, T
  <2> QED  BY <1>1, <1>2, <2>1, WFMin
<1>4. x # 0 /\ x \in Nat
  BY <1>3
<1>5. x - 1 \in Nat /\ x - 1 < x /\ x = (x - 1) + 1
  BY <1>4
<1>6. x - 1 \in T
  BY <1>5, <1>3
<1>7. <<x - 1, x>> \in R
  BY <1>5, <1>4 DEF OpToRel
<1> QED  BY <1>3, <1>6, <1>7

(* f is computed from b in N steps. *)
Computes(f, N, T, b, step) ==
  /\ f \in [0..N -> T] /\ f[0] = b
  /\ \A n \in 1..N : f[n] = step[<<n, f[n - 1]>>]

(* A recursion over 0..N has a solution. *)
LEMMA Recursion ==
  ASSUME NEW N \in Nat, NEW T, NEW b \in T, NEW step \in [(1..N) \X T -> T]
  PROVE  \E f : Computes(f, N, T, b, step)
<1> DEFINE Good(f, m) == f[0] = b /\ \A n \in 1..m : f[n] = step[<<n, f[n - 1]>>]
           S == {m \in Nat : m \in 0..N => \E f \in [0..m -> T] : Good(f, m)}
<1>1. 0 \in S
  <2>1. [n \in 0..0 |-> b] \in [0..0 -> T] /\ Good([n \in 0..0 |-> b], 0)
    OBVIOUS
  <2> QED  BY <2>1
<1>2. ASSUME NEW m \in Nat, m \in S PROVE m + 1 \in S
  <2>1. SUFFICES ASSUME m + 1 \in 0..N
                 PROVE  \E f \in [0..(m + 1) -> T] : Good(f, m + 1)
    OBVIOUS
  <2>2. m \in 0..N
    BY <2>1
  <2>3. PICK f \in [0..m -> T] : Good(f, m)
    BY <1>2, <2>2
  <2> DEFINE v == step[<<m + 1, f[m]>>]
             g == [n \in 0..(m + 1) |-> IF n = m + 1 THEN v ELSE f[n]]
  <2>4. v \in T
    BY <2>1, <2>3
  <2>5. g \in [0..(m + 1) -> T]
    <3> HIDE DEF v
    <3>1. \A n \in 0..(m + 1) : n = m + 1 \/ n \in 0..m
      OBVIOUS
    <3> QED  BY <2>3, <2>4, <3>1
  <2>6. g[0] = b
    BY <2>3
  <2>7. ASSUME NEW n \in 1..(m + 1) PROVE g[n] = step[<<n, g[n - 1]>>]
    <3>1. CASE n = m + 1
      <4>1. n - 1 = m /\ n \in 0..(m + 1) /\ n - 1 \in 0..(m + 1) /\ m # m + 1 /\ n - 1 # m + 1
        BY <3>1
      <4>2. g[n] = v
        BY <4>1, <3>1
      <4>3. g[n - 1] = f[m]
        BY <4>1, <3>1
      <4> QED  BY <4>2, <4>3, <3>1
    <3>2. CASE n # m + 1
      <4>1. n \in 1..m /\ n - 1 \in 0..m /\ n - 1 # m + 1 /\ n \in 0..(m + 1) /\ n - 1 \in 0..(m + 1)
        BY <3>2
      <4>2. g[n] = f[n]
        BY <4>1, <3>2
      <4>3. g[n - 1] = f[n - 1]
        BY <4>1, <3>2
      <4> QED  BY <4>2, <4>3, <2>3, <4>1
    <3> QED  BY <3>1, <3>2
  <2>8. Good(g, m + 1)
    <3> HIDE DEF g
    <3> QED  BY <2>6, <2>7
  <2> HIDE DEF g, Good
  <2> QED  BY <2>5, <2>8
<1>3. Nat \subseteq S
  <2> HIDE DEF S
  <2> QED  BY <1>1, <1>2, Induction
<1>4. N \in S
  BY <1>3
<1>5. PICK f \in [0..N -> T] : Good(f, N)
  BY <1>4
<1> QED  BY <1>5 DEF Computes

LEMMA SetInduction ==
  ASSUME NEW S, IsFiniteSet(S), NEW P, {} \in P,
         \A s \in SUBSET S : \A x \in S \ s : s \in P => s \cup {x} \in P
  PROVE  S \in P
<1> DEFINE N == {n \in Nat : \A s \in SUBSET S : Cardinality(s) = n => s \in P}
<1>1. \A s \in SUBSET S : IsFiniteSet(s) /\ Cardinality(s) \in Nat
  BY FS_Subset, FS_CardinalityType
<1>2. 0 \in N
  BY <1>1, FS_EmptySet
<1>3. ASSUME NEW n \in Nat, n \in N PROVE n + 1 \in N
  <2> SUFFICES ASSUME NEW s \in SUBSET S, Cardinality(s) = n + 1 PROVE s \in P
    OBVIOUS
  <2>0. n + 1 # 0 /\ (n + 1) - 1 = n /\ IsFiniteSet(s)
    BY <1>1
  <2>1. s # {}
    BY <2>0, FS_EmptySet
  <2>2. PICK x \in s : TRUE
    BY <2>1
  <2>3. Cardinality(s \ {x}) = n
    <3> HIDE DEF N
    <3> QED  BY <2>0, <2>2, FS_RemoveElement
  <2>4. s \ {x} \in P /\ x \in S \ (s \ {x}) /\ (s \ {x}) \cup {x} = s /\ s \ {x} \in SUBSET S
    BY <2>3, <1>3, <2>2
  <2> HIDE DEF N
  <2> QED  BY <2>4
<1>4. Nat \subseteq N
  <2> HIDE DEF N
  <2> QED  BY <1>2, <1>3, Induction
<1> QED  BY <1>1, <1>4

Chosen(s) == CHOOSE x \in s : TRUE

SumsUp(it, f, S) ==
  it = [s \in SUBSET S |-> IF s = {} THEN 0 ELSE f[Chosen(s)] + it[s \ {Chosen(s)}]]

(* The recursion of a sum has a solution. *)
LEMMA SumExists ==
  ASSUME NEW S, IsFiniteSet(S), NEW f, \A x \in S : f[x] \in Int
  PROVE  \E it \in [SUBSET S -> Int] : SumsUp(it, f, S)
<1> DEFINE N == Cardinality(S)
           T == [SUBSET S -> Int]
           Up(it) == [s \in SUBSET S |-> IF s = {} THEN 0 ELSE f[Chosen(s)] + it[s \ {Chosen(s)}]]
           step == [p \in (1..(N + 1)) \X T |-> Up(p[2])]
           b == [s \in SUBSET S |-> 0]
<1>1. N \in Nat /\ b \in T
  BY FS_CardinalityType
<1>2. \A s \in SUBSET S : s # {} => Chosen(s) \in s /\ Chosen(s) \in S /\ s \ {Chosen(s)} \in SUBSET S
  BY DEF Chosen
<1>3. \A it \in T : Up(it) \in T
  <2> SUFFICES ASSUME NEW it \in T, NEW s \in SUBSET S, s # {}
               PROVE  f[Chosen(s)] + it[s \ {Chosen(s)}] \in Int
    OBVIOUS
  <2> QED  BY <1>2
<1>4. \A n \in 1..(N + 1) : \A v \in T : step[<<n, v>>] \in T /\ step[<<n, v>>] = Up(v)
  BY <1>3
<1>5. PICK h \in [0..(N + 1) -> T] : h[0] = b /\ \A n \in 1..(N + 1) : h[n] = Up(h[n - 1])
  <2> HIDE DEF T, step, b, Up
  <2>1. N + 1 \in Nat
    BY <1>1
  <2> DEFINE M == N + 1
  <2>2. \E h : Computes(h, M, T, b, step)
    <3>1. M \in Nat /\ b \in T /\ step \in [(1..M) \X T -> T]
      <4>1. step \in [(1..M) \X T -> T]
        <5>1. \A p \in (1..M) \X T : Up(p[2]) \in T
          BY <1>3
        <5> HIDE DEF Up, T, M
        <5> QED  BY <5>1 DEF step, M
      <4> QED  BY <1>1, <2>1, <4>1
    <3> HIDE DEF M, N
    <3> QED  BY <3>1, Recursion
  <2> HIDE DEF N
  <2>3. PICK h \in [0..(N + 1) -> T] : h[0] = b /\ \A n \in 1..(N + 1) : h[n] = step[<<n, h[n - 1]>>]
    BY <2>2 DEF Computes
  <2>4. \A n \in 1..(N + 1) : h[n] = Up(h[n - 1])
    <3> SUFFICES ASSUME NEW n \in 1..(N + 1) PROVE h[n] = Up(h[n - 1])
      OBVIOUS
    <3>1. n - 1 \in 0..(N + 1)
      BY <1>1
    <3> QED  BY <1>4, <2>3, <3>1
  <2> QED  BY <2>3, <2>4
<1> DEFINE K == {n \in Nat : n \in 0..N => \A s \in SUBSET S : Cardinality(s) <= n => h[n + 1][s] = h[n][s]}
<1>6. \A s \in SUBSET S : IsFiniteSet(s) /\ Cardinality(s) \in Nat /\ Cardinality(s) <= N
  BY FS_Subset, FS_CardinalityType
<1>7. \A n \in 0..N : \A s \in SUBSET S :
        h[n + 1][s] = IF s = {} THEN 0 ELSE f[Chosen(s)] + h[n][s \ {Chosen(s)}]
  <2> SUFFICES ASSUME NEW n \in 0..N PROVE h[n + 1] = Up(h[n])
    OBVIOUS
  <2> HIDE DEF Up, N
  <2>1. n + 1 \in 1..(N + 1) /\ (n + 1) - 1 = n
    BY <1>1
  <2>2. h[n + 1] = Up(h[(n + 1) - 1])
    BY <1>5, <2>1
  <2> QED  BY <2>1, <2>2
<1>8. 0 \in K
  <2> SUFFICES ASSUME 0 \in 0..N, NEW s \in SUBSET S, Cardinality(s) <= 0 PROVE h[0 + 1][s] = h[0][s]
    OBVIOUS
  <2>1. s = {}
    BY <1>6, FS_EmptySet
  <2> HIDE DEF N, T, K
  <2>2. h[0 + 1][s] = 0
    BY <1>7, <2>1
  <2>3. h[0][s] = 0
    BY <1>5, <2>1 DEF T
  <2> QED  BY <2>2, <2>3
<1>9. ASSUME NEW n \in Nat, n \in K PROVE n + 1 \in K
  <2> SUFFICES ASSUME n + 1 \in 0..N, NEW s \in SUBSET S, Cardinality(s) <= n + 1
               PROVE  h[(n + 1) + 1][s] = h[n + 1][s]
    OBVIOUS
  <2>1. n \in 0..N
    BY <1>1
  <2>2. CASE s = {}
    BY <1>7, <2>1, <2>2
  <2>3. CASE s # {}
    <3>1. Chosen(s) \in s /\ s \ {Chosen(s)} \in SUBSET S
      BY <1>2, <2>3
    <3>2. Cardinality(s \ {Chosen(s)}) = Cardinality(s) - 1
      BY <3>1, <1>6, FS_RemoveElement
    <3>3. h[n + 1][s \ {Chosen(s)}] = h[n][s \ {Chosen(s)}]
      BY <3>1, <3>2, <1>6, <1>9, <2>1
    <3>4. n + 1 \in 0..N
      OBVIOUS
    <3>5. h[n + 1][s] = f[Chosen(s)] + h[n][s \ {Chosen(s)}]
      BY <1>7, <2>1, <2>3
    <3>6. h[(n + 1) + 1][s] = f[Chosen(s)] + h[n + 1][s \ {Chosen(s)}]
      <4> HIDE DEF N, K, T
      <4> QED  BY <1>7, <3>4, <2>3
    <3> QED  BY <3>3, <3>5, <3>6
  <2> QED  BY <2>2, <2>3
<1>10. Nat \subseteq K
  <2> HIDE DEF K
  <2> QED  BY <1>8, <1>9, Induction
<1>11. h[N] \in T /\ N \in 0..N
  <2> HIDE DEF N, T
  <2>1. N \in 0..N /\ N \in 0..(N + 1)
    BY <1>1
  <2> QED  BY <2>1, <1>5
<1>12. \A s \in SUBSET S : h[N][s] = IF s = {} THEN 0 ELSE f[Chosen(s)] + h[N][s \ {Chosen(s)}]
  <2> SUFFICES ASSUME NEW s \in SUBSET S PROVE h[N][s] = h[N + 1][s]
    BY <1>7, <1>11
  <2> QED  BY <1>10, <1>11, <1>6
<1>13. SumsUp(h[N], f, S)
  <2> HIDE DEF N
  <2> QED  BY <1>11, <1>12 DEF SumsUp
<1> QED  BY <1>11, <1>13

(* ... and only one. *)
LEMMA SumUnique ==
  ASSUME NEW S, IsFiniteSet(S), NEW f, \A x \in S : f[x] \in Int,
         NEW R, R \subseteq S,
         NEW it, SumsUp(it, f, S), NEW jt, SumsUp(jt, f, R)
  PROVE  it[R] = jt[R]
<1> DEFINE K == {n \in Nat : \A s \in SUBSET R : Cardinality(s) = n => it[s] = jt[s]}
<1>1. \A s \in SUBSET R : IsFiniteSet(s) /\ Cardinality(s) \in Nat
  BY FS_Subset, FS_CardinalityType
<1>2. 0 \in K
  <2> SUFFICES ASSUME NEW s \in SUBSET R, Cardinality(s) = 0 PROVE it[s] = jt[s]
    OBVIOUS
  <2>1. s = {} /\ s \in SUBSET S
    BY <1>1, FS_EmptySet
  <2>2. it[s] = 0
    BY <2>1 DEF SumsUp
  <2>3. jt[s] = 0
    BY <2>1 DEF SumsUp
  <2> QED  BY <2>2, <2>3
<1>3. ASSUME NEW n \in Nat, n \in K PROVE n + 1 \in K
  <2> SUFFICES ASSUME NEW s \in SUBSET R, Cardinality(s) = n + 1 PROVE it[s] = jt[s]
    OBVIOUS
  <2>0. n + 1 # 0 /\ (n + 1) - 1 = n /\ IsFiniteSet(s)
    BY <1>1
  <2>1. s # {} /\ s \in SUBSET S
    BY <2>0, FS_EmptySet
  <2>2. Chosen(s) \in s
    BY <2>1 DEF Chosen
  <2>3. Cardinality(s \ {Chosen(s)}) = n /\ s \ {Chosen(s)} \in SUBSET R
    <3>1. Cardinality(s \ {Chosen(s)}) = Cardinality(s) - 1
      BY <2>0, <2>2, FS_RemoveElement
    <3> QED  BY <2>0, <3>1
  <2>4. it[s \ {Chosen(s)}] = jt[s \ {Chosen(s)}]
    BY <2>3, <1>3
  <2>5. it[s] = f[Chosen(s)] + it[s \ {Chosen(s)}]
    BY <2>1 DEF SumsUp
  <2>6. jt[s] = f[Chosen(s)] + jt[s \ {Chosen(s)}]
    BY <2>1 DEF SumsUp
  <2> QED  BY <2>4, <2>5, <2>6
<1>4. Nat \subseteq K
  <2> HIDE DEF K
  <2> QED  BY <1>2, <1>3, Induction
<1>5. Cardinality(R) \in K
  BY <1>1, <1>4
<1> QED  BY <1>5

LEMMA SumIs ==
  ASSUME NEW S, IsFiniteSet(S), NEW f, \A x \in S : f[x] \in Int
  PROVE  \E it \in [SUBSET S -> Int] : SumsUp(it, f, S) /\ SumFunctionOnSet(f, S) = it[S]
<1> DEFINE it == CHOOSE it : SumsUp(it, f, S)
<1>1. PICK jt \in [SUBSET S -> Int] : SumsUp(jt, f, S)
  BY SumExists
<1>2. SumsUp(it, f, S)
  BY <1>1
<1>3. SumFunctionOnSet(f, S) = it[S]
  BY Zenon DEF SumFunctionOnSet, FoldFunctionOnSet, MapThenFoldSet, SumsUp, Chosen
<1>4. it[S] = jt[S]
  <2> HIDE DEF it
  <2> QED  BY <1>1, <1>2, SumUnique
<1> QED  BY <1>1, <1>3, <1>4

LEMMA SumEmpty ==
  ASSUME NEW f PROVE SumFunctionOnSet(f, {}) = 0
<1>1. PICK it \in [SUBSET {} -> Int] : SumsUp(it, f, {}) /\ SumFunctionOnSet(f, {}) = it[{}]
  BY FS_EmptySet, SumIs
<1>2. it[{}] = 0
  BY <1>1 DEF SumsUp
<1> QED  BY <1>1, <1>2 

(* An element may be taken out first, whichever it is. *)
TakesOut(it, f, S, x) == it[S] = f[x] + it[S \ {x}]

LEMMA SumAnyOrder ==
  ASSUME NEW S, IsFiniteSet(S), NEW f, \A x \in S : f[x] \in Int,
         NEW it, SumsUp(it, f, S), it \in [SUBSET S -> Int],
         NEW x \in S
  PROVE  TakesOut(it, f, S, x)
<1> DEFINE K == {n \in Nat : \A s \in SUBSET S : Cardinality(s) = n => \A y \in s : it[s] = f[y] + it[s \ {y}]}
<1>1. \A s \in SUBSET S : IsFiniteSet(s) /\ Cardinality(s) \in Nat
  BY FS_Subset, FS_CardinalityType
<1>2. 0 \in K
  <2> SUFFICES ASSUME NEW s \in SUBSET S, Cardinality(s) = 0 PROVE s = {}
    OBVIOUS
  <2> QED  BY <1>1, FS_EmptySet
<1>3. ASSUME NEW n \in Nat, n \in K PROVE n + 1 \in K
  <2> SUFFICES ASSUME NEW s \in SUBSET S, Cardinality(s) = n + 1, NEW y \in s
               PROVE  it[s] = f[y] + it[s \ {y}]
    OBVIOUS
  <2> DEFINE z == Chosen(s)
  <2>1. (n + 1) - 1 = n /\ IsFiniteSet(s)
    BY <1>1
  <2>2. z \in s /\ s # {}
    BY DEF Chosen
  <2> HIDE DEF z
  <2>3. it[s] = f[z] + it[s \ {z}]
    BY <2>2 DEF SumsUp, z
  <2>4. CASE z = y
    BY <2>3, <2>4
  <2>5. CASE z # y
    <3>1. Cardinality(s \ {z}) = n
      <4>1. Cardinality(s \ {z}) = Cardinality(s) - 1
        BY <2>1, <2>2, FS_RemoveElement
      <4> QED  BY <2>1, <4>1
    <3>2. Cardinality(s \ {y}) = n
      <4>1. Cardinality(s \ {y}) = Cardinality(s) - 1
        BY <2>1, FS_RemoveElement
      <4> QED  BY <2>1, <4>1
    <3>3. it[s \ {z}] = f[y] + it[(s \ {z}) \ {y}]
      BY <1>3, <3>1, <2>5
    <3>4. it[s \ {y}] = f[z] + it[(s \ {y}) \ {z}]
      BY <1>3, <3>2, <2>2, <2>5
    <3>5. (s \ {z}) \ {y} = (s \ {y}) \ {z} /\ (s \ {y}) \ {z} \in SUBSET S /\ y \in S /\ z \in S
      BY <2>2
    <3> DEFINE u == (s \ {y}) \ {z}
    <3>6. it[u] \in Int /\ f[y] \in Int /\ f[z] \in Int
      BY <3>5
    <3>7. it[s \ {z}] = f[y] + it[u] /\ it[s \ {y}] = f[z] + it[u]
      BY <3>3, <3>4, <3>5
    <3> HIDE DEF u, K
    <3> QED  BY <2>3, <3>6, <3>7
  <2> QED  BY <2>4, <2>5
<1>4. Nat \subseteq K
  <2> HIDE DEF K
  <2> QED  BY <1>2, <1>3, Induction
<1> QED  BY <1>1, <1>4 DEF TakesOut

LEMMA SumAdd ==
  ASSUME NEW S, IsFiniteSet(S), NEW x, x \notin S, NEW f, \A y \in S \cup {x} : f[y] \in Int
  PROVE  SumFunctionOnSet(f, S \cup {x}) = f[x] + SumFunctionOnSet(f, S)
<1> DEFINE W == S \cup {x}
<1>1. IsFiniteSet(W) /\ S \subseteq W /\ W \ {x} = S /\ x \in W
  BY FS_AddElement
<1>2. PICK it \in [SUBSET W -> Int] : SumsUp(it, f, W) /\ SumFunctionOnSet(f, W) = it[W]
  <2> HIDE DEF W
  <2> QED  BY <1>1, SumIs DEF W
<1>3. PICK jt \in [SUBSET S -> Int] : SumsUp(jt, f, S) /\ SumFunctionOnSet(f, S) = jt[S]
  BY SumIs
<1>4. it[W] = f[x] + it[W \ {x}]
  <2>1. \A y \in W : f[y] \in Int
    OBVIOUS
  <2> HIDE DEF W
  <2>2. it \in [SUBSET W -> Int] /\ SumsUp(it, f, W)
    BY <1>2
  <2>3. IsFiniteSet(W) /\ x \in W
    BY <1>1
  <2>4. TakesOut(it, f, W, x)
    BY <2>3, <2>2, <2>1, SumAnyOrder
  <2> QED  BY <2>4 DEF TakesOut
<1>5. it[S] = jt[S]
  <2> HIDE DEF W
  <2> QED  BY <1>1, <1>2, <1>3, SumUnique DEF W
<1> QED  BY <1>1, <1>2, <1>3, <1>4, <1>5 

LEMMA SumInt ==
  ASSUME NEW S, IsFiniteSet(S), NEW f, \A x \in S : f[x] \in Int
  PROVE  SumFunctionOnSet(f, S) \in Int
<1>1. PICK it \in [SUBSET S -> Int] : SumsUp(it, f, S) /\ SumFunctionOnSet(f, S) = it[S]
  BY SumIs
<1> QED  BY <1>1 

(* Sums of the same terms are the same. *)
LEMMA SumSame ==
  ASSUME NEW S, IsFiniteSet(S), NEW f, NEW g, \A x \in S : f[x] \in Int /\ g[x] = f[x]
  PROVE  SumFunctionOnSet(g, S) = SumFunctionOnSet(f, S)
<1> DEFINE P == {s \in SUBSET S : SumFunctionOnSet(g, s) = SumFunctionOnSet(f, s)}
<1>1. {} \in P
  BY SumEmpty
<1>2. ASSUME NEW s \in SUBSET S, NEW x \in S \ s, s \in P PROVE s \cup {x} \in P
  <2>1. IsFiniteSet(s)
    BY FS_Subset
  <2>2. (\A y \in s \cup {x} : f[y] \in Int) /\ (\A y \in s \cup {x} : g[y] \in Int) /\ g[x] = f[x]
    OBVIOUS
  <2>3. SumFunctionOnSet(g, s \cup {x}) = g[x] + SumFunctionOnSet(g, s)
    BY <2>1, <2>2, SumAdd
  <2>4. SumFunctionOnSet(f, s \cup {x}) = f[x] + SumFunctionOnSet(f, s)
    BY <2>1, <2>2, SumAdd
  <2> QED  BY <1>2, <2>2, <2>3, <2>4
<1>3. S \in P
  <2> HIDE DEF P
  <2> QED  BY <1>1, <1>2, SetInduction
<1> QED  BY <1>3

-----------------------------------------------------------------------------
(* The plan of a checklist. *)

PlanEntry == Items \X (Nat \ {0})

(* The items among the first n that count for a SKU, ... *)
CountingTo(c, sku, n) == {k \in 1..n : Counts(c[k]) /\ c[k].sku = sku}
Quantities(c) == [k \in DOMAIN c |-> Quantity(c[k])]

(* ... and a plan that is right for them. *)
PlanRight(p, c, n) ==
  /\ p \in Seq(PlanEntry)
  /\ \A j, k \in DOMAIN p : p[j][1] = p[k][1] => j = k
  /\ \A k \in DOMAIN p : p[k][2] = SumFunctionOnSet(Quantities(c), CountingTo(c, p[k][1], n))
  /\ \A sku \in Items : CountingTo(c, sku, n) # {} <=> \E k \in DOMAIN p : p[k][1] = sku

LEMMA QuantityPositive ==
  ASSUME NEW c \in Seq(ChecklistItem), NEW k \in DOMAIN c
  PROVE  Quantity(c[k]) \in Nat \ {0}
<1>1. c[k] \in ChecklistItem
  OBVIOUS
<1>2. c[k].qty \in Int \cup {NotInteger}
  BY <1>1 DEF ChecklistItem
<1> QED  BY <1>2 DEF Quantity

(* An entry of the plan is changed in place, or added at the end. *)
LEMMA AddToType ==
  ASSUME NEW p \in Seq(PlanEntry), NEW it \in ChecklistItem, Quantity(it) \in Nat \ {0}
  PROVE  AddTo(p, it) \in Seq(PlanEntry)
<1>1. CASE ~Counts(it)
  BY <1>1 DEF AddTo
<1>2. CASE Counts(it) /\ \E k \in DOMAIN p : p[k][1] = it.sku
  <2> DEFINE E(k) == IF p[k][1] = it.sku THEN <<it.sku, p[k][2] + Quantity(it)>> ELSE p[k]
  <2>1. DOMAIN p = 1..Len(p) /\ Len(p) \in Nat
    OBVIOUS
  <2>2. \A k \in 1..Len(p) : E(k) \in PlanEntry
    <3> SUFFICES ASSUME NEW k \in 1..Len(p) PROVE E(k) \in PlanEntry
      OBVIOUS
    <3>1. p[k] \in PlanEntry
      OBVIOUS
    <3>2. p[k][2] + Quantity(it) \in Nat \ {0} /\ p[k][1] \in Items
      BY <3>1 DEF PlanEntry
    <3> QED  BY <3>1, <3>2 DEF PlanEntry
  <2>3. AddTo(p, it) = [k \in 1..Len(p) |-> E(k)]
    BY <1>2, <2>1 DEF AddTo
  <2> HIDE DEF E
  <2> QED  BY <2>1, <2>2, <2>3
<1>3. CASE Counts(it) /\ ~\E k \in DOMAIN p : p[k][1] = it.sku
  <2>1. it.sku \in Items
    BY <1>3 DEF ChecklistItem, Counts
  <2>2. <<it.sku, Quantity(it)>> \in PlanEntry
    BY <2>1 DEF PlanEntry
  <2>3. AddTo(p, it) = Append(p, <<it.sku, Quantity(it)>>)
    BY <1>3 DEF AddTo
  <2> QED  BY <2>2, <2>3
<1> QED  BY <1>1, <1>2, <1>3

(* Every step over an item keeps the plan right. *)
LEMMA AddToRight ==
  ASSUME NEW c \in Seq(ChecklistItem), NEW n \in Nat, n + 1 \in DOMAIN c,
         NEW p, PlanRight(p, c, n)
  PROVE  PlanRight(AddTo(p, c[n + 1]), c, n + 1)
<1> DEFINE it == c[n + 1]
           q == AddTo(p, it)
           f == Quantities(c)
           C(sku) == CountingTo(c, sku, n)
           D(sku) == CountingTo(c, sku, n + 1)
<1>1. it \in ChecklistItem /\ Quantity(it) \in Nat \ {0} /\ f[n + 1] = Quantity(it)
  BY QuantityPositive DEF Quantities
<1>2. p \in Seq(PlanEntry) /\ Len(p) \in Nat /\ DOMAIN p = 1..Len(p)
  BY DEF PlanRight
<1>3. q \in Seq(PlanEntry)
  BY <1>1, <1>2, AddToType
<1>4. \A sku : D(sku) = IF Counts(it) /\ it.sku = sku THEN C(sku) \cup {n + 1} ELSE C(sku)
  <2>1. \A k \in 1..(n + 1) : k \in 1..n \/ k = n + 1
    OBVIOUS
  <2>2. \A k \in 1..n : k \in 1..(n + 1)
    OBVIOUS
  <2>3. n + 1 \in 1..(n + 1)
    OBVIOUS
  <2> QED  BY <2>1, <2>2, <2>3 DEF CountingTo
<1>5. \A sku : IsFiniteSet(C(sku)) /\ n + 1 \notin C(sku)
  <2>1. IsFiniteSet(1..n)
    BY FS_Interval
  <2> SUFFICES ASSUME NEW sku PROVE IsFiniteSet(C(sku)) /\ n + 1 \notin C(sku)
    OBVIOUS
  <2>2. C(sku) \in SUBSET (1..n)
    BY DEF CountingTo
  <2> HIDE DEF C
  <2>3. IsFiniteSet(C(sku))
    BY <2>1, <2>2, FS_Subset
  <2> QED  BY <2>2, <2>3
<1>6. \A sku : \A k \in C(sku) \cup {n + 1} : f[k] \in Int
  <2> SUFFICES ASSUME NEW k \in 1..(n + 1) PROVE f[k] \in Int
    BY DEF CountingTo
  <2>1. k \in DOMAIN c
    OBVIOUS
  <2> QED  BY <2>1, QuantityPositive DEF Quantities
<1>7. ASSUME NEW sku PROVE SumFunctionOnSet(f, C(sku) \cup {n + 1}) = Quantity(it) + SumFunctionOnSet(f, C(sku))
  <2> HIDE DEF C, f
  <2> QED  BY <1>1, <1>5, <1>6, SumAdd
<1>8. \A sku : SumFunctionOnSet(f, C(sku)) \in Int
  <2> HIDE DEF C, f
  <2> QED  BY <1>5, <1>6, SumInt
<1>9. /\ \A j, k \in DOMAIN p : p[j][1] = p[k][1] => j = k
      /\ \A k \in DOMAIN p : p[k][2] = SumFunctionOnSet(f, C(p[k][1]))
      /\ \A sku \in Items : C(sku) # {} <=> \E k \in DOMAIN p : p[k][1] = sku
  BY DEF PlanRight
<1> HIDE DEF C, D, f
<1> SUFFICES PlanRight(q, c, n + 1)
  OBVIOUS
<1>10. CASE ~Counts(it)
  <2>1. q = p
    BY <1>10 DEF AddTo
  <2>2. \A sku : D(sku) = C(sku)
    BY <1>10, <1>4
  <2> QED  BY <1>3, <1>9, <2>1, <2>2 DEF PlanRight, C, D, f
<1>11. CASE Counts(it) /\ \E k \in DOMAIN p : p[k][1] = it.sku
  <2>1. q = [k \in DOMAIN p |-> IF p[k][1] = it.sku THEN <<it.sku, p[k][2] + Quantity(it)>> ELSE p[k]]
    BY <1>11 DEF AddTo
  <2>2. DOMAIN q = DOMAIN p /\ \A k \in DOMAIN p : q[k][1] = p[k][1]
    BY <2>1
  <2>3. \A k \in DOMAIN p : p[k][2] \in Int
    BY <1>2 DEF PlanEntry
  <2>4. ASSUME NEW k \in DOMAIN p PROVE q[k][2] = SumFunctionOnSet(f, D(p[k][1]))
    <3>1. CASE p[k][1] = it.sku
      <4>1. q[k][2] = p[k][2] + Quantity(it)
        BY <3>1, <2>1
      <4>2. D(p[k][1]) = C(p[k][1]) \cup {n + 1}
        BY <3>1, <1>4, <1>11
      <4> QED  BY <4>1, <4>2, <1>7, <1>8, <1>9, <1>1
    <3>2. CASE p[k][1] # it.sku
      <4>1. q[k] = p[k] /\ D(p[k][1]) = C(p[k][1])
        BY <3>2, <2>1, <1>4
      <4> QED  BY <4>1, <1>9
    <3> QED  BY <3>1, <3>2
  <2>5. ASSUME NEW sku \in Items PROVE D(sku) # {} <=> \E k \in DOMAIN p : p[k][1] = sku
    BY <1>4, <1>9, <1>11
  <2> HIDE DEF q
  <2>6. \A j, k \in DOMAIN q : q[j][1] = q[k][1] => j = k
    BY <1>9, <2>2
  <2>7. \A k \in DOMAIN q : q[k][2] = SumFunctionOnSet(f, D(q[k][1]))
    BY <2>2, <2>4
  <2>8. \A sku \in Items : D(sku) # {} <=> \E k \in DOMAIN q : q[k][1] = sku
    BY <2>2, <2>5
  <2> HIDE DEF q, it
  <2> QED  BY <1>3, <2>6, <2>7, <2>8 DEF PlanRight, D, f
<1>12. CASE Counts(it) /\ ~\E k \in DOMAIN p : p[k][1] = it.sku
  <2> DEFINE e == <<it.sku, Quantity(it)>>
             m == Len(p) + 1
  <2>1. it.sku \in Items
    BY <1>12, <1>1 DEF ChecklistItem, Counts
  <2>2. e \in PlanEntry
    BY <1>1, <2>1 DEF PlanEntry
  <2>3. q = Append(p, e)
    BY <1>12 DEF AddTo
  <2>4. DOMAIN q = 1..m /\ q[m] = e /\ \A k \in DOMAIN p : q[k] = p[k]
    BY <1>2, <2>2, <2>3
  <2>5. \A k \in DOMAIN q : k \in DOMAIN p \/ k = m
    BY <2>4, <1>2
  <2>6. C(it.sku) = {}
    BY <1>9, <1>12, <2>1
  <2>7. SumFunctionOnSet(f, D(it.sku)) = Quantity(it)
    <3>1. D(it.sku) = C(it.sku) \cup {n + 1}
      BY <1>4, <1>12
    <3>2. SumFunctionOnSet(f, C(it.sku)) = 0
      BY <2>6, SumEmpty
    <3> QED  BY <3>1, <3>2, <1>7, <1>1
  <2>8. e[1] = it.sku /\ e[2] = Quantity(it) /\ m \in DOMAIN q /\ \A k \in DOMAIN p : k \in DOMAIN q
    BY <2>4, <1>2
  <2> HIDE DEF q, e, m
  <2>9. \A j, k \in DOMAIN q : q[j][1] = q[k][1] => j = k
    <3>1. \A k \in DOMAIN p : q[k][1] # it.sku
      BY <1>12, <2>4
    <3> QED  BY <1>9, <2>4, <2>5, <2>8, <3>1
  <2>10. ASSUME NEW k \in DOMAIN q PROVE q[k][2] = SumFunctionOnSet(f, D(q[k][1]))
    <3>1. CASE k = m
      BY <3>1, <2>4, <2>7, <2>8
    <3>2. CASE k \in DOMAIN p
      <4>1. q[k] = p[k] /\ p[k][1] # it.sku
        BY <3>2, <2>4, <1>12
      <4>2. D(p[k][1]) = C(p[k][1])
        BY <4>1, <1>4
      <4> QED  BY <4>1, <4>2, <3>2, <1>9
    <3> QED  BY <3>1, <3>2, <2>5
  <2>11. ASSUME NEW sku \in Items PROVE D(sku) # {} <=> \E k \in DOMAIN q : q[k][1] = sku
    <3>1. CASE sku = it.sku
      BY <3>1, <1>4, <1>12, <2>4, <2>8
    <3>2. CASE sku # it.sku
      <4>1. D(sku) = C(sku)
        BY <3>2, <1>4
      <4>2. (\E k \in DOMAIN q : q[k][1] = sku) <=> (\E k \in DOMAIN p : p[k][1] = sku)
        BY <3>2, <2>4, <2>5, <2>8
      <4> QED  BY <4>1, <4>2, <1>9
    <3> QED  BY <3>1, <3>2
  <2>12. \A k \in DOMAIN q : q[k][2] = SumFunctionOnSet(f, D(q[k][1]))
    BY <2>10
  <2>13. \A sku \in Items : D(sku) # {} <=> \E k \in DOMAIN q : q[k][1] = sku
    BY <2>11
  <2> HIDE DEF it
  <2> QED  BY <1>3, <2>9, <2>12, <2>13 DEF PlanRight, D, f
<1> HIDE DEF q, it
<1> QED  BY <1>10, <1>11, <1>12

(* The plan is computed item by item. *)
LEMMA PlansCompute ==
  ASSUME NEW c \in Seq(ChecklistItem)
  PROVE  Plans(c) = [n \in 0..Len(c) |-> IF n = 0 THEN <<>> ELSE AddTo(Plans(c)[n - 1], c[n])]
<1> DEFINE N == Len(c)
           T == Seq(PlanEntry)
           step == [a \in (1..N) \X T |-> AddTo(a[2], c[a[1]])]
           Is(g) == g = [n \in 0..Len(c) |-> IF n = 0 THEN <<>> ELSE AddTo(g[n - 1], c[n])]
<1>1. N \in Nat /\ <<>> \in T /\ DOMAIN c = 1..N
  OBVIOUS
<1>2. step \in [(1..N) \X T -> T]
  <2> SUFFICES ASSUME NEW k \in 1..N, NEW p \in T PROVE AddTo(p, c[k]) \in T
    OBVIOUS
  <2>1. c[k] \in ChecklistItem /\ Quantity(c[k]) \in Nat \ {0}
    BY <1>1, QuantityPositive
  <2> QED  BY <2>1, AddToType
<1>3. PICK f : Computes(f, N, T, <<>>, step)
  <2>1. \E f : Computes(f, N, T, <<>>, step)
    <3> HIDE DEF N, T, step
    <3> QED  BY <1>1, <1>2, Recursion
  <2> QED  BY <2>1
<1>4. Is(f)
  <2>1. f \in [0..N -> T] /\ f[0] = <<>>
    BY <1>3 DEF Computes
  <2>2. ASSUME NEW n \in 1..N PROVE f[n] = AddTo(f[n - 1], c[n])
    <3>1. n - 1 \in 0..N
      BY <1>1
    <3>2. f[n - 1] \in T
      BY <2>1, <3>1
    <3>3. f[n] = step[<<n, f[n - 1]>>]
      BY <1>3 DEF Computes
    <3> HIDE DEF T, N
    <3> QED  BY <3>2, <3>3
  <2>3. \A n \in 0..N : f[n] = IF n = 0 THEN <<>> ELSE AddTo(f[n - 1], c[n])
    <3>1. \A n \in 0..N : n = 0 \/ n \in 1..N
      BY <1>1
    <3> QED  BY <2>1, <2>2, <3>1
  <2> HIDE DEF T
  <2> QED  BY <2>1, <2>3
<1>5. Plans(c) = CHOOSE g : Is(g)
  BY DEF Plans
<1>6. Is(Plans(c))
  <2> HIDE DEF Is
  <2> QED  BY <1>4, <1>5
<1> QED  BY <1>6

(* A consumption plan names every SKU that counts, once, with the total of *)
(* its items.                                                              *)
LEMMA PlanIsTotal ==
  ASSUME NEW c \in Seq(ChecklistItem)
  PROVE  /\ ConsumptionPlan(c) \in Seq(PlanEntry)
         /\ \A j, k \in DOMAIN ConsumptionPlan(c) :
              ConsumptionPlan(c)[j][1] = ConsumptionPlan(c)[k][1] => j = k
         /\ \A k \in DOMAIN ConsumptionPlan(c) :
              ConsumptionPlan(c)[k][2] = Total(c, ConsumptionPlan(c)[k][1])
         /\ \A sku \in Items : Counting(c, sku) # {} <=>
              \E k \in DOMAIN ConsumptionPlan(c) : ConsumptionPlan(c)[k][1] = sku
<1> DEFINE f == Plans(c)
           K == {n \in Nat : n \in 0..Len(c) => PlanRight(f[n], c, n)}
<1>1. Len(c) \in Nat /\ DOMAIN c = 1..Len(c)
  OBVIOUS
<1>2. \A n \in 0..Len(c) : f[n] = IF n = 0 THEN <<>> ELSE AddTo(f[n - 1], c[n])
  <2>1. f = [n \in 0..Len(c) |-> IF n = 0 THEN <<>> ELSE AddTo(f[n - 1], c[n])]
    BY PlansCompute
  <2> HIDE DEF f
  <2> QED  BY <2>1
<1> HIDE DEF f
<1>3. 0 \in K
  <2>1. f[0] = <<>>
    BY <1>1, <1>2
  <2>2. \A sku : CountingTo(c, sku, 0) = {}
    BY DEF CountingTo
  <2>3. PlanRight(<<>>, c, 0)
    BY <2>2 DEF PlanRight
  <2> QED  BY <2>1, <2>3
<1>4. ASSUME NEW n \in Nat, n \in K PROVE n + 1 \in K
  <2> SUFFICES ASSUME n + 1 \in 0..Len(c) PROVE PlanRight(f[n + 1], c, n + 1)
    OBVIOUS
  <2>1. n \in 0..Len(c) /\ n + 1 \in DOMAIN c /\ (n + 1) - 1 = n /\ n + 1 # 0
    BY <1>1
  <2>2. f[n + 1] = AddTo(f[n], c[n + 1])
    BY <1>2, <2>1
  <2>3. PlanRight(f[n], c, n)
    BY <1>4, <2>1
  <2> QED  BY <2>1, <2>2, <2>3, AddToRight
<1>5. Nat \subseteq K
  <2> HIDE DEF K
  <2> QED  BY <1>3, <1>4, Induction
<1>6. PlanRight(ConsumptionPlan(c), c, Len(c))
  <2>1. PlanRight(f[Len(c)], c, Len(c))
    BY <1>1, <1>5
  <2> QED  BY <2>1 DEF ConsumptionPlan, f
<1>7. \A sku : CountingTo(c, sku, Len(c)) = Counting(c, sku)
  BY <1>1 DEF CountingTo, Counting
<1>8. ASSUME NEW sku PROVE Total(c, sku) = SumFunctionOnSet(Quantities(c), Counting(c, sku))
  <2> DEFINE S == Counting(c, sku)
             g == [k \in S |-> Quantity(c[k])]
  <2>1. IsFiniteSet(S) /\ S \subseteq DOMAIN c
    <3>1. S \in SUBSET (1..Len(c)) /\ IsFiniteSet(1..Len(c))
      BY <1>1, FS_Interval DEF Counting
    <3> HIDE DEF S
    <3> QED  BY <1>1, <3>1, FS_Subset
  <2>2. \A k \in S : Quantities(c)[k] = Quantity(c[k]) /\ Quantity(c[k]) \in Int
    BY <2>1, QuantityPositive DEF Quantities
  <2>3. Total(c, sku) = SumFunctionOnSet(g, S)
    BY DEF Total, SumFunction
  <2>4. \A k \in S : Quantities(c)[k] \in Int /\ g[k] = Quantities(c)[k]
    BY <2>2
  <2> HIDE DEF S, g
  <2> QED  BY <2>1, <2>3, <2>4, SumSame DEF S
<1> QED  BY <1>6, <1>7, <1>8 DEF PlanRight

(* So a plan names every item once, with a positive quantity.              *)
LEMMA PlanFacts ==
  /\ Plan \in [Tasks -> Seq(Items \X (Nat \ {0}))]
  /\ \A t \in Tasks : \A j, k \in DOMAIN Plan[t] : Plan[t][j][1] = Plan[t][k][1] => j = k
  /\ \A t \in Tasks : \A k \in DOMAIN Plan[t] : Plan[t][k][2] = Total(ChecklistOf[t], Plan[t][k][1])
  /\ \A t \in Tasks : \A i \in Items :
       Counting(ChecklistOf[t], i) # {} <=> i \in PlanItems(t)
<1> USE DEF PlanEntry
<1>1. \A t \in Tasks : ChecklistOf[t] \in Seq(ChecklistItem)
  BY InventoryAssumption
<1>2. \A t \in Tasks : Plan[t] = ConsumptionPlan(ChecklistOf[t])
  BY DEF Plan
<1>3. \A t \in Tasks : Plan[t] \in Seq(Items \X (Nat \ {0}))
  BY <1>1, <1>2, PlanIsTotal
<1>4. Plan \in [Tasks -> Seq(Items \X (Nat \ {0}))]
  BY <1>3 DEF Plan
<1>5. ASSUME NEW t \in Tasks
      PROVE  /\ \A j, k \in DOMAIN Plan[t] : Plan[t][j][1] = Plan[t][k][1] => j = k
             /\ \A k \in DOMAIN Plan[t] : Plan[t][k][2] = Total(ChecklistOf[t], Plan[t][k][1])
             /\ \A i \in Items : Counting(ChecklistOf[t], i) # {} <=> \E k \in DOMAIN Plan[t] : Plan[t][k][1] = i
  BY <1>1, <1>2, PlanIsTotal
<1>6. ASSUME NEW t \in Tasks, NEW i \in Items
      PROVE  Counting(ChecklistOf[t], i) # {} <=> i \in PlanItems(t)
  <2>1. i \in PlanItems(t) <=> \E k \in DOMAIN Plan[t] : Plan[t][k][1] = i
    BY DEF PlanItems
  <2> QED  BY <1>5, <2>1
<1>7. \A t \in Tasks : \A j, k \in DOMAIN Plan[t] : Plan[t][j][1] = Plan[t][k][1] => j = k
  BY <1>5
<1>8. \A t \in Tasks : \A k \in DOMAIN Plan[t] : Plan[t][k][2] = Total(ChecklistOf[t], Plan[t][k][1])
  BY <1>5
<1> QED  BY <1>4, <1>6, <1>7, <1>8

-----------------------------------------------------------------------------
LEMMA InitIsGood == Init => IInv
<1> SUFFICES ASSUME Init PROVE IInv
  OBVIOUS
<1>1. \A i \in Items : ledger[i] \in Seq(Movement) /\ Books(ledger[i], qty[i])
  <2> SUFFICES ASSUME NEW i \in Items PROVE ledger[i] \in Seq(Movement) /\ Books(ledger[i], qty[i])
    OBVIOUS
  <2>1. CASE i \in Initially
    BY <2>1, BooksOpen, InventoryAssumption DEF Init
  <2>2. CASE i \notin Initially
    BY <2>2 DEF Init, Books
  <2> QED BY <2>1, <2>2
<1>2. TypeOK
  <2>1. ledger \in [Items -> Seq(Movement)]
    BY <1>1 DEF Init
  <2> QED BY <2>1, InventoryAssumption DEF Init, TypeOK, Pcs
<1>3. StockIsSound
  BY <1>1, <1>2, SoundByItem
<1>4. LowStockIsRecorded
  <2> SUFFICES ASSUME NEW i \in Items, NEW k \in DOMAIN ledger[i]
               PROVE  ledger[i][k].task = NoTask
    BY DEF LowStockIsRecorded
  <2> QED BY DEF Init, Opening
<1>5. StagesOK /\ LocksOK /\ WroteOK /\ TodoOK /\ NothingIsLost
  BY InventoryAssumption DEF Init, StagesOK, LocksOK, WroteOK, TodoOK, NothingIsLost
<1>6. ExistsOK
  BY DEF Init, ExistsOK
<1> QED BY <1>2, <1>3, <1>4, <1>5, <1>6 DEF IInv

(* A step that leaves the committed stock alone leaves it sound. *)
LEMMA StockKept ==
  ASSUME IInv, UNCHANGED <<qty, ledger, exists>>
  PROVE  StockIsSound' /\ ExistsOK' /\ \A t \in Tasks : Moved(t)' = Moved(t)
<1>1. StockIsSound'
  BY DEF IInv, StockIsSound, LedgerReplays, NeverNegative, DeductedOnce
<1> QED BY <1>1 DEF IInv, ExistsOK, Moved

(* What a transaction wrote, has to do or has not lost is disturbed only   *)
(* where its own state, or the stock, changes.                             *)
LEMMA WroteKept ==
  ASSUME WroteOK, wrote' = wrote,
         \A c \in Consumers : wrote[c] # {} =>
           task'[c] = task[c] /\ known'[c] = known[c] /\ owed'[c] = owed[c],
         \A c \in Consumers : \A m \in wrote[c] : qty'[m.item] = qty[m.item]
  PROVE  WroteOK'
<1> SUFFICES ASSUME NEW c \in Consumers, NEW m \in wrote[c]
             PROVE  /\ m.item \in known'[c]
                    /\ m.after = qty'[m.item] + m.delta /\ m.after >= 0
                    /\ \E k \in DOMAIN Plan[task'[c]] : Plan[task'[c]][k] = <<m.item, 0 - m.delta>>
                    /\ m.after <= Threshold => m.item \in owed'[c]
                    /\ \A n \in wrote[c] : n.item = m.item => n = m
  BY DEF WroteOK
<1>1. /\ task'[c] = task[c] /\ known'[c] = known[c] /\ owed'[c] = owed[c]
      /\ qty'[m.item] = qty[m.item]
  OBVIOUS
<1> QED BY <1>1 DEF WroteOK

LEMMA TodoKept ==
  ASSUME TodoOK, wrote' = wrote, todo' = todo,
         \A c \in Consumers : todo[c] # {} => task'[c] = task[c] /\ known'[c] = known[c]
  PROVE  TodoOK'
<1> SUFFICES ASSUME NEW c \in Consumers, NEW e \in todo[c]
             PROVE  /\ e.item \in known'[c]
                    /\ e.at \in DOMAIN Plan[task'[c]] /\ Plan[task'[c]][e.at] = <<e.item, e.qty>>
                    /\ \A m \in wrote[c] : m.item # e.item
  BY DEF TodoOK
<1>1. task'[c] = task[c] /\ known'[c] = known[c]
  OBVIOUS
<1> QED BY <1>1 DEF TodoOK

LEMMA LostKept ==
  ASSUME StagesOK, NothingIsLost, \A t \in Tasks : Moved(t) \subseteq Moved(t)',
         \A c \in Consumers : pc'[c] = "deducting" =>
           pc[c] = "deducting" /\ task'[c] = task[c] /\ todo'[c] = todo[c] /\ wrote'[c] = wrote[c]
  PROVE  NothingIsLost'
<1> SUFFICES ASSUME NEW c \in Consumers, pc'[c] = "deducting",
                    NEW t, t = task[c], NEW i \in PlanItems(t) \cap Initially
             PROVE  \/ i \in Moved(t)'
                    \/ \E e \in todo[c] : e.item = i
                    \/ \E m \in wrote[c] : m.item = i
  BY DEF NothingIsLost, PlanItems, Moved
<1>1. t \in Tasks
  BY DEF StagesOK
<1> QED BY <1>1 DEF NothingIsLost

LEMMA CreateStep ==
  ASSUME IInv, NEW i \in Items, NEW q \in {0, StartQty}, Create(i, q)
  PROVE  IInv'
<1> USE DEF Create, txVars
<1>1. Opening(q) \in Seq(Movement) /\ Books(Opening(q), q) /\ q \in Int
  <2>1. q \in Nat
    BY InventoryAssumption
  <2> QED BY <2>1, BooksOpen
<1>2. TypeOK'
  BY <1>1 DEF IInv, TypeOK
<1>3. StockIsSound'
  <2>1. \A j \in Items : Books(ledger'[j], qty'[j])
    BY <1>1, SoundByItem DEF IInv, TypeOK
  <2> QED BY <2>1, <1>2, SoundAfter
<1>4. \A t \in Tasks : Moved(t)' = Moved(t)
  <2>1. ledger[i] = <<>>
    BY DEF IInv, ExistsOK
  <2>2. \A k \in DOMAIN Opening(q) : Opening(q)[k].task = NoTask
    BY DEF Opening
  <2>3. ledger' = [ledger EXCEPT ![i] = Opening(q)] /\ ledger \in [Items -> Seq(Movement)]
    BY DEF IInv, TypeOK
  <2> SUFFICES ASSUME NEW t \in Tasks, NEW j \in Items
               PROVE  j \in Moved(t)' <=> j \in Moved(t)
    BY DEF Moved
  <2>4. CASE j = i
    <3>1. ledger'[j] = Opening(q) /\ DOMAIN ledger[j] = {}
      BY <2>1, <2>3, <2>4
    <3>2. t # NoTask
      BY InventoryAssumption
    <3> QED BY <2>2, <3>1, <3>2 DEF Moved
  <2>5. CASE j # i
    BY <2>3, <2>5 DEF Moved
  <2> QED BY <2>4, <2>5
<1>5. LowStockIsRecorded'
  <2>1. \A k \in DOMAIN Opening(q) : Opening(q)[k].task = NoTask
    BY DEF Opening
  <2> QED BY <2>1 DEF IInv, TypeOK, LowStockIsRecorded
<1>6. StagesOK' /\ LocksOK' /\ TodoOK'
  <2>1. StagesOK'
    BY DEF IInv, StagesOK
  <2>2. LocksOK'
    BY DEF IInv, LocksOK
  <2>3. TodoOK'
    BY DEF IInv, TodoOK
  <2> QED BY <2>1, <2>2, <2>3
<1>7. WroteOK'
  <2>1. \A c \in Consumers : \A m \in wrote[c] : m.item # i
    BY DEF IInv, StagesOK, WroteOK
  <2> QED BY <2>1, WroteKept DEF IInv, TypeOK, Pending
<1>8. NothingIsLost'
  BY <1>4, LostKept DEF IInv
<1>9. ExistsOK'
  BY DEF IInv, TypeOK, ExistsOK
<1> QED BY <1>2, <1>3, <1>5, <1>6, <1>7, <1>8, <1>9 DEF IInv

LEMMA AdjustStep ==
  ASSUME IInv, NEW i \in Items, NEW d \in Deltas, Adjust(i, d)
  PROVE  IInv'
<1> USE DEF Adjust, txVars
<1> DEFINE e == [delta |-> d, after |-> qty[i] + d, task |-> NoTask]
<1>0. d \in Int /\ qty[i] \in Int /\ qty[i] + d \in Int
  BY InventoryAssumption DEF IInv, TypeOK
<1>1. /\ e \in Movement /\ ledger[i] \in Seq(Movement)
      /\ ledger'[i] = Append(ledger[i], e) /\ e.task = NoTask
  <2>1. e \in Movement /\ e.task = NoTask
    BY <1>0 DEF Movement
  <2> QED BY <2>1 DEF IInv, TypeOK
<1>2. ledger' \in [Items -> Seq(Movement)]
  BY <1>1, Appended DEF IInv, TypeOK
<1>3. TypeOK'
  BY <1>0, <1>1, <1>2 DEF IInv, TypeOK
<1>4. StockIsSound'
  <2>1. Books(ledger'[i], qty'[i])
    BY <1>0, <1>1, BooksGrow, SoundByItem DEF IInv, TypeOK
  <2>2. \A j \in Items : Books(ledger'[j], qty'[j])
    BY <2>1, SoundByItem DEF IInv, TypeOK
  <2> QED BY <2>2, <1>3, SoundAfter
<1> HIDE DEF e
<1>5. /\ DOMAIN ledger[i] = 1..Len(ledger[i]) /\ Len(ledger[i]) \in Nat
      /\ DOMAIN ledger'[i] = 1..(Len(ledger[i]) + 1)
      /\ \A k \in 1..Len(ledger[i]) : ledger'[i][k] = ledger[i][k]
      /\ ledger'[i][Len(ledger[i]) + 1] = e
      /\ \A k \in 1..(Len(ledger[i]) + 1) : k \in 1..Len(ledger[i]) \/ k = Len(ledger[i]) + 1
  <2>1. Len(ledger[i]) \in Nat
    BY <1>1, Appended
  <2> QED BY <1>1, <2>1, Appended
<1>6. \A k \in DOMAIN ledger'[i] :
        ledger'[i][k].task = NoTask \/ (k \in DOMAIN ledger[i] /\ ledger'[i][k] = ledger[i][k])
  <2> SUFFICES ASSUME NEW k \in 1..(Len(ledger[i]) + 1)
               PROVE  ledger'[i][k].task = NoTask \/ (k \in DOMAIN ledger[i] /\ ledger'[i][k] = ledger[i][k])
    BY <1>5
  <2>1. CASE k \in 1..Len(ledger[i])
    BY <2>1, <1>5
  <2>2. CASE k = Len(ledger[i]) + 1
    <3>1. ledger'[i][k] = e
      BY <2>2, <1>5, Zenon
    <3>2. e.task = NoTask
      BY <1>1
    <3> QED BY <3>1, <3>2
  <2> QED BY <2>1, <2>2, <1>5
<1>12. \A t \in Tasks : Moved(t)' = Moved(t)
  <2> USE InventoryAssumption
  <2> SUFFICES ASSUME NEW t \in Tasks, NEW j \in Items
               PROVE  j \in Moved(t)' <=> j \in Moved(t)
    BY DEF Moved
  <2>1. CASE j = i
    <3>1. \A k \in DOMAIN ledger'[i] :
            ledger'[i][k].task = NoTask \/ (k \in DOMAIN ledger[i] /\ ledger'[i][k] = ledger[i][k])
      BY <1>6
    <3>2. \A k \in DOMAIN ledger[i] : k \in DOMAIN ledger'[i] /\ ledger'[i][k] = ledger[i][k]
      BY <1>5
    <3>3. t # NoTask
      OBVIOUS
    <3>4. (\E k \in DOMAIN ledger'[i] : ledger'[i][k].task = t) <=> \E k \in DOMAIN ledger[i] : ledger[i][k].task = t
      BY <3>1, <3>2, <3>3, Zenon
    <3> QED BY <2>1, <3>4 DEF Moved
  <2>2. CASE j # i
    BY <2>2 DEF Moved, IInv, TypeOK
  <2> QED BY <2>1, <2>2
<1>7. LowStockIsRecorded'
  BY <1>6 DEF IInv, TypeOK, LowStockIsRecorded
<1>8. StagesOK' /\ LocksOK' /\ TodoOK'
  BY DEF IInv, StagesOK, LocksOK, TodoOK
<1>9. WroteOK'
  <2>1. \A c \in Consumers : \A m \in wrote[c] : m.item # i
    <3> SUFFICES ASSUME NEW c \in Consumers, NEW m \in wrote[c], m.item = i PROVE FALSE
      OBVIOUS
    <3>1. lock[i] = c
      BY DEF IInv, LocksOK
    <3> QED BY <3>1, InventoryAssumption
  <2> QED BY <2>1, WroteKept DEF IInv, TypeOK, Pending
<1>10. NothingIsLost'
  BY <1>12, LostKept DEF IInv
<1>11. ExistsOK'
  BY DEF IInv, TypeOK, ExistsOK
<1> QED BY <1>3, <1>4, <1>7, <1>8, <1>9, <1>10, <1>11 DEF IInv

LEMMA DeliverStep ==
  ASSUME IInv, NEW c \in Consumers, NEW t \in Tasks, Deliver(c, t)
  PROVE  IInv'
<1> USE DEF Deliver
<1>1. TypeOK'
  <2>0. deliveries[t] + 1 \in 0..MaxDeliveries
    BY InventoryAssumption DEF IInv, TypeOK
  <2>1. deliveries' \in [Tasks -> 0..MaxDeliveries]
    BY <2>0 DEF IInv, TypeOK
  <2> QED BY <2>1 DEF IInv, TypeOK, Pcs
<1>2. LowStockIsRecorded'
  BY DEF IInv, TypeOK, LowStockIsRecorded
<1>3. StagesOK'
  BY DEF IInv, TypeOK, StagesOK
<1>5. LocksOK'
  BY DEF IInv, LocksOK
<1>6. TodoOK'
  BY TodoKept DEF IInv, TypeOK, StagesOK
<1>7. WroteOK'
  BY WroteKept DEF IInv, TypeOK, StagesOK
<1>4. NothingIsLost'
  BY LostKept, StockKept DEF IInv, TypeOK, StagesOK
<1> QED BY <1>1, <1>2, <1>3, <1>4, <1>5, <1>6, <1>7, StockKept DEF IInv

LEMMA ReadItemsStep ==
  ASSUME IInv, NEW c \in Consumers, ReadItems(c)
  PROVE  IInv'
<1> USE DEF ReadItems
<1>1. TypeOK'
  BY DEF IInv, TypeOK, Pcs
<1>2. LowStockIsRecorded'
  BY DEF IInv, TypeOK, LowStockIsRecorded
<1>3. StagesOK'
  BY DEF IInv, TypeOK, StagesOK, ExistsOK
<1>4. LocksOK'
  BY DEF IInv, LocksOK
<1>6. TodoOK'
  BY TodoKept DEF IInv, TypeOK, StagesOK
<1>7. WroteOK'
  BY WroteKept DEF IInv, TypeOK, StagesOK
<1>5. NothingIsLost'
  BY LostKept, StockKept DEF IInv, TypeOK, StagesOK
<1> QED BY <1>1, <1>2, <1>3, <1>4, <1>5, <1>6, <1>7, StockKept DEF IInv

LEMMA ReadRecordedStep ==
  ASSUME IInv, NEW c \in Consumers, ReadRecorded(c)
  PROVE  IInv'
<1> USE DEF ReadRecorded
<1> DEFINE p == Plan[task[c]]
           open == {j \in DOMAIN p : p[j][1] \in known[c] \ Moved(task[c])}
<1>1. p \in Seq(Items \X (Nat \ {0})) /\ task[c] \in Tasks
  BY PlanFacts DEF IInv, StagesOK
<1>2. \A k \in DOMAIN p : k \in Nat /\ p[k] \in Items \X (Nat \ {0})
  BY <1>1
<1>3. todo'[c] = {[at |-> k, item |-> p[k][1], qty |-> p[k][2]] : k \in open}
  BY DEF IInv, TypeOK
<1> HIDE DEF p
<1>4. todo'[c] \subseteq Entry
  BY <1>2, <1>3 DEF Entry
<1>5. TypeOK'
  BY <1>4 DEF IInv, TypeOK, Pcs
<1>6. LowStockIsRecorded'
  BY DEF IInv, TypeOK, LowStockIsRecorded
<1>7. StagesOK'
  BY DEF IInv, TypeOK, StagesOK
<1>8. LocksOK'
  BY DEF IInv, LocksOK
<1>11. WroteOK'
  BY WroteKept DEF IInv, TypeOK, StagesOK
<1>9. TodoOK'
  <2>1. \A e \in todo'[c] : e.item \in known[c] /\ e.at \in DOMAIN p /\ p[e.at] = <<e.item, e.qty>>
    BY <1>2, <1>3
  <2>2. wrote[c] = {}
    BY DEF IInv, StagesOK
  <2> QED BY <2>1, <2>2 DEF IInv, TypeOK, TodoOK, p
<1>10. NothingIsLost'
  <2>1. ASSUME NEW i \in PlanItems(task[c]) \cap Initially, i \notin Moved(task[c])
        PROVE  \E e \in todo'[c] : e.item = i
    <3>1. PICK k \in DOMAIN p : p[k][1] = i
      BY <2>1 DEF PlanItems, p
    <3>2. k \in open
      BY <3>1, <2>1 DEF IInv, StagesOK
    <3>3. [at |-> k, item |-> p[k][1], qty |-> p[k][2]] \in todo'[c]
      BY <3>2, <1>3
    <3> QED BY <3>1, <3>3
  <2>0. \A t : Moved(t)' = Moved(t)
    BY DEF Moved
  <2> SUFFICES ASSUME NEW d \in Consumers, pc'[d] = "deducting",
                      NEW i \in PlanItems(task[d]) \cap Initially
               PROVE  \/ i \in Moved(task[d])
                      \/ \E e \in todo'[d] : e.item = i
                      \/ \E m \in wrote[d] : m.item = i
    <3>1. task' = task /\ wrote' = wrote
      OBVIOUS
    <3> HIDE DEF ReadRecorded
    <3> QED BY <2>0, <3>1 DEF NothingIsLost
  <2>2. CASE d = c
    BY <2>1, <2>2
  <2>3. CASE d # c
    BY <2>3 DEF IInv, TypeOK, NothingIsLost
  <2> QED BY <2>2, <2>3
<1> QED BY <1>5, <1>6, <1>7, <1>8, <1>9, <1>10, <1>11, StockKept DEF IInv

LEMMA DecrementStep ==
  ASSUME IInv, NEW c \in Consumers, Decrement(c)
  PROVE  IInv'
<1>1. PICK e \in todo[c] :
        /\ pc[c] = "deducting" /\ lock[e.item] = NoConsumer /\ qty[e.item] - e.qty >= 0
        /\ lock' = [lock EXCEPT ![e.item] = c]
        /\ wrote' = [wrote EXCEPT ![c] = @ \cup {[item |-> e.item, delta |-> 0 - e.qty,
                                                  after |-> qty[e.item] - e.qty]}]
        /\ owed' = [owed EXCEPT ![c] = IF qty[e.item] - e.qty <= Threshold
                                       THEN @ \cup {e.item} ELSE @]
        /\ todo' = [todo EXCEPT ![c] = @ \ {e}]
        /\ UNCHANGED <<exists, qty, ledger, pc, task, known, deliveries, hit, lowStock>>
  BY DEF Decrement, At
<1> DEFINE m0 == [item |-> e.item, delta |-> 0 - e.qty, after |-> qty[e.item] - e.qty]
<1>2. /\ e \in Entry /\ e.item \in Items /\ e.qty \in Nat \ {0} /\ e.at \in Nat
      /\ task[c] \in Tasks /\ qty[e.item] \in Int
  BY <1>1 DEF IInv, TypeOK, StagesOK, Entry
<1>3. m0 \in Pending /\ m0.item = e.item /\ m0.delta = 0 - e.qty /\ m0.after = qty[e.item] - e.qty
  BY <1>2 DEF Pending
<1> HIDE DEF m0
<1>4. wrote' = [wrote EXCEPT ![c] = @ \cup {m0}]
  BY <1>1 DEF m0
<1>5. /\ wrote'[c] = wrote[c] \cup {m0}
      /\ owed[c] \subseteq owed'[c] /\ (m0.after <= Threshold => e.item \in owed'[c])
      /\ todo'[c] = todo[c] \ {e}
      /\ \A d \in Consumers \ {c} : wrote'[d] = wrote[d] /\ owed'[d] = owed[d] /\ todo'[d] = todo[d]
  BY <1>1, <1>3, <1>4 DEF IInv, TypeOK
<1>6. TypeOK'
  <2>1. wrote' \in [Consumers -> SUBSET Pending]
    BY <1>3, <1>4 DEF IInv, TypeOK
  <2>2. owed' \in [Consumers -> SUBSET Items]
    BY <1>1, <1>2 DEF IInv, TypeOK
  <2>3. lock' \in [Items -> Consumers \cup {NoConsumer}]
    BY <1>1, <1>2 DEF IInv, TypeOK
  <2>4. todo' \in [Consumers -> SUBSET Entry]
    BY <1>1 DEF IInv, TypeOK
  <2> QED BY <1>1, <2>1, <2>2, <2>3, <2>4 DEF IInv, TypeOK
<1>7. StockIsSound' /\ ExistsOK' /\ \A t \in Tasks : Moved(t)' = Moved(t)
  BY <1>1, StockKept
<1>8. LowStockIsRecorded'
  BY <1>1, <1>5 DEF IInv, TypeOK, LowStockIsRecorded
<1>9. StagesOK'
  BY <1>1, <1>5 DEF IInv, TypeOK, StagesOK
<1>10. LocksOK'
  <2> SUFFICES ASSUME NEW d \in Consumers, NEW i \in Items
               PROVE  lock'[i] = d <=> \E m \in wrote'[d] : m.item = i
    BY DEF LocksOK
  <2>1. lock[i] = d <=> \E m \in wrote[d] : m.item = i
    BY DEF IInv, LocksOK
  <2>2. lock'[i] = IF i = e.item THEN c ELSE lock[i]
    BY <1>1, <1>2 DEF IInv, TypeOK
  <2>3. NoConsumer # d
    BY InventoryAssumption
  <2> QED BY <2>1, <2>2, <2>3, <1>1, <1>3, <1>5
<1>11. WroteOK'
  <2> SUFFICES ASSUME NEW d \in Consumers, NEW m \in wrote'[d]
               PROVE  /\ m.item \in known[d]
                      /\ m.after = qty[m.item] + m.delta /\ m.after >= 0
                      /\ \E k \in DOMAIN Plan[task[d]] : Plan[task[d]][k] = <<m.item, 0 - m.delta>>
                      /\ m.after <= Threshold => m.item \in owed'[d]
                      /\ \A n \in wrote'[d] : n.item = m.item => n = m
    BY <1>1 DEF WroteOK
  <2>1. \A n \in wrote[c] : n.item # e.item
    BY <1>1 DEF IInv, TodoOK
  <2>2. CASE d # c
    BY <2>2, <1>5 DEF IInv, WroteOK
  <2>3. CASE d = c /\ m \in wrote[c]
    BY <2>1, <2>3, <1>5, <1>3 DEF IInv, WroteOK
  <2>4. CASE d = c /\ m = m0
    <3>1. m.after = qty[m.item] + m.delta /\ m.after >= 0 /\ 0 - m.delta = e.qty
      BY <1>1, <1>2, <1>3, <2>4
    <3>2. e.item \in known[c] /\ e.at \in DOMAIN Plan[task[c]] /\ Plan[task[c]][e.at] = <<e.item, e.qty>>
      BY <1>1 DEF IInv, TodoOK
    <3> QED BY <3>1, <3>2, <2>1, <2>4, <1>5, <1>3
  <2> QED BY <2>2, <2>3, <2>4, <1>5
<1>12. TodoOK'
  <2> SUFFICES ASSUME NEW d \in Consumers, NEW f \in todo'[d]
               PROVE  /\ f.item \in known[d]
                      /\ f.at \in DOMAIN Plan[task[d]] /\ Plan[task[d]][f.at] = <<f.item, f.qty>>
                      /\ \A m \in wrote'[d] : m.item # f.item
    BY <1>1 DEF TodoOK
  <2>1. f \in todo[d]
    BY <1>5
  <2>2. CASE d # c
    BY <2>1, <2>2, <1>5 DEF IInv, TodoOK
  <2>3. CASE d = c
    <3>1. f.item # e.item
      <4> SUFFICES ASSUME f.item = e.item PROVE f = e
        BY <2>3, <1>5
      <4>1. /\ f.at \in DOMAIN Plan[task[c]] /\ Plan[task[c]][f.at] = <<f.item, f.qty>>
            /\ e.at \in DOMAIN Plan[task[c]] /\ Plan[task[c]][e.at] = <<e.item, e.qty>>
        BY <2>1, <2>3 DEF IInv, TodoOK
      <4>2. f.at = e.at
        BY <4>1, <1>2, PlanFacts
      <4>3. f.qty = e.qty
        BY <4>1, <4>2
      <4>4. f \in Entry
        BY <2>1, <2>3 DEF IInv, TypeOK
      <4> QED BY <4>2, <4>3, <4>4, <1>2 DEF Entry
    <3> QED BY <3>1, <2>1, <2>3, <1>5, <1>3 DEF IInv, TodoOK
  <2> QED BY <2>2, <2>3
<1>13. NothingIsLost'
  <2> SUFFICES ASSUME NEW d \in Consumers, pc[d] = "deducting",
                      NEW t, t = task[d], NEW i \in PlanItems(t) \cap Initially
               PROVE  \/ i \in Moved(t)
                      \/ \E f \in todo'[d] : f.item = i
                      \/ \E m \in wrote'[d] : m.item = i
    BY <1>1 DEF NothingIsLost, PlanItems, Moved
  <2>1. \/ i \in Moved(t)
        \/ \E f \in todo[d] : f.item = i
        \/ \E m \in wrote[d] : m.item = i
    BY DEF IInv, NothingIsLost
  <2> QED BY <2>1, <1>5, <1>3
<1> QED BY <1>6, <1>7, <1>8, <1>9, <1>10, <1>11, <1>12, <1>13 DEF IInv

(* Whatever ends a transaction without a commit ends it like this. *)
LEMMA GiveUpStep ==
  ASSUME IInv, NEW c \in Consumers, GiveUp(c)
  PROVE  IInv'
<1> USE DEF GiveUp, Leave
<1>1. /\ wrote'[c] = {} /\ todo'[c] = {} /\ pc'[c] = "idle" /\ owed'[c] = {}
      /\ \A d \in Consumers \ {c} : /\ wrote'[d] = wrote[d] /\ todo'[d] = todo[d]
                                    /\ pc'[d] = pc[d] /\ task'[d] = task[d]
                                    /\ known'[d] = known[d] /\ owed'[d] = owed[d]
  BY DEF IInv, TypeOK
<1>2. \A i \in Items : lock'[i] = IF lock[i] = c THEN NoConsumer ELSE lock[i]
  BY DEF Unlocked
<1>3. TypeOK'
  <2>1. lock' \in [Items -> Consumers \cup {NoConsumer}]
    BY <1>2 DEF Unlocked, IInv, TypeOK
  <2>2. hit' \subseteq Tasks
    BY DEF IInv, TypeOK, StagesOK
  <2> QED BY <2>1, <2>2 DEF IInv, TypeOK, Pcs
<1>4. LowStockIsRecorded'
  <2> SUFFICES ASSUME NEW i \in Items, NEW k \in DOMAIN ledger[i], NEW t, t = ledger[i][k].task,
                      t # NoTask, ledger[i][k].after <= Threshold
               PROVE  \/ <<i, t>> \in lowStock \/ t \in hit'
                      \/ \E d \in Consumers : pc'[d] = "alerting" /\ task'[d] = t /\ i \in owed'[d]
    BY DEF LowStockIsRecorded
  <2>1. \/ <<i, t>> \in lowStock \/ t \in hit
        \/ \E d \in Consumers : pc[d] = "alerting" /\ task[d] = t /\ i \in owed[d]
    BY DEF IInv, LowStockIsRecorded
  <2>2. ASSUME NEW d \in Consumers, pc[d] = "alerting", task[d] = t, i \in owed[d]
        PROVE  t \in hit' \/ (pc'[d] = "alerting" /\ task'[d] = t /\ i \in owed'[d])
    BY <2>2, <1>1
  <2>3. hit \subseteq hit'
    OBVIOUS
  <2> QED BY <2>1, <2>2, <2>3
<1>5. StagesOK'
  BY <1>1 DEF IInv, StagesOK
<1>6. LocksOK'
  <2> SUFFICES ASSUME NEW d \in Consumers, NEW i \in Items
               PROVE  lock'[i] = d <=> \E m \in wrote'[d] : m.item = i
    BY DEF LocksOK
  <2>1. NoConsumer # d /\ (lock[i] = d <=> \E m \in wrote[d] : m.item = i)
    BY InventoryAssumption DEF IInv, LocksOK
  <2> QED BY <2>1, <1>1, <1>2
<1>7. WroteOK'
  <2> SUFFICES ASSUME NEW d \in Consumers, NEW m \in wrote'[d]
               PROVE  /\ m.item \in known'[d]
                      /\ m.after = qty[m.item] + m.delta /\ m.after >= 0
                      /\ \E k \in DOMAIN Plan[task'[d]] : Plan[task'[d]][k] = <<m.item, 0 - m.delta>>
                      /\ m.after <= Threshold => m.item \in owed'[d]
                      /\ \A n \in wrote'[d] : n.item = m.item => n = m
    BY DEF WroteOK
  <2>1. /\ d # c /\ m \in wrote[d] /\ wrote'[d] = wrote[d] /\ task'[d] = task[d]
        /\ known'[d] = known[d] /\ owed'[d] = owed[d]
    BY <1>1
  <2>2. /\ m.item \in known[d]
        /\ m.after = qty[m.item] + m.delta /\ m.after >= 0
        /\ \E k \in DOMAIN Plan[task[d]] : Plan[task[d]][k] = <<m.item, 0 - m.delta>>
        /\ m.after <= Threshold => m.item \in owed[d]
        /\ \A n \in wrote[d] : n.item = m.item => n = m
    BY <2>1 DEF IInv, WroteOK
  <2> QED BY <2>1, <2>2
<1>8. TodoOK'
  BY <1>1 DEF IInv, TodoOK
<1>9. NothingIsLost'
  BY <1>1, LostKept, StockKept DEF IInv
<1> QED BY <1>3, <1>4, <1>5, <1>6, <1>7, <1>8, <1>9, StockKept DEF IInv

LEMMA WriteLowStockStep ==
  ASSUME IInv, NEW c \in Consumers, WriteLowStock(c)
  PROVE  IInv'
<1>1. PICK i \in owed[c] :
        /\ pc[c] = "alerting" /\ lowStock' = lowStock \cup {<<i, task[c]>>}
        /\ owed' = [owed EXCEPT ![c] = @ \ {i}]
        /\ UNCHANGED <<exists, qty, ledger, lock, pc, task, known, todo, wrote, deliveries, hit>>
  BY DEF WriteLowStock
<1>2. task[c] \in Tasks /\ i \in Items /\ wrote[c] = {} /\ todo[c] = {}
  BY <1>1 DEF IInv, TypeOK, StagesOK
<1>3. TypeOK'
  BY <1>1, <1>2 DEF IInv, TypeOK
<1>4. LowStockIsRecorded'
  <2>1. \A d \in Consumers : owed'[d] = IF d = c THEN owed[c] \ {i} ELSE owed[d]
    BY <1>1 DEF IInv, TypeOK
  <2> QED BY <1>1, <1>2, <2>1 DEF IInv, LowStockIsRecorded
<1>5. StagesOK'
  BY <1>1 DEF IInv, TypeOK, StagesOK
<1>6. LocksOK'
  BY <1>1 DEF IInv, LocksOK
<1>7. WroteOK'
  BY <1>1, <1>2, WroteKept DEF IInv, TypeOK
<1>8. TodoOK'
  BY <1>1, TodoKept DEF IInv
<1>9. NothingIsLost'
  BY <1>1, LostKept, StockKept DEF IInv
<1> QED BY <1>1, <1>3, <1>4, <1>5, <1>6, <1>7, <1>8, <1>9, StockKept DEF IInv

LEMMA ReturnStep ==
  ASSUME IInv, NEW c \in Consumers, Return(c)
  PROVE  IInv'
<1> USE DEF Return, Leave
<1>1. wrote[c] = {} /\ todo[c] = {}
  BY DEF IInv, StagesOK
<1>2. wrote' = wrote /\ todo' = todo /\ owed' = owed
  BY <1>1 DEF IInv, TypeOK
<1>3. TypeOK'
  BY DEF IInv, TypeOK, Pcs
<1>4. LowStockIsRecorded'
  BY <1>2 DEF IInv, TypeOK, LowStockIsRecorded
<1>5. StagesOK'
  BY <1>2 DEF IInv, TypeOK, StagesOK
<1>6. LocksOK'
  BY <1>2 DEF IInv, LocksOK
<1>7. WroteOK'
  BY <1>1, <1>2, WroteKept DEF IInv, TypeOK
<1>8. TodoOK'
  BY <1>1, <1>2, TodoKept DEF IInv, TypeOK
<1>9. NothingIsLost'
  BY <1>2, LostKept, StockKept DEF IInv, TypeOK
<1> QED BY <1>3, <1>4, <1>5, <1>6, <1>7, <1>8, <1>9, StockKept DEF IInv

(* At the commit: what every item written has, and what every other keeps. *)
Written(c) == {m.item : m \in wrote[c]}

Commits(c, i, m) ==
  /\ m.item = i /\ m.delta \in Int /\ m.after = qty[i] + m.delta /\ m.after >= 0
  /\ \E k \in DOMAIN Plan[task[c]] : Plan[task[c]][k] = <<i, 0 - m.delta>>
  /\ m.after <= Threshold => i \in owed[c]
  /\ i \in exists /\ i \notin Moved(task[c]) /\ lock[i] = c
  /\ qty'[i] = m.after
  /\ ledger'[i] = Append(ledger[i], [delta |-> m.delta, after |-> m.after, task |-> task[c]])

LEMMA CommitFacts ==
  ASSUME IInv, NEW c \in Consumers, CommitTx(c)
  PROVE  /\ pc[c] = "deducting" /\ todo[c] = {} /\ task[c] \in Tasks
         /\ \A i \in Items : i \in Written(c) => \E m \in wrote[c] : Commits(c, i, m)
         /\ \A i \in Items : i \notin Written(c) => qty'[i] = qty[i] /\ ledger'[i] = ledger[i]
         /\ Written(c) \subseteq Items
         /\ qty' = [i \in Items |-> qty'[i]] /\ ledger' = [i \in Items |-> ledger'[i]]
<1> USE DEF CommitTx, Written
<1>1. pc[c] = "deducting" /\ todo[c] = {} /\ task[c] \in Tasks
  BY DEF IInv, StagesOK
<1>2. Written(c) \subseteq Items
  BY DEF IInv, TypeOK, Pending
<1>3. ASSUME NEW i \in Items, i \in Written(c)
      PROVE  \E m \in wrote[c] : Commits(c, i, m)
  <2>1. PICK m \in wrote[c] : m.item = i
    BY <1>3
  <2>2. After(c, i) = m
    BY <2>1 DEF After, IInv, WroteOK
  <2>3. /\ m.after = qty[i] + m.delta /\ m.after >= 0
        /\ \E k \in DOMAIN Plan[task[c]] : Plan[task[c]][k] = <<i, 0 - m.delta>>
        /\ m.after <= Threshold => i \in owed[c]
    BY <2>1 DEF IInv, WroteOK
  <2>4. i \in exists
    BY <2>1, <1>1 DEF IInv, WroteOK, StagesOK
  <2>5. i \notin Moved(task[c])
    BY <2>1 DEF Clashes
  <2>6. lock[i] = c
    BY <2>1 DEF IInv, LocksOK
  <2>7. m.delta \in Int
    BY <2>1 DEF IInv, TypeOK, Pending
  <2>8. /\ qty'[i] = m.after
        /\ ledger'[i] = Append(ledger[i], [delta |-> m.delta, after |-> m.after, task |-> task[c]])
    BY <2>1, <2>2
  <2> QED BY <2>1, <2>3, <2>4, <2>5, <2>6, <2>7, <2>8 DEF Commits
<1>4. \A i \in Items : i \notin Written(c) => qty'[i] = qty[i] /\ ledger'[i] = ledger[i]
  OBVIOUS
<1>5. qty' = [i \in Items |-> qty'[i]] /\ ledger' = [i \in Items |-> ledger'[i]]
  OBVIOUS
<1> QED BY <1>1, <1>2, <1>3, <1>4, <1>5

LEMMA CommitTxStep ==
  ASSUME IInv, NEW c \in Consumers, CommitTx(c)
  PROVE  IInv'
<1> DEFINE t == task[c]
           Entered(i, m) == [delta |-> m.delta, after |-> m.after, task |-> t]
<1>1. /\ pc[c] = "deducting" /\ todo[c] = {} /\ t \in Tasks /\ Written(c) \subseteq Items
      /\ qty' = [i \in Items |-> qty'[i]] /\ ledger' = [i \in Items |-> ledger'[i]]
  BY CommitFacts
<1>2. /\ wrote'[c] = {} /\ pc'[c] = "alerting"
      /\ \A d \in Consumers \ {c} : wrote'[d] = wrote[d] /\ pc'[d] = pc[d]
      /\ pc' = [pc EXCEPT ![c] = "alerting"] /\ wrote' = [wrote EXCEPT ![c] = {}]
      /\ \A i \in Items : lock'[i] = IF lock[i] = c THEN NoConsumer ELSE lock[i]
      /\ lock' = [i \in Items |-> IF lock[i] = c THEN NoConsumer ELSE lock[i]]
      /\ UNCHANGED <<exists, task, known, todo, owed, deliveries, hit, lowStock>>
  BY DEF CommitTx, Unlocked, IInv, TypeOK
<1>3. \A i \in Items : /\ qty'[i] \in Int /\ ledger'[i] \in Seq(Movement)
                       /\ Books(ledger'[i], qty'[i])
  <2> SUFFICES ASSUME NEW i \in Items
               PROVE  qty'[i] \in Int /\ ledger'[i] \in Seq(Movement) /\ Books(ledger'[i], qty'[i])
    OBVIOUS
  <2>1. qty[i] \in Int /\ ledger[i] \in Seq(Movement) /\ Books(ledger[i], qty[i])
    BY SoundByItem DEF IInv, TypeOK
  <2>2. CASE i \notin Written(c)
    BY <2>1, <2>2, CommitFacts
  <2>3. CASE i \in Written(c)
    <3>1. PICK m \in wrote[c] : Commits(c, i, m)
      BY <2>3, CommitFacts
    <3> USE DEF Commits
    <3>2. \A k \in DOMAIN ledger[i] : ledger[i][k].task # t
      BY <3>1 DEF Moved
    <3>3. Books(ledger'[i], qty'[i])
      <4>1. Books(Append(ledger[i], [delta |-> m.delta, after |-> qty[i] + m.delta, task |-> t]),
                  qty[i] + m.delta)
        BY <3>1, <3>2, <2>1, <1>1, BooksGrow
      <4> QED BY <4>1, <3>1
    <3>4. m.after \in Int
      BY <3>1, <2>1
    <3>5. [delta |-> m.delta, after |-> m.after, task |-> t] \in Movement
      BY <3>1, <3>4, <1>1 DEF Movement
    <3> QED BY <3>1, <3>3, <3>4, <3>5, <2>1, Appended
  <2> QED BY <2>2, <2>3
<1>4. TypeOK'
  <2>1. qty' \in [Items -> Int]
    BY <1>1, <1>3
  <2>2. ledger' \in [Items -> Seq(Movement)]
    BY <1>1, <1>3
  <2>3. lock' \in [Items -> Consumers \cup {NoConsumer}]
    BY <1>2 DEF IInv, TypeOK
  <2> QED BY <2>1, <2>2, <2>3, <1>2 DEF IInv, TypeOK, Pcs
<1>5. StockIsSound'
  BY <1>3, <1>4, SoundAfter
<1>6. \A i \in Items : \A k \in DOMAIN ledger'[i] :
        \/ k \in DOMAIN ledger[i] /\ ledger'[i][k] = ledger[i][k]
        \/ /\ ledger'[i][k].task = t
           /\ ledger'[i][k].after <= Threshold => i \in owed[c]
  <2> SUFFICES ASSUME NEW i \in Items, NEW k \in DOMAIN ledger'[i]
               PROVE  \/ k \in DOMAIN ledger[i] /\ ledger'[i][k] = ledger[i][k]
                      \/ /\ ledger'[i][k].task = t
                         /\ ledger'[i][k].after <= Threshold => i \in owed[c]
    OBVIOUS
  <2>1. CASE i \notin Written(c)
    BY <2>1, CommitFacts
  <2>2. CASE i \in Written(c)
    <3>1. PICK m \in wrote[c] : Commits(c, i, m)
      BY <2>2, CommitFacts
    <3> USE DEF Commits
    <3> DEFINE e == [delta |-> m.delta, after |-> m.after, task |-> t]
    <3>2. m.after \in Int /\ ledger[i] \in Seq(Movement)
      BY <3>1 DEF IInv, TypeOK
    <3>3. e \in Movement /\ e.task = t /\ e.after = m.after
      BY <3>1, <3>2, <1>1 DEF Movement
    <3> HIDE DEF e
    <3>4. ledger'[i] = Append(ledger[i], e)
      BY <3>1 DEF e
    <3>5. /\ Len(ledger[i]) \in Nat /\ DOMAIN ledger[i] = 1..Len(ledger[i])
          /\ k \in 1..(Len(ledger[i]) + 1) /\ ledger'[i][Len(ledger[i]) + 1] = e
          /\ \A j \in 1..Len(ledger[i]) : ledger'[i][j] = ledger[i][j]
      BY <3>2, <3>3, <3>4, Appended
    <3>6. CASE k \in 1..Len(ledger[i])
      BY <3>6, <3>5
    <3>7. CASE k = Len(ledger[i]) + 1
      <4>1. ledger'[i][k] = e
        BY <3>5, <3>7
      <4> QED BY <4>1, <3>1, <3>3
    <3> QED BY <3>5, <3>6, <3>7
  <2> QED BY <2>1, <2>2
<1>7. \A i \in Items : \A k \in DOMAIN ledger[i] : k \in DOMAIN ledger'[i] /\ ledger'[i][k] = ledger[i][k]
  <2> SUFFICES ASSUME NEW i \in Items, NEW k \in DOMAIN ledger[i]
               PROVE  k \in DOMAIN ledger'[i] /\ ledger'[i][k] = ledger[i][k]
    OBVIOUS
  <2>1. CASE i \notin Written(c)
    BY <2>1, CommitFacts
  <2>2. CASE i \in Written(c)
    <3>1. PICK m \in wrote[c] : Commits(c, i, m)
      BY <2>2, CommitFacts
    <3> USE DEF Commits
    <3>2. m.after \in Int /\ ledger[i] \in Seq(Movement)
      BY <3>1 DEF IInv, TypeOK
    <3>3. [delta |-> m.delta, after |-> m.after, task |-> t] \in Movement
      BY <3>1, <3>2, <1>1 DEF Movement
    <3> QED BY <3>1, <3>2, <3>3, Appended
  <2> QED BY <2>1, <2>2
<1>8. \A s \in Tasks : Moved(s) \subseteq Moved(s)'
  BY <1>7 DEF Moved
<1>9. LowStockIsRecorded'
  <2> SUFFICES ASSUME NEW i \in Items, NEW k \in DOMAIN ledger'[i], NEW s, s = ledger'[i][k].task,
                      s # NoTask, ledger'[i][k].after <= Threshold
               PROVE  \/ <<i, s>> \in lowStock \/ s \in hit
                      \/ \E d \in Consumers : pc'[d] = "alerting" /\ task[d] = s /\ i \in owed[d]
    BY <1>2 DEF LowStockIsRecorded
  <2>1. CASE k \in DOMAIN ledger[i] /\ ledger'[i][k] = ledger[i][k]
    <3>1. \/ <<i, s>> \in lowStock \/ s \in hit
          \/ \E d \in Consumers : pc[d] = "alerting" /\ task[d] = s /\ i \in owed[d]
      BY <2>1 DEF IInv, LowStockIsRecorded
    <3> QED BY <3>1, <1>2
  <2>2. CASE ledger'[i][k].task = t /\ i \in owed[c]
    BY <2>2, <1>2
  <2> QED BY <2>1, <2>2, <1>6
<1>10. StagesOK'
  BY <1>1, <1>2 DEF IInv, StagesOK
<1>11. LocksOK'
  <2> SUFFICES ASSUME NEW d \in Consumers, NEW i \in Items
               PROVE  lock'[i] = d <=> \E m \in wrote'[d] : m.item = i
    BY DEF LocksOK
  <2>1. NoConsumer # d /\ (lock[i] = d <=> \E m \in wrote[d] : m.item = i)
    BY InventoryAssumption DEF IInv, LocksOK
  <2> QED BY <2>1, <1>2
<1>12. WroteOK'
  <2> SUFFICES ASSUME NEW d \in Consumers, NEW m \in wrote'[d]
               PROVE  /\ m.item \in known'[d]
                      /\ m.after = qty'[m.item] + m.delta /\ m.after >= 0
                      /\ \E k \in DOMAIN Plan[task'[d]] : Plan[task'[d]][k] = <<m.item, 0 - m.delta>>
                      /\ m.after <= Threshold => m.item \in owed'[d]
                      /\ \A n \in wrote'[d] : n.item = m.item => n = m
    BY DEF WroteOK
  <2>1. d # c /\ wrote'[d] = wrote[d] /\ m \in wrote[d]
    BY <1>2
  <2>2. m.item \in Items /\ lock[m.item] = d
    BY <2>1 DEF IInv, TypeOK, Pending, LocksOK
  <2>3. m.item \notin Written(c)
    BY <2>1, <2>2, CommitFacts DEF Commits
  <2>4. qty'[m.item] = qty[m.item]
    BY <2>2, <2>3, CommitFacts
  <2>5. /\ m.item \in known[d]
        /\ m.after = qty[m.item] + m.delta /\ m.after >= 0
        /\ \E k \in DOMAIN Plan[task[d]] : Plan[task[d]][k] = <<m.item, 0 - m.delta>>
        /\ m.after <= Threshold => m.item \in owed[d]
        /\ \A n \in wrote[d] : n.item = m.item => n = m
    BY <2>1 DEF IInv, WroteOK
  <2> QED BY <2>1, <2>4, <2>5, <1>2
<1>13. TodoOK'
  <2> SUFFICES ASSUME NEW d \in Consumers, NEW f \in todo[d]
               PROVE  /\ f.item \in known[d]
                      /\ f.at \in DOMAIN Plan[task[d]] /\ Plan[task[d]][f.at] = <<f.item, f.qty>>
                      /\ \A m \in wrote'[d] : m.item # f.item
    BY <1>2 DEF TodoOK
  <2> QED BY <1>1, <1>2 DEF IInv, TodoOK
<1>14. NothingIsLost'
  <2>1. \A d \in Consumers : pc'[d] = "deducting" => d # c
    BY <1>2
  <2> QED BY <2>1, <1>2, <1>8, LostKept DEF IInv
<1>15. ExistsOK'
  <2>1. \A i \in Items \ exists : i \notin Written(c)
    BY CommitFacts DEF Commits
  <2> QED BY <2>1, <1>2, CommitFacts DEF IInv, ExistsOK
<1> QED BY <1>4, <1>5, <1>9, <1>10, <1>11, <1>12, <1>13, <1>14, <1>15 DEF IInv

-----------------------------------------------------------------------------
LEMMA NextIsGood == IInv /\ [Next]_vars => IInv'
<1> SUFFICES ASSUME IInv, [Next]_vars PROVE IInv'
  OBVIOUS
<1>1. ASSUME NEW i \in Items, NEW q \in {0, StartQty}, Create(i, q) PROVE IInv'
  BY <1>1, CreateStep
<1>2. ASSUME NEW i \in Items, NEW d \in Deltas, Adjust(i, d) PROVE IInv'
  BY <1>2, AdjustStep
<1>3. ASSUME NEW c \in Consumers, NEW t \in Tasks, Deliver(c, t) PROVE IInv'
  BY <1>3, DeliverStep
<1>4. ASSUME NEW c \in Consumers, Step(c) PROVE IInv'
  <2>1. CASE ReadItems(c)
    BY <2>1, ReadItemsStep
  <2>2. CASE ReadRecorded(c)
    BY <2>2, ReadRecordedStep
  <2>3. CASE Decrement(c)
    BY <2>3, DecrementStep
  <2>4. CASE GiveUp(c)
    BY <2>4, GiveUpStep
  <2>5. CASE CommitTx(c)
    BY <2>5, CommitTxStep
  <2>6. CASE WriteLowStock(c)
    BY <2>6, WriteLowStockStep
  <2>7. CASE Return(c)
    BY <2>7, ReturnStep
  <2> QED BY <1>4, <2>1, <2>2, <2>3, <2>4, <2>5, <2>6, <2>7
          DEF Step, Insufficient, DeadlockVictim, Duplicate
<1>5. ASSUME NEW c \in Consumers, Fail(c) PROVE IInv'
  BY <1>5, GiveUpStep DEF Fail
<1>6. CASE UNCHANGED vars
  <2> USE <1>6 DEF vars, txVars
  <2>1. TypeOK' /\ LowStockIsRecorded'
    BY DEF IInv, TypeOK, LowStockIsRecorded
  <2>2. StagesOK'
    BY DEF IInv, StagesOK
  <2>3. LocksOK'
    BY DEF IInv, LocksOK
  <2>4. WroteOK'
    BY WroteKept DEF IInv
  <2>5. TodoOK'
    BY TodoKept DEF IInv
  <2>6. NothingIsLost'
    BY LostKept, StockKept DEF IInv
  <2> QED BY <2>1, <2>2, <2>3, <2>4, <2>5, <2>6, StockKept DEF IInv
<1> QED BY <1>1, <1>2, <1>3, <1>4, <1>5, <1>6 DEF Next

LEMMA InvariantHolds == Spec => []IInv
  BY InitIsGood, NextIsGood, PTL DEF Spec

(* The variables keep their types. *)
THEOREM TypeCorrect == Spec => []TypeOK
<1>1. IInv => TypeOK
  BY DEF IInv
<1> QED BY <1>1, InvariantHolds, PTL

(* The movements replay to the quantities, no quantity is negative, and no *)
(* task deducts an item twice, however its event is delivered; and what    *)
(* went below its threshold is in the outbox, or about to be, or its       *)
(* handler was hit by a fault.                                             *)
THEOREM BooksSound == Spec => []BooksAreSound
<1>1. IInv => BooksAreSound
  BY DEF IInv, BooksAreSound
<1> QED BY <1>1, InvariantHolds, PTL

-----------------------------------------------------------------------------
(* The refinement. *)

LEMMA InitRefines == Init => Ledger!Init
  BY DEF Init, Ledger!Init, Opening, Ledger!Opening, Ledger!Entry

(* A commit with something written is the atomic deduction of its items;   *)
(* one with nothing written changes nothing.                               *)
LEMMA CommitRefines ==
  ASSUME IInv, NEW c \in Consumers, CommitTx(c)
  PROVE  [Ledger!Next]_Ledger!vars
<1> DEFINE t == task[c]
           S == Written(c)
<1>1. pc[c] = "deducting" /\ todo[c] = {} /\ t \in Tasks /\ S \subseteq Items
  BY CommitFacts
<1>2. UNCHANGED exists
  BY DEF CommitTx
<1>3. CASE S = {}
  <2>1. \A i \in Items : qty'[i] = qty[i] /\ ledger'[i] = ledger[i]
    BY <1>3, CommitFacts
  <2>2. qty' = qty /\ ledger' = ledger
    BY <2>1, CommitFacts DEF IInv, TypeOK
  <2> QED BY <1>2, <2>2 DEF Ledger!vars
<1>4. CASE S # {}
  <2>1. ASSUME NEW i \in Items, i \in S
        PROVE  /\ i \in exists /\ i \in Ledger!PlanItems(t) /\ i \notin Ledger!Deducted(t)
               /\ qty[i] >= Ledger!Need(t, i)
               /\ qty'[i] = qty[i] - Ledger!Need(t, i)
               /\ ledger'[i] = Append(ledger[i], Ledger!Entry(0 - Ledger!Need(t, i),
                                                    qty[i] - Ledger!Need(t, i), t))
    <3>1. PICK m \in wrote[c] : Commits(c, i, m)
      BY <2>1, CommitFacts
    <3> USE DEF Commits
    <3>2. PICK k \in DOMAIN Plan[t] : Plan[t][k] = <<i, 0 - m.delta>>
      BY <3>1
    <3>3. \A j \in DOMAIN Plan[t] : Plan[t][j][1] = i => j = k
      BY <3>2, <1>1, PlanFacts
    <3>4. Ledger!Need(t, i) = 0 - m.delta
      BY <3>2, <3>3 DEF Ledger!Need
    <3>5. qty[i] \in Int
      BY DEF IInv, TypeOK
    <3>6. /\ 0 - Ledger!Need(t, i) = m.delta /\ qty[i] - Ledger!Need(t, i) = m.after
          /\ qty[i] >= Ledger!Need(t, i)
      BY <3>1, <3>4, <3>5
    <3>7. i \in Ledger!PlanItems(t)
      BY <3>2 DEF Ledger!PlanItems
    <3>8. i \notin Ledger!Deducted(t)
      BY <3>1 DEF Moved, Ledger!Deducted
    <3> QED BY <3>1, <3>6, <3>7, <3>8 DEF Ledger!Entry
  <2>2. (Ledger!PlanItems(t) \cap Initially) \ Ledger!Deducted(t) \subseteq S
    <3> SUFFICES ASSUME NEW i \in PlanItems(t) \cap Initially, i \notin Moved(t)
                 PROVE  i \in S
      BY DEF Ledger!PlanItems, Ledger!Deducted, PlanItems, Moved
    <3> QED BY <1>1 DEF IInv, NothingIsLost, Written
  <2>3. /\ qty' = [i \in Items |-> IF i \in S THEN qty[i] - Ledger!Need(t, i) ELSE qty[i]]
        /\ ledger' = [i \in Items |->
             IF i \in S THEN Append(ledger[i], Ledger!Entry(0 - Ledger!Need(t, i),
                                                 qty[i] - Ledger!Need(t, i), t))
                        ELSE ledger[i]]
    <3>1. \A i \in Items : i \notin S => qty'[i] = qty[i] /\ ledger'[i] = ledger[i]
      BY CommitFacts
    <3>2. qty' = [i \in Items |-> qty'[i]] /\ ledger' = [i \in Items |-> ledger'[i]]
      BY CommitFacts
    <3> QED BY <3>1, <3>2, <2>1
  <2>4. S \in SUBSET ((Ledger!PlanItems(t) \cap exists) \ Ledger!Deducted(t))
    BY <2>1, <1>1
  <2>5. \A i \in S : qty[i] >= Ledger!Need(t, i)
    BY <2>1, <1>1
  <2> HIDE DEF S, t
  <2>6. Ledger!Consume(t)
    BY <1>2, <1>4, <2>2, <2>3, <2>4, <2>5 DEF Ledger!Consume
  <2> QED BY <2>6, <1>1 DEF Ledger!Next
<1> QED BY <1>3, <1>4

LEMMA NextRefines == IInv /\ [Next]_vars => [Ledger!Next]_Ledger!vars
<1> SUFFICES ASSUME IInv, [Next]_vars PROVE [Ledger!Next]_Ledger!vars
  OBVIOUS
<1>1. ASSUME NEW i \in Items, NEW q \in {0, StartQty}, Create(i, q) PROVE Ledger!Next
  <2>1. Ledger!Create(i)
    BY <1>1 DEF Create, Ledger!Create, Opening, Ledger!Opening, Ledger!Entry
  <2> QED BY <2>1 DEF Ledger!Next
<1>2. ASSUME NEW i \in Items, NEW d \in Deltas, Adjust(i, d) PROVE Ledger!Next
  <2>1. Ledger!Correct(i)
    BY <1>2 DEF Adjust, Ledger!Correct, Ledger!Entry
  <2> QED BY <2>1 DEF Ledger!Next
<1>3. ASSUME NEW c \in Consumers, CommitTx(c) PROVE [Ledger!Next]_Ledger!vars
  BY <1>3, CommitRefines
<1>4. ASSUME NEW c \in Consumers, NEW t \in Tasks, Deliver(c, t) PROVE UNCHANGED Ledger!vars
  BY <1>4 DEF Deliver, Ledger!vars
<1>5. ASSUME NEW c \in Consumers, Step(c), ~CommitTx(c) PROVE UNCHANGED Ledger!vars
  BY <1>5 DEF Step, ReadItems, ReadRecorded, Decrement, Insufficient, DeadlockVictim,
              Duplicate, GiveUp, WriteLowStock, Return, Ledger!vars
<1>6. ASSUME NEW c \in Consumers, Fail(c) PROVE UNCHANGED Ledger!vars
  BY <1>6 DEF Fail, GiveUp, Ledger!vars
<1>7. CASE UNCHANGED vars
  BY <1>7 DEF vars, Ledger!vars
<1> QED BY <1>1, <1>2, <1>3, <1>4, <1>5, <1>6, <1>7 DEF Next

(* The transactions, locks and deliveries of Inventory implement the       *)
(* atomic deductions and corrections of StockLedger.                       *)
THEOREM DeductionsAreAtomic == Spec => ActsAtomically
  BY InitRefines, InvariantHolds, NextRefines, PTL DEF Spec, ActsAtomically, Ledger!Spec

(* What a task took is in its plan, and if it took anything, it took all   *)
(* of the plan that existed from the start.                                *)
PlanInv ==
  \A t \in Tasks :
    /\ \A i \in Items : \A k \in DOMAIN ledger[i] : ledger[i][k].task = t =>
         \E j \in DOMAIN Plan[t] : Plan[t][j] = <<i, 0 - ledger[i][k].delta>>
    /\ Moved(t) # {} => PlanItems(t) \cap Initially \subseteq Moved(t)

LEMMA InitPlanInv == Init => PlanInv
<1> SUFFICES ASSUME Init PROVE \A i \in Items : \A k \in DOMAIN ledger[i] : ledger[i][k].task = NoTask
  BY InventoryAssumption DEF PlanInv, Moved
<1> QED  BY DEF Init, Opening

(* A step that adds one movement, which is no task's. *)
LEMMA PlanInvKept ==
  ASSUME IInv, PlanInv, ledger' \in [Items -> Seq(Movement)],
         \A i \in Items : ledger'[i] = ledger[i] \/ (ledger[i] = <<>> /\ \A k \in DOMAIN ledger'[i] : ledger'[i][k].task = NoTask)
                          \/ \E e \in Movement : e.task = NoTask /\ ledger'[i] = Append(ledger[i], e)
  PROVE  PlanInv'
<1>1. ASSUME NEW i \in Items, NEW t \in Tasks
      PROVE  /\ \A k \in DOMAIN ledger[i] : ledger[i][k].task = t => k \in DOMAIN ledger'[i] /\ ledger'[i][k] = ledger[i][k]
             /\ \A k \in DOMAIN ledger'[i] : ledger'[i][k].task = t => k \in DOMAIN ledger[i] /\ ledger'[i][k] = ledger[i][k]
  <2>1. t # NoTask /\ ledger[i] \in Seq(Movement)
    BY InventoryAssumption DEF IInv, TypeOK
  <2>2. CASE ledger'[i] = ledger[i]
    BY <2>2
  <2>3. CASE ledger[i] = <<>> /\ \A k \in DOMAIN ledger'[i] : ledger'[i][k].task = NoTask
    BY <2>1, <2>3
  <2>4. ASSUME NEW e \in Movement, e.task = NoTask, ledger'[i] = Append(ledger[i], e)
        PROVE  /\ \A k \in DOMAIN ledger[i] : ledger[i][k].task = t => k \in DOMAIN ledger'[i] /\ ledger'[i][k] = ledger[i][k]
               /\ \A k \in DOMAIN ledger'[i] : ledger'[i][k].task = t => k \in DOMAIN ledger[i] /\ ledger'[i][k] = ledger[i][k]
    <3> DEFINE s == ledger[i]
               u == ledger'[i]
    <3>1. /\ Len(s) \in Nat /\ DOMAIN s = 1..Len(s) /\ DOMAIN u = 1..(Len(s) + 1)
          /\ u[Len(s) + 1] = e /\ \A k \in 1..Len(s) : u[k] = s[k]
      BY <2>1, <2>4, Appended
    <3> HIDE DEF s, u
    <3>2. \A k \in DOMAIN u : k \in DOMAIN s \/ k = Len(s) + 1
      BY <3>1
    <3>3. \A k \in DOMAIN s : k \in DOMAIN u
      BY <3>1
    <3> QED  BY <2>1, <2>4, <3>1, <3>2, <3>3 DEF s, u
  <2> QED  BY <2>2, <2>3, <2>4
<1>2. \A t \in Tasks : Moved(t)' = Moved(t)
  BY <1>1 DEF Moved
<1>3. ASSUME NEW t \in Tasks, NEW i \in Items, NEW k \in DOMAIN ledger'[i], ledger'[i][k].task = t
      PROVE  \E j \in DOMAIN Plan[t] : Plan[t][j] = <<i, 0 - ledger'[i][k].delta>>
  <2>1. k \in DOMAIN ledger[i] /\ ledger'[i][k] = ledger[i][k]
    BY <1>1, <1>3
  <2> QED  BY <1>3, <2>1 DEF PlanInv
<1>4. ASSUME NEW t \in Tasks, Moved(t)' # {} PROVE PlanItems(t) \cap Initially \subseteq Moved(t)'
  BY <1>2, <1>4 DEF PlanInv
<1> QED  BY <1>3, <1>4 DEF PlanInv, PlanItems

(* The atomic deduction takes what the plan says. *)
LEMMA ConsumeKeepsPlan ==
  ASSUME IInv, PlanInv, IInv', NEW t \in Tasks, Ledger!Consume(t)
  PROVE  PlanInv'
<1>1. PICK S \in SUBSET ((PlanItems(t) \cap exists) \ Moved(t)) :
        /\ S # {} /\ (PlanItems(t) \cap Initially) \ Moved(t) \subseteq S
        /\ ledger' = [i \in Items |->
             IF i \in S THEN Append(ledger[i], Ledger!Entry(0 - Ledger!Need(t, i), qty[i] - Ledger!Need(t, i), t))
                        ELSE ledger[i]]
  BY DEF Ledger!Consume, Ledger!PlanItems, Ledger!Deducted, PlanItems, Moved
<1>2. S \subseteq Items
  BY DEF IInv, TypeOK
<1>3. ASSUME NEW i \in S
      PROVE  \E j \in DOMAIN Plan[t] : Plan[t][j] = <<i, Ledger!Need(t, i)>> /\ Ledger!Need(t, i) \in Int
  <2>1. PICK k \in DOMAIN Plan[t] : Plan[t][k][1] = i
    BY <1>1 DEF PlanItems
  <2>2. \A j \in DOMAIN Plan[t] : Plan[t][j][1] = i => j = k
    BY <2>1, PlanFacts
  <2>3. Ledger!Need(t, i) = Plan[t][k][2]
    BY <2>1, <2>2 DEF Ledger!Need
  <2>4. Plan[t][k] \in Items \X (Nat \ {0})
    BY PlanFacts
  <2> QED  BY <2>1, <2>3, <2>4
<1>4. ASSUME NEW i \in Items
      PROVE  /\ \A k \in DOMAIN ledger[i] : k \in DOMAIN ledger'[i] /\ ledger'[i][k] = ledger[i][k]
             /\ \A k \in DOMAIN ledger'[i] :
                  \/ k \in DOMAIN ledger[i] /\ ledger'[i][k] = ledger[i][k]
                  \/ i \in S /\ ledger'[i][k].task = t /\ 0 - ledger'[i][k].delta = Ledger!Need(t, i)
             /\ i \in S => \E k \in DOMAIN ledger'[i] : ledger'[i][k].task = t
  <2>1. ledger[i] \in Seq(Movement) /\ ledger'[i] \in Seq(Movement)
    BY DEF IInv, TypeOK
  <2>2. CASE i \notin S
    BY <1>1, <2>2
  <2>3. CASE i \in S
    <3> DEFINE s == ledger[i]
               e == Ledger!Entry(0 - Ledger!Need(t, i), qty[i] - Ledger!Need(t, i), t)
               u == Append(s, e)
    <3>1. Ledger!Need(t, i) \in Int /\ qty[i] \in Int
      BY <1>3, <2>3 DEF IInv, TypeOK
    <3>2. e.task = t /\ 0 - e.delta = Ledger!Need(t, i) /\ e \in Movement
      BY <3>1 DEF Ledger!Entry, Movement
    <3> HIDE DEF e
    <3>3. /\ Len(s) \in Nat /\ DOMAIN s = 1..Len(s) /\ DOMAIN u = 1..(Len(s) + 1)
          /\ u[Len(s) + 1] = e /\ \A k \in 1..Len(s) : u[k] = s[k]
      BY <2>1, <3>2, Appended
    <3>4. ledger'[i] = u
      BY <1>1, <2>3 DEF e
    <3> HIDE DEF s, u
    <3>5. \A k \in DOMAIN u : k \in DOMAIN s \/ k = Len(s) + 1
      BY <3>3
    <3>6. (\A k \in DOMAIN s : k \in DOMAIN u) /\ Len(s) + 1 \in DOMAIN u
      BY <3>3
    <3>7. \A k \in DOMAIN u : (k \in DOMAIN s /\ u[k] = s[k]) \/ (u[k].task = t /\ 0 - u[k].delta = Ledger!Need(t, i))
      BY <3>2, <3>3, <3>5
    <3>8. \E k \in DOMAIN u : u[k].task = t
      BY <3>2, <3>3, <3>6
    <3>9. \A k \in DOMAIN s : k \in DOMAIN u /\ u[k] = s[k]
      BY <3>3, <3>6
    <3> QED  BY <2>3, <3>4, <3>7, <3>8, <3>9 DEF s
  <2> QED  BY <2>2, <2>3
<1>5. ASSUME NEW r \in Tasks, NEW i \in Items, NEW k \in DOMAIN ledger'[i], ledger'[i][k].task = r
      PROVE  \E j \in DOMAIN Plan[r] : Plan[r][j] = <<i, 0 - ledger'[i][k].delta>>
  <2>1. CASE k \in DOMAIN ledger[i] /\ ledger'[i][k] = ledger[i][k]
    BY <1>5, <2>1 DEF PlanInv
  <2>2. CASE i \in S /\ ledger'[i][k].task = t /\ 0 - ledger'[i][k].delta = Ledger!Need(t, i)
    BY <1>3, <1>5, <2>2
  <2> QED  BY <1>4, <2>1, <2>2
<1>6. Moved(t)' = Moved(t) \cup S
  BY <1>2, <1>4 DEF Moved
<1>7. \A r \in Tasks : r # t => Moved(r)' = Moved(r)
  BY <1>4 DEF Moved
<1>8. ASSUME NEW r \in Tasks, Moved(r)' # {} PROVE PlanItems(r) \cap Initially \subseteq Moved(r)'
  <2>1. CASE r = t
    BY <1>1, <1>6, <2>1
  <2>2. CASE r # t
    BY <1>7, <1>8, <2>2 DEF PlanInv
  <2> QED  BY <2>1, <2>2
<1>9. PlanItems(t)' = PlanItems(t)
  BY DEF PlanItems
<1> HIDE DEF PlanItems
<1> QED  BY <1>5, <1>8 DEF PlanInv

LEMMA NextPlanInv == IInv /\ IInv' /\ PlanInv /\ [Next]_vars => PlanInv'
<1> SUFFICES ASSUME IInv, IInv', PlanInv, [Next]_vars PROVE PlanInv'
  OBVIOUS
<1>1. [Ledger!Next]_Ledger!vars
  BY NextRefines
<1>2. ledger' \in [Items -> Seq(Movement)] /\ ledger \in [Items -> Seq(Movement)]
  BY DEF IInv, TypeOK
<1>3. ASSUME NEW i \in Items, Ledger!Create(i) PROVE PlanInv'
  <2>1. PICK q \in {0, StartQty} : i \notin exists /\ ledger' = [ledger EXCEPT ![i] = Ledger!Opening(q)]
    BY <1>3 DEF Ledger!Create
  <2>2. ledger[i] = <<>>
    BY <2>1 DEF IInv, ExistsOK
  <2>3. \A k \in DOMAIN Ledger!Opening(q) : Ledger!Opening(q)[k].task = NoTask
    BY DEF Ledger!Opening, Ledger!Entry
  <2>4. \A j \in Items : ledger'[j] = ledger[j] \/ (ledger[j] = <<>> /\ \A k \in DOMAIN ledger'[j] : ledger'[j][k].task = NoTask)
    BY <1>2, <2>1, <2>2, <2>3
  <2> QED  BY <1>2, <2>4, PlanInvKept
<1>4. ASSUME NEW i \in Items, Ledger!Correct(i) PROVE PlanInv'
  <2>1. PICK d \in Deltas : ledger' = [ledger EXCEPT ![i] = Append(ledger[i], Ledger!Entry(d, qty[i] + d, NoTask))]
    BY <1>4 DEF Ledger!Correct
  <2> DEFINE e == Ledger!Entry(d, qty[i] + d, NoTask)
  <2>2. e \in Movement /\ e.task = NoTask
    <3>1. qty[i] \in Int /\ d \in Int /\ qty[i] + d \in Int
      BY InventoryAssumption DEF IInv, TypeOK
    <3> QED  BY <3>1 DEF Ledger!Entry, Movement
  <2>3. \A j \in Items : ledger'[j] = ledger[j] \/ ledger'[j] = Append(ledger[j], e)
    BY <1>2, <2>1
  <2> HIDE DEF e
  <2> QED  BY <1>2, <2>2, <2>3, PlanInvKept
<1>5. ASSUME NEW t \in Tasks, Ledger!Consume(t) PROVE PlanInv'
  BY <1>5, ConsumeKeepsPlan
<1>6. CASE UNCHANGED Ledger!vars
  BY <1>2, <1>6, PlanInvKept DEF Ledger!vars
<1> QED  BY <1>1, <1>3, <1>4, <1>5, <1>6 DEF Ledger!Next

(* A task takes of every item what its checklist says in total, all or     *)
(* nothing, whatever the checklists are: consumptionPlan adds up the items *)
(* of a SKU, and the transaction deducts the plan.                         *)
THEOREM ChecklistsDeducted == Spec => []DeductsChecklist
<1>1. IInv /\ PlanInv => DeductsChecklist
  <2> SUFFICES ASSUME IInv, PlanInv, NEW t \in Tasks
               PROVE  /\ \A i \in Moved(t) : \A k \in DOMAIN ledger[i] : ledger[i][k].task = t =>
                           Counting(ChecklistOf[t], i) # {} /\ ledger[i][k].delta = 0 - Total(ChecklistOf[t], i)
                      /\ Moved(t) # {} =>
                           \A i \in Initially : i \in Moved(t) <=> Counting(ChecklistOf[t], i) # {}
    BY DEF DeductsChecklist
  <2>1. ASSUME NEW i \in Items, NEW k \in DOMAIN ledger[i], ledger[i][k].task = t
        PROVE  i \in PlanItems(t) /\ Counting(ChecklistOf[t], i) # {} /\ ledger[i][k].delta = 0 - Total(ChecklistOf[t], i)
    <3>1. PICK j \in DOMAIN Plan[t] : Plan[t][j] = <<i, 0 - ledger[i][k].delta>>
      BY <2>1 DEF PlanInv
    <3>2. i \in PlanItems(t)
      BY <3>1 DEF PlanItems
    <3>3. Total(ChecklistOf[t], i) = 0 - ledger[i][k].delta
      BY <3>1, PlanFacts
    <3>4. ledger[i][k].delta \in Int
      <4>1. ledger[i][k] \in Movement
        BY DEF IInv, TypeOK
      <4> QED  BY <4>1 DEF Movement
    <3> QED  BY <3>2, <3>3, <3>4, PlanFacts
  <2>2. Moved(t) \subseteq PlanItems(t) /\ Moved(t) \subseteq Items
    BY <2>1 DEF Moved
  <2>3. \A i \in Initially : i \in Items
    BY InventoryAssumption
  <2>4. Moved(t) # {} => \A i \in Initially : i \in Moved(t) <=> i \in PlanItems(t)
    BY <2>2 DEF PlanInv
  <2> QED  BY <2>1, <2>2, <2>3, <2>4, PlanFacts
<1>2. Spec => []PlanInv
  BY InitPlanInv, InvariantHolds, NextPlanInv, PTL DEF Spec
<1> QED  BY <1>1, <1>2, InvariantHolds, PTL

-----------------------------------------------------------------------------
(* Sorting. *)
(* What a list is sorted by: a strict order of the rows in scope, which is *)
(* total but for rows of the narrow list of stock that agree.              *)
Before(s, S, i) == {j \in S : Precedes(s, j, i)}

TotalOrder(s) == \A i, j \in In(s) : i # j => Precedes(s, i, j) \/ Precedes(s, j, i)

LEMMA AllInOrder ==
  /\ \A i, j \in Rows : i # j => Precedes("all", i, j) \/ Precedes("all", j, i)
  /\ \A i, j \in Rows : Precedes("all", i, j) => ~Precedes("all", j, i)
  /\ \A i, j, k \in Rows :
       Precedes("all", i, j) /\ Precedes("all", j, k) => Precedes("all", i, k)
<1> DEFINE name(i) == RowName[i]
<1>1. \A i \in Rows : i \in Nat /\ name(i) \in Nat
  BY ListsAssumption
<1>2. \A i, j \in Rows : Precedes("all", i, j) <=> name(i) < name(j) \/ (name(i) = name(j) /\ i < j)
  BY DEF Precedes
<1> HIDE DEF name
<1>3. QED
  BY <1>1, <1>2

(* A row is behind fewer rows than every row that comes after it.          *)
LEMMA RankGrows ==
  ASSUME NEW S, S \subseteq Rows, IsFiniteSet(S), NEW i \in S, NEW j \in S, Precedes("all", i, j)
  PROVE  /\ Cardinality(Before("all", S, i)) \in Nat
         /\ Cardinality(Before("all", S, j)) \in Nat
         /\ Cardinality(Before("all", S, i)) < Cardinality(Before("all", S, j))
<1> DEFINE A == Before("all", S, i)
           B == Before("all", S, j)
<1>1. A \subseteq B /\ i \in B /\ i \notin A /\ A \subseteq S /\ B \subseteq S
  BY AllInOrder DEF Before
<1> HIDE DEF A, B
<1>2. IsFiniteSet(A) /\ IsFiniteSet(B)
  BY <1>1, FS_Subset
<1>3. Cardinality(A) \in Nat /\ Cardinality(B) \in Nat
  BY <1>2, FS_CardinalityType
<1>4. Cardinality(A) <= Cardinality(B) /\ (Cardinality(A) = Cardinality(B) => A = B)
  BY <1>1, <1>2, FS_Subset
<1>5. Cardinality(A) < Cardinality(B)
  BY <1>1, <1>3, <1>4
<1>6. QED
  BY <1>3, <1>5 DEF A, B

(* A set of naturals that is not empty has a least member.                 *)
LEMMA Least ==
  ASSUME NEW T, T \subseteq Nat, T # {}
  PROVE  \E x \in T : \A y \in T : x <= y
<1>1. PICK x \in T : \A y \in T : ~(<<y, x>> \in OpToRel(<, Nat))
  BY NatLessThanWellFounded, WFMin
<1>2. \A y \in T : ~(y < x)
  BY <1>1 DEF OpToRel
<1>3. QED
  BY <1>2

(* A finite set of rows has a first row and a last one.                    *)
LEMMA FirstAndLast ==
  ASSUME NEW S, S \subseteq Rows, IsFiniteSet(S), S # {}
  PROVE  /\ \E i \in S : \A j \in S \ {i} : Precedes("all", i, j)
         /\ \E i \in S : \A j \in S \ {i} : Precedes("all", j, i)
<1> DEFINE rank(i) == Cardinality(Before("all", S, i))
           n == Cardinality(S)
<1>1. n \in Nat /\ \A i \in S : rank(i) \in Nat /\ n - rank(i) \in Nat
  <2>1. n \in Nat
    BY FS_CardinalityType
  <2>2. ASSUME NEW i \in S PROVE rank(i) \in Nat /\ rank(i) <= n
    <3>1. Before("all", S, i) \in SUBSET S
      BY DEF Before
    <3>2. QED
      BY <3>1, FS_Subset, FS_CardinalityType
  <2>3. QED
    BY <2>1, <2>2
<1>2. \A i, j \in S : Precedes("all", i, j) => rank(i) < rank(j)
  BY RankGrows
<1>3. \A i, j \in S : i # j => Precedes("all", i, j) \/ Precedes("all", j, i)
  BY AllInOrder
<1> HIDE DEF rank, n
<1>4. \E i \in S : \A j \in S : rank(i) <= rank(j)
  <2>1. {rank(i) : i \in S} \subseteq Nat /\ {rank(i) : i \in S} # {}
    BY <1>1
  <2>2. PICK x \in {rank(i) : i \in S} : \A y \in {rank(i) : i \in S} : x <= y
    BY <2>1, Least
  <2>3. QED
    BY <2>2
<1>5. \E i \in S : \A j \in S : rank(j) <= rank(i)
  <2>1. {n - rank(i) : i \in S} \subseteq Nat /\ {n - rank(i) : i \in S} # {}
    BY <1>1
  <2>2. PICK x \in {n - rank(i) : i \in S} : \A y \in {n - rank(i) : i \in S} : x <= y
    BY <2>1, Least
  <2>3. PICK i \in S : x = n - rank(i)
    BY <2>2
  <2>4. ASSUME NEW j \in S PROVE rank(j) <= rank(i)
    <3>1. n - rank(i) <= n - rank(j)
      BY <2>2, <2>3
    <3>2. QED
      BY <1>1, <3>1
  <2>5. QED
    BY <2>4
<1>6. QED
  BY <1>1, <1>2, <1>3, <1>4, <1>5

(* FirstOf: as many rows as a page takes, or all; the others come later.   *)
LEMMA FirstOfIsPage ==
  ASSUME NEW S, S \subseteq Rows, IsFiniteSet(S)
  PROVE  /\ FirstOf(S) \subseteq S
         /\ \A x \in FirstOf(S), y \in S \ FirstOf(S) : Precedes("all", x, y)
         /\ HasNext(FirstOf(S)) \/ FirstOf(S) = S
<1> DEFINE rank(i) == Cardinality(Before("all", S, i))
           F == FirstOf(S)
<1>0. Size \in Nat \ {0}
  BY ListsAssumption
<1>1. \A i \in S : rank(i) \in Nat
  <2>1. \A i \in S : Before("all", S, i) \in SUBSET S
    BY DEF Before
  <2>2. QED
    BY <2>1, FS_Subset, FS_CardinalityType
<1>2. \A i, j \in S : Precedes("all", i, j) => rank(i) < rank(j)
  BY RankGrows
<1>3. \A i, j \in S : i # j => Precedes("all", i, j) \/ Precedes("all", j, i)
  BY AllInOrder
<1>4. F = {i \in S : rank(i) < Size}
  BY DEF FirstOf, Before
<1> HIDE DEF F
<1>5. ASSUME NEW x \in F, NEW y \in S \ F PROVE Precedes("all", x, y)
  <2> HIDE DEF rank
  <2>1. rank(x) < Size /\ ~(rank(y) < Size) /\ x \in S /\ y \in S /\ x # y
    BY <1>4
  <2>2. ~(rank(y) < rank(x))
    BY <1>0, <1>1, <2>1
  <2>3. QED
    BY <1>2, <1>3, <2>1, <2>2
<1>6. ASSUME F # S PROVE Cardinality(F) = Size
  <2>1. IsFiniteSet(S \ F) /\ S \ F # {} /\ S \ F \subseteq Rows /\ IsFiniteSet(F)
    BY <1>4, <1>6, FS_Difference, FS_Subset
  <2>2. PICK i \in S \ F : \A j \in (S \ F) \ {i} : Precedes("all", i, j)
    BY <2>1, FirstAndLast
  <2>3. Before("all", S, i) = F
    <3>1. ASSUME NEW j \in S, Precedes("all", j, i) PROVE j \in F
      BY <2>2, <3>1, AllInOrder
    <3>2. ASSUME NEW j \in F PROVE j \in S /\ Precedes("all", j, i)
      BY <1>4, <1>5
    <3>3. QED
      BY <3>1, <3>2 DEF Before
  <2>4. Cardinality(F) = rank(i) /\ rank(i) \in Nat /\ ~(rank(i) < Size)
    BY <1>1, <1>4, <2>3
  <2>5. Cardinality(F) <= Size
    <3> DEFINE f == [j \in F |-> rank(j)]
    <3>1. f \in Injection(F, 0..(Size - 1))
      <4> HIDE DEF rank
      <4>1. \A j \in F : j \in S /\ rank(j) \in 0..(Size - 1)
        BY <1>0, <1>1, <1>4
      <4>2. \A j, k \in F : rank(j) = rank(k) => j = k
        BY <1>1, <1>2, <1>3, <4>1
      <4>3. QED
        BY <4>1, <4>2 DEF Injection, IsInjective
    <3>2. IsFiniteSet(0..(Size - 1)) /\ Cardinality(0..(Size - 1)) = Size
      BY <1>0, FS_Interval
    <3> HIDE DEF f
    <3>3. QED
      BY <3>1, <3>2, FS_Injection
  <2> HIDE DEF rank
  <2>6. QED
    BY <1>0, <2>4, <2>5
<1>7. F \subseteq S
  BY <1>4
<1>8. QED
  BY <1>5, <1>6, <1>7 DEF F, HasNext

-----------------------------------------------------------------------------
(* Pages by number. *)

(* An order of the rows in scope has each of them in one place.            *)
LEMMA OrderIsBijection ==
  ASSUME NEW s \in Scopes, IsFiniteSet(In(s)), NEW o \in Orders(s)
  PROVE  LET n == Cardinality(In(s)) IN
         /\ n \in Nat /\ o \in [1..n -> In(s)]
         /\ \A j, k \in 1..n : o[j] = o[k] => j = k
         /\ \A i \in In(s) : \E k \in 1..n : o[k] = i
         /\ \A j, k \in 1..n : Precedes(s, o[k], o[j]) => k < j
<1> DEFINE n == Cardinality(In(s))
<1>1. n \in Nat
  BY FS_CardinalityType
<1>2. o \in Injection(1..n, In(s))
  BY DEF Orders
<1>3. Cardinality(1..n) = n
  BY <1>1, FS_Interval
<1>4. o \in Surjection(1..n, In(s))
  BY <1>2, <1>3, FS_Injection
<1>5. o \in [1..n -> In(s)] /\ \A j, k \in 1..n : o[j] = o[k] => j = k
  BY <1>2 DEF Injection, IsInjective
<1>6. \A i \in In(s) : \E k \in 1..n : o[k] = i
  BY <1>4 DEF Surjection
<1>7. \A j, k \in 1..n : Precedes(s, o[k], o[j]) => k < j
  BY <1>5 DEF Orders
<1> HIDE DEF n
<1>8. QED
  BY <1>1, <1>5, <1>6, <1>7 DEF n

(* Where a row stands in an order is how many come before it.              *)
LEMMA PlaceIsRank ==
  ASSUME NEW s \in Scopes, IsFiniteSet(In(s)), TotalOrder(s), NEW o \in Orders(s),
         NEW k \in 1..Cardinality(In(s))
  PROVE  Cardinality(Before(s, In(s), o[k])) = k - 1
<1> DEFINE n == Cardinality(In(s))
           B == Before(s, In(s), o[k])
           f == [j \in 1..(k - 1) |-> o[j]]
<1>1. /\ n \in Nat /\ o \in [1..n -> In(s)]
      /\ \A i, j \in 1..n : o[i] = o[j] => i = j
      /\ \A i \in In(s) : \E j \in 1..n : o[j] = i
      /\ \A i, j \in 1..n : Precedes(s, o[j], o[i]) => j < i
  BY OrderIsBijection
<1>2. k \in 1..n
  OBVIOUS
<1> HIDE DEF n
<1>3. \A j \in 1..(k - 1) : j \in 1..n /\ j < k
  BY <1>1, <1>2
<1>4. ASSUME NEW j \in 1..(k - 1) PROVE o[j] \in B
  <2>1. o[j] # o[k] /\ ~Precedes(s, o[k], o[j]) /\ o[j] \in In(s) /\ o[k] \in In(s)
    <3>1. j \in 1..n /\ j < k /\ ~(k < j) /\ j # k
      BY <1>1, <1>2, <1>3
    <3>2. QED
      BY <1>1, <1>2, <3>1
  <2>2. QED
    BY <2>1 DEF TotalOrder, Before
<1>5. ASSUME NEW i \in B PROVE \E j \in 1..(k - 1) : o[j] = i
  <2>1. i \in In(s) /\ Precedes(s, i, o[k])
    BY DEF Before
  <2>2. PICK j \in 1..n : o[j] = i
    BY <1>1, <2>1
  <2>3. j < k
    BY <1>1, <1>2, <2>1, <2>2
  <2>4. j \in 1..(k - 1)
    BY <1>1, <1>2, <2>3
  <2>5. QED
    BY <2>2, <2>4
<1>6. f \in Bijection(1..(k - 1), B)
  <2>1. f \in Injection(1..(k - 1), B)
    BY <1>1, <1>3, <1>4 DEF Injection, IsInjective
  <2>2. f \in Surjection(1..(k - 1), B)
    BY <1>4, <1>5 DEF Surjection
  <2>3. QED
    BY <2>1, <2>2 DEF Bijection
<1>7. k - 1 \in Nat /\ IsFiniteSet(1..(k - 1)) /\ Cardinality(1..(k - 1)) = k - 1
  <2>1. k - 1 \in Nat
    BY <1>1, <1>2
  <2>2. PICK m \in Nat : m = k - 1
    BY <2>1
  <2>3. IsFiniteSet(1..m) /\ Cardinality(1..m) = m
    BY FS_Interval
  <2>4. QED
    BY <2>2, <2>3
<1> HIDE DEF f, B
<1>8. ExistsBijection(1..(k - 1), B)
  BY <1>6 DEF ExistsBijection
<1>9. Cardinality(B) = k - 1
  BY <1>7, <1>8, FS_Bijection
<1>10. QED
  BY <1>9 DEF B

(* LIMIT and OFFSET, in an order o of the rows: a page that has room left  *)
(* ends the list, a first page with room left is the whole list.           *)
LEMMA PageEnds ==
  ASSUME NEW s \in Scopes, IsFiniteSet(In(s)), NEW n \in Nat, NEW S \in Slices(s, n), ~HasNext(S)
  PROVE  /\ Cardinality(In(s)) \in Nat
         /\ Cardinality(In(s)) < (n + 1) * Size
         /\ n = 0 => S = In(s)
<1> DEFINE N == Cardinality(In(s))
           a == n * Size
<1>0. Size \in Nat \ {0} /\ a \in Nat /\ (n + 1) * Size = a + Size /\ (n = 0 => a = 0)
  BY ListsAssumption
<1>1. PICK o \in Orders(s) :
        S = {o[k] : k \in {j \in DOMAIN o : n * Size < j /\ j <= (n + 1) * Size}}
  BY DEF Slices
<1>2. /\ N \in Nat /\ o \in [1..N -> In(s)]
      /\ \A i, j \in 1..N : o[i] = o[j] => i = j
      /\ \A i \in In(s) : \E j \in 1..N : o[j] = i
  BY OrderIsBijection
<1>3. S = {o[k] : k \in {j \in 1..N : a < j /\ j <= a + Size}}
  BY <1>0, <1>1, <1>2
<1> HIDE DEF N, a
<1>4. N < a + Size
  <2> SUFFICES ASSUME a + Size <= N PROVE FALSE
    BY <1>0, <1>2
  <2> DEFINE K == (a + 1)..(a + Size)
             f == [k \in K |-> o[k]]
  <2>1. \A k \in K : k \in 1..N /\ a < k /\ k <= a + Size
    BY <1>0, <1>2
  <2>2. \A k \in 1..N : a < k /\ k <= a + Size => k \in K
    BY <1>0, <1>2
  <2>3. IsFiniteSet(K) /\ Cardinality(K) = Size
    <3>1. a + 1 \in Int /\ a + Size \in Int /\ ~(a + 1 > a + Size) /\ (a + Size) - (a + 1) + 1 = Size
      BY <1>0
    <3>2. QED
      BY <3>1, FS_Interval
  <2> HIDE DEF K
  <2>4. f \in Injection(K, S)
    BY <1>2, <1>3, <2>1 DEF Injection, IsInjective
  <2>5. f \in Surjection(K, S)
    BY <1>3, <2>1, <2>2, <2>4 DEF Surjection, Injection
  <2>6. ExistsBijection(K, S)
    BY <2>4, <2>5 DEF Bijection, ExistsBijection
  <2>7. Cardinality(S) = Size
    BY <2>3, <2>6, FS_Bijection
  <2>8. QED
    BY <2>7 DEF HasNext
<1>5. n = 0 => S = In(s)
  <2> SUFFICES ASSUME n = 0 PROVE S = In(s)
    OBVIOUS
  <2>1. \A k \in 1..N : a < k /\ k <= a + Size
    BY <1>0, <1>2, <1>4
  <2>2. QED
    BY <1>2, <1>3, <2>1
<1>6. QED
  BY <1>0, <1>2, <1>4, <1>5 DEF N

(* What stands behind the pages before is in the page, or behind it too.   *)
LEMMA PageTakesNext ==
  ASSUME NEW s \in Scopes, IsFiniteSet(In(s)), TotalOrder(s), NEW n \in Nat, NEW S \in Slices(s, n),
         NEW i \in In(s), i \notin S, n * Size <= Cardinality(Before(s, In(s), i))
  PROVE  (n + 1) * Size <= Cardinality(Before(s, In(s), i))
<1> DEFINE N == Cardinality(In(s))
           a == n * Size
<1>0. Size \in Nat \ {0} /\ a \in Nat /\ (n + 1) * Size = a + Size
  BY ListsAssumption
<1>1. PICK o \in Orders(s) :
        S = {o[k] : k \in {j \in DOMAIN o : n * Size < j /\ j <= (n + 1) * Size}}
  BY DEF Slices
<1>2. N \in Nat /\ o \in [1..N -> In(s)] /\ \A x \in In(s) : \E j \in 1..N : o[j] = x
  BY OrderIsBijection
<1>3. PICK k \in 1..N : o[k] = i
  BY <1>2
<1>4. Cardinality(Before(s, In(s), i)) = k - 1
  BY <1>3, PlaceIsRank
<1>5. a <= k - 1 /\ ~(a < k /\ k <= a + Size)
  BY <1>0, <1>1, <1>2, <1>3, <1>4
<1> HIDE DEF N, a
<1>6. a + Size <= k - 1
  BY <1>0, <1>2, <1>3, <1>5
<1>7. QED
  BY <1>0, <1>4, <1>6

(* Fewer rows come before a row than there are.                            *)
LEMMA RankIsSmall ==
  ASSUME NEW s \in Scopes, IsFiniteSet(In(s)), NEW i \in In(s)
  PROVE  /\ Cardinality(Before(s, In(s), i)) \in Nat
         /\ Cardinality(Before(s, In(s), i)) <= Cardinality(In(s))
<1>1. Before(s, In(s), i) \in SUBSET In(s)
  BY DEF Before
<1>2. QED
  BY <1>1, FS_Subset, FS_CardinalityType

-----------------------------------------------------------------------------
(* The invariant. *)

WalkTypeOK ==
  walk \in [n : Nat, on : BOOLEAN, seen : SUBSET Rows, kept : SUBSET Rows, calm : BOOLEAN]

(* Of a walk through the pages: what was there from the start and has not  *)
(* been seen stands behind the pages that were read.                       *)
WalkSound ==
  kind # "cursor" /\ walk.on =>
    LET page == cache[list.scope][walk.n] IN
    /\ walk.n \in 0..LastPage /\ page # NoRows
    /\ walk.kept \subseteq In(list.scope)
    /\ walk.n = 0 /\ ~HasNext(page) => walk.kept \subseteq page
    /\ walk.calm /\ TotalOrder(list.scope) =>
         /\ \A i \in walk.kept \ walk.seen :
              (walk.n + 1) * Size <= Cardinality(Before(list.scope, In(list.scope), i))
         /\ ~HasNext(page) => walk.kept \subseteq walk.seen

(* Of pages read by cursor, and rows K that were there from the start:     *)
(* each page is after the one before, and what is still to come is after   *)
(* the last one; a last page with room left leaves nothing to come.        *)
AllOf(ps) == UNION {ps[k] : k \in DOMAIN ps}

Sorted(ps) ==
  \A j, k \in DOMAIN ps : j < k => \A x \in ps[j], y \in ps[k] : Precedes("all", x, y)

Covered(ps, K) ==
  LET last == ps[Len(ps)] IN
  IF HasNext(last) THEN \A i \in K \ AllOf(ps) : \A x \in last : Precedes("all", x, i)
                   ELSE K \subseteq AllOf(ps)

Reading(ps, K) ==
  /\ ps \in Seq(SUBSET In("all")) /\ K \subseteq In("all")
  /\ Sorted(ps) /\ (ps # <<>> => Covered(ps, K))

PagesSound ==
  kind = "cursor" =>
    /\ Reading(pages, walk.kept) /\ Reading(again, walk.seen)
    /\ again # <<>> => HasNext(again[Len(again)])

ListsInv ==
  /\ ListTypeOK /\ IsFiniteSet(DOMAIN level)
  /\ WalkTypeOK /\ WalkSound /\ PagesSound

LEMMA InitLists == ListInit => ListsInv
<1> SUFFICES ASSUME ListInit PROVE ListsInv
  OBVIOUS
<1>1. ListTypeOK
  BY ListsAssumption DEF ListInit, ListTypeOK, Scopes
<1>2. IsFiniteSet(DOMAIN level)
  BY DEF ListInit
<1>3. WalkTypeOK /\ WalkSound
  BY DEF ListInit, Nowhere, WalkTypeOK, WalkSound
<1>4. PagesSound
  BY DEF ListInit, Nowhere, PagesSound, Reading, Sorted
<1>5. QED
  BY <1>1, <1>2, <1>3, <1>4 DEF ListsInv

(* The rows in scope are finitely many.                                    *)
LEMMA ScopeIsFinite ==
  ASSUME ListTypeOK, IsFiniteSet(DOMAIN level), NEW s \in Scopes
  PROVE  IsFiniteSet(In(s)) /\ In(s) \subseteq DOMAIN level /\ In(s) \subseteq Rows
<1>1. In(s) \in SUBSET DOMAIN level
  BY DEF In
<1>2. QED
  BY <1>1, FS_Subset DEF ListTypeOK

LEMMA SliceIsOfScope ==
  ASSUME NEW s \in Scopes, IsFiniteSet(In(s)), NEW n \in Nat, NEW S \in Slices(s, n)
  PROVE  S \subseteq In(s)
<1>1. PICK o \in Orders(s) :
        S = {o[k] : k \in {j \in DOMAIN o : n * Size < j /\ j <= (n + 1) * Size}}
  BY DEF Slices
<1>2. o \in [1..Cardinality(In(s)) -> In(s)]
  BY OrderIsBijection
<1>3. QED
  BY <1>1, <1>2

(* One more page by cursor.                                                *)
LEMMA PageAppended ==
  ASSUME ListTypeOK, IsFiniteSet(DOMAIN level), NEW ps, NEW K, Reading(ps, K),
         ps # <<>> => HasNext(ps[Len(ps)])
  PROVE  Reading(Append(ps, NextPage(ps)), K)
<1> DEFINE R == IF ps = <<>> THEN In("all") ELSE Beyond(Cursor(ps[Len(ps)]))
           P == NextPage(ps)
           last == ps[Len(ps)]
           more == Append(ps, P)
<1>0. IsFiniteSet(In("all")) /\ In("all") \subseteq Rows /\ ps \in Seq(SUBSET In("all"))
  BY ScopeIsFinite DEF Scopes, Reading
<1>1. ASSUME ps # <<>>
      PROVE  /\ Len(ps) \in DOMAIN ps
             /\ \A i \in In("all") : i \in R <=> \A x \in last : Precedes("all", x, i)
  <2>1. Len(ps) \in DOMAIN ps /\ last \subseteq In("all")
    BY <1>0, <1>1
  <2>2. last # {}
    <3>1. Cardinality(last) # 0
      BY <1>1, ListsAssumption DEF HasNext
    <3>2. QED
      BY <3>1, FS_EmptySet
  <2>3. \E c \in last : \A j \in last \ {c} : Precedes("all", j, c)
    BY <1>0, <2>1, <2>2, FirstAndLast, FS_Subset
  <2>4. PICK c \in last : c = Cursor(last) /\ \A j \in last \ {c} : Precedes("all", j, c)
    BY <2>3 DEF Cursor
  <2>5. \A i \in In("all") : i \in R <=> Precedes("all", c, i)
    BY <1>1, <2>4 DEF Beyond
  <2>6. QED
    BY <1>0, <2>1, <2>4, <2>5, AllInOrder
<1>2. R \subseteq In("all")
  BY DEF Beyond
<1>3. P = FirstOf(R)
  BY DEF NextPage
<1>4. /\ P \subseteq R
      /\ \A x \in P, y \in R \ P : Precedes("all", x, y)
      /\ HasNext(P) \/ P = R
  BY <1>0, <1>2, <1>3, FirstOfIsPage, FS_Subset
<1> HIDE DEF R, P
<1>5. /\ more \in Seq(SUBSET In("all")) /\ Len(more) = Len(ps) + 1
      /\ more[Len(more)] = P /\ more # <<>> /\ Len(ps) \in Nat
      /\ DOMAIN ps = 1..Len(ps) /\ DOMAIN more = 1..(Len(ps) + 1)
      /\ \A k \in DOMAIN ps : more[k] = ps[k]
  BY <1>0, <1>2, <1>4
<1> HIDE DEF more
<1>6. Sorted(more)
  <2> SUFFICES ASSUME NEW j \in DOMAIN more, NEW k \in DOMAIN more, j < k,
                      NEW x \in more[j], NEW y \in more[k]
               PROVE  Precedes("all", x, y)
    BY DEF Sorted
  <2>1. CASE k \in DOMAIN ps
    <3>1. j \in DOMAIN ps
      BY <1>5, <2>1
    <3>2. QED
      BY <1>5, <2>1, <3>1 DEF Reading, Sorted
  <2>2. CASE k \notin DOMAIN ps
    <3>1. j \in DOMAIN ps /\ more[k] = P /\ ps # <<>>
      BY <1>5, <2>2
    <3>2. y \in R /\ y \in In("all") /\ x \in ps[j]
      BY <1>2, <1>4, <1>5, <3>1
    <3>3. CASE j = Len(ps)
      BY <1>1, <3>1, <3>2, <3>3
    <3>4. CASE j # Len(ps)
      <4>1. j < Len(ps) /\ Len(ps) \in DOMAIN ps
        BY <1>1, <1>5, <3>1, <3>4
      <4>2. PICK z \in last : TRUE
        <5>1. Cardinality(last) # 0
          BY <3>1, ListsAssumption DEF HasNext
        <5>2. QED
          BY <5>1, FS_EmptySet
      <4>3. Precedes("all", x, z)
        BY <3>1, <3>2, <4>1, <4>2 DEF Reading, Sorted
      <4>4. Precedes("all", z, y)
        BY <1>1, <3>1, <3>2, <4>2
      <4>5. x \in Rows /\ y \in Rows /\ z \in Rows
        BY <1>0, <1>1, <3>1, <3>2, <4>2
      <4>6. QED
        BY <4>3, <4>4, <4>5, AllInOrder
    <3>5. QED
      BY <3>3, <3>4
  <2>3. QED
    BY <2>1, <2>2
<1>7. AllOf(more) = AllOf(ps) \cup P
  <2>1. \A x : x \in AllOf(more) <=> \E k \in DOMAIN more : x \in more[k]
    BY DEF AllOf
  <2>2. \A x : x \in AllOf(ps) <=> \E k \in DOMAIN ps : x \in ps[k]
    BY DEF AllOf
  <2>3. DOMAIN more = DOMAIN ps \cup {Len(more)}
    BY <1>5
  <2>4. QED
    BY <1>5, <2>1, <2>2, <2>3
<1>8. ASSUME NEW i \in K \ AllOf(ps) PROVE i \in R
  <2>1. i \in In("all")
    BY DEF Reading
  <2>2. CASE ps = <<>>
    BY <2>1, <2>2 DEF R
  <2>3. CASE ps # <<>>
    BY <1>1, <2>1, <2>3 DEF Reading, Covered
  <2>4. QED
    BY <2>2, <2>3
<1>9. Covered(more, K)
  BY <1>4, <1>5, <1>7, <1>8 DEF Covered
<1>10. Reading(more, K)
  BY <1>5, <1>6, <1>9 DEF Reading
<1>11. QED
  BY <1>10 DEF more, P

(* A step that reads nothing and takes no row from those in scope.         *)
LEMMA WalkStays ==
  ASSUME ListsInv, NEW s \in Scopes, list.scope = s, list'.scope = s, UNCHANGED <<kind, cache>>,
         IsFiniteSet(In(s)'), walk'.on => walk.on, walk'.n = walk.n, walk'.seen = walk.seen,
         walk'.kept \subseteq walk.kept, walk.kept \subseteq In(s) => walk'.kept \subseteq In(s)',
         walk'.calm => /\ walk.calm /\ In(s) \subseteq In(s)'
                       /\ \A i, j \in In(s) : Precedes(s, i, j)' <=> Precedes(s, i, j)
  PROVE  WalkSound'
<1> SUFFICES ASSUME kind # "cursor", walk'.on PROVE WalkSound'
  BY DEF WalkSound
<1>1. PICK n \in 0..LastPage, page \in (SUBSET Rows) \cup {NoRows} :
        n = walk.n /\ page = cache[s][n] /\ page # NoRows
  <2>1. walk.n \in 0..LastPage /\ cache[s][walk.n] # NoRows
    BY DEF ListsInv, WalkSound
  <2>2. cache[s][walk.n] \in (SUBSET Rows) \cup {NoRows}
    BY <2>1 DEF ListsInv, ListTypeOK
  <2>3. QED
    BY <2>1, <2>2
<1>2. walk'.kept \subseteq In(s)'
  BY DEF ListsInv, WalkSound
<1>3. n = 0 /\ ~HasNext(page) => walk'.kept \subseteq page
  BY <1>1 DEF ListsInv, WalkSound
<1>4. ASSUME walk'.calm, TotalOrder(s)'
      PROVE  /\ \A i \in walk'.kept \ walk'.seen :
                  (n + 1) * Size <= Cardinality(Before(s, In(s), i)')
             /\ ~HasNext(page) => walk'.kept \subseteq walk'.seen
  <2>1. TotalOrder(s)
    BY <1>4 DEF TotalOrder
  <2>2. \A i \in walk.kept \ walk.seen : (n + 1) * Size <= Cardinality(Before(s, In(s), i))
    BY <1>1, <1>4, <2>1 DEF ListsInv, WalkSound
  <2>3. ~HasNext(page) => walk.kept \subseteq walk.seen
    BY <1>1, <1>4, <2>1 DEF ListsInv, WalkSound
  <2>4. ASSUME NEW i \in walk'.kept \ walk'.seen
        PROVE  (n + 1) * Size <= Cardinality(Before(s, In(s), i)')
    <3> DEFINE A == Before(s, In(s), i)
               B == Before(s, In(s), i)'
    <3>1. i \in walk.kept \ walk.seen /\ i \in In(s)
      BY DEF ListsInv, WalkSound
    <3>2. A \subseteq B
      BY <1>4, <3>1 DEF Before
    <3>3. IsFiniteSet(B) /\ IsFiniteSet(A)
      <4>1. B \in SUBSET (In(s)')
        BY DEF Before
      <4>2. IsFiniteSet(B)
        BY <4>1, FS_Subset
      <4> HIDE DEF A, B
      <4>3. QED
        BY <3>2, <4>2, FS_Subset
    <3>4. (n + 1) * Size <= Cardinality(A)
      BY <2>2, <3>1
    <3> HIDE DEF A, B
    <3>5. Cardinality(A) <= Cardinality(B) /\ Cardinality(A) \in Nat /\ Cardinality(B) \in Nat
      BY <3>2, <3>3, FS_Subset, FS_CardinalityType
    <3>6. (n + 1) * Size \in Nat
      BY <1>1, ListsAssumption
    <3>7. (n + 1) * Size <= Cardinality(B)
      BY <3>4, <3>5, <3>6
    <3>8. QED
      BY <3>7 DEF B
  <2>5. QED
    BY <2>3, <2>4
<1>5. walk'.n = n /\ cache'[list'.scope][n] = page /\ list'.scope = s
  BY <1>1
<1>6. In(s)' = In(list.scope)' /\ (TotalOrder(list.scope)' <=> TotalOrder(s)')
  BY <1>5 DEF In, TotalOrder
<1>7. \A i : Before(list.scope, In(list.scope), i)' = Before(s, In(s), i)'
  BY <1>5, <1>6 DEF Before
<1>8. QED
  BY <1>1, <1>2, <1>3, <1>4, <1>5, <1>6, <1>7 DEF WalkSound

LEMMA ReadingStays ==
  ASSUME NEW ps, NEW K, NEW L, Reading(ps, K), L \subseteq K, DOMAIN level \subseteq DOMAIN level'
  PROVE  Reading(ps, L)'
<1>1. In("all") = DOMAIN level /\ In("all")' = DOMAIN level'
  BY DEF In
<1>2. \A i, j : Precedes("all", i, j)' <=> Precedes("all", i, j)
  BY DEF Precedes
<1>3. ps \in Seq(SUBSET (In("all")')) /\ L \subseteq In("all")'
  BY <1>1 DEF Reading
<1>4. Sorted(ps)'
  BY <1>2 DEF Reading, Sorted
<1>5. ps # <<>> => Covered(ps, L)'
  BY <1>2 DEF Reading, Covered, AllOf, HasNext
<1>6. QED
  BY <1>3, <1>4, <1>5 DEF Reading

(* Customers that are added or changed leave the pages what they are.      *)
LEMMA PagesStay ==
  ASSUME ListsInv, UNCHANGED <<kind, pages, again>>, DOMAIN level \subseteq DOMAIN level',
         walk'.kept \subseteq walk.kept, walk'.seen = walk.seen
  PROVE  PagesSound'
<1> SUFFICES ASSUME kind = "cursor" PROVE PagesSound'
  BY DEF PagesSound
<1>1. PICK K, L, M : K = walk.kept /\ L = walk'.kept /\ M = walk.seen
  OBVIOUS
<1>2. PICK ps, qs : ps = pages /\ qs = again
  OBVIOUS
<1>3. Reading(ps, K) /\ Reading(qs, M) /\ (qs # <<>> => HasNext(qs[Len(qs)]))
  BY <1>1, <1>2 DEF ListsInv, PagesSound
<1>4. Reading(ps, L)' /\ Reading(qs, M)'
  BY <1>1, <1>3, ReadingStays
<1>5. pages' = ps /\ again' = qs /\ walk'.kept = L /\ walk'.seen = M
  BY <1>1, <1>2
<1>6. Reading(pages, walk.kept)' /\ Reading(again, walk.seen)'
  BY <1>4, <1>5 DEF Reading, Sorted, Covered, AllOf
<1>7. QED
  BY <1>3, <1>5, <1>6 DEF PagesSound, HasNext

LEMMA InsertStep == ListsInv /\ Insert => ListsInv'
<1> SUFFICES ASSUME ListsInv, Insert PROVE ListsInv'
  OBVIOUS
<1>0. ListTypeOK /\ IsFiniteSet(DOMAIN level)
  BY DEF ListsInv
<1>1. PICK i \in Rows \ DOMAIN level, l \in Levels :
        level' = [j \in DOMAIN level \cup {i} |-> IF j = i THEN l ELSE level[j]]
  BY DEF Insert
<1>2. UNCHANGED <<kind, list, cache, pages, again, walk>>
  BY DEF Insert
<1>3. DOMAIN level' = DOMAIN level \cup {i} /\ \A j \in DOMAIN level : level'[j] = level[j]
  BY <1>1
<1>4. ListTypeOK' /\ IsFiniteSet(DOMAIN level')
  BY <1>0, <1>1, <1>2, <1>3, FS_AddElement DEF ListTypeOK
<1>5. PICK s \in Scopes : s = list.scope
  BY <1>0 DEF ListTypeOK
<1>6. In(s) \subseteq In(s)' /\ \A x, y \in In(s) : Precedes(s, x, y)' <=> Precedes(s, x, y)
  <2>1. In(s) \subseteq DOMAIN level
    BY DEF In
  <2>2. In(s) \subseteq In(s)'
    BY <1>3 DEF In
  <2>3. QED
    BY <1>2, <1>3, <2>1, <2>2 DEF Precedes
<1>7. IsFiniteSet(In(s)')
  <2>1. In(s)' \in SUBSET DOMAIN level'
    BY DEF In
  <2>2. QED
    BY <1>4, <2>1, FS_Subset
<1>8. WalkSound'
  BY <1>2, <1>5, <1>6, <1>7, WalkStays
<1>9. PagesSound'
  BY <1>2, <1>3, PagesStay
<1>10. QED
  BY <1>2, <1>4, <1>8, <1>9 DEF ListsInv, WalkTypeOK

LEMMA ChangeStep == ListsInv /\ Change => ListsInv'
<1> SUFFICES ASSUME ListsInv, Change PROVE ListsInv'
  OBVIOUS
<1>0. ListTypeOK /\ IsFiniteSet(DOMAIN level) /\ WalkTypeOK
  BY DEF ListsInv
<1>1. PICK i \in DOMAIN level : \E l \in Levels \ {level[i]} :
        level' = [level EXCEPT ![i] = l] /\ walk' = Disturbed(i)
  BY DEF Change
<1>2. UNCHANGED <<kind, list, cache, pages, again>>
  BY DEF Change
<1>3. /\ DOMAIN level' = DOMAIN level /\ \A j \in DOMAIN level \ {i} : level'[j] = level[j]
      /\ level'[i] \in Levels
  BY <1>1
<1>4. ListTypeOK' /\ IsFiniteSet(DOMAIN level')
  BY <1>0, <1>2, <1>3 DEF ListTypeOK
<1>5. PICK s \in Scopes : s = list.scope
  BY <1>0 DEF ListTypeOK
<1>6. /\ walk'.on = walk.on /\ walk'.n = walk.n /\ walk'.seen = walk.seen
      /\ walk'.kept = {j \in walk.kept : s = "all" \/ level'[j] \in Narrow}
      /\ walk'.calm = (walk.calm /\ (s = "all" \/ i \notin In(s)))
  BY <1>0, <1>1, <1>5 DEF Disturbed, WalkTypeOK
<1>7. WalkTypeOK'
  BY <1>0, <1>1, <1>5 DEF Disturbed, WalkTypeOK
<1>8. walk.kept \subseteq In(s) => walk'.kept \subseteq In(s)'
  BY <1>3, <1>6 DEF In
<1>9. ASSUME walk'.calm
      PROVE  /\ walk.calm /\ In(s) \subseteq In(s)'
             /\ \A x, y \in In(s) : Precedes(s, x, y)' <=> Precedes(s, x, y)
  <2>1. CASE s = "all"
    BY <1>2, <1>3, <1>6, <1>9, <2>1 DEF In, Precedes
  <2>2. CASE s # "all"
    <3>1. walk.calm /\ i \notin In(s)
      BY <1>6, <1>9, <2>2
    <3>2. \A x \in In(s) : x \in DOMAIN level /\ level'[x] = level[x] /\ level[x] \in Narrow
      BY <1>3, <2>2, <3>1 DEF In
    <3>3. QED
      BY <1>2, <1>3, <2>2, <3>1, <3>2 DEF In, Precedes
  <2>3. QED
    BY <2>1, <2>2
<1>10. IsFiniteSet(In(s)')
  <2>1. In(s)' \in SUBSET DOMAIN level'
    BY DEF In
  <2>2. QED
    BY <1>4, <2>1, FS_Subset
<1>11. WalkSound'
  BY <1>2, <1>5, <1>6, <1>8, <1>9, <1>10, WalkStays
<1>12. PagesSound'
  BY <1>2, <1>3, <1>6, PagesStay
<1>13. QED
  BY <1>4, <1>7, <1>11, <1>12 DEF ListsInv

(* The page that is shown is turned, or the scope chosen, and nothing is   *)
(* read.                                                                   *)
LEMMA BrowseStep ==
  ASSUME ListsInv, UNCHANGED <<kind, level, cache, pages, again>>, ListTypeOK',
         \/ UNCHANGED walk /\ list'.scope = list.scope
         \/ kind # "cursor" /\ walk' = Nowhere
  PROVE  ListsInv'
<1>0. ListTypeOK /\ IsFiniteSet(DOMAIN level) /\ WalkTypeOK
  BY DEF ListsInv
<1>1. CASE UNCHANGED walk /\ list'.scope = list.scope
  <2>1. PICK s \in Scopes : s = list.scope
    BY <1>0 DEF ListTypeOK
  <2>2. In(s)' = In(s) /\ \A x, y : Precedes(s, x, y)' <=> Precedes(s, x, y)
    BY DEF In, Precedes
  <2>3. IsFiniteSet(In(s)')
    BY <1>0, <2>2, ScopeIsFinite
  <2>4. WalkSound'
    BY <1>1, <2>1, <2>2, <2>3, WalkStays
  <2>5. PagesSound'
    BY <1>1, PagesStay
  <2>6. QED
    BY <1>0, <1>1, <2>4, <2>5 DEF ListsInv, WalkTypeOK
<1>2. CASE kind # "cursor" /\ walk' = Nowhere
  <2>1. WalkTypeOK' /\ WalkSound' /\ PagesSound'
    BY <1>2 DEF WalkTypeOK, WalkSound, PagesSound, Nowhere
  <2>2. QED
    BY <1>0, <2>1 DEF ListsInv
<1>3. QED
  BY <1>1, <1>2

ListStates == [scope : Scopes, n : 0..LastPage, text : BOOLEAN, busy : BOOLEAN,
               error : BOOLEAN, before : (SUBSET Rows) \cup {NoRows}]

LEMMA StaysTyped ==
  ASSUME ListTypeOK, NEW l \in ListStates, Stays(l), UNCHANGED <<kind, level, cache>>
  PROVE  ListTypeOK' /\ list'.scope = l.scope
<1>1. PICK b \in BOOLEAN : list' = [l EXCEPT !.error = FALSE, !.busy = b]
  <2>1. PICK old \in BOOLEAN :
          list' = [l EXCEPT !.error = FALSE, !.busy = cache[l.scope][l.n] = NoRows \/ old]
    BY DEF Stays
  <2>2. (cache[l.scope][l.n] = NoRows \/ old) \in BOOLEAN
    OBVIOUS
  <2>3. QED
    BY <2>1, <2>2
<1>2. QED
  BY <1>1 DEF ListTypeOK, ListStates

LEMMA ShownTyped == ListTypeOK => Shown \in (SUBSET Rows) \cup {NoRows}
  BY DEF ListTypeOK, Shown, Cached

LEMMA Browses ==
  ASSUME ListsInv, Choose \/ TurnBack \/ ReadAgain \/ AnswerFails \/ \E n \in 0..LastPage : TurnTo(n)
  PROVE  ListsInv'
<1>0. ListTypeOK /\ Shown \in (SUBSET Rows) \cup {NoRows} /\ LastPage \in Nat
  BY ShownTyped, ListsAssumption DEF ListsInv
<1>1. CASE Choose
  <2>1. UNCHANGED <<kind, level, cache, pages, again>> /\ kind # "cursor"
    BY <1>1 DEF Choose
  <2>2. CASE \E s \in Scopes \ {list.scope} :
               Stays([list EXCEPT !.scope = s, !.n = 0, !.before = NoRows])
    <3>1. PICK s \in Scopes \ {list.scope} :
            Stays([list EXCEPT !.scope = s, !.n = 0, !.before = NoRows])
      BY <2>2
    <3>2. PICK l \in ListStates : l = [list EXCEPT !.scope = s, !.n = 0, !.before = NoRows] /\ l.scope = s
      <4>1. list \in ListStates
        BY <1>0 DEF ListTypeOK, ListStates
      <4>2. [list EXCEPT !.scope = s, !.n = 0, !.before = NoRows] \in ListStates
        <5>1. PICK z \in 0..LastPage, none \in (SUBSET Rows) \cup {NoRows} : z = 0 /\ none = NoRows
          BY <1>0
        <5>2. s \in Scopes
          OBVIOUS
        <5>3. [list EXCEPT !.scope = s, !.n = z, !.before = none] \in ListStates
          BY <4>1, <5>2 DEF ListStates
        <5>4. QED
          BY <5>1, <5>3
      <4>3. [list EXCEPT !.scope = s, !.n = 0, !.before = NoRows].scope = s
        BY <4>1 DEF ListStates
      <4>4. QED
        BY <4>2, <4>3
    <3>3. ListTypeOK' /\ list'.scope = l.scope
      BY <1>0, <2>1, <3>1, <3>2, StaysTyped
    <3>4. walk' = Nowhere
      BY <1>1, <3>2, <3>3 DEF Choose
    <3>5. QED
      BY <2>1, <3>3, <3>4, BrowseStep
  <2>3. CASE list' = [list EXCEPT !.text = ~@]
    <3>1. ListTypeOK' /\ list'.scope = list.scope
      BY <1>0, <2>1, <2>3 DEF ListTypeOK
    <3>2. UNCHANGED walk
      BY <1>1, <3>1 DEF Choose
    <3>3. QED
      BY <2>1, <3>1, <3>2, BrowseStep
  <2>4. QED
    BY <1>1, <2>2, <2>3 DEF Choose
<1>2. CASE TurnBack
  <2>1. UNCHANGED <<kind, level, cache, pages, again, walk>> /\ list.n > 0
        /\ Stays([list EXCEPT !.n = @ - 1, !.before = {}])
    BY <1>2 DEF TurnBack
  <2>2. list.n - 1 \in 0..LastPage
    BY <1>0, <2>1 DEF ListTypeOK
  <2>3. PICK l \in ListStates : l = [list EXCEPT !.n = @ - 1, !.before = {}] /\ l.scope = list.scope
    <3>1. list \in ListStates
      BY <1>0 DEF ListTypeOK, ListStates
    <3>2. [list EXCEPT !.n = @ - 1, !.before = {}] \in ListStates
      BY <1>0, <2>2, <3>1 DEF ListStates
    <3>3. [list EXCEPT !.n = @ - 1, !.before = {}].scope = list.scope
      BY <3>1 DEF ListStates
    <3>4. QED
      BY <3>2, <3>3
  <2>4. ListTypeOK' /\ list'.scope = list.scope
    BY <1>0, <2>1, <2>3, StaysTyped
  <2>5. QED
    BY <2>1, <2>4, BrowseStep
<1>3. CASE ReadAgain \/ AnswerFails
  <2>1. ListTypeOK' /\ list'.scope = list.scope
        /\ UNCHANGED <<kind, level, cache, pages, again, walk>>
    BY <1>0, <1>3 DEF ReadAgain, AnswerFails, ListTypeOK
  <2>2. QED
    BY <2>1, BrowseStep
<1>4. ASSUME NEW n \in 0..LastPage, TurnTo(n) PROVE ListsInv'
  <2>1. UNCHANGED <<kind, level, cache, pages, again, walk>>
        /\ Stays([list EXCEPT !.n = n, !.before = Shown])
    BY <1>4 DEF TurnTo
  <2>2. PICK l \in ListStates : l = [list EXCEPT !.n = n, !.before = Shown] /\ l.scope = list.scope
    <3>1. list \in ListStates
      BY <1>0 DEF ListTypeOK, ListStates
    <3>2. [list EXCEPT !.n = n, !.before = Shown] \in ListStates
      BY <1>0, <3>1 DEF ListStates
    <3>3. [list EXCEPT !.n = n, !.before = Shown].scope = list.scope
      BY <3>1 DEF ListStates
    <3>4. QED
      BY <3>2, <3>3
  <2>3. ListTypeOK' /\ list'.scope = list.scope
    BY <1>0, <2>1, <2>2, StaysTyped
  <2>4. QED
    BY <2>1, <2>3, BrowseStep
<1>5. QED
  BY <1>1, <1>2, <1>3, <1>4

(* A page is read: the first one begins a walk, the next one goes on.      *)
LEMMA AnswerStep == ListsInv /\ Answer => ListsInv'
<1> SUFFICES ASSUME ListsInv, Answer PROVE ListsInv'
  OBVIOUS
<1>0. ListTypeOK /\ IsFiniteSet(DOMAIN level) /\ WalkTypeOK /\ Size \in Nat \ {0}
  BY ListsAssumption DEF ListsInv
<1>1. UNCHANGED <<kind, level, pages, again>> /\ kind # "cursor"
      /\ list' = [list EXCEPT !.busy = FALSE]
  BY DEF Answer
<1>2. PICK s \in Scopes, n \in 0..LastPage : s = list.scope /\ n = list.n
  BY <1>0 DEF ListTypeOK
<1>3. PICK S \in Slices(s, n) : cache' = [cache EXCEPT ![s][n] = S] /\ walk' = WalkOn(S)
  BY <1>2 DEF Answer
<1>4. IsFiniteSet(In(s)) /\ In(s) \subseteq Rows /\ n \in Nat /\ S \subseteq In(s)
  <2>1. IsFiniteSet(In(s)) /\ In(s) \subseteq Rows /\ n \in Nat
    BY <1>0, ScopeIsFinite
  <2>2. QED
    BY <2>1, SliceIsOfScope
<1>5. S # NoRows
  BY <1>4, ListsAssumption DEF NoRows
<1>6. ListTypeOK'
  BY <1>0, <1>1, <1>2, <1>3, <1>4 DEF ListTypeOK
<1>7. list'.scope = s /\ cache'[s][n] = S
  BY <1>0, <1>1, <1>2, <1>3 DEF ListTypeOK
<1>8. /\ \A x \in Scopes : In(x)' = In(x)
      /\ \A x \in Scopes : TotalOrder(x)' <=> TotalOrder(x)
      /\ \A i : Before(s, In(s), i)' = Before(s, In(s), i)
  BY <1>1 DEF In, TotalOrder, Before, Precedes
<1>9. PagesSound'
  BY <1>1 DEF PagesSound
<1>10. CASE n = 0
  <2>1. walk' = [n |-> 0, on |-> TRUE, seen |-> S, kept |-> In(s), calm |-> TRUE]
    BY <1>0, <1>2, <1>3, <1>10 DEF WalkOn, WalkTypeOK
  <2>2. WalkTypeOK'
    BY <1>4, <2>1 DEF WalkTypeOK
  <2>3. ~HasNext(S) => In(s) \subseteq S
    BY <1>4, <1>10, PageEnds
  <2>4. ASSUME TotalOrder(s), NEW i \in In(s) \ S
        PROVE  (0 + 1) * Size <= Cardinality(Before(s, In(s), i))
    <3>1. n * Size <= Cardinality(Before(s, In(s), i))
      BY <1>0, <1>4, <1>10, RankIsSmall
    <3>2. (n + 1) * Size <= Cardinality(Before(s, In(s), i))
      BY <1>4, <2>4, <3>1, PageTakesNext
    <3>3. QED
      BY <1>10, <3>2
  <2>5. WalkSound'
    <3>1. cache'[list'.scope][walk'.n] = S /\ walk'.n = 0 /\ walk'.seen = S /\ walk'.kept = In(s)
      BY <1>7, <1>10, <2>1
    <3>2. In(list.scope)' = In(s) /\ (TotalOrder(list.scope)' <=> TotalOrder(s))
          /\ \A i : Before(list.scope, In(list.scope), i)' = Before(s, In(s), i)
      BY <1>1, <1>7 DEF In, TotalOrder, Before, Precedes
    <3>3. 0 \in 0..LastPage
      BY <1>10
    <3>4. QED
      BY <1>5, <2>3, <2>4, <3>1, <3>2, <3>3 DEF WalkSound, HasNext
  <2>6. QED
    BY <1>0, <1>1, <1>6, <1>9, <2>2, <2>5 DEF ListsInv
<1>11. CASE n # 0 /\ walk.on /\ n = walk.n + 1
  <2>1. walk' = [walk EXCEPT !.n = @ + 1, !.seen = @ \cup S]
    BY <1>2, <1>3, <1>11 DEF WalkOn
  <2>2. /\ walk'.on /\ walk'.n = n /\ walk'.seen = walk.seen \cup S /\ walk'.kept = walk.kept
        /\ walk'.calm = walk.calm
    BY <1>0, <1>11, <2>1 DEF WalkTypeOK
  <2>3. WalkTypeOK'
    <3>1. PICK m \in Nat, T \in SUBSET Rows : m = walk.n + 1 /\ T = walk.seen \cup S
      <4>1. walk.n + 1 \in Nat
        BY <1>0 DEF WalkTypeOK
      <4>2. walk.seen \cup S \subseteq Rows
        BY <1>0, <1>4 DEF WalkTypeOK
      <4>3. QED
        BY <4>1, <4>2
    <3>2. walk' = [walk EXCEPT !.n = m, !.seen = T]
      BY <2>1, <3>1
    <3>3. QED
      BY <1>0, <3>2 DEF WalkTypeOK
  <2>4. walk.kept \subseteq In(s)
    BY <1>1, <1>2, <1>11 DEF ListsInv, WalkSound
  <2>5. ASSUME walk.calm, TotalOrder(s)
        PROVE  /\ \A i \in walk.kept \ walk'.seen : (n + 1) * Size <= Cardinality(Before(s, In(s), i))
               /\ ~HasNext(S) => walk.kept \subseteq walk'.seen
    <3>1. ASSUME NEW i \in walk.kept \ walk'.seen
          PROVE  (n + 1) * Size <= Cardinality(Before(s, In(s), i))
      <4>1. (walk.n + 1) * Size <= Cardinality(Before(s, In(s), i))
        BY <1>1, <1>2, <1>11, <2>2, <2>5 DEF ListsInv, WalkSound
      <4>2. n * Size <= Cardinality(Before(s, In(s), i))
        BY <1>11, <4>1
      <4>3. i \in In(s) /\ i \notin S
        BY <2>2, <2>4
      <4>4. QED
        BY <1>4, <2>5, <4>2, <4>3, PageTakesNext
    <3>2. ASSUME ~HasNext(S) PROVE walk.kept \subseteq walk'.seen
      <4> SUFFICES ASSUME NEW i \in walk.kept \ walk'.seen PROVE FALSE
        OBVIOUS
      <4>1. (n + 1) * Size <= Cardinality(Before(s, In(s), i))
        BY <3>1
      <4>2. Cardinality(In(s)) < (n + 1) * Size /\ Cardinality(In(s)) \in Nat
        BY <1>4, <3>2, PageEnds
      <4>3. Cardinality(Before(s, In(s), i)) <= Cardinality(In(s))
            /\ Cardinality(Before(s, In(s), i)) \in Nat
        BY <1>4, <2>4, RankIsSmall
      <4>4. (n + 1) * Size \in Nat
        BY <1>0, <1>4
      <4>5. QED
        BY <4>1, <4>2, <4>3, <4>4
    <3>3. QED
      BY <3>1, <3>2
  <2>6. WalkSound'
    <3>1. cache'[list'.scope][walk'.n] = S
      BY <1>7, <2>2
    <3>2. In(list.scope)' = In(s) /\ (TotalOrder(list.scope)' <=> TotalOrder(s))
          /\ \A i : Before(list.scope, In(list.scope), i)' = Before(s, In(s), i)
      BY <1>1, <1>7 DEF In, TotalOrder, Before, Precedes
    <3>3. QED
      BY <1>5, <1>11, <2>2, <2>4, <2>5, <3>1, <3>2 DEF WalkSound, HasNext
  <2>7. QED
    BY <1>0, <1>1, <1>6, <1>9, <2>3, <2>6 DEF ListsInv
<1>12. CASE n # 0 /\ ~(walk.on /\ n = walk.n + 1)
  <2>1. walk' = Nowhere
    BY <1>2, <1>3, <1>12 DEF WalkOn
  <2>2. WalkTypeOK' /\ WalkSound'
    BY <2>1 DEF WalkTypeOK, WalkSound, Nowhere
  <2>3. QED
    BY <1>0, <1>1, <1>6, <1>9, <2>2 DEF ListsInv
<1>13. QED
  BY <1>10, <1>11, <1>12

(* One more page by cursor, of the first reading or of a second one.       *)
LEMMA ReadOnStep == ListsInv /\ ReadOn => ListsInv'
<1> SUFFICES ASSUME ListsInv, ReadOn PROVE ListsInv'
  OBVIOUS
<1>0. ListTypeOK /\ IsFiniteSet(DOMAIN level) /\ WalkTypeOK /\ PagesSound
  BY DEF ListsInv
<1>1. /\ UNCHANGED <<kind, level, list, cache>> /\ kind = "cursor"
      /\ pages # <<>> => HasNext(pages[Len(pages)])
      /\ pages' = Append(pages, NextPage(pages)) /\ again' = <<>>
      /\ walk' = IF pages = <<>> THEN [Nowhere EXCEPT !.kept = In("all")] ELSE walk
  BY DEF ReadOn
<1>2. In("all") \subseteq Rows
  BY <1>0, ScopeIsFinite DEF Scopes
<1>3. WalkTypeOK'
  BY <1>0, <1>1, <1>2 DEF WalkTypeOK, Nowhere
<1>4. PICK K \in SUBSET In("all"), M \in SUBSET In("all") :
        K = walk'.kept /\ M = walk'.seen /\ Reading(pages, K)
  <2>1. CASE pages = <<>>
    <3>1. walk'.kept = In("all") /\ walk'.seen = {}
      BY <1>1, <2>1 DEF Nowhere
    <3>2. Reading(pages, In("all"))
      BY <2>1 DEF Reading, Sorted
    <3>3. QED
      BY <3>1, <3>2
  <2>2. CASE pages # <<>>
    BY <1>0, <1>1, <2>2 DEF PagesSound, Reading
  <2>3. QED
    BY <2>1, <2>2
<1>5. Reading(Append(pages, NextPage(pages)), K)
  BY <1>0, <1>1, <1>4, PageAppended
<1>6. PICK ps : ps = Append(pages, NextPage(pages))
  OBVIOUS
<1>7. Reading(ps, K) /\ Reading(<<>>, M)
  BY <1>4, <1>5, <1>6 DEF Reading, Sorted
<1>8. Reading(ps, K)' /\ Reading(<<>>, M)'
  BY <1>1, <1>7, ReadingStays
<1>9. PagesSound'
  <2>1. pages' = ps /\ again' = <<>> /\ walk'.kept = K /\ walk'.seen = M
    BY <1>1, <1>4, <1>6
  <2>2. Reading(pages, walk.kept)' /\ Reading(again, walk.seen)'
    BY <1>8, <2>1 DEF Reading, Sorted, Covered, AllOf
  <2>3. QED
    BY <2>1, <2>2 DEF PagesSound
<1>10. ListTypeOK' /\ WalkSound' /\ IsFiniteSet(DOMAIN level')
  BY <1>0, <1>1 DEF ListTypeOK, WalkSound
<1>11. QED
  BY <1>3, <1>9, <1>10 DEF ListsInv

LEMMA ReadAllAgainStep == ListsInv /\ ReadAllAgain => ListsInv'
<1> SUFFICES ASSUME ListsInv, ReadAllAgain PROVE ListsInv'
  OBVIOUS
<1>0. ListTypeOK /\ IsFiniteSet(DOMAIN level) /\ WalkTypeOK /\ PagesSound
  BY DEF ListsInv
<1>1. UNCHANGED <<kind, level, list, cache>> /\ kind = "cursor"
  BY DEF ReadAllAgain
<1>2. PICK more : more = Append(again, NextPage(again))
  OBVIOUS
<1>3. PICK K : K = IF again = <<>> THEN In("all") ELSE walk.seen
  OBVIOUS
<1>4. PICK whole \in BOOLEAN : whole <=> Len(more) = Len(pages) \/ ~HasNext(more[Len(more)])
  OBVIOUS
<1>5. /\ pages' = (IF whole THEN more ELSE pages)
      /\ again' = (IF whole THEN <<>> ELSE more)
      /\ walk' = (IF whole THEN [Nowhere EXCEPT !.kept = K] ELSE [walk EXCEPT !.seen = K])
  BY <1>2, <1>3, <1>4 DEF ReadAllAgain
<1>6. In("all") \subseteq Rows
  BY <1>0, ScopeIsFinite DEF Scopes
<1>7. Reading(again, K) /\ K \subseteq Rows
  <2>1. CASE again = <<>>
    BY <1>3, <1>6, <2>1 DEF Reading, Sorted
  <2>2. CASE again # <<>>
    BY <1>0, <1>1, <1>3, <1>6, <2>2 DEF PagesSound, Reading
  <2>3. QED
    BY <2>1, <2>2
<1>8. Reading(more, K)
  BY <1>0, <1>1, <1>2, <1>7, PageAppended DEF PagesSound
<1>9. WalkTypeOK'
  BY <1>0, <1>5, <1>7 DEF WalkTypeOK, Nowhere
<1>10. PagesSound'
  <2>1. CASE whole
    <3>1. pages' = more /\ again' = <<>> /\ walk'.kept = K /\ walk'.seen = {}
      BY <1>5, <2>1 DEF Nowhere
    <3>2. Reading(<<>>, {})
      BY DEF Reading, Sorted
    <3>3. Reading(more, K)' /\ Reading(<<>>, {})'
      BY <1>1, <1>8, <3>2, ReadingStays
    <3>4. Reading(pages, walk.kept)' /\ Reading(again, walk.seen)'
      BY <3>1, <3>3 DEF Reading, Sorted, Covered, AllOf
    <3>5. QED
      BY <3>1, <3>4 DEF PagesSound
  <2>2. CASE ~whole
    <3>1. PICK ps, L : ps = pages /\ L = walk.kept
      OBVIOUS
    <3>2. pages' = ps /\ again' = more /\ walk'.kept = L /\ walk'.seen = K
      BY <1>0, <1>5, <2>2, <3>1 DEF WalkTypeOK
    <3>3. Reading(ps, L)
      BY <1>0, <1>1, <3>1 DEF PagesSound
    <3>4. Reading(ps, L)' /\ Reading(more, K)'
      BY <1>1, <1>8, <3>3, ReadingStays
    <3>5. Reading(pages, walk.kept)' /\ Reading(again, walk.seen)'
      BY <3>2, <3>4 DEF Reading, Sorted, Covered, AllOf
    <3>6. HasNext(more[Len(more)])
      BY <1>4, <2>2
    <3>7. QED
      BY <3>2, <3>5, <3>6 DEF PagesSound, HasNext
  <2>3. QED
    BY <2>1, <2>2
<1>11. ListTypeOK' /\ WalkSound' /\ IsFiniteSet(DOMAIN level')
  BY <1>0, <1>1 DEF ListTypeOK, WalkSound
<1>12. QED
  BY <1>9, <1>10, <1>11 DEF ListsInv

LEMMA StepLists == ListsInv /\ [ListNext]_listVars => ListsInv'
<1> SUFFICES ASSUME ListsInv, [ListNext]_listVars PROVE ListsInv'
  OBVIOUS
<1>1. CASE UNCHANGED listVars
  BY <1>1, BrowseStep DEF listVars, ListsInv, ListTypeOK
<1>2. QED
  BY <1>1, InsertStep, ChangeStep, Browses, AnswerStep, ReadOnStep, ReadAllAgainStep DEF ListNext

-----------------------------------------------------------------------------
LEMMA WalkIsComplete == ListsInv => WalkMissesNothing
<1> SUFFICES ASSUME ListsInv PROVE WalkMissesNothing
  OBVIOUS
<1>1. list.scope \in Scopes /\ IsFiniteSet(DOMAIN level) /\ ListTypeOK
  BY DEF ListsInv, ListTypeOK
<1>2. In(list.scope) \subseteq Rows
  BY <1>1, ScopeIsFinite
<1>3. list.scope # "narrow" => TotalOrder(list.scope)
  BY <1>1, <1>2, AllInOrder DEF Scopes, TotalOrder
<1> SUFFICES ASSUME kind = "numbered", walk.on, walk.n = list.n, ~HasNext(Cached),
                    walk.calm, TotalOrder(list.scope)
             PROVE  walk.kept \subseteq walk.seen
  BY <1>3 DEF WalkMissesNothing, TotalOrder
<1>4. QED
  BY DEF ListsInv, WalkSound, Cached

LEMMA CursorIsComplete == ListsInv => CursorMissesNothing
<1> SUFFICES ASSUME ListsInv, kind = "cursor", pages # <<>>
             PROVE  /\ \A j, k \in DOMAIN pages : j # k => pages[j] \cap pages[k] = {}
                    /\ ~HasNext(pages[Len(pages)]) => walk.kept \subseteq AllOf(pages)
  BY DEF CursorMissesNothing, AllOf
<1>1. Reading(pages, walk.kept) /\ In("all") \subseteq Rows
  BY ScopeIsFinite DEF ListsInv, PagesSound, Scopes
<1>2. ASSUME NEW j \in DOMAIN pages, NEW k \in DOMAIN pages, j < k, NEW x \in pages[j], x \in pages[k]
      PROVE  FALSE
  <2>1. x \in Rows
    BY <1>1 DEF Reading
  <2>2. Precedes("all", x, x)
    BY <1>1, <1>2 DEF Reading, Sorted
  <2>3. QED
    BY <2>1, <2>2, AllInOrder
<1>3. \A j, k \in DOMAIN pages : j # k => j < k \/ k < j
  BY <1>1 DEF Reading
<1>4. QED
  BY <1>1, <1>2, <1>3 DEF Reading, Covered

LEMMA NothingIsThere == ListsInv => NothingMeansNothing
<1> SUFFICES ASSUME ListsInv, kind # "cursor", walk.on, list.n = 0, walk.n = 0, Cached # NoRows,
                    ~HasNext(Cached), Screen \in {"nothing", "nothing low"}
             PROVE  walk.kept \cap (IF list.text THEN Matching ELSE Rows) = {}
  BY DEF NothingMeansNothing
<1>1. walk.kept \subseteq Cached /\ Shown = Cached
  BY DEF ListsInv, WalkSound, Cached, Shown
<1>2. Filtered = {}
  BY DEF Screen
<1>3. Cached \in SUBSET Rows
  <2>1. list.scope \in Scopes /\ list.n \in 0..LastPage
    BY DEF ListsInv, ListTypeOK
  <2>a. cache \in [Scopes -> [0..LastPage -> (SUBSET Rows) \cup {NoRows}]]
    BY DEF ListsInv, ListTypeOK
  <2>b. cache[list.scope] \in [0..LastPage -> (SUBSET Rows) \cup {NoRows}]
    BY <2>1, <2>a
  <2>2. Cached \in (SUBSET Rows) \cup {NoRows}
    BY <2>1, <2>b DEF Cached
  <2>3. QED
    BY <2>2
<1>4. QED
  BY <1>1, <1>2, <1>3 DEF Filtered

(* For any rows, however they are named and changed, any size of the page, *)
(* and any number of pages: pages by number miss nothing that was there    *)
(* all the time, pages by cursor nothing and show nothing twice, and a     *)
(* list that says it is empty was so.                                      *)
THEOREM ListsTrue == ListSpec => []ListsAreTrue
<1>1. ListsInv => ListsAreTrue
  BY WalkIsComplete, CursorIsComplete, NothingIsThere DEF ListsAreTrue, ListsInv
<1>2. QED
  BY <1>1, InitLists, StepLists, PTL DEF ListSpec
=============================================================================
