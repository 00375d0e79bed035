----------------------------- MODULE MailProofs -----------------------------
(* Proofs about Metering, Integrations and Intake: the spending of a month, *)
(* the status of a connection and its letters, and the mails of a mailbox,  *)
(* for any values of the constants.                                         *)
EXTENDS Intake, Metering, FiniteSetTheorems, TLAPS

-----------------------------------------------------------------------------
(* Metering.  What an answer costs *)

LEMMA ProductIsNat == \A x, y \in Nat : x * y \in Nat
OBVIOUS

LEMMA ExactIsNat ==
  ASSUME NEW p \in Chosen
  PROVE  /\ \A u \in Usages \cup {NoUsage} : Exact(p, u) \in Nat
         /\ Exact(p, NoUsage) = 0
<1>1. Price[p].in \in Nat /\ Price[p].out \in Nat
  BY MeteringAssumption
<1>2. ASSUME NEW u \in Usages \cup {NoUsage}
      PROVE  Exact(p, u) \in Nat
  <2>1. u.in \in Nat /\ u.out \in Nat /\ u.read \in Nat /\ u.write \in Nat
    BY MeteringAssumption DEF NoUsage
  <2>2. /\ u.in * Price[p].in \in Nat /\ u.out * Price[p].out \in Nat
        /\ u.read * Price[p].in \in Nat /\ u.write * Price[p].in \in Nat
    BY <1>1, <2>1, ProductIsNat
  <2>3. 2 * u.read * Price[p].in \in Nat /\ 25 * u.write * Price[p].in \in Nat
    <3>1. 2 * u.read \in Nat /\ 25 * u.write \in Nat
      BY <2>1
    <3> QED
      BY <1>1, <3>1, ProductIsNat
  <2> QED
    BY <2>2, <2>3 DEF Exact
<1>3. Exact(p, NoUsage) = 0
  BY <1>1 DEF Exact, NoUsage
<1> QED
  BY <1>2, <1>3

(* Rounded up, a division gives at least the whole.                        *)
LEMMA RoundedUp ==
  ASSUME NEW e \in Nat, NEW d \in Nat \ {0}
  PROVE  ((e + d - 1) \div d) * d >= e
<1> DEFINE q == (e + d - 1) \div d
<1>1. e + d - 1 \in Nat /\ q \in Int /\ q * d > e + d - 1 - d
  OBVIOUS
<1> QED
  BY <1>1

LEMMA CostCovers ==
  ASSUME NEW p \in Chosen, NEW u \in Usages
  PROVE  Cost(p, u) \in 0 .. MaxCost /\ Cost(p, u) * (20 * Million) >= Exact(p, u)
<1> DEFINE e == Exact(p, u)
           d == 20 * Million
<1>1. e \in Nat /\ d \in Nat \ {0}
  BY MeteringAssumption, ExactIsNat
<1>2. Cost(p, u) = (e + d - 1) \div d
  BY DEF Cost
<1>3. Cost(p, u) \in 0 .. MaxCost
  BY MeteringAssumption
<1>4. Cost(p, u) * d >= e
  <2> HIDE DEF e, d
  <2> QED
    BY <1>1, <1>2, RoundedUp
<1> QED
  BY <1>3, <1>4

(* The answers that are not recorded yet, counted: what they cost, as a    *)
(* set with one member for each unit of each.                              *)
Due(c) == 1 .. Exact(provider, call[c].used)
Outstanding == UNION {{c} \X Due(c) : c \in Extractions}

LEMMA CountTo == \A n \in Nat : IsFiniteSet(1 .. n) /\ Cardinality(1 .. n) = n
  BY FS_Interval

LEMMA DueIsCounted ==
  ASSUME MeterTypeOK, NEW c \in Extractions
  PROVE  /\ Exact(provider, call[c].used) \in Nat
         /\ IsFiniteSet(Due(c)) /\ Cardinality(Due(c)) = Exact(provider, call[c].used)
<1> DEFINE n == Exact(provider, call[c].used)
<1>1. n \in Nat
  BY ExactIsNat DEF MeterTypeOK
<1>2. Due(c) = 1 .. n
  BY DEF Due
<1> HIDE DEF n
<1>3. IsFiniteSet(1 .. n) /\ Cardinality(1 .. n) = n
  BY <1>1, CountTo
<1> QED
  BY <1>1, <1>2, <1>3 DEF n

(* Only what c owes changes.                                               *)
LEMMA OutstandingChanges ==
  ASSUME IsFiniteSet(Outstanding), NEW c \in Extractions,
         IsFiniteSet(Due(c)), IsFiniteSet(Due(c)'),
         \A a \in Extractions \ {c} : Due(a)' = Due(a)
  PROVE  /\ IsFiniteSet(Outstanding')
         /\ Cardinality(Outstanding') =
              Cardinality(Outstanding) - Cardinality(Due(c)) + Cardinality(Due(c)')
<1> DEFINE Rest == UNION {{a} \X Due(a) : a \in Extractions \ {c}}
           Mine == {c} \X Due(c)
           Mine2 == {c} \X (Due(c)')
<1>1. Outstanding = Rest \cup Mine
  BY DEF Outstanding
<1>2. Outstanding' = Rest \cup Mine2
  <2>1. Outstanding' = UNION {{a} \X (Due(a)') : a \in Extractions}
    BY DEF Outstanding
  <2>2. UNION {{a} \X (Due(a)') : a \in Extractions \ {c}} = Rest
    OBVIOUS
  <2> QED
    BY <2>1, <2>2
<1>3. Rest \cap Mine = {} /\ Rest \cap Mine2 = {}
  OBVIOUS
<1>4. /\ IsFiniteSet(Mine) /\ Cardinality(Mine) = Cardinality(Due(c))
      /\ IsFiniteSet(Mine2) /\ Cardinality(Mine2) = Cardinality(Due(c)')
      /\ Cardinality(Mine) \in Nat /\ Cardinality(Mine2) \in Nat
  <2> DEFINE A == Due(c)
             B == Due(c)'
  <2>1. IsFiniteSet(A) /\ IsFiniteSet(B) /\ IsFiniteSet({c}) /\ Cardinality({c}) = 1
    BY FS_Singleton
  <2> HIDE DEF A, B
  <2>2. /\ IsFiniteSet({c} \X A) /\ Cardinality({c} \X A) = 1 * Cardinality(A)
        /\ IsFiniteSet({c} \X B) /\ Cardinality({c} \X B) = 1 * Cardinality(B)
    BY <2>1, FS_Product
  <2>3. Cardinality(A) \in Nat /\ Cardinality(B) \in Nat
    BY <2>1, FS_CardinalityType
  <2>4. /\ Cardinality({c} \X A) = Cardinality(A) /\ Cardinality({c} \X B) = Cardinality(B)
    BY <2>2, <2>3
  <2> QED
    BY <2>2, <2>3, <2>4 DEF A, B
<1> HIDE DEF Rest, Mine, Mine2
<1>5. IsFiniteSet(Rest) /\ Cardinality(Rest) \in Nat
  BY <1>1, FS_Subset, FS_CardinalityType
<1>6. /\ Cardinality(Outstanding) = Cardinality(Rest) + Cardinality(Mine)
      /\ IsFiniteSet(Outstanding') /\ Cardinality(Outstanding') = Cardinality(Rest) + Cardinality(Mine2)
  <2>1. /\ Cardinality(Rest \cup Mine) = Cardinality(Rest) + Cardinality(Mine) - Cardinality({})
        /\ IsFiniteSet(Rest \cup Mine2)
        /\ Cardinality(Rest \cup Mine2) = Cardinality(Rest) + Cardinality(Mine2) - Cardinality({})
    BY <1>3, <1>4, <1>5, FS_Union
  <2>2. Cardinality({}) = 0
    BY FS_EmptySet
  <2> QED
    BY <2>1, <2>2, <1>1, <1>2, <1>4, <1>5
<1> QED
  BY <1>4, <1>5, <1>6

-----------------------------------------------------------------------------
(* A call at rest, or one that was not answered, owes nothing; one that    *)
(* waits has a try left.                                                   *)
UsedIsOwed ==
  \A c \in Extractions :
    /\ call[c].used \in IF call[c].pc = "recording" THEN Usages ELSE {NoUsage}
    /\ call[c].pc = "waiting" => call[c].tries < MaxAttempts

(* The rows and the answers to come are a part of what was counted.        *)
RowsAndDue ==
  IsFiniteSet(Outstanding) /\ (month = 0 => recorded + Cardinality(Outstanding) <= counted)

(* What was offered is there still.                                        *)
OffersStay == \A c \in Extractions : call[c].offered \subseteq templates

(* Without a budget nothing is under way; the calls under way are counted. *)
BusyIsPaid ==
  /\ IsFiniteSet(Busy) /\ (Busy # {} => MonthBudget > 0)
  /\ OverrunIsBounded /\ ClaimsFit

MeterInv ==
  MeterTypeOK /\ UsedIsOwed /\ RowsAndDue /\ OffersStay /\ BusyIsPaid /\ EstimatesCover

LEMMA Products ==
  /\ \A k, m \in Nat : k * m \in Nat /\ (k + 1) * m = k * m + m
  /\ \A k, l, m \in Nat : k <= l => k * m <= l * m
<1>1. ASSUME NEW k \in Nat, NEW m \in Nat
      PROVE  k * m \in Nat /\ (k + 1) * m = k * m + m
  OBVIOUS
<1>2. ASSUME NEW k \in Nat, NEW l \in Nat, NEW m \in Nat, k <= l
      PROVE  k * m <= l * m
  <2>1. l - k \in Nat /\ l * m = k * m + (l - k) * m
    BY <1>2
  <2>2. (l - k) * m \in Nat /\ k * m \in Nat
    BY <2>1, ProductIsNat
  <2> QED
    BY <2>1, <2>2
<1> QED
  BY <1>1, <1>2

(* The type of a call, in parts the provers take as they are.              *)
Places == Underway \cup {"new", "ended"}
Offered == SUBSET Templates
Tries == 0 .. MaxAttempts
Useds == Usages \cup {NoUsage}
Texts == Replies \cup {NoReply}
CallType == [pc : Places, offered : Offered, tries : Tries, used : Useds, reply : Texts]

(* A call that stays or ends without a charge *)
LEMMA BusyStays ==
  ASSUME MeterInv, Busy' \subseteq Busy, charged' = charged, peak' = peak
  PROVE  BusyIsPaid'
<1> DEFINE k == Cardinality(Busy)
           l == Cardinality(Busy')
<1>1. IsFiniteSet(Busy') /\ k \in Nat /\ l \in Nat /\ l <= k
  BY FS_Subset, FS_CardinalityType DEF MeterInv, BusyIsPaid
<1>2. charged \in Nat /\ peak \in Nat /\ MaxCost \in Nat /\ MonthBudget \in Nat
  BY MeteringAssumption DEF MeterInv, MeterTypeOK
<1>3. OverrunIsBounded'
  BY DEF MeterInv, BusyIsPaid, OverrunIsBounded
<1>4. ClaimsFit'
  <2> SUFFICES ASSUME Busy' # {}
               PROVE  charged + l * MaxCost < MonthBudget + peak * MaxCost
    BY DEF ClaimsFit
  <2>1. charged + k * MaxCost < MonthBudget + peak * MaxCost
    BY DEF MeterInv, BusyIsPaid, ClaimsFit
  <2>2. l * MaxCost <= k * MaxCost /\ l * MaxCost \in Nat /\ k * MaxCost \in Nat /\ peak * MaxCost \in Nat
    <3> HIDE DEF k, l
    <3> QED
      BY <1>1, <1>2, Products
  <2> HIDE DEF k, l
  <2> QED
    BY <1>2, <2>1, <2>2
<1> QED
  BY <1>1, <1>3, <1>4 DEF MeterInv, BusyIsPaid

(* A call that is admitted *)
LEMMA BusyGrows ==
  ASSUME MeterInv, NEW c \in Extractions, c \notin Busy, Busy' = Busy \cup {c}, WithinBudget,
         charged' = charged,
         peak' = IF Cardinality(Busy) + 1 > peak THEN Cardinality(Busy) + 1 ELSE peak
  PROVE  BusyIsPaid'
<1> DEFINE k == Cardinality(Busy)
<1>1. IsFiniteSet(Busy') /\ k \in Nat /\ Cardinality(Busy') = k + 1
  BY FS_AddElement, FS_CardinalityType DEF MeterInv, BusyIsPaid
<1>2. charged \in Nat /\ peak \in Nat /\ MaxCost \in Nat /\ MonthBudget \in Nat
  BY MeteringAssumption DEF MeterInv, MeterTypeOK
<1>3. charged < MonthBudget
  BY DEF WithinBudget
<1>4. peak' \in Nat /\ k + 1 <= peak'
  <2> HIDE DEF k
  <2>1. peak' = IF k + 1 > peak THEN k + 1 ELSE peak
    BY DEF k
  <2> QED
    BY <1>1, <1>2, <2>1
<1>5. OverrunIsBounded'
  BY <1>2, <1>3 DEF OverrunIsBounded
<1>6. charged + Cardinality(Busy') * MaxCost < MonthBudget + peak' * MaxCost
  <2>1. (k + 1) * MaxCost <= peak' * MaxCost /\ (k + 1) * MaxCost \in Nat /\ peak' * MaxCost \in Nat
    <3> HIDE DEF k
    <3> QED
      BY <1>1, <1>2, <1>4, Products
  <2> HIDE DEF k
  <2> QED
    BY <1>1, <1>2, <1>3, <2>1
<1>7. ClaimsFit'
  BY <1>6 DEF ClaimsFit
<1>8. MonthBudget > 0
  BY <1>2, <1>3
<1> QED
  BY <1>1, <1>5, <1>7, <1>8 DEF BusyIsPaid

(* A call that ends and is charged *)
LEMMA BusyShrinks ==
  ASSUME MeterInv, NEW c \in Busy, Busy' = Busy \ {c}, NEW x \in 0 .. MaxCost,
         charged' \in {charged, charged + x}, peak' = peak
  PROVE  BusyIsPaid'
<1> DEFINE l == Cardinality(Busy')
<1>1. IsFiniteSet(Busy') /\ l \in Nat /\ Cardinality(Busy) = l + 1
  <2>1. IsFiniteSet(Busy)
    BY DEF MeterInv, BusyIsPaid
  <2>2. IsFiniteSet(Busy \ {c}) /\ Cardinality(Busy \ {c}) = Cardinality(Busy) - 1
    BY <2>1, FS_RemoveElement
  <2>3. Cardinality(Busy) \in Nat /\ Cardinality(Busy \ {c}) \in Nat
    BY <2>1, <2>2, FS_CardinalityType
  <2> QED
    BY <2>2, <2>3
<1>2. charged \in Nat /\ peak \in Nat /\ MaxCost \in Nat /\ MonthBudget \in Nat
  BY MeteringAssumption DEF MeterInv, MeterTypeOK
<1>3. charged + Cardinality(Busy) * MaxCost < MonthBudget + peak * MaxCost /\ MonthBudget > 0
  BY DEF MeterInv, BusyIsPaid, ClaimsFit
<1> HIDE DEF l
<1>4. /\ (l + 1) * MaxCost = l * MaxCost + MaxCost
      /\ l * MaxCost \in Nat /\ peak * MaxCost \in Nat
  BY <1>1, <1>2, Products
<1>5. charged' + l * MaxCost < MonthBudget + peak * MaxCost /\ charged' \in Nat
  <2>1. charged + (l * MaxCost + MaxCost) < MonthBudget + peak * MaxCost
    BY <1>1, <1>3, <1>4
  <2>2. charged' <= charged + MaxCost /\ charged' \in Nat
    BY <1>2
  <2> QED
    BY <1>2, <1>4, <2>1, <2>2
<1>6. OverrunIsBounded'
  BY <1>2, <1>4, <1>5 DEF OverrunIsBounded
<1>7. ClaimsFit'
  BY <1>5 DEF ClaimsFit, l
<1> QED
  BY <1>1, <1>3, <1>6, <1>7 DEF BusyIsPaid

LEMMA MeterTypes ==
  ASSUME MeterTypeOK
  PROVE  /\ call \in [Extractions -> CallType] /\ provider \in Chosen
         /\ templates \in Offered /\ {} \in Offered /\ 0 \in Tries /\ 1 \in Tries
         /\ NoUsage \in Useds /\ NoReply \in Texts
         /\ \A pc \in Underway \cup {"new", "ended"} : pc \in Places
         /\ charged \in Nat /\ peak \in Nat /\ recorded \in Nat /\ counted \in Nat
  BY MeteringAssumption DEF MeterTypeOK, CallType, Places, Offered, Tries, Useds, Texts

LEMMA Sums ==
  \A a, b, c, d, x, y, n \in Nat :
    b + x - a - y <= d - c /\ a + n <= c => b + (n - y + x) <= d
OBVIOUS

LEMMA CallMoves ==
  ASSUME MeterInv, NEW c \in Extractions, NEW r \in CallType, call' = [call EXCEPT ![c] = r],
         UNCHANGED rest,
         charged' \in Nat, peak' \in Nat, recorded' \in Nat, counted' \in Nat,
         r.offered \subseteq templates, r.used \in IF r.pc = "recording" THEN Usages ELSE {NoUsage},
         r.pc = "waiting" => r.tries < MaxAttempts,
         month = 0 => recorded' + Exact(provider, r.used) - recorded - Exact(provider, call[c].used)
                        <= counted' - counted,
         BusyIsPaid', EstimatesCover'
  PROVE  MeterInv'
<1>0. /\ call \in [Extractions -> CallType] /\ call'[c] = r
      /\ \A a \in Extractions \ {c} : call'[a] = call[a]
      /\ UNCHANGED <<provider, templates, month>>
  BY MeterTypes DEF MeterInv, rest
<1>1. MeterTypeOK'
  <2>1. call' \in [Extractions -> CallType]
    BY <1>0
  <2> QED
    BY <1>0, <2>1 DEF MeterInv, MeterTypeOK, CallType, Places, Offered, Tries, Useds, Texts
<1>2. UsedIsOwed' /\ OffersStay'
  BY <1>0 DEF MeterInv, UsedIsOwed, OffersStay
<1>3. RowsAndDue'
  <2>1. /\ Exact(provider, call[c].used) \in Nat
        /\ IsFiniteSet(Due(c)) /\ Cardinality(Due(c)) = Exact(provider, call[c].used)
    BY DueIsCounted DEF MeterInv
  <2>2. Due(c)' = 1 .. Exact(provider, r.used) /\ Exact(provider, r.used) \in Nat
    <3>1. r.used \in Useds
      BY DEF CallType
    <3> QED
      BY <1>0, <3>1, ExactIsNat DEF Due, Exact, Useds, MeterInv, MeterTypeOK
  <2>3. IsFiniteSet(Due(c)') /\ Cardinality(Due(c)') = Exact(provider, r.used)
    <3> DEFINE n == Exact(provider, r.used)
    <3> HIDE DEF n
    <3>1. n \in Nat /\ Due(c)' = 1 .. n
      BY <2>2 DEF n
    <3>2. IsFiniteSet(1 .. n) /\ Cardinality(1 .. n) = n
      BY <3>1, CountTo
    <3> QED
      BY <3>1, <3>2 DEF n
  <2>4. \A a \in Extractions \ {c} : Due(a)' = Due(a)
    BY <1>0 DEF Due, Exact
  <2>5. IsFiniteSet(Outstanding)
    BY DEF MeterInv, RowsAndDue
  <2>6. /\ IsFiniteSet(Outstanding')
        /\ Cardinality(Outstanding') =
              Cardinality(Outstanding) - Cardinality(Due(c)) + Cardinality(Due(c)')
    BY <2>1, <2>3, <2>4, <2>5, OutstandingChanges
  <2>7. ASSUME month = 0
        PROVE  recorded' + Cardinality(Outstanding') <= counted'
    <3>1. recorded + Cardinality(Outstanding) <= counted
      BY <2>7 DEF MeterInv, RowsAndDue
    <3>2. Cardinality(Outstanding) \in Nat /\ recorded \in Nat /\ counted \in Nat
      BY <2>5, FS_CardinalityType DEF MeterInv, MeterTypeOK
    <3>3. recorded' + Exact(provider, r.used) - recorded - Exact(provider, call[c].used) <= counted' - counted
      BY <2>7
    <3>4. Cardinality(Outstanding') = Cardinality(Outstanding) - Exact(provider, call[c].used) + Exact(provider, r.used)
      BY <2>1, <2>3, <2>6
    <3> DEFINE x == Exact(provider, r.used)
               y == Exact(provider, call[c].used)
               n == Cardinality(Outstanding)
    <3>5. x \in Nat /\ y \in Nat /\ n \in Nat
      BY <2>1, <2>2, <3>2
    <3> HIDE DEF x, y, n
    <3>6. Cardinality(Outstanding') = n - y + x /\ recorded' + x - recorded - y <= counted' - counted
          /\ recorded + n <= counted
      BY <3>1, <3>3, <3>4 DEF x, y, n
    <3>7. recorded' \in Nat /\ counted' \in Nat /\ recorded \in Nat /\ counted \in Nat
      BY <3>2
    <3>8. recorded' + (n - y + x) <= counted'
      BY <3>5, <3>6, <3>7, Sums
    <3> QED
      BY <3>6, <3>8
  <2> QED
    BY <1>0, <2>6, <2>7 DEF RowsAndDue
<1> QED
  BY <1>1, <1>2, <1>3 DEF MeterInv

(* A call that moves without an answer or a charge                         *)
LEMMA QuietMoves ==
  ASSUME MeterInv, NEW c \in Extractions, NEW r \in CallType, call' = [call EXCEPT ![c] = r],
         UNCHANGED <<charged, peak, recorded, rest>>, counted' \in Nat, counted' >= counted,
         r.offered \subseteq templates, r.pc # "recording", r.used = NoUsage,
         r.pc = "waiting" => r.tries < MaxAttempts, call[c].pc # "recording",
         r.pc \in {"trying", "waiting"} => call[c].pc \in {"trying", "waiting"}
  PROVE  MeterInv'
<1>0. /\ call \in [Extractions -> CallType] /\ call'[c] = r
      /\ \A a \in Extractions \ {c} : call'[a] = call[a]
  BY MeterTypes DEF MeterInv
<1>1. Busy' \subseteq Busy
  BY <1>0 DEF Busy
<1>2. BusyIsPaid'
  BY <1>1, BusyStays
<1>3. EstimatesCover'
  BY DEF MeterInv, EstimatesCover
<1>4. call[c].used = NoUsage
  BY DEF MeterInv, UsedIsOwed
<1>5. Exact(provider, NoUsage) = 0
  BY ExactIsNat DEF MeterInv, MeterTypeOK
<1>6. month = 0 => recorded' + Exact(provider, r.used) - recorded - Exact(provider, call[c].used)
                     <= counted' - counted
  BY <1>4, <1>5, MeterTypes DEF MeterInv
<1> QED
  BY <1>2, <1>3, <1>6, CallMoves, MeterTypes DEF MeterInv

LEMMA RestedType ==
  ASSUME MeterInv, NEW pc \in {"new", "ended"}
  PROVE  /\ Rested(pc) \in CallType /\ Rested(pc).pc = pc /\ Rested(pc).used = NoUsage
         /\ Rested(pc).offered = {}
  BY MeterTypes DEF Rested, CallType, MeterInv

LEMMA OffersKeeps ==
  ASSUME MeterInv, NEW c \in Extractions, Offers(c)
  PROVE  MeterInv'
<1>0. /\ call[c].pc = "new" /\ UNCHANGED <<charged, peak, recorded, counted, rest>>
      /\ counted \in Nat
  BY MeterTypes DEF Offers, sums, MeterInv
<1>1. CASE templates = {}
  BY <1>0, <1>1, RestedType, QuietMoves DEF Offers, Ends
<1>2. CASE templates # {}
  <2> DEFINE r == [call[c] EXCEPT !.offered = templates, !.pc = "checking"]
  <2>1. /\ r \in CallType /\ r.offered = templates /\ r.pc = "checking" /\ r.used = call[c].used
        /\ call' = [call EXCEPT ![c] = r]
    <3>1. call[c] \in CallType /\ templates \in Offered /\ "checking" \in Places
      BY MeterTypes DEF MeterInv, Underway
    <3>2. call' = [call EXCEPT ![c] = r]
      BY <1>2, MeterTypes DEF Offers, MeterInv
    <3> QED
      BY <3>1, <3>2 DEF CallType
  <2>2. r.used = NoUsage /\ r.offered \subseteq templates /\ counted' \in Nat /\ counted' >= counted
    BY <1>0, <2>1 DEF MeterInv, UsedIsOwed
  <2> HIDE DEF r
  <2> QED
    BY <1>0, <2>1, <2>2, QuietMoves
<1> QED
  BY <1>1, <1>2

(* A call's place changes, or it ends.                                     *)
LEMMA BecomesKeeps ==
  ASSUME MeterInv, NEW c \in Extractions, NEW pc \in {"trying", "waiting"}, NEW n \in Tries,
         call[c].pc \in {"trying", "waiting"}, pc = "waiting" => n < MaxAttempts,
         call' = [call EXCEPT ![c].tries = n, ![c].pc = pc],
         UNCHANGED <<charged, peak, recorded, rest>>, counted' \in Nat, counted' >= counted
  PROVE  MeterInv'
<1> DEFINE r == [call[c] EXCEPT !.tries = n, !.pc = pc]
<1>1. /\ r \in CallType /\ r.offered = call[c].offered /\ r.pc = pc /\ r.used = call[c].used /\ r.tries = n
      /\ call' = [call EXCEPT ![c] = r]
  <2>1. call[c] \in CallType /\ pc \in Places
    BY MeterTypes DEF MeterInv, Underway
  <2>2. call' = [call EXCEPT ![c] = r]
    BY MeterTypes DEF MeterInv
  <2> QED
    BY <2>1, <2>2 DEF CallType
<1>2. r.used = NoUsage /\ r.offered \subseteq templates
  BY <1>1 DEF MeterInv, UsedIsOwed, OffersStay
<1> HIDE DEF r
<1> QED
  BY <1>1, <1>2, QuietMoves

LEMMA WaitsKeeps ==
  ASSUME MeterInv, NEW c \in Extractions, call[c].pc = "trying", Becomes(c, "waiting"), Again(c),
         UNCHANGED <<charged, peak, recorded, rest>>, counted' \in Nat, counted' >= counted
  PROVE  MeterInv'
<1>1. /\ call[c].tries \in Tries /\ call[c].tries < MaxAttempts
      /\ call' = [call EXCEPT ![c].tries = call[c].tries, ![c].pc = "waiting"]
  BY MeterTypes DEF MeterInv, CallType, Becomes, Again
<1> QED
  BY <1>1, BecomesKeeps

LEMMA EndsKeeps ==
  ASSUME MeterInv, NEW c \in Extractions, call[c].pc # "recording", Ends(c),
         UNCHANGED <<charged, peak, recorded, rest>>, counted' \in Nat, counted' >= counted
  PROVE  MeterInv'
  BY RestedType, QuietMoves DEF Ends

LEMMA AdmitsKeeps ==
  ASSUME MeterInv, NEW c \in Extractions, Admits(c)
  PROVE  MeterInv'
<1> DEFINE r == [call[c] EXCEPT !.pc = "trying", !.tries = 1]
<1>0. /\ call[c].pc = "checking" /\ UNCHANGED <<charged, recorded, counted, rest>> /\ WithinBudget
      /\ peak' = IF Cardinality(Busy) + 1 > peak THEN Cardinality(Busy) + 1 ELSE peak
  BY DEF Admits
<1>1. /\ r \in CallType /\ r.offered = call[c].offered /\ r.pc = "trying" /\ r.used = call[c].used
      /\ call' = [call EXCEPT ![c] = r]
  <2>1. call[c] \in CallType /\ "trying" \in Places /\ 1 \in Tries
    BY MeterTypes DEF MeterInv, Underway
  <2>2. call' = [call EXCEPT ![c] = r]
    BY MeterTypes DEF MeterInv, Admits
  <2> QED
    BY <2>1, <2>2 DEF CallType
<1>2. r.used = NoUsage /\ r.offered \subseteq templates /\ call[c].used = NoUsage
  BY <1>0, <1>1 DEF MeterInv, UsedIsOwed, OffersStay
<1> HIDE DEF r
<1>3. c \notin Busy /\ Busy' = Busy \cup {c}
  BY <1>0, <1>1, MeterTypes DEF Busy, MeterInv
<1>4. BusyIsPaid'
  BY <1>0, <1>3, BusyGrows
<1>5. peak' \in Nat
  <2>1. Cardinality(Busy) \in Nat /\ peak \in Nat
    BY FS_CardinalityType, MeterTypes DEF MeterInv, BusyIsPaid
  <2> QED
    BY <1>0, <2>1
<1>6. EstimatesCover'
  BY <1>0 DEF MeterInv, EstimatesCover
<1>7. recorded' + Exact(provider, r.used) - recorded - Exact(provider, call[c].used) <= counted' - counted
  <2>1. Exact(provider, NoUsage) = 0
    BY ExactIsNat DEF MeterInv, MeterTypeOK
  <2> QED
    BY <1>0, <1>2, <2>1, MeterTypes DEF MeterInv
<1> QED
  BY <1>0, <1>1, <1>2, <1>4, <1>5, <1>6, <1>7, CallMoves, MeterTypes DEF MeterInv

LEMMA AnswersKeeps ==
  ASSUME MeterInv, NEW c \in Extractions, Answers(c)
  PROVE  MeterInv'
<1>0. PICK u \in Usages, s \in Replies :
        /\ call' = [call EXCEPT ![c].pc = "recording", ![c].used = u, ![c].reply = s]
        /\ counted' = counted + Exact(provider, u)
  BY DEF Answers
<1> DEFINE r == [call[c] EXCEPT !.pc = "recording", !.used = u, !.reply = s]
<1>a. call[c].pc = "trying" /\ UNCHANGED <<charged, peak, recorded, rest>>
  BY DEF Answers
<1>1. /\ r \in CallType /\ r.offered = call[c].offered /\ r.pc = "recording" /\ r.used = u
      /\ call' = [call EXCEPT ![c] = r]
  <2>1. call[c] \in CallType /\ "recording" \in Places /\ u \in Useds /\ s \in Texts
    BY MeterTypes DEF MeterInv, Underway, Useds, Texts
  <2>2. call' = [call EXCEPT ![c] = r]
    BY <1>0, MeterTypes DEF MeterInv
  <2> QED
    BY <2>1, <2>2 DEF CallType
<1>2. r.offered \subseteq templates /\ call[c].used = NoUsage
  BY <1>a, <1>1 DEF MeterInv, UsedIsOwed, OffersStay
<1> HIDE DEF r
<1>3. Busy' \subseteq Busy
  BY <1>a, <1>1, MeterTypes DEF Busy, MeterInv
<1>4. BusyIsPaid'
  BY <1>3, <1>a, BusyStays
<1>5. EstimatesCover'
  BY <1>a DEF MeterInv, EstimatesCover
<1>6. Exact(provider, NoUsage) = 0 /\ Exact(provider, u) \in Nat
  BY ExactIsNat DEF MeterInv, MeterTypeOK
<1>7. /\ recorded' + Exact(provider, r.used) - recorded - Exact(provider, call[c].used) <= counted' - counted
      /\ counted' \in Nat
  <2>1. counted' = counted + Exact(provider, u) /\ recorded' = recorded
    BY <1>0, <1>a
  <2> DEFINE x == Exact(provider, u)
  <2>2. x \in Nat /\ recorded \in Nat /\ counted \in Nat
    BY <1>6, MeterTypes DEF MeterInv
  <2>3. counted' = counted + x /\ Exact(provider, r.used) = x /\ Exact(provider, call[c].used) = 0
    BY <1>1, <1>2, <1>6, <2>1
  <2> HIDE DEF x
  <2> QED
    BY <2>1, <2>2, <2>3
<1> QED
  BY <1>a, <1>1, <1>2, <1>4, <1>5, <1>7, CallMoves, MeterTypes DEF MeterInv

LEMMA RecordsKeeps ==
  ASSUME MeterInv, NEW c \in Extractions, Records(c)
  PROVE  MeterInv'
<1> DEFINE u == call[c].used
           r == Rested("ended")
<1>0. /\ call[c].pc = "recording" /\ call' = [call EXCEPT ![c] = r]
      /\ UNCHANGED <<peak, counted, rest>>
      /\ \/ charged' = charged + Cost(provider, u) /\ recorded' = recorded + Exact(provider, u)
         \/ charged' = charged /\ recorded' = recorded
  BY DEF Records, Ends
<1>1. r \in CallType /\ r.offered = {} /\ r.pc = "ended" /\ r.used = NoUsage
  BY RestedType
<1>2. provider \in Chosen /\ u \in Usages
  BY <1>0 DEF MeterInv, MeterTypeOK, UsedIsOwed
<1>3. Exact(provider, u) \in Nat /\ Exact(provider, NoUsage) = 0
  BY <1>2, ExactIsNat
<1>4. Cost(provider, u) \in 0 .. MaxCost /\ Cost(provider, u) * (20 * Million) >= Exact(provider, u)
  BY <1>2, CostCovers
<1>5. BusyIsPaid'
  <2> HIDE DEF r
  <2>1. c \in Busy /\ Busy' = Busy \ {c}
    BY <1>0, <1>1, MeterTypes DEF Busy, MeterInv
  <2> QED
    BY <1>0, <1>4, <2>1, BusyShrinks
<1>6. EstimatesCover' /\ charged' \in Nat /\ recorded' \in Nat
  <2> DEFINE d == 20 * Million
             k == Cost(provider, u)
             e == Exact(provider, u)
  <2>1. d \in Nat /\ charged \in Nat /\ recorded \in Nat /\ k \in Nat /\ e \in Nat /\ k * d >= e
    BY <1>3, <1>4, MeteringAssumption, MeterTypes DEF MeterInv
  <2>2. recorded <= charged * d
    <3>1. charged * 20 * Million = charged * d
      BY MeteringAssumption, MeterTypes DEF MeterInv
    <3> QED
      BY <3>1 DEF MeterInv, EstimatesCover
  <2>3. \/ charged' = charged + k /\ recorded' = recorded + e
        \/ charged' = charged /\ recorded' = recorded
    BY <1>0
  <2>4. recorded' <= charged' * d /\ charged' \in Nat /\ recorded' \in Nat
    <3> HIDE DEF d, k, e
    <3>1. (charged + k) * d = charged * d + k * d /\ charged * d \in Nat /\ k * d \in Nat
      BY <2>1, ProductIsNat
    <3>2. CASE charged' = charged + k /\ recorded' = recorded + e
      BY <2>1, <2>2, <3>1, <3>2
    <3>3. CASE charged' = charged /\ recorded' = recorded
      BY <2>1, <2>2, <3>3
    <3> QED
      BY <2>3, <3>2, <3>3
  <2>5. charged' * 20 * Million = charged' * d
    BY <2>4, MeteringAssumption
  <2> QED
    BY <2>4, <2>5 DEF EstimatesCover
<1>7. recorded' + Exact(provider, r.used) - recorded - Exact(provider, u) <= counted' - counted
  <2> DEFINE e == Exact(provider, u)
  <2>1. /\ Exact(provider, r.used) = 0 /\ counted' = counted /\ e \in Nat
        /\ recorded' \in {recorded, recorded + e} /\ recorded \in Nat /\ counted \in Nat
    BY <1>0, <1>1, <1>3, MeterTypes DEF MeterInv
  <2> HIDE DEF e
  <2>2. \A a, b \in Nat : b \in {a, a + e} => b + 0 - a - e <= 0
    BY <2>1
  <2>3. counted' - counted = 0 /\ recorded' \in Nat
    BY <2>1
  <2>4. recorded' + 0 - recorded - e <= 0
    BY <2>1, <2>2, <2>3
  <2> QED
    BY <2>1, <2>3, <2>4 DEF e
<1> HIDE DEF r
<1> QED
  BY <1>0, <1>1, <1>5, <1>6, <1>7, CallMoves, MeterTypes DEF MeterInv

LEMMA TriesKeeps ==
  ASSUME MeterInv, NEW c \in Extractions,
         Refuses(c) \/ Fails(c) \/ Rejects(c) \/ TimesOut(c) \/ Retries(c)
  PROVE  MeterInv'
<1>0. counted \in Nat /\ provider \in Chosen
  BY MeterTypes DEF MeterInv
<1>1. CASE Refuses(c)
  BY <1>0, <1>1, EndsKeeps DEF Refuses, sums
<1>2. CASE Fails(c) \/ Rejects(c)
  BY <1>0, <1>2, EndsKeeps, WaitsKeeps DEF Fails, Rejects, sums
<1>3. CASE TimesOut(c)
  <2>1. counted' \in Nat /\ counted' >= counted
    <3>1. PICK u \in Usages \cup {NoUsage} : counted' = counted + Exact(provider, u)
      BY <1>3 DEF TimesOut
    <3>2. Exact(provider, u) \in Nat
      BY <1>0, ExactIsNat
    <3> DEFINE x == Exact(provider, u)
    <3>3. counted' = counted + x /\ x \in Nat
      BY <3>1, <3>2
    <3> HIDE DEF x
    <3> QED
      BY <1>0, <3>3
  <2> QED
    BY <1>3, <2>1, EndsKeeps, WaitsKeeps DEF TimesOut
<1>4. CASE Retries(c)
  <2> DEFINE n == call[c].tries + 1
  <2>1. call[c].tries < MaxAttempts /\ call[c].tries \in 0 .. MaxAttempts
    BY <1>4 DEF Retries, MeterInv, UsedIsOwed, MeterTypeOK
  <2>2. n \in Tries
    BY <2>1, MeteringAssumption DEF Tries
  <2>3. call' = [call EXCEPT ![c].tries = n, ![c].pc = "trying"]
    BY <1>4 DEF Retries
  <2>4. /\ UNCHANGED <<charged, peak, recorded, rest>> /\ call[c].pc \in {"trying", "waiting"}
        /\ counted' \in Nat /\ counted' >= counted
    BY <1>0, <1>4 DEF Retries, sums
  <2> HIDE DEF n
  <2> QED
    BY <2>2, <2>3, <2>4, BecomesKeeps
<1> QED
  BY <1>1, <1>2, <1>3, <1>4
LEMMA MonthEndsKeeps ==
  ASSUME MeterInv, MonthEnds
  PROVE  MeterInv'
<1>1. /\ month \in 0 .. MaxMonths /\ month < MaxMonths /\ month' = month + 1
      /\ charged' = 0 /\ recorded' = 0 /\ counted' = 0 /\ peak' = Cardinality(Busy)
      /\ UNCHANGED <<provider, templates, call>>
  BY DEF MeterInv, MeterTypeOK, MonthEnds
<1>2. IsFiniteSet(Busy) /\ Cardinality(Busy) \in Nat
  BY FS_CardinalityType DEF MeterInv, BusyIsPaid
<1>3. MonthBudget \in Nat /\ MaxCost \in Nat /\ Million \in Nat /\ MaxMonths \in Nat
  BY MeteringAssumption
<1>4. MeterTypeOK'
  <2>1. month' \in 0 .. MaxMonths /\ month' # 0
    BY <1>1, <1>3
  <2> QED
    BY <1>1, <1>2, <2>1 DEF MeterInv, MeterTypeOK
<1>5. UsedIsOwed' /\ OffersStay'
  BY <1>1 DEF MeterInv, UsedIsOwed, OffersStay
<1>6. RowsAndDue'
  <2>1. Outstanding' = Outstanding
    BY <1>1 DEF Outstanding, Due, Exact
  <2>2. month' # 0
    BY <1>1
  <2> QED
    BY <2>1, <2>2 DEF MeterInv, RowsAndDue
<1>7. BusyIsPaid'
  <2>1. Busy' = Busy
    BY <1>1 DEF Busy
  <2>2. OverrunIsBounded'
    BY <1>1, <1>3 DEF OverrunIsBounded
  <2>3. ClaimsFit'
    <3> DEFINE n == Cardinality(Busy) * MaxCost
    <3>1. n \in Nat
      BY <1>2, <1>3, ProductIsNat
    <3> HIDE DEF n
    <3>2. MonthBudget > 0 => 0 + n < MonthBudget + n
      BY <1>3, <3>1
    <3>3. Busy # {} => MonthBudget > 0
      BY DEF MeterInv, BusyIsPaid
    <3> QED
      BY <1>1, <2>1, <3>2, <3>3 DEF ClaimsFit, n
  <2> QED
    BY <2>1, <2>2, <2>3 DEF MeterInv, BusyIsPaid
<1>8. EstimatesCover'
  BY <1>1, <1>3 DEF EstimatesCover
<1> QED
  BY <1>4, <1>5, <1>6, <1>7, <1>8 DEF MeterInv

LEMMA TemplateAddedKeeps ==
  ASSUME MeterInv, NEW t \in Templates, TemplateAdded(t)
  PROVE  MeterInv'
<1>1. /\ templates' = templates \cup {t}
      /\ UNCHANGED <<provider, call, charged, peak, recorded, counted, month>>
  BY DEF TemplateAdded, sums
<1>2. MeterTypeOK' /\ UsedIsOwed' /\ OffersStay' /\ EstimatesCover'
  BY <1>1 DEF MeterInv, MeterTypeOK, UsedIsOwed, OffersStay, EstimatesCover
<1>3. Outstanding' = Outstanding /\ Busy' = Busy
  BY <1>1 DEF Outstanding, Due, Exact, Busy
<1>4. RowsAndDue' /\ BusyIsPaid'
  BY <1>1, <1>3 DEF MeterInv, RowsAndDue, BusyIsPaid, OverrunIsBounded, ClaimsFit
<1> QED
  BY <1>2, <1>4 DEF MeterInv

LEMMA MeterStarts ==
  ASSUME MeterInit
  PROVE  MeterInv
<1>1. /\ provider \in Chosen /\ templates \subseteq Templates
      /\ call = [c \in Extractions |-> Rested("new")]
      /\ charged = 0 /\ peak = 0 /\ recorded = 0 /\ counted = 0 /\ month = 0
  BY DEF MeterInit
<1>2. MonthBudget \in Nat /\ MaxCost \in Nat /\ Million \in Nat /\ MaxMonths \in Nat /\ MaxAttempts \in Nat
  BY MeteringAssumption
<1>3. \A c \in Extractions : call[c] = Rested("new")
  BY <1>1
<1>4. MeterTypeOK
  BY <1>1, <1>2 DEF MeterTypeOK, Rested
<1>5. UsedIsOwed /\ OffersStay
  BY <1>3 DEF UsedIsOwed, OffersStay, Rested
<1>6. Busy = {}
  BY <1>3 DEF Busy, Rested
<1>7. Outstanding = {}
  <2>1. \A c \in Extractions : Due(c) = {}
    BY <1>1, <1>3, ExactIsNat DEF Due, Rested
  <2> QED
    BY <2>1 DEF Outstanding
<1>8. IsFiniteSet({}) /\ Cardinality({}) = 0
  BY FS_EmptySet
<1>9. RowsAndDue /\ BusyIsPaid /\ EstimatesCover
  BY <1>1, <1>2, <1>6, <1>7, <1>8
     DEF RowsAndDue, BusyIsPaid, OverrunIsBounded, ClaimsFit, EstimatesCover
<1> QED
  BY <1>4, <1>5, <1>9 DEF MeterInv

LEMMA MeterInvHolds == MeterSpec => []MeterInv
<1>1. MeterInit => MeterInv
  BY MeterStarts
<1>2. MeterInv /\ [MeterNext]_meterVars => MeterInv'
  <2> SUFFICES ASSUME MeterInv, [MeterNext]_meterVars
               PROVE  MeterInv'
    OBVIOUS
  <2>1. CASE MonthEnds
    BY <2>1, MonthEndsKeeps
  <2>2. CASE \E t \in Templates : TemplateAdded(t)
    BY <2>2, TemplateAddedKeeps
  <2>3. CASE \E c \in Extractions : Offers(c) \/ CallStep(c)
    BY <2>3, OffersKeeps, AdmitsKeeps, AnswersKeeps, RecordsKeeps, TriesKeeps DEF CallStep
  <2>4. CASE UNCHANGED meterVars
    <3>1. UNCHANGED <<provider, templates, call, charged, peak, recorded, counted, month>>
      BY <2>4 DEF meterVars
    <3>2. MeterTypeOK' /\ UsedIsOwed' /\ OffersStay' /\ EstimatesCover'
      BY <3>1 DEF MeterInv, MeterTypeOK, UsedIsOwed, OffersStay, EstimatesCover
    <3>3. Outstanding' = Outstanding /\ Busy' = Busy
      BY <3>1 DEF Outstanding, Due, Exact, Busy
    <3>4. RowsAndDue' /\ BusyIsPaid'
      BY <3>1, <3>3 DEF MeterInv, RowsAndDue, BusyIsPaid, OverrunIsBounded, ClaimsFit
    <3> QED
      BY <3>2, <3>4 DEF MeterInv
  <2> QED
    BY <2>1, <2>2, <2>3, <2>4 DEF MeterNext
<1> QED
  BY <1>1, <1>2, PTL DEF MeterSpec

(* What one answer costs is a part of what all the outstanding ones cost.  *)
LEMMA OneIsAPart ==
  ASSUME MeterTypeOK, RowsAndDue, NEW c \in Extractions
  PROVE  /\ Exact(provider, call[c].used) \in Nat /\ Cardinality(Outstanding) \in Nat
         /\ Exact(provider, call[c].used) <= Cardinality(Outstanding)
<1> DEFINE D == Due(c)
<1>1. IsFiniteSet(D) /\ Cardinality(D) = Exact(provider, call[c].used) /\ Cardinality(D) \in Nat
  BY DueIsCounted
<1>2. {c} \X D \subseteq Outstanding /\ IsFiniteSet(Outstanding)
  BY DEF Outstanding, RowsAndDue
<1> HIDE DEF D
<1>3. Cardinality({c} \X D) = 1 * Cardinality(D)
  <2>1. IsFiniteSet({c}) /\ Cardinality({c}) = 1
    BY FS_Singleton
  <2> QED
    BY <1>1, <2>1, FS_Product
<1>4. Cardinality({c} \X D) <= Cardinality(Outstanding) /\ Cardinality(Outstanding) \in Nat
  BY <1>2, FS_Subset, FS_CardinalityType
<1>5. Cardinality({c} \X D) = Cardinality(D)
  BY <1>1, <1>3
<1> QED
  BY <1>1, <1>4, <1>5

LEMMA MeterInvSuffices == MeterInv => SpendIsBounded
<1> SUFFICES ASSUME MeterInv
             PROVE  SpendIsBounded
  OBVIOUS
<1>1. RowsAreAnswers
  <2> SUFFICES ASSUME month = 0, NEW c \in Extractions
               PROVE  recorded + Exact(provider, call[c].used) <= counted
    BY DEF RowsAreAnswers
  <2> DEFINE x == Exact(provider, call[c].used)
             n == Cardinality(Outstanding)
  <2>1. x \in Nat /\ n \in Nat /\ x <= n
    BY OneIsAPart DEF MeterInv
  <2>2. recorded + n <= counted /\ recorded \in Nat /\ counted \in Nat
    BY DEF MeterInv, RowsAndDue, MeterTypeOK
  <2> HIDE DEF x, n
  <2>3. recorded + x <= counted
    BY <2>1, <2>2
  <2> QED
    BY <2>3 DEF x
<1>2. MailsAreModest
  <2> SUFFICES ASSUME NEW c \in Extractions
               PROVE  TaskOf(c).template \in templates \cup {0} /\ TaskOf(c).priority # 1
    BY DEF MailsAreModest
  <2>1. Extraction(c).template \in templates \cup {0} /\ Extraction(c).priority # 1
    <3>1. call[c].offered \subseteq templates
      BY DEF MeterInv, OffersStay
    <3> QED
      BY <3>1 DEF Extraction, Empty
  <2> QED
    BY <2>1 DEF TaskOf
<1> QED
  BY <1>1, <1>2 DEF MeterInv, BusyIsPaid, SpendIsBounded

(* What the LLM costs a month passes the budget by no more than the calls  *)
(* that were under way at once, its rows understate nothing and count no   *)
(* answer twice, and no mail makes the model escalate its task.            *)
THEOREM SpendBounded == MeterSpec => []SpendIsBounded
  BY MeterInvHolds, MeterInvSuffices, PTL

-----------------------------------------------------------------------------
(* The connection.  Who has not read the tokens yet, who asks Google, who  *)
(* was refused, who is over.                                               *)
Early == {r \in Runs : work[r].pc \in {"idle", "connecting", "erring"}}
           \cup {l \in Letters : letter[l].pc \in {"new", "erring"}}
Asking == {r \in Runs : At(r, "fetching")}
Refused == {r \in Runs : At(r, "expiring")}
Over == {r \in Runs : At(r, "ended")}

(* A grant that is issued is a new one.                                    *)
IssuedBefore(t) == t = NoToken \/ t <= issued
GrantsAreOld ==
  /\ \A t \in valid : t <= issued
  /\ IssuedBefore(row.refresh)
  /\ \A c \in Clients : IssuedBefore(held[c])
  /\ \A s \in saving : IssuedBefore(s.refresh)

(* Who holds a grant and who saves one.                                    *)
HoldersAreAtWork ==
  /\ \A c \in Early : held[c] = NoToken /\ \A s \in saving : s.by # c
  /\ \A r \in Asking \cup Refused : held[r] # NoToken
  /\ expiredBy # Nobody => expiredBy \in Over /\ held[expiredBy] = NoToken
  /\ \A s, t \in saving : s.by = t.by => s = t

(* A client that nobody overtook works with the grant of the row, or with  *)
(* one that killed it; what it saves is what it works with, or dead.       *)
HeldIsCurrent ==
  \A c \in Clients \ late :
    held[c] # NoToken => row.refresh # NoToken /\ (row.refresh = held[c] \/ row.refresh \notin valid)
SavedIsCurrent ==
  \A s \in saving :
    s.by \notin late /\ s.refresh # NoToken =>
      held[s.by] \in {NoToken, s.refresh} \/ s.refresh \notin valid

(* A refusal that no race explains is of a dead grant; what the client that *)
(* wrote EXPIRED still saves is dead too.                                  *)
RefusedIsDead ==
  \A r \in Refused \ late : held[r] \notin valid
ExpiredIsDead ==
  /\ row.status = "EXPIRED" =>
       expiredBy # Nobody /\ (row.refresh \in valid \cup {NoToken} => expiredBy \in late)
  /\ \A s \in saving :
       s.by = expiredBy /\ s.by \notin late /\ s.refresh # NoToken => s.refresh \notin valid

(* Nobody is at work on a row that was disconnected but those who read it  *)
(* before.                                                                 *)
DisconnectedIsEmpty ==
  row.status = "DISCONNECTED" =>
    /\ Working # {} => late # {}
    /\ {row.access, row.refresh} # {NoToken} => late # {}

(* Without a race or a loss, the newest grant is in the row or on its way. *)
GrantIsKept ==
  late = {} /\ ~lost =>
    /\ \A s \in saving : s.refresh # NoToken => s.refresh \in valid
    /\ row.status = "CONNECTED" /\ (\A s \in saving : s.refresh = NoToken) => row.refresh \in valid

ConnectionInv ==
  /\ GrantsAreOld /\ HoldersAreAtWork /\ HeldIsCurrent /\ SavedIsCurrent
  /\ RefusedIsDead /\ ExpiredIsDead /\ DisconnectedIsEmpty /\ GrantIsKept

(* A letter was delivered at most once beside its tries that timed out.    *)
LetterOK(x) ==
  /\ x.pc \in {"new", "erring", "absent"} => x.tries = 0 /\ x.delivered = 0 /\ x.timeouts = 0
  /\ x.pc = "sending" => x.tries < Attempts /\ x.delivered <= x.timeouts /\ x.timeouts <= x.tries
  /\ x.pc = "sent" => 1 <= x.delivered /\ x.delivered <= 1 + x.timeouts
  /\ x.pc = "failed" => x.delivered <= x.timeouts
LetterInv == \A l \in Letters : LetterOK(letter[l])

-----------------------------------------------------------------------------
(* The mails *)

Handled(m) == <<"gmail", m>> \in tasks \/ m \notin unread \/ m \in failed
Before(m, t) == Arrived(m) /\ date[m] < t - Overlap
Loop == {r \in Runs : work[r].pc \in Ingesting \cup {"looping"}}

Steps == Ingesting \cup {"idle", "connecting", "erring", "fetching", "expiring", "looping", "ended"}
WorkOK ==
  /\ work \in [Workers -> [pc : Steps, mail : Mails \cup {Nobody}]]
  /\ \A w \in Workers : work[w].pc \in Ingesting => work[w].mail \in Mails
  /\ watermark # Never => watermark <= now
  /\ \A r \in Runs : sync[r].started <= now /\ (sync[r].since # Never => sync[r].since <= now)
  /\ \A m \in unread : Arrived(m)

(* What the watermark, or the one a run began with, leaves behind is done. *)
PassedIsHandled ==
  /\ \A m \in Mails : watermark # Never /\ Before(m, watermark) => Handled(m)
  /\ \A m \in Mails, r \in Runs : sync[r].since # Never /\ Before(m, sync[r].since) => Handled(m)

(* A run that fetched all it asked for has in hand what came before it.    *)
RunHasAll ==
  \A m \in Mails, r \in Loop :
    ~sync[r].cut /\ Before(m, sync[r].started) =>
      Handled(m) \/ m \in sync[r].todo \/ (work[r].pc \in Ingesting /\ work[r].mail = m)

(* A row the ingest need not know: it is its rival, or a search does not   *)
(* reach the row any more.                                                 *)
Unknown(j, by) == by \in customers[j].rivals \/ j + SearchLimit <= Len(customers)

(* An ingest that is creating a customer knows of none of the sender's.    *)
RivalsAreKnown ==
  /\ \A w \in Workers : At(w, "creating") =>
       \A j \in DOMAIN customers : customers[j].exact => Unknown(j, Ingest(w))
  /\ CustomersAreShared

Calling == {w \in Workers : At(w, "calling")}
Begun == {w \in Workers : work[w].mail # Nobody}
SpentInv == (Begun = {} => spent = 0) /\ SpentIsBounded

MailInv == TypeOK /\ WorkOK /\ PassedIsHandled /\ RunHasAll /\ RivalsAreKnown /\ SpentInv

-----------------------------------------------------------------------------
(* The connection: types, in parts the provers take as they are *)

Statuses == {"none", "CONNECTED", "EXPIRED", "ERROR", "DISCONNECTED"}
RowType == [status : Statuses, access : Token, refresh : Token]
LetterSteps == {"new", "sending", "erring", "sent", "failed", "absent"}
Counts == 0 .. Attempts
LetterType == [pc : LetterSteps, tries : Counts, delivered : Counts, timeouts : Counts]
Marker == Clients \cup {Nobody}

LEMMA ConnectionTypes ==
  ASSUME IntegrationsTypeOK
  PROVE  /\ row \in RowType /\ row.status \in Statuses /\ row.access \in Token /\ row.refresh \in Token
         /\ valid \subseteq Tokens /\ issued \in Nat /\ issued <= MaxTokens
         /\ held \in [Clients -> Token] /\ saving \subseteq Saving
         /\ \A s \in saving : s.by \in Clients /\ s.access \in Tokens /\ s.refresh \in Token
         /\ late \subseteq Clients /\ expiredBy \in Marker /\ lost \in BOOLEAN
         /\ letter \in [Letters -> LetterType] /\ NoToken \in Token /\ Tokens \subseteq Token
         /\ NoToken \notin Tokens /\ Nobody \notin Clients /\ Runs \cap Letters = {}
  BY IntegrationsAssumption
     DEF IntegrationsTypeOK, RowType, Statuses, LetterType, LetterSteps, Counts, Marker, Saving, Token,
         Tokens, Clients

(* What was written with the new values                                    *)
LEMMA RowsWritten ==
  ASSUME NEW status \in Statuses, NEW access \in Token, NEW refresh \in Token
  PROVE  /\ [status |-> status, access |-> access, refresh |-> refresh] \in RowType
  BY DEF RowType

(* The next grant is none of those that anyone knows.                      *)
LEMMA NewGrant ==
  ASSUME IntegrationsTypeOK, GrantsAreOld, issued < MaxTokens
  PROVE  /\ issued + 1 \in Tokens /\ issued + 1 # NoToken /\ issued + 1 \notin valid
         /\ row.refresh # issued + 1 /\ \A c \in Clients : held[c] # issued + 1
         /\ \A s \in saving : s.refresh # issued + 1
         /\ \A t : IssuedBefore(t) /\ t \in Token => t = NoToken \/ t <= issued + 1
<1>1. issued \in Nat /\ MaxTokens \in Nat /\ NoToken \notin Tokens
  BY ConnectionTypes, IntegrationsAssumption
<1>2. issued + 1 \in Tokens /\ issued + 1 # NoToken
  BY <1>1 DEF Tokens
<1>3. \A t : IssuedBefore(t) => t # issued + 1
  BY <1>1, <1>2 DEF IssuedBefore
<1>4. issued + 1 \notin valid
  BY <1>1 DEF GrantsAreOld
<1>5. \A t : IssuedBefore(t) /\ t \in Token => t = NoToken \/ t <= issued + 1
  BY <1>1 DEF IssuedBefore, Token, Tokens
<1> QED
  BY <1>2, <1>3, <1>4, <1>5 DEF GrantsAreOld

(* Steps that leave the connection as it is, and nobody starts again.      *)
Forward == Early' \subseteq Early /\ Asking' \subseteq Asking /\ Refused' \subseteq Refused /\ Over \subseteq Over'
connection == <<row, valid, issued, held, saving, late, expiredBy, lost>>

LEMMA RestsKeeps ==
  ASSUME ConnectionInv, UNCHANGED connection, Forward
  PROVE  ConnectionInv'
<1>0. UNCHANGED <<row, valid, issued, held, saving, late, expiredBy, lost>>
  BY DEF connection
<1>1. GrantsAreOld'
  BY <1>0 DEF ConnectionInv, GrantsAreOld, IssuedBefore
<1>2. HoldersAreAtWork'
  BY <1>0 DEF ConnectionInv, HoldersAreAtWork, Forward
<1>3. HeldIsCurrent' /\ SavedIsCurrent' /\ ExpiredIsDead'
  BY <1>0 DEF ConnectionInv, HeldIsCurrent, SavedIsCurrent, ExpiredIsDead
<1>4. RefusedIsDead'
  BY <1>0 DEF ConnectionInv, RefusedIsDead, Forward
<1>5. DisconnectedIsEmpty' /\ GrantIsKept'
  BY <1>0 DEF ConnectionInv, DisconnectedIsEmpty, GrantIsKept, Working
<1> QED
  BY <1>1, <1>2, <1>3, <1>4, <1>5 DEF ConnectionInv

(* A client reads the tokens of the row.                                   *)
LEMMA AcquiresKeeps ==
  ASSUME IntegrationsTypeOK, ConnectionInv, NEW c \in Early, Acquire(c),
         UNCHANGED <<row, valid, issued, saving, late, expiredBy, lost>>,
         Early' \subseteq Early \ {c}, Asking' \subseteq Asking \cup {c}, Refused' \subseteq Refused,
         Over \subseteq Over', c \notin Over
  PROVE  ConnectionInv'
<1>0. /\ c \in Clients /\ held[c] = NoToken /\ \A s \in saving : s.by # c
      /\ held'[c] = row.refresh /\ \A a \in Clients \ {c} : held'[a] = held[a]
      /\ row.refresh # NoToken /\ row.status = "CONNECTED"
  BY ConnectionTypes DEF Early, Clients, Acquire, Usable, ConnectionInv, HoldersAreAtWork
<1>1. GrantsAreOld'
  BY <1>0 DEF ConnectionInv, GrantsAreOld, IssuedBefore
<1>2. HoldersAreAtWork'
  <2>1. \A a \in Early' : held'[a] = NoToken /\ \A s \in saving' : s.by # a
    BY <1>0 DEF ConnectionInv, HoldersAreAtWork, Early, Clients
  <2>2. \A r \in (Asking \cup Refused)' : held'[r] # NoToken
    BY <1>0 DEF ConnectionInv, HoldersAreAtWork, Asking, Refused, Clients
  <2>3. expiredBy' # Nobody => expiredBy' \in Over' /\ held'[expiredBy'] = NoToken
    BY <1>0 DEF ConnectionInv, HoldersAreAtWork, Over, Clients
  <2> QED
    BY <2>1, <2>2, <2>3 DEF ConnectionInv, HoldersAreAtWork
<1>3. HeldIsCurrent' /\ SavedIsCurrent'
  BY <1>0, ConnectionTypes DEF ConnectionInv, HeldIsCurrent, SavedIsCurrent
<1>4. RefusedIsDead'
  <2>1. c \notin Refused
    BY <1>0 DEF ConnectionInv, HoldersAreAtWork
  <2> QED
    BY <1>0, <2>1 DEF ConnectionInv, RefusedIsDead, Refused, Clients
<1>5. ExpiredIsDead' /\ DisconnectedIsEmpty' /\ GrantIsKept'
  BY <1>0 DEF ConnectionInv, ExpiredIsDead, DisconnectedIsEmpty, GrantIsKept
<1> QED
  BY <1>1, <1>2, <1>3, <1>4, <1>5 DEF ConnectionInv

(* A client is through with its grant.                                     *)
LEMMA ReleasesKeeps ==
  ASSUME IntegrationsTypeOK, ConnectionInv, NEW c \in Clients, Release(c),
         UNCHANGED <<row, valid, issued, saving, late, expiredBy, lost>>,
         Forward, c \notin Asking', c \notin Refused'
  PROVE  ConnectionInv'
<1>0. held'[c] = NoToken /\ \A a \in Clients \ {c} : held'[a] = held[a]
  BY ConnectionTypes DEF Release
<1>1. GrantsAreOld'
  BY <1>0 DEF ConnectionInv, GrantsAreOld, IssuedBefore
<1>2. HoldersAreAtWork'
  <2>1. \A a \in Early' : held'[a] = NoToken /\ \A s \in saving' : s.by # a
    BY <1>0 DEF ConnectionInv, HoldersAreAtWork, Early, Clients, Forward
  <2>2. \A r \in (Asking \cup Refused)' : held'[r] # NoToken
    BY <1>0 DEF ConnectionInv, HoldersAreAtWork, Asking, Refused, Clients, Forward
  <2>3. expiredBy' # Nobody => expiredBy' \in Over' /\ held'[expiredBy'] = NoToken
    BY <1>0 DEF ConnectionInv, HoldersAreAtWork, Over, Clients, Forward
  <2> QED
    BY <2>1, <2>2, <2>3 DEF ConnectionInv, HoldersAreAtWork
<1>3. HeldIsCurrent' /\ SavedIsCurrent'
  BY <1>0, ConnectionTypes DEF ConnectionInv, HeldIsCurrent, SavedIsCurrent
<1>4. RefusedIsDead'
  BY <1>0 DEF ConnectionInv, RefusedIsDead, Refused, Clients, Forward
<1>5. DisconnectedIsEmpty'
  <2>1. Working' \subseteq Working
    BY <1>0 DEF Working
  <2> QED
    BY <2>1 DEF ConnectionInv, DisconnectedIsEmpty
<1>6. ExpiredIsDead' /\ GrantIsKept'
  BY DEF ConnectionInv, ExpiredIsDead, GrantIsKept
<1> QED
  BY <1>1, <1>2, <1>3, <1>4, <1>5, <1>6 DEF ConnectionInv

(* Who is not at work has nothing, and every client at work is late when   *)
(* someone else changes the row.                                           *)
LEMMA AtWork ==
  /\ \A c \in Clients : held[c] # NoToken => c \in Working
  /\ \A s \in saving : s.by \in Working
  BY DEF Working

steady == <<held, saving, expiredBy>>

LEMMA ConnectsKeeps ==
  ASSUME IntegrationsTypeOK, ConnectionInv, Forward, UNCHANGED steady,
         issued < MaxTokens, issued' = issued + 1, valid' = valid \cup {issued'},
         row' = [status |-> "CONNECTED", access |-> issued', refresh |-> issued'],
         late' = late \cup Working, lost' = FALSE
  PROVE  ConnectionInv'
<1> DEFINE n == issued + 1
<1>0. /\ UNCHANGED <<held, saving, expiredBy>> /\ issued' = n /\ valid' = valid \cup {n}
      /\ row'.refresh = n /\ row'.access = n /\ row'.status = "CONNECTED"
  BY DEF steady
<1>1. /\ n \in Tokens /\ n # NoToken /\ n \notin valid
      /\ \A c \in Clients : held[c] # n /\ \A s \in saving : s.refresh # n
  BY NewGrant DEF ConnectionInv
<1>2. GrantsAreOld'
  <2>1. issued \in Nat /\ issued' = issued + 1
    BY ConnectionTypes
  <2>2. \A t \in Token : IssuedBefore(t) => t = NoToken \/ t <= issued'
    BY NewGrant DEF ConnectionInv
  <2>3. \A t \in valid' : t <= issued'
    BY <1>0, <2>1, ConnectionTypes DEF ConnectionInv, GrantsAreOld, Tokens
  <2>4. \A c \in Clients : held[c] = NoToken \/ held[c] <= issued'
    BY <2>2, ConnectionTypes DEF ConnectionInv, GrantsAreOld
  <2>5. \A s \in saving : s.refresh = NoToken \/ s.refresh <= issued'
    BY <2>2, ConnectionTypes DEF ConnectionInv, GrantsAreOld
  <2> QED
    BY <1>0, <2>1, <2>3, <2>4, <2>5 DEF GrantsAreOld, IssuedBefore
<1> HIDE DEF n
<1>3. HoldersAreAtWork'
  BY <1>0 DEF ConnectionInv, HoldersAreAtWork, Forward
<1>4. \A c \in Clients \ late' : held[c] = NoToken /\ \A s \in saving : s.by # c
  BY AtWork
<1>5. HeldIsCurrent' /\ SavedIsCurrent' /\ ExpiredIsDead' /\ DisconnectedIsEmpty'
  BY <1>0, <1>4, ConnectionTypes DEF HeldIsCurrent, SavedIsCurrent, ExpiredIsDead, DisconnectedIsEmpty
<1>6. RefusedIsDead'
  BY <1>0, <1>4, ConnectionTypes DEF ConnectionInv, RefusedIsDead, HoldersAreAtWork, Forward, Clients, Refused
<1>7. GrantIsKept'
  BY <1>0, AtWork DEF GrantIsKept
<1> QED
  BY <1>2, <1>3, <1>5, <1>6, <1>7 DEF ConnectionInv

LEMMA DisconnectsKeeps ==
  ASSUME IntegrationsTypeOK, ConnectionInv, Forward, UNCHANGED <<steady, valid, issued, lost>>,
         row' = [status |-> "DISCONNECTED", access |-> NoToken, refresh |-> NoToken],
         late' = late \cup Working
  PROVE  ConnectionInv'
<1>0. /\ UNCHANGED <<held, saving, expiredBy, valid, issued, lost>>
      /\ row'.refresh = NoToken /\ row'.access = NoToken /\ row'.status = "DISCONNECTED"
  BY DEF steady
<1>1. GrantsAreOld'
  BY <1>0 DEF ConnectionInv, GrantsAreOld, IssuedBefore
<1>2. HoldersAreAtWork'
  BY <1>0 DEF ConnectionInv, HoldersAreAtWork, Forward
<1>3. \A c \in Clients \ late' : held[c] = NoToken /\ \A s \in saving : s.by # c
  BY AtWork
<1>4. HeldIsCurrent' /\ SavedIsCurrent' /\ ExpiredIsDead'
  BY <1>0, <1>3, ConnectionTypes DEF HeldIsCurrent, SavedIsCurrent, ExpiredIsDead
<1>5. RefusedIsDead'
  BY <1>0, <1>3, ConnectionTypes DEF ConnectionInv, RefusedIsDead, HoldersAreAtWork, Forward, Clients, Refused
<1>6. DisconnectedIsEmpty'
  <2>1. Working' = Working
    BY <1>0 DEF Working
  <2> QED
    BY <1>0, <2>1 DEF DisconnectedIsEmpty
<1>7. GrantIsKept'
  <2>1. late' = {} => late = {}
    OBVIOUS
  <2> QED
    BY <1>0, <2>1 DEF ConnectionInv, GrantIsKept
<1> QED
  BY <1>1, <1>2, <1>4, <1>5, <1>6, <1>7 DEF ConnectionInv

LEMMA WithdrawsKeeps ==
  ASSUME IntegrationsTypeOK, ConnectionInv, Forward, UNCHANGED <<steady, row, issued, late>>,
         valid' = {}, lost' = TRUE
  PROVE  ConnectionInv'
<1>0. UNCHANGED <<held, saving, expiredBy, row, issued, late>>
  BY DEF steady
<1>1. GrantsAreOld'
  BY <1>0 DEF ConnectionInv, GrantsAreOld, IssuedBefore
<1>2. HoldersAreAtWork'
  BY <1>0 DEF ConnectionInv, HoldersAreAtWork, Forward
<1>3. HeldIsCurrent' /\ SavedIsCurrent' /\ ExpiredIsDead' /\ RefusedIsDead'
  BY <1>0 DEF ConnectionInv, HeldIsCurrent, SavedIsCurrent, ExpiredIsDead, RefusedIsDead
<1>4. DisconnectedIsEmpty' /\ GrantIsKept'
  BY <1>0 DEF ConnectionInv, DisconnectedIsEmpty, GrantIsKept, Working
<1> QED
  BY <1>1, <1>2, <1>3, <1>4 DEF ConnectionInv

(* A run is refused: with a dead grant, or for its quota, and late.        *)
LEMMA RefusalKeeps ==
  ASSUME IntegrationsTypeOK, ConnectionInv, UNCHANGED <<steady, row, valid, issued, lost>>,
         NEW r \in Asking, late' = IF Accepted(r) THEN late \cup {r} ELSE late,
         Early' \subseteq Early, Asking' \subseteq Asking, Refused' \subseteq Refused \cup {r}, Over \subseteq Over'
  PROVE  ConnectionInv'
<1>0. /\ UNCHANGED <<held, saving, expiredBy, row, valid, issued, lost>> /\ late \subseteq late'
  BY DEF steady
<1>1. GrantsAreOld'
  BY <1>0 DEF ConnectionInv, GrantsAreOld, IssuedBefore
<1>2. HoldersAreAtWork'
  BY <1>0 DEF ConnectionInv, HoldersAreAtWork
<1>3. HeldIsCurrent' /\ SavedIsCurrent' /\ ExpiredIsDead'
  BY <1>0 DEF ConnectionInv, HeldIsCurrent, SavedIsCurrent, ExpiredIsDead
<1>4. RefusedIsDead'
  BY <1>0 DEF ConnectionInv, RefusedIsDead, Accepted
<1>5. DisconnectedIsEmpty' /\ GrantIsKept'
  BY <1>0 DEF ConnectionInv, DisconnectedIsEmpty, GrantIsKept, Working
<1> QED
  BY <1>1, <1>2, <1>3, <1>4, <1>5 DEF ConnectionInv

(* EXPIRED is written by a run that was refused.                           *)
LEMMA ExpiresKeeps ==
  ASSUME IntegrationsTypeOK, ConnectionInv, NEW r \in Refused, Mark(r, "EXPIRED"), Release(r),
         UNCHANGED <<valid, issued, saving, late, lost>>,
         Forward, r \in Over', r \notin Asking', r \notin Refused'
  PROVE  ConnectionInv'
<1>0. /\ r \in Clients /\ r # Nobody /\ held[r] # NoToken
      /\ held'[r] = NoToken /\ \A a \in Clients \ {r} : held'[a] = held[a]
      /\ row'.status = "EXPIRED" /\ row'.refresh = row.refresh /\ expiredBy' = r
      /\ \A s \in saving : s.by \in Clients
  BY ConnectionTypes DEF Release, Refused, Clients, Mark, RowType, ConnectionInv, HoldersAreAtWork
<1>1. GrantsAreOld'
  BY <1>0 DEF ConnectionInv, GrantsAreOld, IssuedBefore
<1>2. HoldersAreAtWork'
  <2>1. \A a \in Early' : held'[a] = NoToken /\ \A s \in saving' : s.by # a
    BY <1>0 DEF ConnectionInv, HoldersAreAtWork, Early, Clients, Forward
  <2>2. \A a \in (Asking \cup Refused)' : held'[a] # NoToken
    BY <1>0 DEF ConnectionInv, HoldersAreAtWork, Asking, Refused, Clients, Forward
  <2> QED
    BY <1>0, <2>1, <2>2 DEF ConnectionInv, HoldersAreAtWork
<1>3. HeldIsCurrent' /\ SavedIsCurrent'
  BY <1>0 DEF ConnectionInv, HeldIsCurrent, SavedIsCurrent
<1>4. RefusedIsDead'
  BY <1>0 DEF ConnectionInv, RefusedIsDead, Refused, Clients, Forward
<1>5. ExpiredIsDead'
  <2>1. r \notin late => held[r] \notin valid
    BY DEF ConnectionInv, RefusedIsDead
  <2>2. r \notin late => row.refresh # NoToken /\ row.refresh \notin valid
    BY <1>0, <2>1 DEF ConnectionInv, HeldIsCurrent
  <2>3. \A s \in saving : s.by = r /\ r \notin late /\ s.refresh # NoToken => s.refresh \notin valid
    BY <1>0, <2>1 DEF ConnectionInv, SavedIsCurrent
  <2> QED
    BY <1>0, <2>2, <2>3 DEF ExpiredIsDead
<1>6. DisconnectedIsEmpty' /\ GrantIsKept'
  BY <1>0 DEF ConnectionInv, DisconnectedIsEmpty, GrantIsKept
<1> QED
  BY <1>1, <1>2, <1>3, <1>4, <1>5, <1>6 DEF ConnectionInv

(* ERROR is written by one that holds nothing.                             *)
LEMMA ErrsKeeps ==
  ASSUME IntegrationsTypeOK, ConnectionInv, NEW c, Mark(c, "ERROR"),
         UNCHANGED <<valid, issued, held, saving, late, lost>>, Forward
  PROVE  ConnectionInv'
<1>0. row'.status = "ERROR" /\ row'.refresh = row.refresh /\ expiredBy' = expiredBy
  BY ConnectionTypes DEF Mark, RowType
<1>1. GrantsAreOld'
  BY <1>0 DEF ConnectionInv, GrantsAreOld, IssuedBefore
<1>2. HoldersAreAtWork'
  BY <1>0 DEF ConnectionInv, HoldersAreAtWork, Forward
<1>3. HeldIsCurrent' /\ SavedIsCurrent' /\ RefusedIsDead'
  BY <1>0 DEF ConnectionInv, HeldIsCurrent, SavedIsCurrent, RefusedIsDead, Forward
<1>4. ExpiredIsDead' /\ DisconnectedIsEmpty' /\ GrantIsKept'
  BY <1>0 DEF ConnectionInv, ExpiredIsDead, DisconnectedIsEmpty, GrantIsKept
<1> QED
  BY <1>1, <1>2, <1>3, <1>4 DEF ConnectionInv

(* The access token alone is renewed.                                      *)
LEMMA AccessRenewedKeeps ==
  ASSUME IntegrationsTypeOK, ConnectionInv, Forward, NEW c \in Clients, Accepted(c), held[c] # NoToken,
         \A s \in saving : s.by # c,
         saving' = saving \cup {[by |-> c, access |-> held[c], refresh |-> NoToken]},
         UNCHANGED <<row, valid, issued, held, late, expiredBy, lost>>
  PROVE  ConnectionInv'
<1> DEFINE x == [by |-> c, access |-> held[c], refresh |-> NoToken]
<1>0. x.by = c /\ x.refresh = NoToken /\ saving' = saving \cup {x}
  OBVIOUS
<1> HIDE DEF x
<1>1. GrantsAreOld'
  BY <1>0 DEF ConnectionInv, GrantsAreOld, IssuedBefore
<1>2. HoldersAreAtWork'
  BY <1>0 DEF ConnectionInv, HoldersAreAtWork, Forward
<1>3. HeldIsCurrent' /\ SavedIsCurrent' /\ ExpiredIsDead' /\ RefusedIsDead'
  BY <1>0 DEF ConnectionInv, HeldIsCurrent, SavedIsCurrent, ExpiredIsDead, RefusedIsDead, Forward
<1>4. Working' = Working
  BY <1>0 DEF Working
<1>5. DisconnectedIsEmpty' /\ GrantIsKept'
  BY <1>0, <1>4 DEF ConnectionInv, DisconnectedIsEmpty, GrantIsKept
<1> QED
  BY <1>1, <1>2, <1>3, <1>5 DEF ConnectionInv

(* The grant is renewed: the old one is dead.                              *)
LEMMA GrantRenewedKeeps ==
  ASSUME IntegrationsTypeOK, ConnectionInv, Forward, NEW c \in Clients, Accepted(c), held[c] # NoToken,
         \A s \in saving : s.by # c,
         issued < MaxTokens, issued' = issued + 1, valid' = (valid \ {held[c]}) \cup {issued'},
         held' = [held EXCEPT ![c] = issued'],
         saving' = saving \cup {[by |-> c, access |-> issued', refresh |-> issued']},
         late' = late \cup (Working \ {c}),
         UNCHANGED <<row, expiredBy, lost>>
  PROVE  ConnectionInv'
<1> DEFINE n == issued + 1
           x == [by |-> c, access |-> n, refresh |-> n]
<1>0. /\ x.by = c /\ x.refresh = n /\ saving' = saving \cup {x}
      /\ issued' = n /\ valid' = (valid \ {held[c]}) \cup {n}
      /\ held'[c] = n /\ \A a \in Clients \ {c} : held'[a] = held[a]
      /\ \A s \in saving : s.by \in Clients
  BY ConnectionTypes
<1>1. /\ n \in Tokens /\ n # NoToken /\ n \notin valid /\ row.refresh # n
      /\ \A a \in Clients : held[a] # n /\ \A s \in saving : s.refresh # n
  BY NewGrant DEF ConnectionInv
<1>2. GrantsAreOld'
  <2>1. issued \in Nat /\ issued' = issued + 1 /\ n <= issued'
    BY ConnectionTypes
  <2>2. \A t \in Token : IssuedBefore(t) => t = NoToken \/ t <= issued'
    BY NewGrant DEF ConnectionInv
  <2>3. \A t \in valid' : t <= issued'
    BY <1>0, <2>1, ConnectionTypes DEF ConnectionInv, GrantsAreOld, Tokens
  <2>4. \A a \in Clients : held'[a] = NoToken \/ held'[a] <= issued'
    <3>1. \A a \in Clients : held[a] = NoToken \/ held[a] <= issued'
      BY <2>2, ConnectionTypes DEF ConnectionInv, GrantsAreOld
    <3> HIDE DEF n, x
    <3> QED
      BY <1>0, <2>1, <3>1
  <2>5. \A s \in saving' : s.refresh = NoToken \/ s.refresh <= issued'
    <3>1. \A s \in saving : s.refresh = NoToken \/ s.refresh <= issued'
      BY <2>2, ConnectionTypes DEF ConnectionInv, GrantsAreOld
    <3> HIDE DEF n, x
    <3> QED
      BY <1>0, <2>1, <3>1
  <2>6. row.refresh = NoToken \/ row.refresh <= issued'
    BY <2>2, ConnectionTypes DEF ConnectionInv, GrantsAreOld
  <2> QED
    BY <1>0, <2>1, <2>3, <2>4, <2>5, <2>6 DEF GrantsAreOld, IssuedBefore
<1> HIDE DEF n, x
<1>3. c \notin Early /\ c # expiredBy
  BY ConnectionTypes DEF ConnectionInv, HoldersAreAtWork
<1>4. HoldersAreAtWork'
  <2>1. \A a \in Early' : held'[a] = NoToken /\ \A s \in saving' : s.by # a
    BY <1>0, <1>3 DEF ConnectionInv, HoldersAreAtWork, Early, Clients, Forward
  <2>2. \A a \in (Asking \cup Refused)' : held'[a] # NoToken
    BY <1>0, <1>1 DEF ConnectionInv, HoldersAreAtWork, Asking, Refused, Clients, Forward
  <2>3. expiredBy' # Nobody => expiredBy' \in Over' /\ held'[expiredBy'] = NoToken
    BY <1>0, <1>3 DEF ConnectionInv, HoldersAreAtWork, Over, Clients, Forward
  <2>4. \A s, t \in saving' : s.by = t.by => s = t
    BY <1>0 DEF ConnectionInv, HoldersAreAtWork
  <2> QED
    BY <2>1, <2>2, <2>3, <2>4 DEF HoldersAreAtWork
<1>5. \A a \in Clients \ late' : a # c => held[a] = NoToken /\ \A s \in saving : s.by # a
  BY AtWork
<1>6. HeldIsCurrent'
  <2>1. c \notin late' => row.refresh # NoToken /\ row.refresh \notin valid'
    BY <1>0, <1>1 DEF ConnectionInv, HeldIsCurrent
  <2> QED
    BY <1>0, <1>5, <2>1 DEF HeldIsCurrent
<1>7. SavedIsCurrent'
  BY <1>0, <1>5, ConnectionTypes DEF SavedIsCurrent
<1>8. RefusedIsDead'
  <2>1. c \in Refused => c \in late
    BY DEF ConnectionInv, RefusedIsDead, Accepted
  <2>2. \A a \in Refused \ late' : a # c /\ a \in Clients
    BY <2>1 DEF Refused, Clients
  <2> QED
    BY <1>5, <2>2 DEF ConnectionInv, HoldersAreAtWork, RefusedIsDead, Forward
<1>9. ExpiredIsDead'
  <2>1. row.refresh \in valid' \cup {NoToken} => row.refresh \in valid \cup {NoToken}
    BY <1>0, <1>1
  <2>2. \A s \in saving : s.refresh \in valid' => s.refresh \in valid
    BY <1>0, <1>1
  <2>3. late \subseteq late'
    OBVIOUS
  <2> QED
    BY <1>0, <1>3, <2>1, <2>2, <2>3 DEF ConnectionInv, ExpiredIsDead
<1>10. DisconnectedIsEmpty'
  <2>1. c \in Working /\ late \subseteq late'
    BY AtWork
  <2> QED
    BY <2>1 DEF ConnectionInv, DisconnectedIsEmpty
<1>11. GrantIsKept'
  <2>1. late' = {} => saving = {}
    <3>1. late' = {} => Working \subseteq {c}
      OBVIOUS
    <3> QED
      BY <3>1, AtWork
  <2> QED
    BY <1>0, <1>1, <2>1 DEF GrantIsKept
<1> QED
  BY <1>2, <1>4, <1>6, <1>7, <1>8, <1>9, <1>10, <1>11 DEF ConnectionInv

(* Renewed tokens are saved, perhaps once more later, or lost.             *)
LEMMA SaveLosesKeeps ==
  ASSUME IntegrationsTypeOK, ConnectionInv, Forward, NEW s \in saving,
         lost' = TRUE, saving' = saving \ {s},
         UNCHANGED <<row, valid, issued, held, late, expiredBy>>
  PROVE  ConnectionInv'
<1>1. GrantsAreOld'
  BY DEF ConnectionInv, GrantsAreOld, IssuedBefore
<1>2. HoldersAreAtWork'
  BY DEF ConnectionInv, HoldersAreAtWork, Forward
<1>3. HeldIsCurrent' /\ SavedIsCurrent' /\ ExpiredIsDead' /\ RefusedIsDead'
  BY DEF ConnectionInv, HeldIsCurrent, SavedIsCurrent, ExpiredIsDead, RefusedIsDead, Forward
<1>4. Working' \subseteq Working
  BY DEF Working
<1>5. DisconnectedIsEmpty' /\ GrantIsKept'
  BY <1>4 DEF ConnectionInv, DisconnectedIsEmpty, GrantIsKept
<1> QED
  BY <1>1, <1>2, <1>3, <1>5 DEF ConnectionInv

LEMMA SavesKeeps ==
  ASSUME IntegrationsTypeOK, ConnectionInv, Forward, NEW s \in saving,
         row' = Saved(s), saving' \in {saving, saving \ {s}},
         late' = late \cup ((Working \cup {expiredBy}) \ {s.by, Nobody}),
         UNCHANGED <<valid, issued, held, expiredBy, lost>>
  PROVE  ConnectionInv'
<1>0. /\ s.by \in Clients /\ s.refresh \in Token
      /\ row'.status = row.status /\ row'.access = s.access
      /\ row'.refresh = IF s.refresh = NoToken THEN row.refresh ELSE s.refresh
      /\ saving' \subseteq saving /\ late \subseteq late' /\ s.by # Nobody
  BY ConnectionTypes DEF Saved, RowType
<1>1. GrantsAreOld'
  BY <1>0 DEF ConnectionInv, GrantsAreOld, IssuedBefore
<1>2. HoldersAreAtWork'
  BY <1>0 DEF ConnectionInv, HoldersAreAtWork, Forward
<1>3. \A c \in Clients \ late' : c # s.by => held[c] = NoToken /\ \A t \in saving : t.by # c
  BY AtWork, ConnectionTypes
<1>4. HeldIsCurrent'
  <2>1. ASSUME s.by \notin late', held[s.by] # NoToken
        PROVE  row'.refresh # NoToken /\ (row'.refresh = held[s.by] \/ row'.refresh \notin valid)
    <3>1. s.by \notin late
      BY <1>0, <2>1
    <3>2. row.refresh # NoToken /\ (row.refresh = held[s.by] \/ row.refresh \notin valid)
      BY <1>0, <2>1, <3>1 DEF ConnectionInv, HeldIsCurrent
    <3>3. s.refresh # NoToken => s.refresh = held[s.by] \/ s.refresh \notin valid
      BY <2>1, <3>1 DEF ConnectionInv, SavedIsCurrent
    <3> QED
      BY <1>0, <3>2, <3>3
  <2> QED
    BY <1>3, <2>1 DEF HeldIsCurrent
<1>5. SavedIsCurrent' /\ RefusedIsDead'
  BY <1>0 DEF ConnectionInv, SavedIsCurrent, RefusedIsDead, Forward
<1>6. ExpiredIsDead'
  <2>1. \A t \in saving' : t.by = expiredBy /\ t.by \notin late' /\ t.refresh # NoToken => t.refresh \notin valid
    BY <1>0 DEF ConnectionInv, ExpiredIsDead
  <2>2. ASSUME row.status = "EXPIRED", expiredBy \notin late', row'.refresh \in valid \cup {NoToken}
        PROVE  FALSE
    <3>1. expiredBy # Nobody /\ expiredBy \notin late /\ row.refresh \notin valid \cup {NoToken}
      BY <1>0, <2>2 DEF ConnectionInv, ExpiredIsDead
    <3>2. expiredBy = s.by
      BY <2>2, <3>1
    <3>3. s.refresh # NoToken => s.refresh \notin valid
      BY <3>1, <3>2 DEF ConnectionInv, ExpiredIsDead
    <3> QED
      BY <1>0, <2>2, <3>1, <3>3
  <2>3. row.status = "EXPIRED" => expiredBy # Nobody
    BY DEF ConnectionInv, ExpiredIsDead
  <2> QED
    BY <1>0, <2>1, <2>2, <2>3 DEF ExpiredIsDead
<1>7. DisconnectedIsEmpty'
  <2>1. row.status = "DISCONNECTED" => late # {}
    BY AtWork DEF ConnectionInv, DisconnectedIsEmpty
  <2> QED
    BY <1>0, <2>1 DEF DisconnectedIsEmpty
<1>8. GrantIsKept'
  <2> SUFFICES ASSUME late' = {}, ~lost
               PROVE  /\ \A t \in saving' : t.refresh # NoToken => t.refresh \in valid
                      /\ row.status = "CONNECTED" /\ (\A t \in saving' : t.refresh = NoToken) =>
                           row'.refresh \in valid
    BY <1>0 DEF GrantIsKept
  <2>1. late = {}
    BY <1>0
  <2>2. \A t \in saving : t.refresh # NoToken => t.refresh \in valid
    BY <2>1 DEF ConnectionInv, GrantIsKept
  <2>3. \A t \in saving : t = s
    <3>1. \A t \in saving : t.by = s.by
      BY <1>3, ConnectionTypes
    <3> QED
      BY <3>1 DEF ConnectionInv, HoldersAreAtWork
  <2>4. row.status = "CONNECTED" /\ s.refresh = NoToken => row.refresh \in valid
    BY <2>1, <2>3 DEF ConnectionInv, GrantIsKept
  <2> QED
    BY <1>0, <2>2, <2>4
<1> QED
  BY <1>1, <1>2, <1>4, <1>5, <1>6, <1>7, <1>8 DEF ConnectionInv

-----------------------------------------------------------------------------
(* Letters *)

LEMMA LetterMoves ==
  ASSUME IntegrationsTypeOK, LetterInv, NEW l \in Letters, NEW y \in LetterType, LetterOK(y),
         letter' = [letter EXCEPT ![l] = y]
  PROVE  LetterInv' /\ letter' \in [Letters -> LetterType]
<1>1. letter \in [Letters -> LetterType]
  BY ConnectionTypes
<1>2. letter'[l] = y /\ \A k \in Letters \ {l} : letter'[k] = letter[k]
  BY <1>1
<1>3. LetterInv'
  BY <1>2 DEF LetterInv, LetterOK
<1> QED
  BY <1>1, <1>3

LEMMA LetterBecomes ==
  ASSUME IntegrationsTypeOK, LetterInv, NEW l \in Letters, letter[l].pc = "sending",
         NEW pc \in {"sending", "sent", "failed"}, NEW d \in {0, 1}, NEW t \in {0, 1}, Becoming(l, pc, d, t),
         pc = "sending" => letter[l].tries + 1 < Attempts /\ (d = 1 => t = 1),
         pc = "sent" => d = 1 /\ t = 0, pc = "failed" => d = t
  PROVE  LetterInv' /\ letter' \in [Letters -> LetterType]
<1> DEFINE x == letter[l]
           y == Tried(x, pc, d, t)
<1>1. /\ x \in LetterType /\ x.tries \in Nat /\ x.delivered \in Nat /\ x.timeouts \in Nat
      /\ x.tries < Attempts /\ x.delivered <= x.timeouts /\ x.timeouts <= x.tries /\ Attempts \in Nat
  BY ConnectionTypes, IntegrationsAssumption DEF LetterInv, LetterOK, LetterType, Counts
<1>2. letter' = [letter EXCEPT ![l] = y]
  BY DEF Becoming
<1>3. /\ x.tries + 1 \in Counts /\ x.delivered + d \in Counts /\ x.timeouts + t \in Counts /\ pc \in LetterSteps
      /\ pc = "sending" => x.tries + 1 < Attempts /\ x.delivered + d <= x.timeouts + t /\ x.timeouts + t <= x.tries + 1
      /\ pc = "sent" => 1 <= x.delivered + d /\ x.delivered + d <= 1 + (x.timeouts + t)
      /\ pc = "failed" => x.delivered + d <= x.timeouts + t
  <2> HIDE DEF x
  <2> QED
    BY <1>1 DEF Counts, LetterSteps, x
<1>4. /\ y \in LetterType /\ y.pc = pc /\ y.tries = x.tries + 1 /\ y.delivered = x.delivered + d
      /\ y.timeouts = x.timeouts + t
  <2> HIDE DEF x
  <2> QED
    BY <1>1, <1>3 DEF Tried, LetterType
<1> HIDE DEF x, y
<1>5. LetterOK(y)
  BY <1>3, <1>4 DEF LetterOK
<1> QED
  BY <1>2, <1>4, <1>5, LetterMoves

LEMMA TryKeepsLetters ==
  ASSUME IntegrationsTypeOK, LetterInv, NEW l \in Letters, Try(l)
  PROVE  /\ LetterInv' /\ letter' \in [Letters -> LetterType]
         /\ UNCHANGED held \/ Release(l)
         /\ \A k \in Letters : letter[k].pc \notin {"new", "erring"} \/ letter[k].pc = letter'[k].pc
         /\ \A k \in Letters : letter'[k].pc \notin {"new", "erring"} \/ letter[k].pc = letter'[k].pc
<1>0. letter[l].pc = "sending"
  BY DEF Try
<1>1. PICK pc \in {"sending", "sent", "failed"}, d \in {0, 1}, t \in {0, 1} :
        /\ Becoming(l, pc, d, t)
        /\ pc = "sending" => letter[l].tries + 1 < Attempts /\ (d = 1 => t = 1)
        /\ pc = "sent" => d = 1 /\ t = 0
        /\ pc = "failed" => d = t
  BY DEF Try, Answered
<1>2. LetterInv' /\ letter' \in [Letters -> LetterType]
  BY <1>0, <1>1, LetterBecomes
<1>3. UNCHANGED held \/ Release(l)
  BY DEF Try, Answered
<1>4. /\ letter'[l].pc = pc /\ \A k \in Letters \ {l} : letter'[k] = letter[k]
  BY <1>1, ConnectionTypes DEF Becoming, Tried, LetterType
<1> QED
  BY <1>0, <1>2, <1>3, <1>4

(* A letter that ends without a try, or starts *)
LEMMA LetterStepped ==
  ASSUME IntegrationsTypeOK, LetterInv, NEW l \in Letters, NEW pc \in {"sending", "failed", "erring"},
         letter[l].pc \in {"new", "erring"}, letter' = [letter EXCEPT ![l].pc = pc]
  PROVE  /\ LetterInv' /\ letter' \in [Letters -> LetterType]
         /\ letter'[l].pc = pc /\ \A k \in Letters \ {l} : letter'[k] = letter[k]
<1> DEFINE y == [letter[l] EXCEPT !.pc = pc]
<1>1. letter' = [letter EXCEPT ![l] = y]
  OBVIOUS
<1>2. /\ letter[l] \in LetterType /\ letter \in [Letters -> LetterType]
      /\ letter[l].tries = 0 /\ letter[l].delivered = 0 /\ letter[l].timeouts = 0
  BY ConnectionTypes DEF LetterInv, LetterOK
<1>3. /\ y \in LetterType /\ y.pc = pc /\ y.tries = 0 /\ y.delivered = 0 /\ y.timeouts = 0
  BY <1>2 DEF LetterType, LetterSteps
<1> HIDE DEF y
<1>4. LetterOK(y)
  BY <1>3, IntegrationsAssumption DEF LetterOK
<1> QED
  BY <1>1, <1>2, <1>3, <1>4, LetterMoves

-----------------------------------------------------------------------------
(* Steps of the owner, of the background and of the letters *)

ConsentSteps == {"new", "issued", "verified", "ended"}
Browsers == Consents \cup {Nobody}
Changes == 0 .. MaxChanges
Grants == 0 .. MaxTokens

LEMMA TypesBack ==
  ASSUME row' \in RowType, valid' \subseteq Tokens, issued' \in Grants, cookie' \in Browsers,
         consent' \in [Consents -> ConsentSteps], held' \in [Clients -> Token], saving' \subseteq Saving,
         changes' \in Changes, late' \subseteq Clients, expiredBy' \in Marker, lost' \in BOOLEAN,
         letter' \in [Letters -> LetterType]
  PROVE  IntegrationsTypeOK'
  BY DEF IntegrationsTypeOK, RowType, Statuses, Grants, Browsers, ConsentSteps, Changes, Marker, LetterType,
         LetterSteps, Counts

LEMMA OtherTypes ==
  ASSUME IntegrationsTypeOK
  PROVE  /\ issued \in Grants /\ cookie \in Browsers /\ consent \in [Consents -> ConsentSteps]
         /\ changes \in Changes /\ Consents \subseteq Browsers /\ Nobody \in Browsers
         /\ Working \subseteq Clients
         /\ changes < MaxChanges => changes + 1 \in Changes
         /\ issued < MaxTokens => issued + 1 \in Grants /\ issued + 1 \in Tokens
  BY IntegrationsAssumption
     DEF IntegrationsTypeOK, Grants, Browsers, ConsentSteps, Changes, Tokens, Working, Saving

Joined == IntegrationsTypeOK /\ ConnectionInv /\ LetterInv

(* work and letter as they are: nobody starts again.                       *)
LEMMA StillForward ==
  ASSUME work' = work, \A l \in Letters : letter'[l].pc \in {"new", "erring"} => letter[l].pc \in {"new", "erring"}
  PROVE  Forward
  BY DEF Forward, Early, Asking, Refused, Over, At

LEMMA OwnerKeeps ==
  ASSUME Joined, Owner, UNCHANGED intakeVars
  PROVE  Joined'
<1>0. /\ IntegrationsTypeOK /\ ConnectionInv /\ LetterInv /\ work' = work
      /\ row \in RowType /\ valid \subseteq Tokens /\ held \in [Clients -> Token] /\ saving \subseteq Saving
      /\ late \subseteq Clients /\ expiredBy \in Marker /\ lost \in BOOLEAN /\ letter \in [Letters -> LetterType]
  BY ConnectionTypes DEF Joined, intakeVars, workVars
<1>1. Forward /\ letter' = letter
  <2>1. letter' = letter
    BY DEF Owner, IssueState, Callback, Connect, Disconnect, Withdraw
  <2> QED
    BY <1>0, <2>1, StillForward
<1>2. LetterInv'
  BY <1>0, <1>1 DEF LetterInv, LetterOK
<1>3. ASSUME NEW k \in Consents, IssueState(k)
      PROVE  IntegrationsTypeOK' /\ ConnectionInv'
  <2>1. UNCHANGED <<row, valid, issued, changes, held, saving, late, expiredBy, lost>>
    BY <1>3 DEF IssueState, googleVars
  <2>2. cookie' \in Browsers /\ consent' \in [Consents -> ConsentSteps]
    BY <1>3, <1>0, OtherTypes DEF IssueState, ConsentSteps
  <2> QED
    BY <1>0, <1>1, <2>1, <2>2, OtherTypes, TypesBack, RestsKeeps DEF connection
<1>4. ASSUME NEW k \in Consents, Callback(k)
      PROVE  IntegrationsTypeOK' /\ ConnectionInv'
  <2>1. UNCHANGED <<row, valid, issued, changes, held, saving, late, expiredBy, lost>>
    BY <1>4 DEF Callback, googleVars
  <2>2. cookie' \in Browsers /\ consent' \in [Consents -> ConsentSteps]
    BY <1>4, <1>0, OtherTypes DEF Callback, ConsentSteps
  <2> QED
    BY <1>0, <1>1, <2>1, <2>2, OtherTypes, TypesBack, RestsKeeps DEF connection
<1>5. ASSUME NEW k \in Consents, Connect(k)
      PROVE  IntegrationsTypeOK' /\ ConnectionInv'
  <2>1. consent' \in [Consents -> ConsentSteps] /\ UNCHANGED <<changes, held, saving, expiredBy>>
    BY <1>5, <1>0, OtherTypes DEF Connect, ConsentSteps
  <2>2. CASE UNCHANGED <<googleVars, row, late, cookie, lost>>
    <3>1. UNCHANGED <<valid, issued, row, late, cookie, lost>>
      BY <2>2 DEF googleVars
    <3> QED
      BY <1>0, <1>1, <2>1, <3>1, OtherTypes, TypesBack, RestsKeeps DEF connection
  <2>3. CASE /\ issued < MaxTokens
             /\ issued' = issued + 1
             /\ valid' = valid \cup {issued'}
             /\ row' = [status |-> "CONNECTED", access |-> issued', refresh |-> issued']
             /\ late' = late \cup Working
             /\ cookie' = Nobody /\ lost' = FALSE
    <3>1. ConnectionInv'
      BY <1>0, <1>1, <2>1, <2>3, ConnectsKeeps DEF steady
    <3>2. /\ issued' \in Grants /\ issued' \in Tokens /\ Working \subseteq Clients /\ Nobody \in Browsers
          /\ issued' \in Token
      BY <1>0, <2>3, OtherTypes, ConnectionTypes
    <3>3. row' \in RowType
      BY <2>3, <3>2 DEF RowType, Statuses
    <3>4. IntegrationsTypeOK'
      BY <1>0, <1>1, <2>1, <2>3, <3>2, <3>3, OtherTypes, TypesBack
    <3> QED
      BY <3>1, <3>4
  <2> QED
    BY <1>5, <2>2, <2>3 DEF Connect
<1>6. ASSUME Disconnect
      PROVE  IntegrationsTypeOK' /\ ConnectionInv'
  <2>1. /\ changes < MaxChanges /\ changes' = changes + 1
        /\ row' = [status |-> "DISCONNECTED", access |-> NoToken, refresh |-> NoToken]
        /\ late' = late \cup Working
        /\ UNCHANGED <<valid, issued, cookie, consent, held, saving, expiredBy, lost>>
    BY <1>6 DEF Disconnect, googleVars
  <2>2. ConnectionInv'
    BY <1>0, <1>1, <2>1, DisconnectsKeeps DEF steady
  <2>3. row' \in RowType
    BY <1>0, <2>1, ConnectionTypes DEF RowType, Statuses
  <2> QED
    BY <1>0, <1>1, <2>1, <2>2, <2>3, OtherTypes, TypesBack
<1>7. ASSUME Withdraw
      PROVE  IntegrationsTypeOK' /\ ConnectionInv'
  <2>1. /\ changes < MaxChanges /\ changes' = changes + 1 /\ valid' = {} /\ lost' = TRUE
        /\ UNCHANGED <<row, issued, cookie, consent, held, saving, late, expiredBy>>
    BY <1>7 DEF Withdraw
  <2>2. ConnectionInv'
    BY <1>0, <1>1, <2>1, WithdrawsKeeps DEF steady
  <2> QED
    BY <1>0, <1>1, <2>1, <2>2, OtherTypes, TypesBack
<1> QED
  BY <1>2, <1>3, <1>4, <1>5, <1>6, <1>7 DEF Owner, Joined

LEMMA BackgroundKeeps ==
  ASSUME Joined, Background, UNCHANGED intakeVars
  PROVE  Joined'
<1>0. /\ IntegrationsTypeOK /\ ConnectionInv /\ LetterInv /\ work' = work
      /\ row \in RowType /\ valid \subseteq Tokens /\ held \in [Clients -> Token] /\ saving \subseteq Saving
      /\ late \subseteq Clients /\ expiredBy \in Marker /\ lost \in BOOLEAN /\ letter \in [Letters -> LetterType]
  BY ConnectionTypes DEF Joined, intakeVars, workVars
<1>1. Forward /\ letter' = letter
  <2>1. letter' = letter
    BY DEF Background, Renew, Save
  <2> QED
    BY <1>0, <2>1, StillForward
<1>2. LetterInv'
  BY <1>0, <1>1 DEF LetterInv, LetterOK
<1>3. ASSUME NEW c \in Clients, Renew(c)
      PROVE  IntegrationsTypeOK' /\ ConnectionInv'
  <2>1. /\ held[c] # NoToken /\ Accepted(c) /\ (\A s \in saving : s.by # c)
        /\ changes < MaxChanges /\ changes' = changes + 1
        /\ UNCHANGED <<row, cookie, consent, expiredBy, lost>>
    BY <1>3 DEF Renew
  <2>2. held[c] \in Tokens
    BY <1>0, <2>1 DEF Accepted
  <2>3. CASE /\ saving' = saving \cup {[by |-> c, access |-> held[c], refresh |-> NoToken]}
             /\ UNCHANGED <<googleVars, held, late>>
    <3>1. UNCHANGED <<valid, issued, held, late>>
      BY <2>3 DEF googleVars
    <3>2. ConnectionInv'
      BY <1>0, <1>1, <2>1, <2>3, <3>1, AccessRenewedKeeps
    <3>3. saving' \subseteq Saving
      BY <1>0, <2>2, <2>3, ConnectionTypes DEF Saving
    <3> QED
      BY <1>0, <1>1, <2>1, <3>1, <3>2, <3>3, OtherTypes, TypesBack
  <2>4. CASE /\ issued < MaxTokens
             /\ issued' = issued + 1
             /\ valid' = (valid \ {held[c]}) \cup {issued'}
             /\ held' = [held EXCEPT ![c] = issued']
             /\ saving' = saving \cup {[by |-> c, access |-> issued', refresh |-> issued']}
             /\ late' = late \cup (Working \ {c})
    <3>1. ConnectionInv'
      BY <1>0, <1>1, <2>1, <2>4, GrantRenewedKeeps
    <3>2. issued' \in Grants /\ issued' \in Tokens /\ Working \subseteq Clients /\ issued' \in Token
      BY <1>0, <2>4, OtherTypes, ConnectionTypes
    <3>3. saving' \subseteq Saving
      BY <1>0, <2>4, <3>2 DEF Saving
    <3>4. held' \in [Clients -> Token]
      BY <1>0, <2>4, <3>2
    <3>5. valid' \subseteq Tokens /\ late' \subseteq Clients
      BY <1>0, <2>4, <3>2
    <3> QED
      BY <1>0, <1>1, <2>1, <3>1, <3>2, <3>3, <3>4, <3>5, OtherTypes, TypesBack
  <2> QED
    BY <1>3, <2>3, <2>4 DEF Renew
<1>4. ASSUME NEW s \in saving, Save(s)
      PROVE  IntegrationsTypeOK' /\ ConnectionInv'
  <2>1. UNCHANGED <<valid, issued, cookie, consent, changes, held, expiredBy>>
    BY <1>4 DEF Save, googleVars, ownerVars
  <2>2. CASE /\ row' = Saved(s) /\ saving' \in {saving, saving \ {s}} /\ UNCHANGED lost
             /\ late' = late \cup ((Working \cup {expiredBy}) \ {s.by, Nobody})
    <3>1. ConnectionInv'
      BY <1>0, <1>1, <2>1, <2>2, SavesKeeps
    <3>2. row' \in RowType
      BY <1>0, <2>2, ConnectionTypes DEF Saved, RowType
    <3>3. saving' \subseteq Saving /\ late' \subseteq Clients
      BY <1>0, <2>2, OtherTypes DEF Marker
    <3> QED
      BY <1>0, <1>1, <2>1, <2>2, <3>1, <3>2, <3>3, OtherTypes, TypesBack
  <2>3. CASE lost' = TRUE /\ saving' = saving \ {s} /\ UNCHANGED <<row, late>>
    <3>1. ConnectionInv'
      BY <1>0, <1>1, <2>1, <2>3, SaveLosesKeeps
    <3> QED
      BY <1>0, <1>1, <2>1, <2>3, <3>1, OtherTypes, TypesBack
  <2> QED
    BY <1>4, <2>2, <2>3 DEF Save
<1> QED
  BY <1>2, <1>3, <1>4 DEF Background, Joined

LEMMA MailingKeeps ==
  ASSUME Joined, Mailing, UNCHANGED intakeVars
  PROVE  Joined'
<1>0. /\ IntegrationsTypeOK /\ ConnectionInv /\ LetterInv /\ work' = work
      /\ row \in RowType /\ valid \subseteq Tokens /\ held \in [Clients -> Token] /\ saving \subseteq Saving
      /\ late \subseteq Clients /\ expiredBy \in Marker /\ lost \in BOOLEAN /\ letter \in [Letters -> LetterType]
      /\ Runs \cap Letters = {} /\ Letters \subseteq Clients
  BY ConnectionTypes DEF Joined, intakeVars, workVars, Clients
<1>1. ASSUME NEW l \in Letters, LetterStarts(l)
      PROVE  Joined'
  <2>1. /\ UNCHANGED <<row, valid, issued, cookie, consent, changes, saving, late, expiredBy, lost>>
        /\ letter[l].pc = "new"
    BY <1>1 DEF LetterStarts, googleVars, ownerVars
  <2>2. PICK pc \in {"sending", "failed", "erring"} :
          letter' = [letter EXCEPT ![l].pc = pc] /\ (pc = "sending" => Acquire(l)) /\ (pc # "sending" => UNCHANGED held)
    BY <1>1 DEF LetterStarts
  <2>3. /\ LetterInv' /\ letter' \in [Letters -> LetterType]
        /\ letter'[l].pc = pc /\ \A k \in Letters \ {l} : letter'[k] = letter[k]
    BY <1>0, <2>1, <2>2, LetterStepped
  <2>4. Forward
    BY <1>0, <2>1, <2>3, StillForward
  <2>5. held' \in [Clients -> Token]
    BY <1>0, <2>2, ConnectionTypes DEF Acquire
  <2>6. IntegrationsTypeOK'
    BY <1>0, <2>1, <2>3, <2>5, OtherTypes, TypesBack
  <2>7. CASE pc = "sending"
    <3>1. l \in Early /\ l \notin Early' /\ l \notin Over
      BY <1>0, <2>1, <2>3, <2>7 DEF Early, Over
    <3>2. Early' \subseteq Early \ {l} /\ Asking' \subseteq Asking \cup {l} /\ Refused' \subseteq Refused /\ Over \subseteq Over'
      BY <2>4, <3>1 DEF Forward
    <3>3. ConnectionInv'
      BY <1>0, <2>1, <2>2, <2>7, <3>1, <3>2, AcquiresKeeps
    <3> QED
      BY <2>3, <2>6, <3>3 DEF Joined
  <2>8. CASE pc # "sending"
    BY <1>0, <2>1, <2>2, <2>3, <2>4, <2>6, <2>8, RestsKeeps DEF Joined, connection
  <2> QED
    BY <2>7, <2>8
<1>2. ASSUME NEW l \in Letters, LetterErrs(l)
      PROVE  Joined'
  <2>1. /\ UNCHANGED <<valid, issued, cookie, consent, changes, held, saving, late, lost>>
        /\ letter[l].pc = "erring" /\ letter' = [letter EXCEPT ![l].pc = "failed"] /\ Mark(l, "ERROR")
    BY <1>2 DEF LetterErrs, googleVars, ownerVars
  <2>2. /\ LetterInv' /\ letter' \in [Letters -> LetterType]
        /\ letter'[l].pc = "failed" /\ \A k \in Letters \ {l} : letter'[k] = letter[k]
    BY <1>0, <2>1, LetterStepped
  <2>3. Forward
    BY <1>0, <2>2, StillForward
  <2>4. ConnectionInv'
    BY <1>0, <2>1, <2>3, ErrsKeeps
  <2>5. row' \in RowType /\ expiredBy' = expiredBy
    BY <1>0, <2>1 DEF Mark, RowType, Statuses
  <2> QED
    BY <1>0, <2>1, <2>2, <2>4, <2>5, OtherTypes, TypesBack DEF Joined
<1>3. ASSUME NEW l \in Letters, Try(l)
      PROVE  Joined'
  <2>1. UNCHANGED <<row, valid, issued, cookie, consent, changes, saving, late, expiredBy, lost>>
    BY <1>3 DEF Try, googleVars, ownerVars
  <2>2. /\ LetterInv' /\ letter' \in [Letters -> LetterType] /\ (UNCHANGED held \/ Release(l))
        /\ \A k \in Letters : letter'[k].pc \notin {"new", "erring"} \/ letter[k].pc = letter'[k].pc
    BY <1>0, <1>3, TryKeepsLetters
  <2>3. Forward
    BY <1>0, <2>2, StillForward
  <2>4. held' \in [Clients -> Token]
    BY <1>0, <2>2, ConnectionTypes DEF Release
  <2>5. l \notin Asking' /\ l \notin Refused'
    BY <1>0 DEF Asking, Refused
  <2>6. ConnectionInv'
    BY <1>0, <2>1, <2>2, <2>3, <2>5, RestsKeeps, ReleasesKeeps DEF connection
  <2> QED
    BY <1>0, <2>1, <2>2, <2>4, <2>6, OtherTypes, TypesBack DEF Joined
<1> QED
  BY <1>1, <1>2, <1>3 DEF Mailing

-----------------------------------------------------------------------------
(* The mails: types, and the steps most actions have in common *)

Held == Mails \cup {Nobody}
WorkType == [pc : Steps, mail : Held]
Dates == Times \cup {Never, Absent}
Marks == Times \cup {Never}
Todos == SUBSET Mails
SyncType == [since : Marks, started : Times, todo : Todos, cut : BOOLEAN]
Sources == {"gmail", "hook"} \X Mails
Rivals == SUBSET Creators
CustomerType == [by : Creators \cup {Nobody}, exact : BOOLEAN, rivals : Rivals]
CustomerRows == Seq(CustomerType)
Fetchable == 0 .. Cardinality(Mails)

IntakeInv == Joined /\ MailInv

LEMMA MailTypes ==
  ASSUME MailInv
  PROVE  /\ maxFetch \in Fetchable /\ now \in Times /\ date \in [Mails -> Dates] /\ unread \subseteq Mails
         /\ watermark \in Marks /\ work \in [Workers -> WorkType] /\ sync \in [Runs -> SyncType]
         /\ tasks \subseteq Sources /\ customers \in CustomerRows /\ spent \in Nat /\ failed \subseteq Mails
         /\ Runs \subseteq Workers /\ Drops \subseteq Workers /\ Mails \subseteq Held
         /\ Ingesting \subseteq Steps
         /\ \A pc \in {"idle", "connecting", "erring", "fetching", "expiring", "looping", "ended"} : pc \in Steps
  BY DEF MailInv, TypeOK, WorkOK, Dates, Marks, WorkType, Steps, SyncType, Todos, Sources, CustomerType, CustomerRows, Rivals,
         Fetchable, Held, Workers

LEMMA MailTypesBack ==
  ASSUME IntegrationsTypeOK', maxFetch' \in Fetchable, now' \in Times, date' \in [Mails -> Dates],
         unread' \subseteq Mails, watermark' \in Marks, work' \in [Workers -> WorkType],
         sync' \in [Runs -> SyncType], tasks' \subseteq Sources, customers' \in CustomerRows,
         spent' \in Nat, failed' \subseteq Mails
  PROVE  TypeOK'
<1>1. \A w \in Workers : work'[w].mail \in Held /\ work'[w].pc \in Steps
  BY DEF WorkType
<1> QED
  BY <1>1 DEF TypeOK, Dates, Marks, Steps, SyncType, Todos, Sources, CustomerType, CustomerRows, Rivals, Fetchable, Held

(* A worker goes on with the mail it has, or with another.                 *)
LEMMA Worked ==
  ASSUME MailInv, NEW w \in Workers, NEW q \in Steps
  PROVE  /\ Goes(w, q) => /\ work' \in [Workers -> WorkType]
                          /\ work'[w].pc = q /\ work'[w].mail = work[w].mail
                          /\ \A v \in Workers \ {w} : work'[v] = work[v]
         /\ \A m \in Held : work' = [work EXCEPT ![w] = [pc |-> q, mail |-> m]] =>
              /\ work' \in [Workers -> WorkType]
              /\ work'[w].pc = q /\ work'[w].mail = m
              /\ \A v \in Workers \ {w} : work'[v] = work[v]
<1>1. work \in [Workers -> WorkType] /\ work[w] \in WorkType
  BY MailTypes
<1>2. ASSUME NEW m \in Held, work' = [work EXCEPT ![w] = [pc |-> q, mail |-> m]]
      PROVE  /\ work' \in [Workers -> WorkType]
             /\ work'[w].pc = q /\ work'[w].mail = m
             /\ \A v \in Workers \ {w} : work'[v] = work[v]
  <2>1. [pc |-> q, mail |-> m] \in WorkType
    BY DEF WorkType
  <2> QED
    BY <1>1, <1>2, <2>1
<1>3. ASSUME Goes(w, q)
      PROVE  /\ work' \in [Workers -> WorkType]
             /\ work'[w].pc = q /\ work'[w].mail = work[w].mail
             /\ \A v \in Workers \ {w} : work'[v] = work[v]
  <2>1. [work[w] EXCEPT !.pc = q] \in WorkType
    BY <1>1 DEF WorkType
  <2>2. [work[w] EXCEPT !.pc = q].pc = q /\ [work[w] EXCEPT !.pc = q].mail = work[w].mail
    BY <1>1 DEF WorkType
  <2>3. work' = [work EXCEPT ![w] = [work[w] EXCEPT !.pc = q]]
    BY <1>3 DEF Goes
  <2> QED
    BY <1>1, <2>1, <2>2, <2>3
<1> QED
  BY <1>2, <1>3

(* Where a worker goes, the connection sees only whether a run starts.     *)
LEMMA WorkersForward ==
  ASSUME letter' = letter, NEW w \in Workers, \A v \in Workers \ {w} : work'[v] = work[v],
         w \in Runs => /\ work'[w].pc \in {"idle", "connecting", "erring"} =>
                            work[w].pc \in {"idle", "connecting", "erring"}
                       /\ work'[w].pc = "fetching" => work[w].pc = "fetching"
                       /\ work'[w].pc = "expiring" => work[w].pc = "expiring"
                       /\ work[w].pc = "ended" => work'[w].pc = "ended"
  PROVE  Forward
<1>1. Runs \subseteq Workers
  BY DEF Workers
<1> QED
  BY <1>1 DEF Forward, Early, Asking, Refused, Over, At

LEMMA JoinedStays ==
  ASSUME Joined, Forward, UNCHANGED integrationVars
  PROVE  Joined'
<1>1. UNCHANGED <<row, valid, issued, cookie, consent, changes, held, saving, late, expiredBy, lost, letter>>
  BY DEF integrationVars, connectionVars, googleVars, ownerVars
<1>2. IntegrationsTypeOK'
  BY <1>1 DEF Joined, IntegrationsTypeOK
<1>3. ConnectionInv'
  BY <1>1, RestsKeeps DEF Joined, connection
<1>4. LetterInv'
  BY <1>1 DEF Joined, LetterInv, LetterOK
<1> QED
  BY <1>2, <1>3, <1>4 DEF Joined

(* What was handled stays so.                                              *)
Grows == tasks \subseteq tasks' /\ failed \subseteq failed' /\ unread' \subseteq unread
LEMMA HandledStays ==
  ASSUME Grows, NEW m, Handled(m)
  PROVE  Handled(m)'
  BY DEF Grows, Handled

LEMMA PassedStays ==
  ASSUME PassedIsHandled, Grows, UNCHANGED <<watermark, date>>, \A r \in Runs : sync'[r].since = sync[r].since
  PROVE  PassedIsHandled'
  BY HandledStays DEF PassedIsHandled, Before, Arrived

LEMMA RunStays ==
  ASSUME RunHasAll, Grows, UNCHANGED date,
         \A r \in Loop' : /\ r \in Loop /\ sync'[r] = sync[r]
                          /\ work[r].pc \in Ingesting =>
                               /\ work'[r].mail = work[r].mail
                               /\ work'[r].pc \in Ingesting \/ Handled(work[r].mail)'
  PROVE  RunHasAll'
<1> SUFFICES ASSUME NEW m \in Mails, NEW r \in Loop', ~sync'[r].cut, Before(m, sync[r].started)'
             PROVE  \/ Handled(m)' \/ m \in sync'[r].todo
                    \/ (work'[r].pc \in Ingesting /\ work'[r].mail = m)
  BY DEF RunHasAll
<1>1. r \in Loop /\ sync'[r] = sync[r]
  OBVIOUS
<1>2. ~sync[r].cut /\ Before(m, sync[r].started)
  BY <1>1 DEF Before, Arrived
<1>3. Handled(m) \/ m \in sync[r].todo \/ (work[r].pc \in Ingesting /\ work[r].mail = m)
  BY <1>1, <1>2 DEF RunHasAll
<1>4. Handled(m) => Handled(m)'
  BY HandledStays
<1>5. work[r].pc \in Ingesting =>
        work'[r].mail = work[r].mail /\ (work'[r].pc \in Ingesting \/ Handled(work[r].mail)')
  OBVIOUS
<1>6. ASSUME work[r].pc \in Ingesting, work[r].mail = m
      PROVE  Handled(m)' \/ (work'[r].pc \in Ingesting /\ work'[r].mail = m)
  <2>1. CASE Handled(work[r].mail)'
    BY <1>6, <2>1 DEF Handled
  <2> QED
    BY <1>5, <1>6, <2>1
<1> QED
  BY <1>1, <1>3, <1>4, <1>6

LEMMA RivalsStay ==
  ASSUME RivalsAreKnown, UNCHANGED customers,
         \A w \in Workers : work'[w].pc = "creating" => work'[w] = work[w]
  PROVE  RivalsAreKnown'
  BY DEF RivalsAreKnown, CustomersAreShared, Unknown, Ingest, At

(* A new row is one that nobody who is creating another knows of, and one  *)
(* that an ingest creates is of one that knew of none.                     *)
LEMMA RivalsGrow ==
  ASSUME MailInv, NEW by \in Creators \cup {Nobody}, NEW exact \in BOOLEAN, Created(by, exact),
         \A w \in Workers : work'[w].pc = "creating" => work'[w] = work[w],
         by # Nobody => \A j \in DOMAIN customers : customers[j].exact => Unknown(j, by)
  PROVE  RivalsAreKnown' /\ customers' \in CustomerRows
<1> DEFINE creating == {w \in Workers : At(w, "creating")}
           rivals == {Ingest(w) : w \in creating}
           new == [by |-> by, exact |-> exact, rivals |-> rivals]
           n == Len(customers)
<1>1. customers \in Seq(CustomerType) /\ customers' = Append(customers, new)
  BY MailTypes DEF Created, CustomerRows
<1>2. \A w \in Workers : Ingest(w) \in Creators
  BY MailTypes DEF Ingest, Creators, WorkType, Held
<1>3. new \in CustomerType /\ new.by = by /\ new.rivals = rivals
  <2>1. rivals \in Rivals
    BY <1>2 DEF Rivals
  <2> HIDE DEF rivals
  <2> QED
    BY <2>1 DEF CustomerType
<1>4. SearchLimit \in Nat
  BY IntakeAssumption
<1> HIDE DEF new
<1>5. /\ n \in Nat /\ DOMAIN customers = 1 .. n /\ DOMAIN customers' = 1 .. n + 1 /\ Len(customers') = n + 1
      /\ customers'[n + 1] = new /\ \A j \in 1 .. n : customers'[j] = customers[j]
      /\ customers' \in Seq(CustomerType)
  BY <1>1, <1>3
<1>6. \A b : \A j \in 1 .. n : Unknown(j, b) => Unknown(j, b)'
  BY <1>4, <1>5 DEF Unknown
<1>7. ASSUME NEW w \in Workers, At(w, "creating")', NEW j \in DOMAIN customers', customers'[j].exact
      PROVE  Unknown(j, Ingest(w))'
  <2>1. w \in creating /\ Ingest(w)' = Ingest(w)
    BY <1>7 DEF At, Ingest
  <2>2. CASE j \in 1 .. n
    <3>1. Unknown(j, Ingest(w))
      BY <1>5, <1>7, <2>1, <2>2 DEF MailInv, RivalsAreKnown
    <3> QED
      BY <1>6, <2>1, <2>2, <3>1 DEF Unknown
  <2>3. CASE j = n + 1
    <3>1. Ingest(w) \in rivals
      BY <2>1
    <3> HIDE DEF rivals
    <3> QED
      BY <1>3, <1>5, <2>1, <2>3, <3>1 DEF Unknown
  <2> QED
    BY <1>5, <1>7, <2>2, <2>3
<1>8. CustomersAreShared'
  <2> SUFFICES ASSUME NEW j \in 1 .. n + 1, NEW k \in 1 .. n + 1, j < k, customers'[j].exact, customers'[k].by # Nobody
               PROVE  customers'[k].by \in customers'[j].rivals \/ k - j > SearchLimit
    BY <1>5 DEF CustomersAreShared
  <2>1. j \in 1 .. n /\ customers'[j] = customers[j]
    BY <1>5
  <2>2. CASE k \in 1 .. n
    <3>1. CustomersAreShared
      BY DEF MailInv, RivalsAreKnown
    <3> QED
      BY <1>5, <2>1, <2>2, <3>1 DEF CustomersAreShared
  <2>3. CASE k = n + 1
    <3>1. Unknown(j, by)
      BY <1>3, <1>5, <2>1, <2>3
    <3> QED
      BY <1>3, <1>4, <1>5, <2>1, <2>3, <3>1 DEF Unknown
  <2> QED
    BY <1>5, <2>2, <2>3
<1> QED
  BY <1>5, <1>7, <1>8 DEF RivalsAreKnown, CustomerRows

LEMMA BegunFacts ==
  ASSUME MailInv
  PROVE  /\ Calling \subseteq Begun /\ IsFiniteSet(Begun) /\ IsFiniteSet(Calling)
         /\ Cardinality(Begun) \in Nat /\ Cardinality(Calling) \in Nat /\ Cardinality(Calling) <= Cardinality(Begun)
         /\ Begun # {} => Cardinality(Begun) > 0
         /\ spent \in Nat /\ Budget \in Nat
<1>1. Calling \subseteq Begun
  BY IntakeAssumption DEF MailInv, WorkOK, Calling, Begun, At, Ingesting
<1>2. IsFiniteSet(Begun)
  <2>1. IsFiniteSet(Workers) /\ Begun \subseteq Workers
    BY IntakeAssumption DEF Workers, Begun
  <2> QED
    BY <2>1, FS_Subset
<1>3. IsFiniteSet(Calling) /\ Cardinality(Calling) <= Cardinality(Begun)
  BY <1>1, <1>2, FS_Subset
<1>4. Cardinality(Begun) \in Nat /\ Cardinality(Calling) \in Nat
  BY <1>2, <1>3, FS_CardinalityType
<1>5. Begun # {} => Cardinality(Begun) # 0
  BY <1>2, FS_EmptySet
<1> QED
  BY <1>1, <1>2, <1>3, <1>4, <1>5, IntakeAssumption DEF MailInv, TypeOK

SpentFits == Begun # {} => spent + Cardinality(Calling) < Budget + Cardinality(Begun)
LEMMA SpentIs == SpentIsBounded <=> SpentFits
  BY DEF SpentIsBounded, SpentFits, Calling, Begun

(* The sum stays; those that call become fewer, those that began more.     *)
LEMMA SpentStays ==
  ASSUME MailInv, UNCHANGED spent, Calling' \subseteq Calling, Begun \subseteq Begun', Begun' \subseteq Workers
  PROVE  SpentInv'
<1> DEFINE b == Cardinality(Begun)
           c == Cardinality(Calling)
           B == Cardinality(Begun')
           C == Cardinality(Calling')
<1>1. /\ b \in Nat /\ c \in Nat /\ spent \in Nat /\ Budget \in Nat /\ c <= b
      /\ IsFiniteSet(Calling) /\ Calling \subseteq Begun
  BY BegunFacts
<1>2. C \in Nat /\ C <= c
  BY <1>1, FS_Subset, FS_CardinalityType
<1>3. IsFiniteSet(Begun') /\ B \in Nat /\ b <= B /\ (Begun' # {} => B # 0)
  <2>1. IsFiniteSet(Workers)
    BY IntakeAssumption DEF Workers
  <2> QED
    BY <2>1, FS_Subset, FS_CardinalityType, FS_EmptySet
<1>4. Begun = {} => spent = 0 /\ c = 0
  BY <1>1, FS_EmptySet DEF MailInv, SpentInv
<1>5. Begun # {} => spent + c < Budget + b
  BY SpentIs DEF MailInv, SpentInv, SpentFits
<1>6. Begun' # {} => spent + C < Budget + B
  <2> HIDE DEF b, c, B, C
  <2> QED
    BY <1>1, <1>2, <1>3, <1>4, <1>5
<1>7. SpentIsBounded'
  <2>1. SpentFits'
    BY <1>6 DEF SpentFits
  <2> QED
    BY <2>1, SpentIs, PTL
<1>8. Begun' = {} => spent' = 0
  BY <1>4
<1> QED
  BY <1>7, <1>8 DEF SpentInv

(* A call is made within the budget, or ends and is charged or not.        *)
LEMMA SpentAsks ==
  ASSUME MailInv, UNCHANGED spent, Affordable, Begun' = Begun, Calling' \subseteq Begun, Begun # {}
  PROVE  SpentInv'
<1>1. IsFiniteSet(Begun) /\ Cardinality(Begun) \in Nat /\ spent \in Nat /\ Budget \in Nat
  BY BegunFacts
<1>2. Cardinality(Calling') \in Nat /\ Cardinality(Calling') <= Cardinality(Begun)
  BY <1>1, FS_Subset, FS_CardinalityType
<1>3. spent + Cardinality(Calling') < Budget + Cardinality(Begun)
  <2> DEFINE b == Cardinality(Begun)
             C == Cardinality(Calling')
  <2> HIDE DEF b, C
  <2>1. b \in Nat /\ C \in Nat /\ C <= b /\ spent < Budget
    BY <1>1, <1>2 DEF Affordable, b, C
  <2>2. spent + C < Budget + b
    BY <1>1, <2>1
  <2> QED
    BY <2>2 DEF b, C
<1>4. SpentFits'
  BY <1>3 DEF SpentFits
<1>5. SpentIsBounded'
  BY <1>4, SpentIs, PTL
<1> QED
  BY <1>5 DEF SpentInv

LEMMA SpentPays ==
  ASSUME MailInv, spent' \in {spent, spent + 1}, Begun' = Begun, NEW w \in Calling, Calling' = Calling \ {w}
  PROVE  SpentInv'
<1>1. /\ IsFiniteSet(Calling) /\ Cardinality(Calling) \in Nat /\ Cardinality(Begun) \in Nat
      /\ spent \in Nat /\ Budget \in Nat /\ Begun # {}
  BY BegunFacts
<1>2. Cardinality(Calling') = Cardinality(Calling) - 1
  BY <1>1, FS_RemoveElement
<1>3. spent + Cardinality(Calling) < Budget + Cardinality(Begun)
  BY <1>1, SpentIs DEF MailInv, SpentInv, SpentFits
<1>4. spent' + Cardinality(Calling') < Budget + Cardinality(Begun)
  <2> DEFINE b == Cardinality(Begun)
             c == Cardinality(Calling)
             C == Cardinality(Calling')
  <2> HIDE DEF b, c, C
  <2>1. b \in Nat /\ c \in Nat /\ C = c - 1 /\ spent + c < Budget + b
    BY <1>1, <1>2, <1>3 DEF b, c, C
  <2>2. spent \in Nat /\ Budget \in Nat
    BY <1>1
  <2>3. spent' \in Nat /\ spent' <= spent + 1
    BY <2>2
  <2>4. spent' + C < Budget + b
    <3>1. C \in Int /\ spent + C < Budget + b /\ spent + 1 + C < Budget + b
      BY <2>1, <2>2
    <3>2. CASE spent' = spent
      BY <3>1, <3>2
    <3>3. CASE spent' = spent + 1
      BY <3>1, <3>3
    <3> QED
      BY <3>2, <3>3
  <2> QED
    BY <2>4 DEF b, C
<1>5. SpentFits'
  BY <1>4 DEF SpentFits
<1>6. SpentIsBounded'
  BY <1>5, SpentIs, PTL
<1> QED
  BY <1>1, <1>6 DEF SpentInv

-----------------------------------------------------------------------------
(* Steps of an ingest *)

LEMMA IngestMoves ==
  ASSUME IntakeInv, NEW w \in Workers, work[w].pc \in Ingesting,
         NEW q \in Ingesting \cup {AfterIngest(w)}, Goes(w, q), UNCHANGED scene,
         tasks \subseteq tasks', tasks' \subseteq Sources, failed \subseteq failed', failed' \subseteq Mails,
         customers' \in CustomerRows, spent' \in Nat,
         q \notin Ingesting /\ w \in Runs => Handled(work[w].mail)',
         RivalsAreKnown', SpentInv'
  PROVE  IntakeInv'
<1>0. /\ Joined /\ MailInv /\ UNCHANGED <<mailVars, watermark, sync, integrationVars>>
      /\ UNCHANGED <<maxFetch, now, date, unread>>
  BY DEF IntakeInv, scene, mailVars
<1>1. q \in Steps
  BY DEF AfterIngest, Steps
<1>2. /\ work' \in [Workers -> WorkType] /\ work'[w].pc = q /\ work'[w].mail = work[w].mail
      /\ \A v \in Workers \ {w} : work'[v] = work[v]
  BY <1>0, <1>1, Worked
<1>3. Forward
  <2>1. letter' = letter
    BY <1>0 DEF integrationVars
  <2>2. w \in Runs => q \in Ingesting \cup {"looping"}
    BY DEF AfterIngest
  <2> QED
    BY <1>2, <2>1, <2>2, WorkersForward DEF Ingesting
<1>4. Joined'
  BY <1>0, <1>3, JoinedStays
<1>5. TypeOK'
  BY <1>0, <1>2, <1>4, MailTypes, MailTypesBack DEF Joined
<1>6. WorkOK'
  <2>1. work'[w].mail \in Mails
    BY <1>0, <1>2 DEF MailInv, WorkOK
  <2>2. \A v \in Workers : work'[v].pc \in Ingesting => work'[v].mail \in Mails
    BY <1>0, <1>2, <2>1 DEF MailInv, WorkOK
  <2> QED
    BY <1>0, <1>2, <2>2 DEF MailInv, WorkOK, Arrived, WorkType, Held
<1>7. Grows
  BY <1>0 DEF Grows
<1>8. PassedIsHandled'
  BY <1>0, <1>7, PassedStays DEF MailInv
<1>9. RunHasAll'
  <2>1. ASSUME NEW r \in Loop'
        PROVE  /\ r \in Loop /\ sync'[r] = sync[r]
               /\ work[r].pc \in Ingesting =>
                    /\ work'[r].mail = work[r].mail
                    /\ work'[r].pc \in Ingesting \/ Handled(work[r].mail)'
    <3>1. r \in Runs /\ r \in Workers
      BY DEF Loop, Workers
    <3>2. CASE r = w
      BY <1>0, <1>2, <3>1, <3>2 DEF Loop
    <3>3. CASE r # w
      <4>1. work'[r] = work[r]
        BY <1>2, <3>1, <3>3
      <4> QED
        BY <1>0, <3>1, <4>1 DEF Loop
    <3> QED
      BY <3>2, <3>3
  <2> QED
    BY <1>0, <1>7, <2>1, RunStays DEF MailInv
<1> QED
  BY <1>4, <1>5, <1>6, <1>8, <1>9 DEF IntakeInv, MailInv

(* Where a worker goes, seen from the sums *)
LEMMA WorkedSums ==
  ASSUME MailInv, NEW w \in Workers, NEW q \in Steps, Goes(w, q)
  PROVE  /\ Begun' = Begun /\ Begun' \subseteq Workers
         /\ q # "calling" => Calling' = Calling \ {w}
         /\ q = "calling" => Calling' = Calling \cup {w}
         /\ q # "creating" => \A v \in Workers : work'[v].pc = "creating" => work'[v] = work[v]
<1>1. /\ work'[w].pc = q /\ work'[w].mail = work[w].mail
      /\ \A v \in Workers \ {w} : work'[v] = work[v]
  BY Worked
<1> QED
  BY <1>1 DEF Begun, Calling, At

LEMMA PlainMoves ==
  ASSUME IntakeInv, NEW w \in Workers, NEW q \in Steps, Goes(w, q), q \notin {"calling", "creating"},
         UNCHANGED <<customers, spent>>
  PROVE  RivalsAreKnown' /\ SpentInv'
<1>1. MailInv /\ RivalsAreKnown
  BY DEF IntakeInv, MailInv
<1>2. /\ Begun' = Begun /\ Begun' \subseteq Workers /\ Calling' \subseteq Calling
      /\ \A v \in Workers : work'[v].pc = "creating" => work'[v] = work[v]
  BY <1>1, WorkedSums
<1> QED
  BY <1>1, <1>2, SpentStays, RivalsStay

LEMMA SourceIsOne ==
  ASSUME IntakeInv, NEW w \in Workers, work[w].pc \in Ingesting
  PROVE  /\ Source(w) \in Sources /\ work[w].mail \in Mails
         /\ w \in Runs => Source(w) = <<"gmail", work[w].mail>>
  BY DEF IntakeInv, MailInv, WorkOK, Source, Sources, Channel

LEMMA IngestsKeeps ==
  ASSUME IntakeInv, NEW w \in Workers,
         Checks(w) \/ Resolves(w) \/ Creates(w) \/ Classifies(w) \/ Calls(w) \/ Inserts(w) \/ IngestFails(w)
  PROVE  IntakeInv'
<1>0. /\ MailInv /\ tasks \subseteq Sources /\ customers \in CustomerRows /\ spent \in Nat
      /\ failed \subseteq Mails /\ AfterIngest(w) \in Steps \ {"calling", "creating"}
      /\ {"checking", "resolving", "creating", "classifying", "calling", "inserting"} \subseteq Steps
      /\ AfterIngest(w) \notin Ingesting
  BY MailTypes DEF IntakeInv, AfterIngest, Ingesting
<1>1. CASE Checks(w)
  <2>1. work[w].pc \in Ingesting /\ UNCHANGED <<scene, tasks, customers, spent, failed>>
    BY <1>1 DEF Checks, At, Ingesting
  <2>2. CASE Source(w) \in tasks
    <3>1. Goes(w, AfterIngest(w))
      BY <1>1, <2>2 DEF Checks, Ingested
    <3>2. work'[w].mail = work[w].mail
      BY <1>0, <3>1, Worked
    <3>3. w \in Runs => Handled(work[w].mail)'
      BY <2>1, <2>2, <3>2, SourceIsOne DEF Handled
    <3> QED
      BY <1>0, <2>1, <3>1, <3>3, PlainMoves, IngestMoves
  <2>3. CASE Source(w) \notin tasks
    <3>1. Goes(w, "resolving") /\ "resolving" \in Ingesting
      BY <1>1, <2>3 DEF Checks, Ingesting
    <3> QED
      BY <1>0, <2>1, <3>1, PlainMoves, IngestMoves
  <2> QED
    BY <2>2, <2>3
<1>2. CASE Resolves(w)
  <2>1. work[w].pc \in Ingesting /\ UNCHANGED <<scene, tasks, customers, spent, failed>>
    BY <1>2 DEF Resolves, At, Ingesting
  <2>2. CASE Known
    <3>1. Goes(w, "classifying") /\ "classifying" \in Ingesting
      BY <1>2, <2>2 DEF Resolves, Ingesting
    <3> QED
      BY <1>0, <2>1, <3>1, PlainMoves, IngestMoves
  <2>3. CASE ~Known
    <3>1. Goes(w, "creating") /\ "creating" \in Ingesting
      BY <1>2, <2>3 DEF Resolves, Ingesting
    <3>4. \A j \in DOMAIN customers : customers[j].exact => j + SearchLimit <= Len(customers)
      <4>1. \A j \in DOMAIN customers : j \in Nat /\ Len(customers) \in Nat /\ SearchLimit \in Nat
        BY <1>0, IntakeAssumption DEF CustomerRows
      <4> QED
        BY <2>3, <4>1 DEF Known
    <3>2. RivalsAreKnown'
      <4>1. RivalsAreKnown /\ UNCHANGED customers
        BY <1>0, <2>1 DEF MailInv
      <4>2. work'[w].mail = work[w].mail /\ \A v \in Workers \ {w} : work'[v] = work[v]
        BY <1>0, <3>1, Worked
      <4>3. ASSUME NEW v \in Workers, At(v, "creating")', NEW j \in DOMAIN customers, customers[j].exact
            PROVE  Unknown(j, Ingest(v))'
        BY <3>4, <4>1, <4>3 DEF Unknown
      <4>4. CustomersAreShared'
        BY <4>1 DEF RivalsAreKnown, CustomersAreShared
      <4> QED
        BY <4>1, <4>3, <4>4 DEF RivalsAreKnown
    <3>3. SpentInv'
      <4>1. Begun' = Begun /\ Begun' \subseteq Workers /\ Calling' \subseteq Calling
        BY <1>0, <3>1, WorkedSums
      <4> QED
        BY <1>0, <2>1, <4>1, SpentStays
    <3> QED
      BY <1>0, <2>1, <3>1, <3>2, <3>3, IngestMoves
  <2> QED
    BY <2>2, <2>3
<1>3. CASE Creates(w)
  <2>1. /\ At(w, "creating") /\ work[w].pc \in Ingesting /\ UNCHANGED <<scene, tasks, spent, failed>>
        /\ Goes(w, "classifying") /\ "classifying" \in Ingesting /\ Created(Ingest(w), TRUE)
    BY <1>3 DEF Creates, At, Ingesting
  <2>2. Ingest(w) \in Creators
    BY <1>0, MailTypes DEF Ingest, Creators, WorkType, Held
  <2>3. \A v \in Workers : work'[v].pc = "creating" => work'[v] = work[v]
    BY <1>0, <2>1, WorkedSums
  <2>6. \A j \in DOMAIN customers : customers[j].exact => Unknown(j, Ingest(w))
    BY <1>0, <2>1 DEF MailInv, RivalsAreKnown
  <2>4. RivalsAreKnown' /\ customers' \in CustomerRows
    BY <1>0, <2>1, <2>2, <2>3, <2>6, RivalsGrow
  <2>5. SpentInv'
    <3>1. Begun' = Begun /\ Begun' \subseteq Workers /\ Calling' \subseteq Calling
      BY <1>0, <2>1, WorkedSums
    <3> QED
      BY <1>0, <2>1, <3>1, SpentStays
  <2> QED
    BY <1>0, <2>1, <2>4, <2>5, IngestMoves
<1>4. CASE Classifies(w)
  <2>1. work[w].pc \in Ingesting /\ UNCHANGED <<scene, tasks, customers, spent, failed>>
    BY <1>4 DEF Classifies, At, Ingesting
  <2>2. CASE Affordable /\ Goes(w, "calling")
    <3>1. Begun' = Begun /\ Calling' = Calling \cup {w}
      BY <1>0, <2>2, WorkedSums
    <3>2. w \in Begun
      BY <2>1, SourceIsOne, IntakeAssumption DEF Begun
    <3>3. SpentInv'
      BY <1>0, <2>1, <2>2, <3>1, <3>2, BegunFacts, SpentAsks
    <3>4. RivalsAreKnown'
      <4>1. \A v \in Workers : work'[v].pc = "creating" => work'[v] = work[v]
        BY <1>0, <2>2, WorkedSums
      <4> QED
        BY <1>0, <2>1, <4>1, RivalsStay DEF MailInv
    <3> QED
      BY <1>0, <2>1, <2>2, <3>3, <3>4, IngestMoves DEF Ingesting
  <2>3. CASE Goes(w, "inserting")
    BY <1>0, <2>1, <2>3, PlainMoves, IngestMoves DEF Ingesting
  <2> QED
    BY <1>4, <2>2, <2>3 DEF Classifies
<1>5. CASE Calls(w)
  <2>1. /\ At(w, "calling") /\ work[w].pc \in Ingesting /\ UNCHANGED <<scene, tasks, customers, failed>>
        /\ Goes(w, "inserting") /\ "inserting" \in Ingesting /\ spent' \in {spent, spent + 1}
    BY <1>5 DEF Calls, At, Ingesting
  <2>2. /\ Begun' = Begun /\ Calling' = Calling \ {w} /\ w \in Calling
        /\ \A v \in Workers : work'[v].pc = "creating" => work'[v] = work[v]
    BY <1>0, <2>1, WorkedSums DEF Calling
  <2>3. SpentInv' /\ RivalsAreKnown' /\ spent' \in Nat
    BY <1>0, <2>1, <2>2, SpentPays, RivalsStay DEF MailInv
  <2> QED
    BY <1>0, <2>1, <2>3, IngestMoves
<1>6. CASE Inserts(w)
  <2>1. /\ work[w].pc \in Ingesting /\ UNCHANGED <<scene, customers, spent, failed>>
        /\ Goes(w, AfterIngest(w)) /\ tasks' = tasks \cup {Source(w)}
    BY <1>6 DEF Inserts, At, Ingesting, Ingested
  <2>2. work'[w].mail = work[w].mail
    BY <1>0, <2>1, Worked
  <2>3. (w \in Runs => Handled(work[w].mail)') /\ tasks' \subseteq Sources
    BY <1>0, <2>1, <2>2, SourceIsOne DEF Handled
  <2> QED
    BY <1>0, <2>1, <2>3, PlainMoves, IngestMoves
<1>7. CASE IngestFails(w)
  <2>1. /\ work[w].pc \in Ingesting /\ UNCHANGED <<scene, tasks, customers, spent>>
        /\ Goes(w, AfterIngest(w)) /\ failed' = IF w \in Runs THEN failed \cup {work[w].mail} ELSE failed
    BY <1>7 DEF IngestFails, Ingested
  <2>2. work'[w].mail = work[w].mail
    BY <1>0, <2>1, Worked
  <2>3. (w \in Runs => Handled(work[w].mail)') /\ failed \subseteq failed' /\ failed' \subseteq Mails
    BY <1>0, <2>1, <2>2, SourceIsOne DEF Handled
  <2> QED
    BY <1>0, <2>1, <2>3, PlainMoves, IngestMoves
<1> QED
  BY <1>1, <1>2, <1>3, <1>4, <1>5, <1>6, <1>7

-----------------------------------------------------------------------------
(* Steps of a run *)

LEMMA RunMoves ==
  ASSUME IntakeInv, NEW r \in Runs, NEW q \in Steps \ Ingesting, Goes(r, q),
         UNCHANGED <<mailVars, tasks, customers, spent, failed>>,
         Joined', sync' \in [Runs -> SyncType], watermark' \in Marks,
         watermark' # Never => watermark' <= now,
         \A a \in Runs : sync'[a].started <= now /\ (sync'[a].since # Never => sync'[a].since <= now),
         PassedIsHandled', RunHasAll'
  PROVE  IntakeInv'
<1>0. /\ MailInv /\ r \in Workers /\ q \notin {"calling", "creating"}
      /\ UNCHANGED <<maxFetch, now, date, unread, tasks, customers, spent, failed>>
  BY DEF IntakeInv, mailVars, Workers, Ingesting
<1>1. /\ work' \in [Workers -> WorkType] /\ work'[r].pc = q
      /\ \A v \in Workers \ {r} : work'[v] = work[v]
  BY <1>0, Worked
<1>2. TypeOK'
  BY <1>0, <1>1, MailTypes, MailTypesBack DEF Joined
<1>3. WorkOK'
  <2>1. \A v \in Workers : work'[v].pc \in Ingesting => work'[v].mail \in Mails
    BY <1>0, <1>1 DEF MailInv, WorkOK
  <2> QED
    BY <1>0, <1>1, <2>1 DEF MailInv, WorkOK, Arrived, WorkType, Held
<1>4. RivalsAreKnown' /\ SpentInv'
  BY <1>0, PlainMoves
<1> QED
  BY <1>2, <1>3, <1>4 DEF IntakeInv, MailInv

(* The mails seen from a step that leaves them alone                       *)
LEMMA RunOnlyMoves ==
  ASSUME IntakeInv, NEW r \in Runs, NEW q \in Steps \ (Ingesting \cup {"looping"}), Goes(r, q),
         UNCHANGED <<kept, sync>>, Joined'
  PROVE  IntakeInv'
<1>0. /\ MailInv /\ r \in Workers
      /\ UNCHANGED <<mailVars, watermark, tasks, customers, spent, failed, sync>>
      /\ UNCHANGED <<maxFetch, now, date, unread>>
  BY DEF IntakeInv, kept, mailVars, Workers
<1>1. work'[r].pc = q /\ \A v \in Workers \ {r} : work'[v] = work[v]
  BY <1>0, Worked
<1>2. Grows
  BY <1>0 DEF Grows
<1>3. PassedIsHandled'
  BY <1>0, <1>2, PassedStays DEF MailInv
<1>4. RunHasAll'
  <2>1. ASSUME NEW a \in Loop'
        PROVE  a \in Loop /\ sync'[a] = sync[a] /\ work'[a] = work[a]
    <3>1. a \in Workers /\ a # r /\ a \in Runs
      BY <1>1 DEF Loop, Workers
    <3> QED
      BY <1>0, <1>1, <3>1 DEF Loop
  <2> QED
    BY <1>0, <1>2, <2>1, RunStays DEF MailInv
<1> QED
  BY <1>0, <1>3, <1>4, MailTypes, RunMoves DEF MailInv, WorkOK

LEMMA SyncStartsKeeps ==
  ASSUME IntakeInv, NEW r \in Runs, SyncStarts(r)
  PROVE  IntakeInv'
<1>0. /\ MailInv /\ Joined /\ r \in Workers /\ work[r].pc = "idle" /\ Goes(r, "connecting")
      /\ "connecting" \in Steps \ Ingesting /\ UNCHANGED integrationVars
      /\ UNCHANGED <<mailVars, watermark, tasks, customers, spent, failed>>
      /\ UNCHANGED <<maxFetch, now, date, unread>>
      /\ sync' = [sync EXCEPT ![r].since = watermark, ![r].started = now]
  BY MailTypes DEF SyncStarts, IntakeInv, kept, mailVars, Workers, At, Ingesting
<1>1. work'[r].pc = "connecting" /\ \A v \in Workers \ {r} : work'[v] = work[v]
  BY <1>0, Worked
<1>2. sync' \in [Runs -> SyncType] /\ sync'[r].since = watermark /\ sync'[r].started = now
      /\ \A a \in Runs \ {r} : sync'[a] = sync[a]
  <2>1. watermark \in Marks /\ now \in Times /\ sync \in [Runs -> SyncType] /\ sync[r] \in SyncType
    BY <1>0, MailTypes
  <2> DEFINE y == [[sync[r] EXCEPT !.since = watermark] EXCEPT !.started = now]
  <2>2. y \in SyncType /\ y.since = watermark /\ y.started = now
    BY <2>1 DEF SyncType
  <2>3. sync' = [sync EXCEPT ![r] = y]
    BY <1>0
  <2> HIDE DEF y
  <2> QED
    BY <2>1, <2>2, <2>3
<1>3. Joined'
  <2>1. letter' = letter
    BY <1>0 DEF integrationVars
  <2>2. Forward
    BY <1>0, <1>1, <2>1, WorkersForward
  <2> QED
    BY <1>0, <2>2, JoinedStays
<1>4. PassedIsHandled'
  <2>1. \A m \in Mails : watermark # Never /\ Before(m, watermark) => Handled(m)
    BY <1>0 DEF MailInv, PassedIsHandled
  <2>2. \A m \in Mails, a \in Runs : sync'[a].since # Never /\ Arrived(m) /\ date[m] < sync'[a].since - Overlap => Handled(m)
    BY <1>0, <1>2, <2>1 DEF MailInv, PassedIsHandled, Before
  <2> QED
    BY <1>0, <2>1, <2>2 DEF PassedIsHandled, Before, Arrived, Handled
<1>5. RunHasAll'
  <2>1. ASSUME NEW a \in Loop'
        PROVE  a \in Loop /\ sync'[a] = sync[a] /\ work'[a] = work[a]
    <3>1. a \in Workers /\ a # r /\ a \in Runs
      BY <1>1 DEF Loop, Workers, Ingesting
    <3> QED
      BY <1>1, <1>2, <3>1 DEF Loop
  <2>2. Grows
    BY <1>0 DEF Grows
  <2> QED
    BY <1>0, <2>1, <2>2, RunStays DEF MailInv
<1>6. /\ watermark # Never => watermark <= now
      /\ \A a \in Runs : sync'[a].started <= now /\ (sync'[a].since # Never => sync'[a].since <= now)
  <2>1. now <= now
    BY <1>0, MailTypes, IntakeAssumption DEF Times
  <2> QED
    BY <1>0, <1>2, <2>1 DEF MailInv, WorkOK
<1> QED
  BY <1>0, <1>2, <1>3, <1>4, <1>5, <1>6, MailTypes, RunMoves

(* What a step of a run does to the connection, with its tokens            *)
LEMMA HeldTypes ==
  ASSUME Joined, NEW r \in Runs, UNCHANGED others, UNCHANGED <<late, expiredBy, row>>,
         UNCHANGED held \/ Release(r) \/ Acquire(r)
  PROVE  /\ IntegrationsTypeOK' /\ LetterInv'
         /\ UNCHANGED <<row, valid, issued, saving, late, expiredBy, lost, letter>>
<1>1. UNCHANGED <<row, valid, issued, cookie, consent, changes, saving, late, expiredBy, lost, letter>>
  BY DEF others, googleVars, ownerVars
<1>2. held' \in [Clients -> Token]
  BY ConnectionTypes DEF Joined, Release, Acquire
<1>3. IntegrationsTypeOK'
  BY <1>1, <1>2, ConnectionTypes, OtherTypes, TypesBack DEF Joined
<1> QED
  BY <1>1, <1>3 DEF Joined, LetterInv, LetterOK

LEMMA RunReleases ==
  ASSUME IntakeInv, NEW r \in Runs, Goes(r, "ended"), Release(r), UNCHANGED others,
         UNCHANGED <<row, late, expiredBy>>
  PROVE  Joined'
<1>1. /\ IntegrationsTypeOK' /\ LetterInv'
      /\ UNCHANGED <<row, valid, issued, saving, late, expiredBy, lost, letter>>
  BY HeldTypes DEF IntakeInv
<1>2. MailInv /\ r \in Workers /\ r \in Clients /\ "ended" \in Steps
  BY DEF IntakeInv, Workers, Clients, Steps
<1>3. work'[r].pc = "ended" /\ \A v \in Workers \ {r} : work'[v] = work[v]
  BY <1>2, Worked
<1>4. Forward
  BY <1>1, <1>2, <1>3, WorkersForward
<1>5. r \notin Asking' /\ r \notin Refused'
  BY <1>3 DEF Asking, Refused, At
<1> QED
  BY <1>1, <1>2, <1>4, <1>5, ReleasesKeeps DEF IntakeInv, Joined

LEMMA SyncConnectsKeeps ==
  ASSUME IntakeInv, NEW r \in Runs, SyncConnects(r)
  PROVE  IntakeInv'
<1>0. /\ MailInv /\ Joined /\ r \in Workers /\ r \in Clients /\ work[r].pc = "connecting"
      /\ UNCHANGED <<kept, sync>> /\ UNCHANGED others /\ UNCHANGED <<late, expiredBy, row>>
  BY DEF SyncConnects, IntakeInv, Workers, Clients, At
<1>1. PICK q \in {"fetching", "ended", "erring"} :
        Goes(r, q) /\ (q = "fetching" => Acquire(r)) /\ (q # "fetching" => UNCHANGED held)
  BY DEF SyncConnects
<1>2. q \in Steps \ (Ingesting \cup {"looping"})
  BY DEF Steps, Ingesting
<1>3. work'[r].pc = q /\ \A v \in Workers \ {r} : work'[v] = work[v]
  BY <1>0, <1>1, <1>2, Worked
<1>4. /\ IntegrationsTypeOK' /\ LetterInv'
      /\ UNCHANGED <<row, valid, issued, saving, late, expiredBy, lost, letter>>
  BY <1>0, <1>1, HeldTypes
<1>5. CASE q = "fetching"
  <2>1. r \in Early /\ r \notin Over
    BY <1>0 DEF Early, Over, At
  <2>2. /\ Early' \subseteq Early \ {r} /\ Asking' \subseteq Asking \cup {r} /\ Refused' \subseteq Refused
        /\ Over \subseteq Over'
    <3>1. Runs \subseteq Workers /\ r \notin Letters
      BY <1>0, ConnectionTypes DEF Workers, Joined
    <3> QED
      BY <1>0, <1>3, <1>4, <1>5, <3>1 DEF Early, Asking, Refused, Over, At
  <2>3. ConnectionInv'
    BY <1>0, <1>1, <1>4, <1>5, <2>1, <2>2, AcquiresKeeps DEF Joined
  <2>4. Joined'
    BY <1>4, <2>3 DEF Joined
  <2> QED
    BY <1>0, <1>1, <1>2, <2>4, RunOnlyMoves
<1>6. CASE q # "fetching"
  <2>1. Forward
    BY <1>0, <1>3, <1>4, <1>6, WorkersForward
  <2>2. ConnectionInv'
    BY <1>0, <1>1, <1>4, <1>6, <2>1, RestsKeeps DEF Joined, connection
  <2>3. Joined'
    BY <1>4, <2>2 DEF Joined
  <2> QED
    BY <1>0, <1>1, <1>2, <2>3, RunOnlyMoves
<1> QED
  BY <1>5, <1>6

LEMMA SyncMarksKeeps ==
  ASSUME IntakeInv, NEW r \in Runs, SyncMarks(r)
  PROVE  IntakeInv'
<1>0. /\ MailInv /\ Joined /\ IntegrationsTypeOK /\ ConnectionInv /\ LetterInv
      /\ r \in Workers /\ r \in Clients /\ Goes(r, "ended") /\ Release(r)
      /\ UNCHANGED <<kept, sync>>
      /\ UNCHANGED <<valid, issued, cookie, consent, changes, saving, late, lost, letter>>
      /\ "ended" \in Steps \ (Ingesting \cup {"looping"})
  BY DEF SyncMarks, IntakeInv, Joined, Workers, Clients, others, googleVars, ownerVars, Steps, Ingesting
<1>1. work'[r].pc = "ended" /\ \A v \in Workers \ {r} : work'[v] = work[v]
  BY <1>0, Worked
<1>2. Forward
  BY <1>0, <1>1, WorkersForward
<1>3. r \in Over' /\ r \notin Asking' /\ r \notin Refused'
  BY <1>1 DEF Over, Asking, Refused, At
<1>4. LetterInv'
  BY <1>0 DEF LetterInv, LetterOK
<1>5. CASE At(r, "expiring") /\ Mark(r, "EXPIRED")
  <2>1. r \in Refused
    BY <1>5 DEF Refused
  <2>2. ConnectionInv'
    BY <1>0, <1>2, <1>3, <1>5, <2>1, ExpiresKeeps
  <2>3. row' \in RowType /\ expiredBy' \in Marker /\ held' \in [Clients -> Token]
    BY <1>0, <1>5, ConnectionTypes DEF Mark, Release, RowType, Statuses, Marker
  <2>4. Joined'
    BY <1>0, <1>4, <2>2, <2>3, ConnectionTypes, OtherTypes, TypesBack DEF Joined
  <2> QED
    BY <1>0, <2>4, RunOnlyMoves
<1>6. CASE At(r, "erring") /\ Mark(r, "ERROR")
  <2>1. held[r] = NoToken
    BY <1>0, <1>6 DEF ConnectionInv, HoldersAreAtWork, Early, At
  <2>2. held' = held
    BY <1>0, <2>1, ConnectionTypes DEF Release
  <2>3. ConnectionInv'
    BY <1>0, <1>2, <1>6, <2>2, ErrsKeeps
  <2>4. row' \in RowType /\ expiredBy' = expiredBy
    BY <1>0, <1>6, ConnectionTypes DEF Mark, RowType, Statuses
  <2>5. Joined'
    BY <1>0, <1>4, <2>2, <2>3, <2>4, ConnectionTypes, OtherTypes, TypesBack DEF Joined
  <2> QED
    BY <1>0, <2>5, RunOnlyMoves
<1> QED
  BY <1>5, <1>6 DEF SyncMarks

LEMMA SyncDiesKeeps ==
  ASSUME IntakeInv, NEW r \in Runs, SyncDies(r)
  PROVE  IntakeInv'
<1>1. /\ Goes(r, "ended") /\ Release(r) /\ UNCHANGED others /\ UNCHANGED <<row, late, expiredBy>>
      /\ UNCHANGED <<kept, sync>> /\ "ended" \in Steps \ (Ingesting \cup {"looping"})
  BY DEF SyncDies, Steps, Ingesting
<1>2. Joined'
  BY <1>1, RunReleases
<1> QED
  BY <1>1, <1>2, RunOnlyMoves

LEMMA SyncEndsKeeps ==
  ASSUME IntakeInv, NEW r \in Runs, SyncEnds(r)
  PROVE  IntakeInv'
<1>0. /\ MailInv /\ Joined /\ r \in Workers /\ At(r, "looping") /\ sync[r].todo = {}
      /\ watermark' = Moved(r) /\ Goes(r, "ended") /\ Release(r)
      /\ UNCHANGED <<mailVars, sync, tasks, customers, spent, failed>>
      /\ UNCHANGED <<maxFetch, now, date, unread>>
      /\ UNCHANGED others /\ UNCHANGED <<row, late, expiredBy>>
      /\ "ended" \in Steps \ Ingesting
  BY DEF SyncEnds, IntakeInv, Workers, mailVars, Steps, Ingesting
<1>1. Joined'
  BY <1>0, RunReleases
<1>2. work'[r].pc = "ended" /\ \A v \in Workers \ {r} : work'[v] = work[v]
  BY <1>0, Worked DEF Steps
<1>3. Grows
  BY <1>0 DEF Grows
<1>4. RunHasAll'
  <2>1. ASSUME NEW a \in Loop'
        PROVE  a \in Loop /\ sync'[a] = sync[a] /\ work'[a] = work[a]
    <3>1. a \in Workers /\ a # r /\ a \in Runs
      BY <1>2 DEF Loop, Workers, Ingesting
    <3> QED
      BY <1>0, <1>2, <3>1 DEF Loop
  <2> QED
    BY <1>0, <1>3, <2>1, RunStays DEF MailInv
<1>5. PassedIsHandled'
  <2>1. ASSUME NEW m \in Mails, watermark' # Never, Arrived(m), date[m] < watermark' - Overlap
        PROVE  Handled(m)
    <3>1. CASE sync[r].cut
      BY <1>0, <2>1, <3>1 DEF Moved, MailInv, PassedIsHandled, Before
    <3>2. CASE ~sync[r].cut
      <4>1. Before(m, sync[r].started)
        BY <1>0, <2>1, <3>2 DEF Moved, Before
      <4>2. r \in Loop /\ work[r].pc \notin Ingesting
        BY <1>0 DEF Loop, At, Ingesting
      <4> QED
        BY <1>0, <3>2, <4>1, <4>2 DEF MailInv, RunHasAll
    <3> QED
      BY <3>1, <3>2
  <2>2. \A m \in Mails, a \in Runs : sync[a].since # Never /\ Before(m, sync[a].since) => Handled(m)
    BY <1>0 DEF MailInv, PassedIsHandled
  <2> QED
    BY <1>0, <2>1, <2>2 DEF PassedIsHandled, Before, Arrived, Handled
<1>6. watermark' \in Marks /\ (watermark' # Never => watermark' <= now)
  <2>1. sync[r].started \in Times /\ watermark \in Marks
    BY <1>0, MailTypes DEF SyncType
  <2> QED
    BY <1>0, <2>1 DEF Moved, Marks, MailInv, WorkOK
<1> QED
  BY <1>0, <1>1, <1>4, <1>5, <1>6, MailTypes, RunMoves DEF MailInv, WorkOK

LEMMA SyncFetchesKeeps ==
  ASSUME IntakeInv, NEW r \in Runs, SyncFetches(r)
  PROVE  IntakeInv'
<1>0. /\ MailInv /\ Joined /\ IntegrationsTypeOK /\ ConnectionInv /\ LetterInv
      /\ r \in Workers /\ r \in Clients /\ work[r].pc = "fetching"
      /\ UNCHANGED <<mailVars, watermark, tasks, customers, spent, failed>>
      /\ UNCHANGED <<maxFetch, now, date, unread>>
      /\ UNCHANGED others /\ UNCHANGED <<row, expiredBy>> /\ UNCHANGED kept
      /\ UNCHANGED <<valid, issued, cookie, consent, changes, saving, lost, letter>>
      /\ {"looping", "expiring", "ended"} \subseteq Steps \ Ingesting
  BY DEF SyncFetches, IntakeInv, Joined, Workers, Clients, mailVars, kept, Steps, Ingesting, At, others,
         googleVars, ownerVars
<1>1. CASE /\ Accepted(r) /\ Goes(r, "looping")
           /\ \E S \in SUBSET Matching(r) :
                /\ Listed(S, Matching(r))
                /\ sync' = [sync EXCEPT ![r].todo = S, ![r].cut = S # Matching(r)]
           /\ UNCHANGED <<held, late>>
  <2>1. PICK S \in SUBSET Matching(r) : sync' = [sync EXCEPT ![r].todo = S, ![r].cut = S # Matching(r)]
    BY <1>1
  <2>2. work'[r].pc = "looping" /\ \A v \in Workers \ {r} : work'[v] = work[v]
    BY <1>0, <1>1, Worked
  <2>3. Joined'
    <3>1. Forward
      BY <1>0, <2>2, WorkersForward
    <3> QED
      BY <1>0, <1>1, <3>1, JoinedStays DEF integrationVars, connectionVars, googleVars, ownerVars
  <2>4. /\ sync' \in [Runs -> SyncType] /\ sync'[r].since = sync[r].since /\ sync'[r].started = sync[r].started
        /\ sync'[r].todo = S /\ sync'[r].cut = (S # Matching(r))
        /\ \A a \in Runs \ {r} : sync'[a] = sync[a]
    <3>1. sync \in [Runs -> SyncType] /\ sync[r] \in SyncType /\ S \in Todos
      BY <1>0, MailTypes DEF Matching, Todos
    <3> DEFINE cut == S # Matching(r)
               y == [[sync[r] EXCEPT !.todo = S] EXCEPT !.cut = cut]
    <3>2. cut \in BOOLEAN
      OBVIOUS
    <3>3. sync' = [sync EXCEPT ![r] = y]
      BY <2>1
    <3> HIDE DEF cut
    <3>4. /\ y \in SyncType /\ y.todo = S /\ y.cut = cut
          /\ y.since = sync[r].since /\ y.started = sync[r].started
      BY <3>1, <3>2 DEF SyncType
    <3> HIDE DEF y
    <3>5. /\ sync' \in [Runs -> SyncType] /\ sync'[r] = y /\ \A a \in Runs \ {r} : sync'[a] = sync[a]
      BY <3>1, <3>3, <3>4
    <3> QED
      BY <3>4, <3>5 DEF cut
  <2>5. Grows
    BY <1>0 DEF Grows
  <2>6. PassedIsHandled'
    <3>1. \A a \in Runs : sync'[a].since = sync[a].since
      BY <2>4
    <3> QED
      BY <1>0, <2>5, <3>1, PassedStays DEF MailInv
  <2>7. RunHasAll'
    <3> SUFFICES ASSUME NEW m \in Mails, NEW a \in Loop', ~sync'[a].cut, Arrived(m), date[m] < sync'[a].started - Overlap
                 PROVE  \/ Handled(m) \/ m \in sync'[a].todo
                        \/ (work'[a].pc \in Ingesting /\ work'[a].mail = m)
      BY <1>0 DEF RunHasAll, Before, Arrived, Handled
    <3>1. CASE a = r
      <4>1. S = Matching(r) /\ sync'[a].todo = S
        BY <2>4, <3>1
      <4>2. CASE m \notin unread
        BY <4>2 DEF Handled
      <4>3. CASE m \in unread /\ (sync[r].since = Never \/ date[m] >= sync[r].since - Overlap)
        BY <4>1, <4>3 DEF Matching
      <4>4. CASE sync[r].since # Never /\ ~(date[m] >= sync[r].since - Overlap)
        <5>1. date[m] \in Int /\ sync[r].since \in Int /\ Overlap \in Int
          BY <1>0, <4>4, MailTypes, IntakeAssumption DEF Arrived, SyncType, Marks, Times
        <5>2. date[m] < sync[r].since - Overlap
          BY <4>4, <5>1
        <5> QED
          BY <1>0, <4>4, <5>2 DEF MailInv, PassedIsHandled, Before
      <4> QED
        BY <4>2, <4>3, <4>4
    <3>2. CASE a # r
      <4>1. a \in Workers /\ a \in Runs
        BY DEF Loop, Workers
      <4>2. work'[a] = work[a] /\ sync'[a] = sync[a] /\ a \in Loop
        BY <2>2, <2>4, <3>2, <4>1 DEF Loop
      <4> QED
        BY <1>0, <4>2 DEF MailInv, RunHasAll, Before
    <3> QED
      BY <3>1, <3>2
  <2>8. /\ watermark # Never => watermark <= now
        /\ \A a \in Runs : sync'[a].started <= now /\ (sync'[a].since # Never => sync'[a].since <= now)
    BY <1>0, <2>4 DEF MailInv, WorkOK
  <2> QED
    BY <1>0, <1>1, <2>3, <2>4, <2>6, <2>7, <2>8, MailTypes, RunMoves
<1>2. CASE /\ Goes(r, "expiring")
           /\ late' = IF Accepted(r) THEN late \cup {r} ELSE late
           /\ UNCHANGED <<held, sync>>
  <2>1. work'[r].pc = "expiring" /\ \A v \in Workers \ {r} : work'[v] = work[v]
    BY <1>0, <1>2, Worked
  <2>2. r \in Asking /\ Runs \subseteq Workers /\ r \notin Letters
    BY <1>0, ConnectionTypes DEF Asking, At, Workers
  <2>3. Early' \subseteq Early /\ Asking' \subseteq Asking /\ Refused' \subseteq Refused \cup {r} /\ Over \subseteq Over'
    BY <1>0, <2>1, <2>2 DEF Early, Asking, Refused, Over, At
  <2>4. ConnectionInv'
    BY <1>0, <1>2, <2>2, <2>3, RefusalKeeps DEF steady
  <2>5. late' \subseteq Clients
    BY <1>0, <1>2, ConnectionTypes
  <2>6. Joined'
    BY <1>0, <1>2, <2>4, <2>5, ConnectionTypes, OtherTypes, TypesBack DEF Joined, LetterInv, LetterOK
  <2> QED
    BY <1>0, <1>2, <2>6, RunOnlyMoves
<1>3. CASE Goes(r, "ended") /\ Release(r) /\ UNCHANGED <<late, sync>>
  <2>1. Joined'
    BY <1>0, <1>3, RunReleases
  <2> QED
    BY <1>0, <1>3, <2>1, RunOnlyMoves
<1> QED
  BY <1>1, <1>2, <1>3 DEF SyncFetches

LEMMA SyncTakesKeeps ==
  ASSUME IntakeInv, NEW r \in Runs, SyncTakes(r)
  PROVE  IntakeInv'
<1>0. /\ MailInv /\ Joined /\ r \in Workers /\ work[r].pc = "looping"
      /\ UNCHANGED <<mailVars, watermark, tasks, customers, spent, failed>>
      /\ UNCHANGED <<maxFetch, now, date, unread>>
      /\ UNCHANGED integrationVars /\ "checking" \in Steps /\ "checking" \in Ingesting
  BY DEF SyncTakes, IntakeInv, Workers, mailVars, kept, Steps, Ingesting, At
<1>1. PICK m \in sync[r].todo :
        /\ work' = [work EXCEPT ![r] = [pc |-> "checking", mail |-> m]]
        /\ sync' = [sync EXCEPT ![r].todo = @ \ {m}]
  BY DEF SyncTakes
<1>2. sync \in [Runs -> SyncType] /\ sync[r] \in SyncType /\ m \in Mails /\ m \in Held
  BY <1>0, <1>1, MailTypes DEF SyncType, Todos
<1>3. /\ work' \in [Workers -> WorkType] /\ work'[r].pc = "checking" /\ work'[r].mail = m
      /\ \A v \in Workers \ {r} : work'[v] = work[v]
  BY <1>0, <1>1, <1>2, Worked
<1>4. /\ sync' \in [Runs -> SyncType] /\ sync'[r].todo = sync[r].todo \ {m} /\ sync'[r].cut = sync[r].cut
      /\ sync'[r].since = sync[r].since /\ sync'[r].started = sync[r].started
      /\ \A a \in Runs \ {r} : sync'[a] = sync[a]
  <2> DEFINE y == [sync[r] EXCEPT !.todo = sync[r].todo \ {m}]
  <2>1. /\ y \in SyncType /\ y.todo = sync[r].todo \ {m} /\ y.cut = sync[r].cut
        /\ y.since = sync[r].since /\ y.started = sync[r].started
    <3>1. sync[r].todo \ {m} \in Todos
      BY <1>2 DEF SyncType, Todos
    <3> QED
      BY <1>2, <3>1 DEF SyncType
  <2>2. sync' = [sync EXCEPT ![r] = y]
    BY <1>1
  <2> HIDE DEF y
  <2> QED
    BY <1>2, <2>1, <2>2
<1>5. Joined'
  <2>1. letter' = letter
    BY <1>0 DEF integrationVars
  <2>2. Forward
    BY <1>0, <1>3, <2>1, WorkersForward
  <2> QED
    BY <1>0, <2>2, JoinedStays
<1>6. TypeOK'
  BY <1>0, <1>3, <1>4, <1>5, MailTypes, MailTypesBack DEF Joined
<1>7. WorkOK'
  <2>1. \A v \in Workers : work'[v].pc \in Ingesting => work'[v].mail \in Mails
    BY <1>0, <1>2, <1>3 DEF MailInv, WorkOK
  <2>2. \A a \in Runs : sync'[a].started <= now /\ (sync'[a].since # Never => sync'[a].since <= now)
    BY <1>0, <1>4 DEF MailInv, WorkOK
  <2> QED
    BY <1>0, <1>3, <2>1, <2>2 DEF MailInv, WorkOK, Arrived, WorkType, Held
<1>8. Grows
  BY <1>0 DEF Grows
<1>9. PassedIsHandled'
  <2>1. \A a \in Runs : sync'[a].since = sync[a].since
    BY <1>4
  <2> QED
    BY <1>0, <1>8, <2>1, PassedStays DEF MailInv
<1>10. RunHasAll'
  <2> SUFFICES ASSUME NEW n \in Mails, NEW a \in Loop', ~sync'[a].cut, Arrived(n), date[n] < sync'[a].started - Overlap
               PROVE  \/ Handled(n) \/ n \in sync'[a].todo
                      \/ (work'[a].pc \in Ingesting /\ work'[a].mail = n)
    BY <1>0 DEF RunHasAll, Before, Arrived, Handled
  <2>1. a \in Workers /\ a \in Runs
    BY DEF Loop, Workers
  <2>2. CASE a = r
    <3>1. r \in Loop /\ work[r].pc \notin Ingesting
      BY <1>0 DEF Loop, Ingesting
    <3>2. Handled(n) \/ n \in sync[r].todo
      BY <1>0, <1>4, <2>2, <3>1 DEF MailInv, RunHasAll, Before
    <3> QED
      BY <1>0, <1>3, <1>4, <2>2, <3>2
  <2>3. CASE a # r
    <3>1. work'[a] = work[a] /\ sync'[a] = sync[a] /\ a \in Loop
      BY <1>3, <1>4, <2>1, <2>3 DEF Loop
    <3> QED
      BY <1>0, <3>1 DEF MailInv, RunHasAll, Before
  <2> QED
    BY <2>2, <2>3
<1>11. RivalsAreKnown'
  <2>1. \A v \in Workers : work'[v].pc = "creating" => work'[v] = work[v]
    BY <1>3
  <2> QED
    BY <1>0, <2>1, RivalsStay DEF MailInv
<1>12. SpentInv'
  <2>1. m # Nobody
    BY <1>2, IntakeAssumption
  <2>2. Calling' \subseteq Calling /\ Begun \subseteq Begun' /\ Begun' \subseteq Workers
    BY <1>3, <2>1 DEF Calling, Begun, At
  <2> QED
    BY <1>0, <2>2, SpentStays
<1> QED
  BY <1>5, <1>6, <1>7, <1>9, <1>10, <1>11, <1>12 DEF IntakeInv, MailInv

-----------------------------------------------------------------------------
(* Time, the mailbox, the forwarded mails, and the theorems *)

(* Steps that leave every worker and what they did as it is                *)
LEMMA WorldMoves ==
  ASSUME IntakeInv, UNCHANGED <<maxFetch, workVars, integrationVars>>,
         now' \in Times, now <= now', date' \in [Mails -> Dates], unread' \subseteq Mails,
         \A m \in unread' : date'[m] \in Times,
         \A m \in Mails : date'[m] = date[m] \/ (date'[m] \in Times /\ now - Overlap <= date'[m]),
         \A m \in Mails : date'[m] = date[m] => (m \in unread' => m \in unread)
  PROVE  IntakeInv'
<1>0. /\ MailInv /\ Joined /\ work' = work
      /\ UNCHANGED <<watermark, work, sync, tasks, customers, spent, failed>>
      /\ UNCHANGED integrationVars
  BY DEF IntakeInv, workVars
<1>1. Joined'
  <2>1. letter' = letter
    BY <1>0 DEF integrationVars
  <2>2. Forward
    BY <1>0, <2>1, StillForward
  <2> QED
    BY <1>0, <2>2, JoinedStays
<1>2. TypeOK'
  BY <1>0, <1>1, MailTypes, MailTypesBack DEF Joined
<1>3. now \in Int /\ now' \in Int /\ Overlap \in Int
  BY <1>0, MailTypes, IntakeAssumption DEF Times
<1>4. /\ watermark \in Int \/ watermark = Never
      /\ watermark # Never => watermark \in Int /\ watermark <= now
      /\ \A r \in Runs : /\ sync[r].started \in Int /\ sync[r].started <= now
                         /\ sync[r].since # Never => sync[r].since \in Int /\ sync[r].since <= now
  BY <1>0, MailTypes DEF SyncType, Marks, Times, MailInv, WorkOK
<1>5. WorkOK'
  <2>1. \A r \in Runs : sync[r].started <= now' /\ (sync[r].since # Never => sync[r].since <= now')
    BY <1>3, <1>4
  <2>2. watermark # Never => watermark <= now'
    BY <1>3, <1>4
  <2> QED
    BY <1>0, <2>1, <2>2 DEF MailInv, WorkOK, Arrived
<1>6. ASSUME NEW m \in Mails, NEW t \in Int, t <= now, Before(m, t)'
      PROVE  Before(m, t) /\ (Handled(m) => Handled(m)')
  <2>1. date'[m] \in Times /\ date'[m] \in Int /\ date'[m] < t - Overlap
    BY <1>6 DEF Before, Arrived, Times
  <2>2. date'[m] = date[m]
    BY <1>3, <1>6, <2>1
  <2> QED
    BY <1>0, <2>1, <2>2 DEF Before, Arrived, Handled
<1>7. PassedIsHandled'
  <2>1. ASSUME NEW m \in Mails, watermark # Never, date'[m] \in Times, date'[m] < watermark - Overlap
        PROVE  Handled(m)'
    <3>1. Before(m, watermark)'
      BY <1>0, <2>1 DEF Before, Arrived
    <3>2. date'[m] = date[m]
      BY <1>3, <1>4, <2>1 DEF Times
    <3>3. Before(m, watermark)
      BY <2>1, <3>2 DEF Before, Arrived
    <3>4. Handled(m)
      BY <1>0, <2>1, <3>3 DEF MailInv, PassedIsHandled
    <3> QED
      BY <1>0, <3>2, <3>4 DEF Handled
  <2>2. ASSUME NEW m \in Mails, NEW r \in Runs, sync[r].since # Never, date'[m] \in Times,
               date'[m] < sync[r].since - Overlap
        PROVE  Handled(m)'
    <3>2. date'[m] = date[m]
      BY <1>3, <1>4, <2>2 DEF Times
    <3>3. Before(m, sync[r].since)
      BY <2>2, <3>2 DEF Before, Arrived
    <3>4. Handled(m)
      BY <1>0, <2>2, <3>3 DEF MailInv, PassedIsHandled
    <3> QED
      BY <1>0, <3>2, <3>4 DEF Handled
  <2> QED
    BY <1>0, <2>1, <2>2 DEF PassedIsHandled, Before, Arrived
<1>8. RunHasAll'
  <2> SUFFICES ASSUME NEW m \in Mails, NEW r \in Loop', ~sync[r].cut, date'[m] \in Times,
                      date'[m] < sync[r].started - Overlap
               PROVE  \/ Handled(m)' \/ m \in sync[r].todo
                      \/ (work[r].pc \in Ingesting /\ work[r].mail = m)
    BY <1>0 DEF RunHasAll, Before, Arrived
  <2>1. r \in Loop /\ r \in Runs
    BY <1>0 DEF Loop
  <2>2. date'[m] = date[m]
    BY <1>3, <1>4, <2>1 DEF Times
  <2>3. Before(m, sync[r].started)
    BY <2>2 DEF Before, Arrived
  <2>4. Handled(m) => Handled(m)'
    BY <1>0, <2>2 DEF Handled
  <2> QED
    BY <1>0, <2>1, <2>3, <2>4 DEF MailInv, RunHasAll
<1>9. RivalsAreKnown'
  BY <1>0, RivalsStay DEF MailInv
<1>10. SpentInv'
  <2>1. Calling' = Calling /\ Begun' = Begun /\ Begun \subseteq Workers
    BY <1>0 DEF Calling, Begun, At
  <2> QED
    BY <1>0, <2>1, SpentStays
<1> QED
  BY <1>1, <1>2, <1>5, <1>7, <1>8, <1>9, <1>10 DEF IntakeInv, MailInv

LEMMA DropArrivesKeeps ==
  ASSUME IntakeInv, NEW d \in Drops, NEW m \in Mails, DropArrives(d, m)
  PROVE  IntakeInv'
<1>0. /\ MailInv /\ Joined /\ d \in Workers /\ d \notin Runs /\ m \in Held /\ work[d].pc = "idle"
      /\ UNCHANGED <<mailVars, watermark, sync, integrationVars, tasks, customers, spent, failed>>
      /\ UNCHANGED <<maxFetch, now, date, unread>>
      /\ {"checking", "ended"} \subseteq Steps
  BY IntakeAssumption DEF DropArrives, IntakeInv, Workers, mailVars, scene, Steps, Ingesting, At, Held
<1>1. PICK q \in {"checking", "ended"} : work' = [work EXCEPT ![d] = [pc |-> q, mail |-> m]]
  BY DEF DropArrives
<1>2. /\ work' \in [Workers -> WorkType] /\ work'[d].pc = q /\ work'[d].mail = m
      /\ \A v \in Workers \ {d} : work'[v] = work[v]
  BY <1>0, <1>1, Worked
<1>3. Joined'
  <2>1. letter' = letter
    BY <1>0 DEF integrationVars
  <2>2. Forward
    BY <1>0, <1>2, <2>1, WorkersForward
  <2> QED
    BY <1>0, <2>2, JoinedStays
<1>4. TypeOK'
  BY <1>0, <1>2, <1>3, MailTypes, MailTypesBack DEF Joined
<1>5. WorkOK'
  <2>1. \A v \in Workers : work'[v].pc \in Ingesting => work'[v].mail \in Mails
    BY <1>0, <1>2 DEF MailInv, WorkOK
  <2> QED
    BY <1>0, <1>2, <2>1 DEF MailInv, WorkOK, Arrived, WorkType, Held
<1>6. Grows
  BY <1>0 DEF Grows
<1>7. PassedIsHandled'
  BY <1>0, <1>6, PassedStays DEF MailInv
<1>8. RunHasAll'
  <2>1. ASSUME NEW a \in Loop'
        PROVE  a \in Loop /\ sync'[a] = sync[a] /\ work'[a] = work[a]
    <3>1. a \in Workers /\ a # d /\ a \in Runs
      BY <1>0 DEF Loop, Workers
    <3> QED
      BY <1>0, <1>2, <3>1 DEF Loop
  <2> QED
    BY <1>0, <1>6, <2>1, RunStays DEF MailInv
<1>9. RivalsAreKnown'
  <2>1. \A v \in Workers : work'[v].pc = "creating" => work'[v] = work[v]
    BY <1>2
  <2> QED
    BY <1>0, <2>1, RivalsStay DEF MailInv
<1>10. SpentInv'
  <2>1. Calling' \subseteq Calling /\ Begun \subseteq Begun' /\ Begun' \subseteq Workers
    BY <1>0, <1>2, IntakeAssumption DEF Calling, Begun, At
  <2> QED
    BY <1>0, <2>1, SpentStays
<1> QED
  BY <1>3, <1>4, <1>5, <1>7, <1>8, <1>9, <1>10 DEF IntakeInv, MailInv

LEMMA EntersKeeps ==
  ASSUME IntakeInv, NEW exact \in BOOLEAN, Enters(exact)
  PROVE  IntakeInv'
<1>0. /\ Joined /\ MailInv /\ Created(Nobody, exact)
      /\ UNCHANGED <<maxFetch, now, date, unread, watermark, work, sync, tasks, spent, failed, integrationVars>>
  BY DEF IntakeInv, Enters, scene, mailVars
<1>1. Joined'
  <2>1. letter' = letter
    BY <1>0 DEF integrationVars
  <2>2. Forward
    BY <1>0, <2>1, StillForward
  <2> QED
    BY <1>0, <2>2, JoinedStays
<1>2. RivalsAreKnown' /\ customers' \in CustomerRows
  BY <1>0, RivalsGrow
<1>3. TypeOK'
  BY <1>0, <1>1, <1>2, MailTypes, MailTypesBack DEF Joined
<1>4. WorkOK' /\ PassedIsHandled' /\ RunHasAll'
  BY <1>0 DEF MailInv, WorkOK, PassedIsHandled, RunHasAll, Before, Arrived, Handled, Loop
<1>5. SpentInv'
  <2>1. Calling' = Calling /\ Begun' = Begun /\ Begun \subseteq Workers
    BY <1>0 DEF Calling, Begun, At
  <2> QED
    BY <1>0, <2>1, SpentStays
<1> QED
  BY <1>1, <1>2, <1>3, <1>4, <1>5 DEF IntakeInv, MailInv

LEMMA WorldKeeps ==
  ASSUME IntakeInv, World
  PROVE  IntakeInv'
<1>0. /\ MailInv /\ now \in Times /\ now \in Int /\ now <= now /\ Overlap \in Int /\ MaxNow \in Int
      /\ date \in [Mails -> Dates] /\ unread \subseteq Mails /\ \A m \in unread : date[m] \in Times
  BY MailTypes, IntakeAssumption DEF IntakeInv, Times, MailInv, WorkOK, Arrived
<1>1. CASE Tick
  <2>1. now' \in Times /\ now <= now'
    BY <1>0, <1>1 DEF Tick, Times
  <2> QED
    BY <1>0, <1>1, <2>1, WorldMoves DEF Tick
<1>2. ASSUME NEW m \in Mails, Arrive(m)
      PROVE  IntakeInv'
  <2>1. PICK d \in Times : d <= now /\ now - d <= Overlap /\ date' = [date EXCEPT ![m] = d]
    BY <1>2 DEF Arrive
  <2>2. /\ unread' = unread \cup {m} /\ UNCHANGED <<maxFetch, now, workVars, integrationVars>>
        /\ date[m] = Never /\ Never \notin Times
    BY <1>2, IntakeAssumption DEF Arrive, Times
  <2>3. /\ date' \in [Mails -> Dates] /\ date'[m] = d /\ \A n \in Mails \ {m} : date'[n] = date[n]
    BY <1>0, <2>1 DEF Dates
  <2>4. now - Overlap <= d /\ d # Never
    BY <1>0, <2>1, <2>2 DEF Times
  <2>5. \A n \in unread' : date'[n] \in Times
    BY <1>0, <2>2, <2>3
  <2>6. \A n \in Mails : date'[n] = date[n] \/ (date'[n] \in Times /\ now - Overlap <= date'[n])
    BY <2>3, <2>4
  <2>7. \A n \in Mails : date'[n] = date[n] => (n \in unread' => n \in unread)
    BY <2>2, <2>3, <2>4
  <2> QED
    BY <1>0, <2>2, <2>3, <2>5, <2>6, <2>7, WorldMoves
<1>3. ASSUME NEW m \in Mails, Open(m)
      PROVE  IntakeInv'
  BY <1>0, <1>3, WorldMoves DEF Open
<1>4. ASSUME NEW m \in Mails, NEW d \in Drops, DropArrives(d, m)
      PROVE  IntakeInv'
  BY <1>4, DropArrivesKeeps
<1>5. ASSUME NEW exact \in BOOLEAN, Enters(exact)
      PROVE  IntakeInv'
  BY <1>5, EntersKeeps
<1> QED
  BY <1>1, <1>2, <1>3, <1>4, <1>5 DEF World

LEMMA ConnectionKeeps ==
  ASSUME IntakeInv, Owner \/ Background \/ Mailing, UNCHANGED intakeVars
  PROVE  IntakeInv'
<1>0. Joined /\ MailInv
  BY DEF IntakeInv
<1>1. Joined'
  BY <1>0, OwnerKeeps, BackgroundKeeps, MailingKeeps
<1>2. UNCHANGED <<maxFetch, now, date, unread, watermark, work, sync, tasks, customers, spent, failed>>
  BY DEF intakeVars, mailVars, workVars
<1>3. TypeOK'
  BY <1>0, <1>1, <1>2, MailTypes, MailTypesBack DEF Joined
<1>4. WorkOK' /\ PassedIsHandled' /\ RunHasAll' /\ RivalsAreKnown'
  BY <1>0, <1>2 DEF MailInv, WorkOK, PassedIsHandled, RunHasAll, RivalsAreKnown, CustomersAreShared, Unknown, Ingest,
                    Before, Arrived, Handled, Loop, At
<1>5. SpentInv'
  <2>1. Calling' = Calling /\ Begun' = Begun /\ Begun \subseteq Workers
    BY <1>2 DEF Calling, Begun, At
  <2> QED
    BY <1>0, <1>2, <2>1, SpentStays
<1> QED
  BY <1>1, <1>3, <1>4, <1>5 DEF IntakeInv, MailInv

LEMMA ConnectionStarts ==
  ASSUME NEW cast, IntegrationsInit(cast), \A r \in Runs : work[r].pc \in {"idle", "ended"}
  PROVE  Joined
<1>1. /\ 1 \in Tokens /\ 1 \in Token /\ 1 # NoToken /\ NoToken \in Token /\ 1 <= 1 /\ 0 \in Nat
      /\ MaxChanges \in 0 .. MaxChanges /\ 0 \in 0 .. MaxChanges /\ 1 \in 0 .. MaxTokens /\ 0 \in 0 .. Attempts
  BY IntegrationsAssumption DEF Tokens, Token
<1>2. /\ row = [status |-> "CONNECTED", access |-> 1, refresh |-> 1]
      /\ valid = {1} /\ issued = 1 /\ cookie = Nobody
      /\ held = [c \in Clients |-> NoToken] /\ saving = {} /\ late = {} /\ expiredBy = Nobody /\ lost = FALSE
      /\ changes \in 0 .. MaxChanges
  BY <1>1 DEF IntegrationsInit
<1>3. consent \in [Consents -> {"new", "issued", "verified", "ended"}]
  BY DEF IntegrationsInit
<1>4. /\ letter \in [Letters -> LetterType]
      /\ \A l \in Letters : /\ letter[l].pc \in {"new", "absent"} /\ letter[l].tries = 0
                            /\ letter[l].delivered = 0 /\ letter[l].timeouts = 0
  <2>1. letter = [l \in Letters |-> [pc |-> IF l \in cast THEN "new" ELSE "absent",
                                     tries |-> 0, delivered |-> 0, timeouts |-> 0]]
    BY DEF IntegrationsInit
  <2>2. \A l \in Letters : [pc |-> IF l \in cast THEN "new" ELSE "absent",
                            tries |-> 0, delivered |-> 0, timeouts |-> 0] \in LetterType
    BY <1>1 DEF LetterType, LetterSteps, Counts
  <2> QED
    BY <2>1, <2>2
<1>5. IntegrationsTypeOK
  BY <1>1, <1>2, <1>3, <1>4 DEF IntegrationsTypeOK, LetterType, LetterSteps, Counts
<1>6. LetterInv
  BY <1>4 DEF LetterInv, LetterOK
<1>7. Working = {}
  BY <1>2 DEF Working
<1>8. Refused = {} /\ Asking = {}
  BY DEF Asking, Refused, At
<1>9. GrantsAreOld /\ HoldersAreAtWork
  BY <1>1, <1>2, <1>8 DEF GrantsAreOld, HoldersAreAtWork, IssuedBefore, Early, Clients
<1>10. HeldIsCurrent /\ SavedIsCurrent /\ RefusedIsDead /\ ExpiredIsDead
  BY <1>2, <1>8 DEF HeldIsCurrent, SavedIsCurrent, RefusedIsDead, ExpiredIsDead
<1>11. DisconnectedIsEmpty /\ GrantIsKept
  BY <1>2 DEF DisconnectedIsEmpty, GrantIsKept
<1> QED
  BY <1>5, <1>6, <1>9, <1>10, <1>11 DEF Joined, ConnectionInv

LEMMA IntakeStarts == Init => IntakeInv
<1> SUFFICES ASSUME Init
             PROVE  IntakeInv
  OBVIOUS
<1>1. PICK cast \in SUBSET (Workers \cup Letters \cup Consents \cup Mails) :
        /\ maxFetch \in {n \in 0 .. Cardinality(Mails) : Append(ShapeOf(cast), n) \in Shapes}
        /\ IntegrationsInit(cast)
        /\ now = IF cast \cap Mails = {} THEN MaxNow ELSE 0
        /\ date = [m \in Mails |-> IF m \in cast THEN Never ELSE Absent] /\ unread = {} /\ watermark = Never
        /\ work = [w \in Workers |->
                     [pc |-> IF w \in cast THEN "idle" ELSE "ended", mail |-> Nobody]]
        /\ sync = [r \in Runs |-> [since |-> Never, started |-> 0, todo |-> {}, cut |-> FALSE]]
        /\ customers \in {<<>>, <<[by |-> Nobody, exact |-> TRUE, rivals |-> {}]>>}
        /\ tasks = {} /\ spent = 0 /\ failed = {}
  BY DEF Init
<1>2. \A w \in Workers : work[w].pc \in {"idle", "ended"} /\ work[w].mail = Nobody
  BY <1>1
<1>3. Joined
  <2>1. \A r \in Runs : work[r].pc \in {"idle", "ended"}
    BY <1>2 DEF Workers
  <2> QED
    BY <1>1, <2>1, ConnectionStarts
<1>4. /\ now \in Times /\ 0 <= now /\ 0 \in Times /\ Never \notin Times /\ Absent \notin Times
  BY <1>1, IntakeAssumption DEF Times
<1>5. maxFetch \in 0 .. Cardinality(Mails)
  BY <1>1
<1>6. \A r \in Runs : /\ sync[r].started = 0 /\ sync[r].since = Never
  BY <1>1
<1>7. TypeOK
  <2>1. date \in [Mails -> Times \cup {Never, Absent}]
    BY <1>1
  <2>2. sync \in [Runs -> [since : Times \cup {Never}, started : Times, todo : SUBSET Mails, cut : BOOLEAN]]
    BY <1>1, <1>4
  <2>3. customers \in Seq([by : Creators \cup {Nobody}, exact : BOOLEAN, rivals : SUBSET Creators])
    <3> DEFINE R == [by : Creators \cup {Nobody}, exact : BOOLEAN, rivals : SUBSET Creators]
               c == [by |-> Nobody, exact |-> TRUE, rivals |-> {}]
    <3>1. c \in R /\ customers \in {<<>>, <<c>>}
      BY <1>1
    <3> HIDE DEF R, c
    <3>2. <<>> \in Seq(R) /\ <<c>> \in Seq(R)
      BY <3>1
    <3>3. customers \in Seq(R)
      BY <3>1, <3>2
    <3> QED
      BY <3>3 DEF R
  <2> QED
    BY <1>1, <1>2, <1>3, <1>4, <1>5, <2>1, <2>2, <2>3 DEF TypeOK, Joined
<1>8. WorkOK
  <2>1. work \in [Workers -> [pc : Steps, mail : Mails \cup {Nobody}]]
    BY <1>1 DEF Steps
  <2> QED
    BY <1>1, <1>2, <1>4, <1>6, <2>1 DEF WorkOK, Ingesting
<1>9. PassedIsHandled
  BY <1>1 DEF PassedIsHandled, Handled
<1>10. RunHasAll
  BY <1>1 DEF RunHasAll, Handled
<1>11. RivalsAreKnown
  <2>1. \A j, k \in DOMAIN customers : ~(j < k)
    BY <1>1
  <2>2. \A w \in Workers : ~At(w, "creating")
    BY <1>2 DEF At
  <2> QED
    BY <2>1, <2>2 DEF RivalsAreKnown, CustomersAreShared
<1>12. SpentInv
  <2>1. Begun = {} /\ SpentFits
    BY <1>2 DEF Begun, SpentFits
  <2> QED
    BY <1>1, <2>1, SpentIs DEF SpentInv
<1> QED
  BY <1>3, <1>7, <1>8, <1>9, <1>10, <1>11, <1>12 DEF IntakeInv, MailInv

LEMMA IntakeStays ==
  ASSUME IntakeInv, UNCHANGED vars
  PROVE  IntakeInv'
<1>1. UNCHANGED <<maxFetch, workVars, integrationVars, now, date, unread>>
  BY DEF vars, intakeVars, mailVars
<1>2. /\ now \in Times /\ now <= now /\ date \in [Mails -> Dates] /\ unread \subseteq Mails
      /\ \A m \in unread : date[m] \in Times
  BY MailTypes DEF IntakeInv, Times, MailInv, WorkOK, Arrived
<1> QED
  BY <1>1, <1>2, WorldMoves

LEMMA IntakeInvHolds == Spec => []IntakeInv
<1>1. Init => IntakeInv
  BY IntakeStarts
<1>2. IntakeInv /\ [Next]_vars => IntakeInv'
  <2> SUFFICES ASSUME IntakeInv, [Next]_vars
               PROVE  IntakeInv'
    OBVIOUS
  <2>1. CASE Syncing
    BY <2>1, SyncStartsKeeps, SyncConnectsKeeps, SyncMarksKeeps, SyncFetchesKeeps, SyncTakesKeeps, SyncEndsKeeps,
       SyncDiesKeeps DEF Syncing
  <2>2. CASE Ingests
    BY <2>2, IngestsKeeps DEF Ingests
  <2>3. CASE World
    BY <2>3, WorldKeeps
  <2>4. CASE Connection
    BY <2>4, ConnectionKeeps DEF Connection
  <2>5. CASE UNCHANGED vars
    BY <2>5, IntakeStays
  <2> QED
    BY <2>1, <2>2, <2>3, <2>4, <2>5 DEF Next
<1> QED
  BY <1>1, <1>2, PTL DEF Spec

LEMMA IntakeInvSuffices == IntakeInv => IntakeIsSound /\ IntegrationIsSound
<1> SUFFICES ASSUME IntakeInv
             PROVE  IntakeIsSound /\ IntegrationIsSound
  OBVIOUS
<1>0. /\ MailInv /\ ConnectionInv /\ IntegrationsTypeOK /\ LetterInv
  BY DEF IntakeInv, Joined
<1>1. NoMailIsMissed
  BY <1>0 DEF NoMailIsMissed, MailInv, PassedIsHandled, Before, Handled
<1>2. IngestsOverlapSafely
  BY <1>0 DEF IngestsOverlapSafely, MailInv, RivalsAreKnown, SpentInv
<1>3. StatusIsTrue
  <2>1. row.status = "EXPIRED" /\ row.refresh \in valid \cup {NoToken} => expiredBy \in late
    BY <1>0 DEF ConnectionInv, ExpiredIsDead
  <2>2. row.status = "DISCONNECTED" /\ {row.access, row.refresh} # {NoToken} => late # {}
    BY <1>0 DEF ConnectionInv, DisconnectedIsEmpty
  <2>3. row.status = "CONNECTED" /\ row.refresh \notin valid => saving # {} \/ lost \/ late # {}
    BY <1>0 DEF ConnectionInv, GrantIsKept
  <2> QED
    BY <2>1, <2>2, <2>3 DEF StatusIsTrue
<1>4. LetterIsSentOnce
  <2> SUFFICES ASSUME NEW l \in Letters
               PROVE  /\ letter[l].delivered <= 1 + letter[l].timeouts
                      /\ letter[l].pc = "sent" => letter[l].delivered >= 1
                      /\ letter[l].pc = "failed" => letter[l].delivered <= letter[l].timeouts
    BY DEF LetterIsSentOnce
  <2>1. letter[l] \in LetterType /\ LetterOK(letter[l])
    BY <1>0, ConnectionTypes DEF LetterInv
  <2>2. /\ letter[l].pc \in LetterSteps /\ letter[l].delivered \in Nat /\ letter[l].timeouts \in Nat
    BY <2>1 DEF LetterType, Counts
  <2> QED
    BY <2>1, <2>2 DEF LetterOK, LetterSteps
<1> QED
  BY <1>1, <1>2, <1>3, <1>4 DEF IntakeIsSound, IntegrationIsSound

(* No mail is passed over by runs that overlap, end out of order, die or   *)
(* fetch a part; ingests that overlap share the sender's customer unless   *)
(* both looked first, and pass the budget by less than one call each.      *)
THEOREM IntakeSound == Spec => []IntakeIsSound
  BY IntakeInvHolds, IntakeInvSuffices, PTL

(* The status of the connection is true but for the races that late names, *)
(* and a letter reaches its customer once but for its tries that timed out.*)
THEOREM IntegrationSound == Spec => []IntegrationIsSound
  BY IntakeInvHolds, IntakeInvSuffices, PTL
=============================================================================
