---------------------------- MODULE BillingProofs ----------------------------
(***************************************************************************)
(* Theorems about Billing, for every set of requests, of items and of      *)
(* prices: what the version key protects, that services only grow, that    *)
(* checkouts are invoiced, and that total and bill are exact while         *)
(* requests come one at a time.                                            *)
(***************************************************************************)
EXTENDS Billing, FiniteSetTheorems, SequenceTheorems, WellFoundedInduction, TLAPS

-----------------------------------------------------------------------------
(* The inductive invariant. *)

\* A version that was loaded is not newer than the stored one.
VersionsAreOld == \A r \in Requests : pc[r] \in InFlight => copy[r].v <= booking.v

\* Where a request stands tells what it was asked and what it has done.
Quoting == {"addServices", "setRoomServices", "updateRoomServices"}
StageTellsKind ==
  \A r \in Requests :
    /\ pc[r] = "quoted" => op[r].kind \in Quoting /\ Wanted(r) \subseteq Offered(op[r].kind)
    /\ pc[r] \in {"billed", "mailed"} => invoice[r] > 0 /\ copy[r].status = "Checked in"
    /\ invoice[r] > 0 => pc[r] \in {"billed", "mailed", "done", "failed"}

\* While requests come one at a time and no price is changed: the one that is
\* about knows the stored booking, all know the prices, the services are priced
\* as the catalogue has them, and who has billed the stay has ended it, is
\* about to, or failed.
Calm ==
  /\ \A r, q \in Requests : pc[r] \in InFlight /\ pc[q] \in InFlight => r = q
  /\ \A r \in Requests : pc[r] \in InFlight => copy[r] = booking
  /\ \A r \in Requests : quote[r] = price
  /\ \A k \in DOMAIN booking.services : booking.services[k].price = price[booking.services[k].item]
  /\ ChargesAreComplete
  /\ \A r \in Billed : pc[r] = "done" => booking.status = "Checked out"
  /\ \A r, q \in Billed : pc[r] # "failed" /\ pc[q] # "failed" => r = q

BillingInv ==
  /\ TypeOK /\ VersionsAreOld /\ SameVersionSameEntries /\ StageTellsKind
  /\ CheckedOutIsInvoiced /\ (calm => Calm)

-----------------------------------------------------------------------------
(* Sums.  Induction over the natural numbers, where it is needed, is the     *)
(* choice of a smallest counterexample.                                      *)

LEMMA SmallestOf ==
  ASSUME NEW T \in SUBSET Nat, T # {}
  PROVE  \E n \in T : \A m \in T : n <= m
<1> DEFINE R == OpToRel(<, Nat)
<1>1. IsWellFoundedOn(R, Nat)
  BY NatLessThanWellFounded
<1>2. \A n, m \in Nat : <<m, n>> \in R <=> m < n
  BY DEF OpToRel
<1> HIDE DEF R
<1>3. PICK n \in T : \A m \in T : ~(<<m, n>> \in R)
  BY <1>1, WFMin
<1>4. \A m \in T : ~(m < n)
  BY <1>2, <1>3
<1>5. \A x, y \in Nat : ~(x < y) => y <= x
  OBVIOUS
<1>6. QED
  BY <1>3, <1>4, <1>5

\* Partial sums: up[k] is the sum of the first k numbers.
Adds(up, list, n) ==
  /\ up \in [0 .. n -> Int] /\ up[0] = 0
  /\ \A k \in 1 .. n : up[k] = up[k - 1] + list[k]

LEMMA PartialSums ==
  ASSUME NEW list \in Seq(Int), NEW n \in 0 .. Len(list)
  PROVE  \E up : Adds(up, list, n)
<1>1. Len(list) \in Nat /\ \A k \in 1 .. Len(list) : list[k] \in Int
  BY LenProperties, ElementOfSeq
<1> DEFINE Bad == {k \in 0 .. Len(list) : ~\E up : Adds(up, list, k)}
<1>2. Bad \in SUBSET Nat
  BY <1>1
<1>3. SUFFICES ASSUME Bad # {} PROVE FALSE
  OBVIOUS
<1>4. PICK m \in Bad : \A k \in Bad : m <= k
  <2> HIDE DEF Bad
  <2>1. QED
    BY <1>2, <1>3, SmallestOf
<1>5. CASE m = 0
  <2>1. Adds([k \in 0 .. 0 |-> 0], list, 0)
    BY DEF Adds
  <2>2. QED
    BY <1>5, <2>1
<1>6. CASE m # 0
  <2>1. m \in 1 .. Len(list) /\ m - 1 \in 0 .. Len(list) /\ m - 1 \notin Bad
    BY <1>1, <1>4, <1>6
  <2>2. PICK up : Adds(up, list, m - 1)
    BY <2>1
  <2> DEFINE more == [k \in 0 .. m |-> IF k = m THEN up[m - 1] + list[m] ELSE up[k]]
  <2>3. more \in [0 .. m -> Int] /\ more[0] = 0 /\ more[m] = up[m - 1] + list[m]
    BY <1>1, <1>6, <2>1, <2>2 DEF Adds
  <2>4. \A k \in 0 .. m - 1 : more[k] = up[k]
    BY <2>1
  <2>5. ASSUME NEW k \in 1 .. m PROVE more[k] = more[k - 1] + list[k]
    <3>1. CASE k = m
      <4>1. more[m - 1] = up[m - 1]
        BY <2>1, <2>4
      <4>2. QED
        BY <2>3, <3>1, <4>1
    <3>2. CASE k # m
      <4>1. k \in 1 .. m - 1 /\ k \in 0 .. m - 1 /\ k - 1 \in 0 .. m - 1
        BY <2>1, <3>2
      <4>2. up[k] = up[k - 1] + list[k]
        BY <2>2, <4>1 DEF Adds
      <4>3. more[k] = up[k] /\ more[k - 1] = up[k - 1]
        BY <2>4, <4>1
      <4>4. QED
        BY <4>2, <4>3
    <3>3. QED
      BY <3>1, <3>2
  <2> HIDE DEF more
  <2>6. Adds(more, list, m)
    BY <2>3, <2>5 DEF Adds
  <2>7. QED
    BY <1>4, <2>6
<1>7. QED
  BY <1>5, <1>6

\* There is only one way to add up the beginnings of lists that are the same.
LEMMA AddsOnce ==
  ASSUME NEW n \in Nat, NEW list, NEW more, NEW up, NEW other, Adds(up, list, n),
         other[0] = 0, \A k \in 1 .. n : other[k] = other[k - 1] + more[k] /\ more[k] = list[k]
  PROVE  \A k \in 0 .. n : other[k] = up[k]
<1> DEFINE Bad == {k \in 0 .. n : other[k] # up[k]}
<1>1. SUFFICES ASSUME Bad # {} PROVE FALSE
  OBVIOUS
<1>2. Bad \in SUBSET Nat
  OBVIOUS
<1>3. PICK m \in Bad : \A k \in Bad : m <= k
  <2> HIDE DEF Bad
  <2>1. QED
    BY <1>1, <1>2, SmallestOf
<1>4. m # 0
  BY <1>3 DEF Adds
<1>5. m \in 1 .. n /\ m - 1 \in 0 .. n /\ m - 1 \notin Bad
  BY <1>3, <1>4
<1>6. other[m] = up[m - 1] + list[m]
  BY <1>5
<1>7. QED
  BY <1>3, <1>5, <1>6 DEF Adds

LEMMA SumAdds ==
  ASSUME NEW list \in Seq(Int), NEW up, Adds(up, list, Len(list))
  PROVE  Sum(list) = up[Len(list)] /\ Sum(list) \in Int
<1> DEFINE n == Len(list)
           by == CHOOSE u : u = [k \in 0 .. n |-> IF k = 0 THEN 0 ELSE u[k - 1] + list[k]]
<1>1. n \in Nat
  BY LenProperties
<1>2. up = [k \in 0 .. n |-> IF k = 0 THEN 0 ELSE up[k - 1] + list[k]]
  BY <1>1 DEF Adds
<1>3. by = [k \in 0 .. n |-> IF k = 0 THEN 0 ELSE by[k - 1] + list[k]]
  BY <1>2
<1>4. Sum(list) = by[n]
  BY DEF Sum
<1> HIDE DEF by
<1>5. by[0] = 0 /\ \A k \in 1 .. n : by[k] = by[k - 1] + list[k]
  BY <1>1, <1>3
<1>6. by[n] = up[n]
  BY <1>1, <1>5, AddsOnce
<1>7. QED
  BY <1>1, <1>4, <1>6 DEF Adds

LEMMA SumIs ==
  ASSUME NEW list \in Seq(Int)
  PROVE  \E up : Adds(up, list, Len(list)) /\ Sum(list) = up[Len(list)] /\ Sum(list) \in Int
<1>1. Len(list) \in 0 .. Len(list)
  BY LenProperties
<1>2. QED
  BY <1>1, PartialSums, SumAdds

\* A number at the end.
LEMMA SumAppends ==
  ASSUME NEW list \in Seq(Int), NEW x \in Int
  PROVE  Sum(Append(list, x)) = Sum(list) + x
<1> DEFINE n == Len(list)
           more == Append(list, x)
<1>1. /\ n \in Nat /\ more \in Seq(Int) /\ Len(more) = n + 1 /\ more[n + 1] = x
      /\ \A k \in 1 .. n : more[k] = list[k]
  BY LenProperties, AppendProperties
<1>2. PICK up : Adds(up, list, n) /\ Sum(list) = up[n]
  BY SumIs
<1> HIDE DEF more, n
<1> DEFINE next == [k \in 0 .. n + 1 |-> IF k = n + 1 THEN up[n] + x ELSE up[k]]
<1>3. next \in [0 .. n + 1 -> Int] /\ next[n + 1] = up[n] + x /\ \A k \in 0 .. n : next[k] = up[k]
  BY <1>1, <1>2 DEF Adds
<1> HIDE DEF next
<1>4. \A k \in 1 .. n + 1 : next[k] = next[k - 1] + more[k]
  <2> SUFFICES ASSUME NEW k \in 1 .. n + 1 PROVE next[k] = next[k - 1] + more[k]
    OBVIOUS
  <2>1. CASE k = n + 1
    BY <1>1, <1>3, <2>1
  <2>2. CASE k # n + 1
    <3>1. k \in 1 .. n /\ k - 1 \in 0 .. n
      BY <1>1, <2>2
    <3>2. QED
      BY <1>1, <1>2, <1>3, <3>1 DEF Adds
  <2>3. QED
    BY <2>1, <2>2
<1>5. Adds(next, more, Len(more))
  BY <1>1, <1>2, <1>3, <1>4 DEF Adds
<1>6. Sum(more) = next[n + 1]
  BY <1>1, <1>5, SumAdds
<1>7. QED
  BY <1>2, <1>3, <1>6 DEF more

\* Another number in a place.
LEMMA SumAlters ==
  ASSUME NEW list \in Seq(Int), NEW more \in Seq(Int), Len(more) = Len(list), NEW i \in 1 .. Len(list),
         \A k \in 1 .. Len(list) : k # i => more[k] = list[k]
  PROVE  Sum(more) = Sum(list) + more[i] - list[i]
<1> DEFINE n == Len(list)
           d == more[i] - list[i]
<1>1. n \in Nat /\ i \in 1 .. n /\ more[i] \in Int /\ list[i] \in Int /\ d \in Int
      /\ \A k \in 1 .. n : list[k] \in Int
  BY LenProperties, ElementOfSeq
<1>a. Len(more) = n /\ \A k \in 1 .. n : k # i => more[k] = list[k]
  OBVIOUS
<1>2. PICK up : Adds(up, list, n) /\ Sum(list) = up[n]
  BY SumIs
<1> DEFINE next == [k \in 0 .. n |-> IF k >= i THEN up[k] + d ELSE up[k]]
<1> HIDE DEF d, n
<1>3. next \in [0 .. n -> Int] /\ next[0] = 0 /\ next[n] = up[n] + d
      /\ \A k \in 0 .. n : next[k] = IF k >= i THEN up[k] + d ELSE up[k]
  <2>1. up[0] = 0 /\ \A k \in 0 .. n : up[k] \in Int
    BY <1>2 DEF Adds
  <2>2. \A k \in 0 .. n : next[k] = IF k >= i THEN up[k] + d ELSE up[k]
    OBVIOUS
  <2>3. \A k \in 0 .. n : up[k] + d \in Int
    BY <1>1, <2>1
  <2>4. next \in [0 .. n -> Int]
    BY <2>1, <2>3
  <2> HIDE DEF next
  <2>5. 0 \in 0 .. n /\ n \in 0 .. n /\ ~(0 >= i) /\ n >= i
    BY <1>1
  <2>6. QED
    BY <2>1, <2>2, <2>4, <2>5
<1> HIDE DEF next
<1>4. \A k \in 1 .. n : more[k] = IF k = i THEN list[k] + d ELSE list[k]
  BY <1>1, <1>a DEF d
<1>5. \A k \in 1 .. n : next[k] = next[k - 1] + more[k]
  <2> SUFFICES ASSUME NEW k \in 1 .. n PROVE next[k] = next[k - 1] + more[k]
    OBVIOUS
  <2>1. up[k] = up[k - 1] + list[k] /\ up[k - 1] \in Int /\ list[k] \in Int
    <3>1. \A j \in 1 .. n : up[j] = up[j - 1] + list[j]
      BY <1>2 DEF Adds
    <3>2. k - 1 \in 0 .. n
      BY <1>1
    <3>3. up[k - 1] \in Int
      BY <1>2, <3>2 DEF Adds
    <3>4. QED
      BY <1>1, <3>1, <3>3
  <2>2. k - 1 \in 0 .. n /\ k \in 0 .. n
    BY <1>1
  <2>3. /\ next[k] = IF k >= i THEN up[k] + d ELSE up[k]
        /\ next[k - 1] = IF k - 1 >= i THEN up[k - 1] + d ELSE up[k - 1]
        /\ more[k] = IF k = i THEN list[k] + d ELSE list[k]
    BY <1>3, <1>4, <2>2
  <2>4. QED
    BY <1>1, <2>1, <2>3
<1>6. Adds(next, more, Len(more))
  BY <1>1, <1>3, <1>5, <1>a DEF Adds
<1>7. Sum(more) = next[n]
  BY <1>6, <1>a, SumAdds
<1>8. up[n] \in Int
  BY <1>1, <1>2 DEF Adds
<1>9. QED
  BY <1>1, <1>2, <1>3, <1>7, <1>8 DEF d

\* A number taken out.
LEMMA SumRemoves ==
  ASSUME NEW list \in Seq(Int), NEW i \in 1 .. Len(list), NEW less \in Seq(Int), Len(less) = Len(list) - 1,
         \A k \in 1 .. Len(less) : less[k] = IF k < i THEN list[k] ELSE list[k + 1]
  PROVE  Sum(less) = Sum(list) - list[i]
<1> DEFINE n == Len(list)
<1>1. n \in Nat /\ i \in 1 .. n /\ \A k \in 1 .. n : list[k] \in Int
  BY LenProperties, ElementOfSeq
<1>2. PICK up : Adds(up, list, n) /\ Sum(list) = up[n]
  BY SumIs
<1>a. Len(less) = n - 1 /\ \A k \in 1 .. n - 1 : less[k] = IF k < i THEN list[k] ELSE list[k + 1]
  OBVIOUS
<1> HIDE DEF n
<1>3. \A k \in 0 .. n : up[k] \in Int
  BY <1>2 DEF Adds
<1> DEFINE next == [k \in 0 .. n - 1 |-> IF k < i THEN up[k] ELSE up[k + 1] - list[i]]
<1>4. /\ next \in [0 .. n - 1 -> Int]
      /\ \A k \in 0 .. n - 1 : next[k] = IF k < i THEN up[k] ELSE up[k + 1] - list[i]
  BY <1>1, <1>3
<1> HIDE DEF next
<1>5. next[0] = 0
  BY <1>1, <1>2, <1>4 DEF Adds
<1>6. \A k \in 1 .. n - 1 : next[k] = next[k - 1] + less[k]
  <2> SUFFICES ASSUME NEW k \in 1 .. n - 1 PROVE next[k] = next[k - 1] + less[k]
    OBVIOUS
  <2>1. k - 1 \in 0 .. n - 1 /\ k \in 0 .. n - 1 /\ k \in 1 .. n /\ k + 1 \in 1 .. n
    BY <1>1
  <2>2. /\ up[k] = up[k - 1] + list[k] /\ up[k + 1] = up[k] + list[k + 1]
        /\ up[k - 1] \in Int /\ up[k] \in Int /\ up[k + 1] \in Int
        /\ list[k] \in Int /\ list[k + 1] \in Int
    <3>1. \A j \in 1 .. n : up[j] = up[j - 1] + list[j]
      BY <1>2 DEF Adds
    <3>2. up[k + 1] = up[(k + 1) - 1] + list[k + 1] /\ (k + 1) - 1 = k
      BY <2>1, <3>1
    <3>3. up[k - 1] \in Int /\ up[k] \in Int /\ up[k + 1] \in Int
      BY <1>1, <1>3
    <3>4. QED
      BY <1>1, <2>1, <3>1, <3>2, <3>3
  <2>3. less[k] = IF k < i THEN list[k] ELSE list[k + 1]
    BY <1>a
  <2>4. (k - 1) + 1 = k
    BY <1>1
  <2>5. /\ next[k] = IF k < i THEN up[k] ELSE up[k + 1] - list[i]
        /\ next[k - 1] = IF k - 1 < i THEN up[k - 1] ELSE up[k] - list[i]
    BY <1>4, <2>1, <2>4
  <2>6. CASE k < i
    BY <1>1, <2>2, <2>3, <2>5, <2>6
  <2>7. CASE k = i
    <3>1. next[k] = up[k + 1] - list[k] /\ next[k - 1] = up[k - 1] /\ less[k] = list[k + 1]
      BY <1>1, <2>3, <2>5, <2>7
    <3>2. /\ up[k - 1] \in Int /\ list[k] \in Int /\ list[k + 1] \in Int
          /\ up[k + 1] = (up[k - 1] + list[k]) + list[k + 1]
      BY ONLY <2>2
    <3>3. \A a, l, m \in Int : ((a + l) + m) - l = a + m
      OBVIOUS
    <3>4. up[k + 1] - list[k] = up[k - 1] + list[k + 1]
      BY ONLY <3>2, <3>3
    <3>5. QED
      BY <3>1, <3>4
  <2>8. CASE k > i
    <3>1. next[k] = up[k + 1] - list[i] /\ next[k - 1] = up[k] - list[i] /\ less[k] = list[k + 1]
      BY <1>1, <2>3, <2>5, <2>8
    <3>2. list[i] \in Int
      BY <1>1
    <3>3. QED
      BY <2>2, <3>1, <3>2
  <2>9. QED
    BY <1>1, <2>6, <2>7, <2>8
<1>7. Adds(next, less, Len(less))
  BY <1>1, <1>4, <1>5, <1>6, <1>a DEF Adds
<1>8. Sum(less) = next[n - 1]
  BY <1>7, <1>a, SumAdds
<1>9. next[n - 1] = up[n] - list[i]
  <2>1. CASE i = n
    <3>1. up[n] = up[n - 1] + list[n] /\ up[n - 1] \in Int
      BY <1>1, <1>2, <1>3 DEF Adds
    <3>2. QED
      BY <1>1, <1>4, <2>1, <3>1
  <2>2. CASE i # n
    BY <1>1, <1>4, <2>2
  <2>3. QED
    BY <2>1, <2>2
<1>10. QED
  BY <1>2, <1>8, <1>9

-----------------------------------------------------------------------------
(* Lists of items. *)

LEMMA FunctionIsSeq ==
  ASSUME NEW S, NEW n \in Nat, NEW f \in [1 .. n -> S]
  PROVE  f \in Seq(S) /\ Len(f) = n
<1>1. f \in Seq(S)
  BY SeqDef
<1>2. Len(f) \in Nat /\ 1 .. Len(f) = 1 .. n
  BY <1>1, LenProperties
<1>3. QED
  BY <1>1, <1>2

\* What each entry comes to.
Costs(items) == [k \in DOMAIN items |-> items[k].qty * items[k].price]
IsPriced(items) ==
  \E n \in Nat : DOMAIN items = 1 .. n /\ \A k \in 1 .. n : items[k].qty \in Int /\ items[k].price \in Int

LEMMA WorthTyped ==
  ASSUME NEW items, IsPriced(items)
  PROVE  /\ Costs(items) \in Seq(Int) /\ DOMAIN items = 1 .. Len(Costs(items))
         /\ Worth(items) = Sum(Costs(items)) /\ Worth(items) \in Int
<1>1. PICK n \in Nat : DOMAIN items = 1 .. n
                       /\ \A k \in 1 .. n : items[k].qty \in Int /\ items[k].price \in Int
  BY DEF IsPriced
<1>2. \A x, y \in Int : x * y \in Int
  OBVIOUS
<1>3. Costs(items) \in [1 .. n -> Int]
  BY <1>1, <1>2 DEF Costs
<1>4. Costs(items) \in Seq(Int) /\ Len(Costs(items)) = n
  BY <1>3, FunctionIsSeq
<1>5. QED
  BY <1>1, <1>4, SumIs DEF Worth, Costs

LEMMA EntriesAreNumbers ==
  /\ \A e \in ServiceItem : e.qty \in Int /\ e.price \in Int /\ e.item \in ServiceIds
  /\ \A e \in RoomServiceItem : e.qty \in Int /\ e.price \in Int /\ e.item \in RoomServiceIds
<1>1. Prices \subseteq Int /\ Nat \ {0} \subseteq Int
  BY BillingAssumption
<1>2. \A e \in ServiceItem : e.qty \in Int /\ e.price \in Prices /\ e.item \in ServiceIds
  BY DEF ServiceItem
<1>3. \A e \in RoomServiceItem : e.qty \in Nat \ {0} /\ e.price \in Prices /\ e.item \in RoomServiceIds
  BY DEF RoomServiceItem
<1>4. QED
  BY <1>1, <1>2, <1>3, Zenon

LEMMA ItemsArePriced ==
  ASSUME NEW items \in Seq(ServiceItem) \cup Seq(RoomServiceItem)
  PROVE  IsPriced(items) /\ DOMAIN items = 1 .. Len(items) /\ Len(items) \in Nat
<1>1. CASE items \in Seq(ServiceItem)
  <2>1. \A k \in 1 .. Len(items) : items[k] \in ServiceItem
    BY <1>1, ElementOfSeq
  <2>2. DOMAIN items = 1 .. Len(items) /\ Len(items) \in Nat
    BY <1>1, LenProperties
  <2>3. QED
    BY <2>1, <2>2, EntriesAreNumbers DEF IsPriced
<1>2. CASE items \in Seq(RoomServiceItem)
  <2>1. \A k \in 1 .. Len(items) : items[k] \in RoomServiceItem
    BY <1>2, ElementOfSeq
  <2>2. DOMAIN items = 1 .. Len(items) /\ Len(items) \in Nat
    BY <1>2, LenProperties
  <2>3. QED
    BY <2>1, <2>2, EntriesAreNumbers DEF IsPriced
<1>3. QED
  BY <1>1, <1>2

LEMMA WorthAppends ==
  ASSUME NEW items \in Seq(ServiceItem), NEW e \in ServiceItem
  PROVE  Worth(Append(items, e)) = Worth(items) + e.qty * e.price
<1> DEFINE more == Append(items, e)
           n == Len(items)
<1>1. /\ more \in Seq(ServiceItem) /\ Len(more) = n + 1 /\ more[n + 1] = e /\ n \in Nat
      /\ \A k \in 1 .. n : more[k] = items[k]
  BY AppendProperties, LenProperties
<1>2. /\ Costs(items) \in Seq(Int) /\ Costs(more) \in Seq(Int)
      /\ Worth(items) = Sum(Costs(items)) /\ Worth(more) = Sum(Costs(more))
      /\ DOMAIN items = 1 .. n /\ DOMAIN more = 1 .. n + 1
      /\ DOMAIN items = 1 .. Len(Costs(items)) /\ DOMAIN more = 1 .. Len(Costs(more))
  <2>1. IsPriced(items) /\ DOMAIN items = 1 .. n
    BY ItemsArePriced
  <2>2. IsPriced(more) /\ DOMAIN more = 1 .. n + 1
    BY <1>1, ItemsArePriced
  <2>3. QED
    BY <2>1, <2>2, WorthTyped
<1> HIDE DEF more, n
<1>3. Len(Costs(items)) = n /\ Len(Costs(more)) = n + 1
  BY <1>1, <1>2, LenProperties
<1>4. e.qty * e.price \in Int
  <2>1. e.qty \in Int /\ e.price \in Int
    BY EntriesAreNumbers
  <2>2. \A x, y \in Int : x * y \in Int
    OBVIOUS
  <2>3. QED
    BY <2>1, <2>2
<1>5. Costs(more) = Append(Costs(items), e.qty * e.price)
  <2> DEFINE s == Append(Costs(items), e.qty * e.price)
  <2>1. /\ s \in Seq(Int) /\ Len(s) = n + 1 /\ s[n + 1] = e.qty * e.price
        /\ \A k \in 1 .. n : s[k] = Costs(items)[k]
    BY <1>2, <1>3, <1>4, AppendProperties
  <2> HIDE DEF s
  <2>2. \A k \in 1 .. n + 1 : Costs(more)[k] = s[k]
    BY <1>1, <1>2, <2>1 DEF Costs
  <2>3. Costs(more) = s
    BY <1>2, <1>3, <2>1, <2>2, SeqEqual
  <2>4. QED
    BY <2>3 DEF s
<1>6. QED
  BY <1>2, <1>4, <1>5, SumAppends DEF more

LEMMA WorthAlters ==
  ASSUME NEW items, NEW other, IsPriced(items), IsPriced(other), DOMAIN other = DOMAIN items,
         NEW i \in DOMAIN items, \A k \in DOMAIN items : k # i => other[k] = items[k]
  PROVE  Worth(other) = Worth(items) + other[i].qty * other[i].price - items[i].qty * items[i].price
<1>1. /\ Costs(items) \in Seq(Int) /\ Costs(other) \in Seq(Int)
      /\ Worth(items) = Sum(Costs(items)) /\ Worth(other) = Sum(Costs(other))
      /\ DOMAIN items = 1 .. Len(Costs(items)) /\ DOMAIN other = 1 .. Len(Costs(other))
  BY WorthTyped
<1>2. Len(Costs(items)) = Len(Costs(other))
  BY <1>1, LenProperties
<1>3. /\ \A k \in DOMAIN items : Costs(items)[k] = items[k].qty * items[k].price
      /\ \A k \in DOMAIN items : Costs(other)[k] = other[k].qty * other[k].price
  BY DEF Costs
<1>4. Sum(Costs(other)) = Sum(Costs(items)) + Costs(other)[i] - Costs(items)[i]
  <2> DEFINE a == Costs(items)
             b == Costs(other)
  <2>1. a \in Seq(Int) /\ b \in Seq(Int) /\ Len(b) = Len(a) /\ i \in 1 .. Len(a)
    BY <1>1, <1>2
  <2>2. \A k \in 1 .. Len(a) : k # i => b[k] = a[k]
    BY <1>1, <1>3
  <2> HIDE DEF a, b
  <2>3. Sum(b) = Sum(a) + b[i] - a[i]
    BY <2>1, <2>2, SumAlters
  <2>4. QED
    BY <2>3 DEF a, b
<1>5. QED
  BY <1>1, <1>3, <1>4

LEMMA RemovalIs ==
  ASSUME NEW S, NEW items \in Seq(S), NEW i \in 1 .. Len(items)
  PROVE  /\ RemoveAt(items, i) \in Seq(S) /\ Len(RemoveAt(items, i)) = Len(items) - 1
         /\ \A k \in 1 .. Len(items) - 1 :
              RemoveAt(items, i)[k] = IF k < i THEN items[k] ELSE items[k + 1]
<1> DEFINE n == Len(items)
           head == SubSeq(items, 1, i - 1)
           tail == SubSeq(items, i + 1, n)
<1>1. n \in Nat /\ i \in 1 .. n /\ i - 1 \in Int /\ i + 1 \in Int
      /\ \A k \in 1 .. n : items[k] \in S
  BY LenProperties, ElementOfSeq
<1>2. /\ head \in Seq(S) /\ Len(head) = i - 1
      /\ \A k \in 1 .. i - 1 : head[k] = items[k]
  <2>1. /\ head \in Seq(S) /\ Len(head) = IF 1 <= i - 1 THEN i - 1 - 1 + 1 ELSE 0
        /\ \A k \in 1 .. i - 1 - 1 + 1 : head[k] = items[1 + k - 1]
    BY <1>1, SubSeqProperties
  <2> HIDE DEF head
  <2>2. QED
    BY <1>1, <2>1
<1>3. /\ tail \in Seq(S) /\ Len(tail) = n - i
      /\ \A k \in 1 .. n - i : tail[k] = items[i + k]
  <2>1. /\ tail \in Seq(S) /\ Len(tail) = IF i + 1 <= n THEN n - (i + 1) + 1 ELSE 0
        /\ \A k \in 1 .. n - (i + 1) + 1 : tail[k] = items[i + 1 + k - 1]
    BY <1>1, SubSeqProperties
  <2> HIDE DEF tail, n
  <2>2. \A k \in 1 .. n - i : i + 1 + k - 1 = i + k
    BY <1>1
  <2>3. n - (i + 1) + 1 = n - i
    BY <1>1
  <2>4. QED
    BY <1>1, <2>1, <2>2, <2>3
<1>4. RemoveAt(items, i) = head \o tail
  BY DEF RemoveAt
<1> HIDE DEF head, tail, n
<1>5. /\ head \o tail \in Seq(S) /\ Len(head \o tail) = (i - 1) + (n - i)
      /\ \A k \in 1 .. (i - 1) + (n - i) :
           (head \o tail)[k] = IF k <= i - 1 THEN head[k] ELSE tail[k - (i - 1)]
  <2>1. /\ head \o tail \in Seq(S) /\ Len(head \o tail) = Len(head) + Len(tail)
        /\ \A k \in 1 .. Len(head) + Len(tail) :
             (head \o tail)[k] = IF k <= Len(head) THEN head[k] ELSE tail[k - Len(head)]
    <3>1. head \in Seq(S) /\ tail \in Seq(S)
      BY <1>2, <1>3
    <3>2. QED
      BY <3>1, ConcatProperties
  <2>2. Len(head) = i - 1 /\ Len(tail) = n - i
    BY <1>2, <1>3
  <2>3. QED
    BY <2>1, <2>2
<1>6. ASSUME NEW k \in 1 .. n - 1
      PROVE  (head \o tail)[k] = IF k < i THEN items[k] ELSE items[k + 1]
  <2>1. k \in 1 .. (i - 1) + (n - i)
    BY <1>1
  <2>2. CASE k < i
    BY <1>1, <1>2, <1>5, <2>1, <2>2
  <2>3. CASE ~(k < i)
    <3>1. k - (i - 1) \in 1 .. n - i /\ i + (k - (i - 1)) = k + 1 /\ ~(k <= i - 1)
      BY <1>1, <2>3
    <3>2. QED
      BY <1>3, <1>5, <2>1, <2>3, <3>1
  <2>4. QED
    BY <2>2, <2>3
<1>7. Len(head \o tail) = n - 1
  BY <1>1, <1>5
<1>8. QED
  BY <1>4, <1>5, <1>6, <1>7 DEF n

LEMMA WorthRemoves ==
  ASSUME NEW items \in Seq(RoomServiceItem), NEW i \in 1 .. Len(items)
  PROVE  Worth(RemoveAt(items, i)) = Worth(items) - items[i].price * items[i].qty
<1> DEFINE n == Len(items)
           less == RemoveAt(items, i)
<1>1. /\ less \in Seq(RoomServiceItem) /\ Len(less) = n - 1
      /\ \A k \in 1 .. n - 1 : less[k] = IF k < i THEN items[k] ELSE items[k + 1]
      /\ n \in Nat /\ i \in 1 .. n
  BY RemovalIs, LenProperties
<1>2. /\ Costs(items) \in Seq(Int) /\ Costs(less) \in Seq(Int)
      /\ Worth(items) = Sum(Costs(items)) /\ Worth(less) = Sum(Costs(less))
      /\ DOMAIN items = 1 .. n /\ DOMAIN less = 1 .. n - 1
      /\ DOMAIN items = 1 .. Len(Costs(items)) /\ DOMAIN less = 1 .. Len(Costs(less))
  <2>1. IsPriced(items) /\ DOMAIN items = 1 .. n
    BY ItemsArePriced
  <2>2. IsPriced(less) /\ DOMAIN less = 1 .. n - 1
    BY <1>1, ItemsArePriced
  <2>3. QED
    BY <2>1, <2>2, WorthTyped
<1> HIDE DEF n, less
<1>3. Len(Costs(items)) = n /\ Len(Costs(less)) = n - 1
  BY <1>1, <1>2, LenProperties
<1>4. \A k \in 1 .. n - 1 : Costs(less)[k] = IF k < i THEN Costs(items)[k] ELSE Costs(items)[k + 1]
  BY <1>1, <1>2 DEF Costs
<1>5. Sum(Costs(less)) = Sum(Costs(items)) - Costs(items)[i]
  <2> DEFINE old == Costs(items)
             new == Costs(less)
  <2>1. old \in Seq(Int) /\ new \in Seq(Int) /\ Len(new) = Len(old) - 1 /\ i \in 1 .. Len(old)
    BY <1>1, <1>2, <1>3
  <2>2. \A k \in 1 .. Len(new) : new[k] = IF k < i THEN old[k] ELSE old[k + 1]
    BY <1>3, <1>4
  <2> HIDE DEF old, new
  <2>3. Sum(new) = Sum(old) - old[i]
    BY <2>1, <2>2, SumRemoves
  <2>4. QED
    BY <2>3 DEF old, new
<1>6. items[i] \in RoomServiceItem
  BY <1>1, ElementOfSeq DEF n
<1>7. items[i].qty * items[i].price = items[i].price * items[i].qty
  <2>1. items[i].qty \in Int /\ items[i].price \in Int
    BY <1>6, EntriesAreNumbers
  <2>2. \A x, y \in Int : x * y = y * x
    OBVIOUS
  <2>3. QED
    BY <2>1, <2>2
<1>8. Costs(items)[i] = items[i].qty * items[i].price
  BY <1>1, <1>2 DEF Costs
<1>9. QED
  BY <1>2, <1>5, <1>7, <1>8 DEF less

LEMMA PositionIs ==
  ASSUME NEW list, NEW n \in Nat, DOMAIN list = 1 .. n, Len(list) = n, NEW i \in Listed(list)
  PROVE  Position(list, i) \in DOMAIN list /\ list[Position(list, i)].item = i
<1> DEFINE T == {k \in 1 .. n : list[k].item = i}
<1>1. T \in SUBSET Nat /\ T # {}
  BY DEF Listed
<1>2. Position(list, i) = CHOOSE x \in T : \A y \in T : x <= y
  BY <1>1 DEF Position, SelectInSeq, Min
<1> HIDE DEF T
<1>3. Position(list, i) \in T
  BY <1>1, <1>2, SmallestOf
<1>4. QED
  BY <1>3 DEF T

-----------------------------------------------------------------------------
(* Entering services. *)

\* new has the services of had in front, but for quantities.
Follows(had, new) ==
  /\ new \in Seq(ServiceItem) /\ Len(had) <= Len(new)
  /\ \A k \in 1 .. Len(had) : /\ new[k].item = had[k].item
                              /\ new[k].price = had[k].price /\ new[k].served = had[k].served
\* The services of list have the prices q.
PricedBy(list, q) == \A k \in 1 .. Len(list) : list[k].price = q[list[k].item]

LEMMA EnterGrows ==
  ASSUME NEW list \in Seq(ServiceItem), NEW w, w.item \in ServiceIds, w.qty \in Int,
         NEW q \in [Items -> Prices]
  PROVE  /\ Follows(list, Enter(list, w, q[w.item]))
         /\ PricedBy(list, q) =>
              /\ PricedBy(Enter(list, w, q[w.item]), q)
              /\ Worth(Enter(list, w, q[w.item])) = Worth(list) + w.qty * q[w.item]
<1> DEFINE n == Len(list)
           new == Enter(list, w, q[w.item])
<1>1. /\ n \in Nat /\ DOMAIN list = 1 .. n /\ \A k \in 1 .. n : list[k] \in ServiceItem
      /\ q[w.item] \in Prices
  BY LenProperties, ElementOfSeq DEF Items
<1>2. CASE w.item \in Listed(list)
  <2> DEFINE i == Position(list, w.item)
  <2>1. i \in 1 .. n /\ list[i].item = w.item
    BY <1>1, <1>2, PositionIs
  <2> HIDE DEF i
  <2>2. PICK e \in ServiceItem : e = [list[i] EXCEPT !.qty = @ + w.qty]
    <3>1. list[i] \in ServiceItem
      BY <1>1, <2>1
    <3>2. list[i].qty + w.qty \in Int
      BY <3>1, EntriesAreNumbers
    <3>3. [list[i] EXCEPT !.qty = @ + w.qty] \in ServiceItem
      BY <3>1, <3>2 DEF ServiceItem
    <3>4. QED
      BY <3>3
  <2>3. /\ e.item = list[i].item /\ e.price = list[i].price /\ e.served = list[i].served
        /\ e.qty = list[i].qty + w.qty
    BY <1>1, <2>1, <2>2 DEF ServiceItem
  <2>4. new = [list EXCEPT ![i] = e]
    BY <1>2, <2>2 DEF Enter, i
  <2> HIDE DEF new
  <2>5. /\ new \in [1 .. n -> ServiceItem] /\ new[i] = e
        /\ \A k \in 1 .. n : k # i => new[k] = list[k]
    <3>1. list \in [1 .. n -> ServiceItem]
      BY <1>1
    <3>2. QED
      BY <2>1, <2>4, <3>1
  <2>6. new \in Seq(ServiceItem) /\ Len(new) = n
    BY <1>1, <2>5, FunctionIsSeq
  <2>7. \A k \in 1 .. n : /\ new[k].item = list[k].item
                          /\ new[k].price = list[k].price /\ new[k].served = list[k].served
    BY <2>3, <2>5
  <2>8. Follows(list, new)
    BY <1>1, <2>6, <2>7 DEF Follows
  <2>9. ASSUME PricedBy(list, q)
        PROVE  PricedBy(new, q) /\ Worth(new) = Worth(list) + w.qty * q[w.item]
    <3>1. PricedBy(new, q)
      BY <2>6, <2>7, <2>9 DEF PricedBy
    <3>2. Worth(new) = Worth(list) + new[i].qty * new[i].price - list[i].qty * list[i].price
      <4>1. IsPriced(list) /\ IsPriced(new) /\ DOMAIN new = 1 .. n /\ DOMAIN list = 1 .. n
        BY <2>6, ItemsArePriced
      <4>2. QED
        BY <2>1, <2>5, <4>1, WorthAlters
    <3>3. list[i].price = q[w.item] /\ e.price = q[w.item]
      BY <2>1, <2>3, <2>9 DEF PricedBy
    <3>4. \A a, b, c \in Int : (a + b) * c = a * c + b * c /\ a * c \in Int /\ b * c \in Int
      OBVIOUS
    <3>5. list[i].qty \in Int /\ list[i].price \in Int
      BY <1>1, <2>1, EntriesAreNumbers
    <3>6. Worth(list) \in Int
      BY ItemsArePriced, WorthTyped
    <3>7. e.qty * e.price = list[i].qty * list[i].price + w.qty * q[w.item]
      BY <2>3, <3>3, <3>4, <3>5
    <3>8. list[i].qty * list[i].price \in Int /\ w.qty * q[w.item] \in Int
      BY <3>3, <3>4, <3>5
    <3>9. QED
      BY <2>5, <3>1, <3>2, <3>6, <3>7, <3>8
  <2>10. QED
    BY <2>8, <2>9 DEF new
<1>3. CASE w.item \notin Listed(list)
  <2> DEFINE e == [item |-> w.item, qty |-> w.qty, price |-> q[w.item], served |-> FALSE]
  <2>1. e \in ServiceItem
    BY <1>1 DEF ServiceItem
  <2>2. new = Append(list, e)
    BY <1>3 DEF Enter
  <2>3. e.item = w.item /\ e.price = q[w.item] /\ e.qty = w.qty
    OBVIOUS
  <2> HIDE DEF new, e
  <2>4. /\ new \in Seq(ServiceItem) /\ Len(new) = n + 1 /\ new[n + 1] = e
        /\ \A k \in 1 .. n : new[k] = list[k]
    BY <2>1, <2>2, AppendProperties
  <2>5. Follows(list, new)
    BY <1>1, <2>4 DEF Follows
  <2>6. ASSUME PricedBy(list, q) PROVE PricedBy(new, q)
    BY <1>1, <2>3, <2>4, <2>6 DEF PricedBy
  <2>7. Worth(new) = Worth(list) + w.qty * q[w.item]
    BY <2>1, <2>2, <2>3, WorthAppends
  <2>8. QED
    BY <2>5, <2>6, <2>7 DEF new
<1>4. QED
  BY <1>2, <1>3

\* The lists that come about as the first n entries of a request are entered.
Enters(after, r, n) ==
  /\ after = [k \in 0 .. n |-> after[k]] /\ after[0] = copy[r].services
  /\ \A k \in 1 .. n :
       after[k] = Enter(after[k - 1], op[r].want[k], quote[r][op[r].want[k].item])

LEMMA EntersExists ==
  ASSUME NEW r \in Requests, NEW n \in Nat
  PROVE  \E after : Enters(after, r, n)
<1> DEFINE Bad == {k \in 0 .. n : ~\E after : Enters(after, r, k)}
<1>1. SUFFICES ASSUME Bad # {} PROVE FALSE
  OBVIOUS
<1>2. Bad \in SUBSET Nat
  OBVIOUS
<1>3. PICK m \in Bad : \A k \in Bad : m <= k
  <2> HIDE DEF Bad
  <2>1. QED
    BY <1>1, <1>2, SmallestOf
<1>4. CASE m = 0
  <2>1. Enters([k \in 0 .. 0 |-> copy[r].services], r, 0)
    BY DEF Enters
  <2>2. QED
    BY <1>3, <1>4, <2>1
<1>5. CASE m # 0
  <2>1. m \in 1 .. n /\ m - 1 \in 0 .. n /\ m - 1 \notin Bad
    BY <1>3, <1>5
  <2>2. PICK after : Enters(after, r, m - 1)
    BY <2>1
  <2> DEFINE last == Enter(after[m - 1], op[r].want[m], quote[r][op[r].want[m].item])
             more == [k \in 0 .. m |-> IF k = m THEN last ELSE after[k]]
  <2> HIDE DEF last
  <2>3. more = [k \in 0 .. m |-> more[k]] /\ more[m] = last /\ \A k \in 0 .. m - 1 : more[k] = after[k]
    BY <2>1
  <2> HIDE DEF more
  <2>4. more[0] = copy[r].services
    BY <2>1, <2>2, <2>3 DEF Enters
  <2>5. ASSUME NEW k \in 1 .. m
        PROVE  more[k] = Enter(more[k - 1], op[r].want[k], quote[r][op[r].want[k].item])
    <3>1. more[k - 1] = after[k - 1]
      <4>1. k - 1 \in 0 .. m - 1
        BY <2>1
      <4>2. \A j \in 0 .. m - 1 : more[j] = after[j]
        BY <2>3
      <4>3. QED
        BY <4>1, <4>2
    <3>2. CASE k = m
      BY <2>3, <3>1, <3>2 DEF last
    <3>3. CASE k # m
      <4>1. k \in 1 .. m - 1 /\ k \in 0 .. m - 1
        BY <2>1, <3>3
      <4>2. QED
        BY <2>2, <2>3, <3>1, <4>1 DEF Enters
    <3>4. QED
      BY <3>2, <3>3
  <2>6. Enters(more, r, m)
    BY <2>3, <2>4, <2>5 DEF Enters
  <2>7. QED
    BY <1>3, <2>6
<1>6. QED
  BY <1>4, <1>5

LEMMA EnteredIs ==
  ASSUME NEW r \in Requests, Len(op[r].want) \in Nat
  PROVE  \E after : Enters(after, r, Len(op[r].want)) /\ Entered(r) = after[Len(op[r].want)]
<1> DEFINE n == Len(op[r].want)
           Step(a) == [k \in 0 .. n |->
                         IF k = 0 THEN copy[r].services
                         ELSE Enter(a[k - 1], op[r].want[k], quote[r][op[r].want[k].item])]
           by == CHOOSE a : a = Step(a)
<1>1. PICK after : Enters(after, r, n)
  BY EntersExists
<1>2. after = Step(after)
  <2>1. \A k \in 0 .. n : after[k] = Step(after)[k]
    <3>1. /\ after[0] = copy[r].services
          /\ \A k \in 1 .. n :
               after[k] = Enter(after[k - 1], op[r].want[k], quote[r][op[r].want[k].item])
      BY <1>1 DEF Enters
    <3>2. \A k \in 0 .. n : k # 0 => k \in 1 .. n
      OBVIOUS
    <3>3. QED
      BY <3>1, <3>2
  <2>2. after = [k \in 0 .. n |-> after[k]]
    BY <1>1 DEF Enters
  <2>3. QED
    BY <2>1, <2>2
<1>3. by = Step(by)
  BY <1>2
<1>4. Entered(r) = by[n]
  BY DEF Entered
<1> HIDE DEF by
<1>5. Enters(by, r, n)
  <2>1. by = [k \in 0 .. n |-> by[k]] /\ by[0] = copy[r].services
    BY <1>3
  <2>2. \A k \in 1 .. n : by[k] = Enter(by[k - 1], op[r].want[k], quote[r][op[r].want[k].item])
    BY <1>3
  <2>3. QED
    BY <2>1, <2>2 DEF Enters
<1>6. QED
  BY <1>4, <1>5

\* After any number of entries the list has grown, and while all the prices are
\* those of the catalogue it is worth what was charged.
LEMMA EnteredGrows ==
  ASSUME NEW r \in Requests, TypeOK, op[r].kind = "addServices", Wanted(r) \subseteq ServiceIds
  PROVE  /\ Follows(copy[r].services, Entered(r)) /\ Charge(r) \in Int
         /\ PricedBy(copy[r].services, quote[r]) =>
              /\ PricedBy(Entered(r), quote[r])
              /\ Worth(Entered(r)) = Worth(copy[r].services) + Charge(r)
<1> DEFINE n == Len(op[r].want)
           had == copy[r].services
           q == quote[r]
           charges == [k \in DOMAIN op[r].want |-> op[r].want[k].qty * quote[r][op[r].want[k].item]]
<1>1. had \in Seq(ServiceItem) /\ q \in [Items -> Prices] /\ Len(had) \in Nat
  BY LenProperties DEF TypeOK, BookingType
<1>2. /\ n \in Nat /\ DOMAIN op[r].want = 1 .. n
      /\ \A k \in 1 .. n : op[r].want[k].qty \in Int /\ op[r].want[k].item \in ServiceIds
  <2>1. op[r].want \in Seq([item : Items, qty : Int])
    <3>1. op[r] \in OpType
      BY BillingAssumption DEF TypeOK
    <3>2. QED
      BY <3>1 DEF OpType
  <2>2. n \in Nat /\ DOMAIN op[r].want = 1 .. n /\ \A k \in 1 .. n : op[r].want[k] \in [item : Items, qty : Int]
    BY <2>1, LenProperties, ElementOfSeq
  <2>3. QED
    BY <2>2 DEF Wanted
<1>3. charges \in Seq(Int) /\ Len(charges) = n
  <2>1. \A x, y \in Int : x * y \in Int
    OBVIOUS
  <2>2. \A k \in 1 .. n : q[op[r].want[k].item] \in Int
    <3>1. Prices \subseteq Int
      BY BillingAssumption
    <3>2. QED
      BY <1>1, <1>2, <3>1 DEF Items
  <2>3. charges \in [1 .. n -> Int]
    BY <1>2, <2>1, <2>2
  <2> HIDE DEF charges, n
  <2>4. QED
    BY <1>2, <2>3, FunctionIsSeq
<1>4. \A k \in 1 .. n : charges[k] = op[r].want[k].qty * q[op[r].want[k].item]
  BY <1>2
<1>5. Charge(r) = Sum(charges)
  BY DEF Charge
<1> HIDE DEF charges
<1>6. PICK up : Adds(up, charges, n) /\ Sum(charges) = up[n] /\ Sum(charges) \in Int
  BY <1>3, SumIs
<1>7. PICK after : Enters(after, r, n) /\ Entered(r) = after[n]
  BY <1>2, EnteredIs
<1> DEFINE Good(k) == /\ Follows(had, after[k])
                      /\ PricedBy(had, q) =>
                           PricedBy(after[k], q) /\ Worth(after[k]) = Worth(had) + up[k]
           Bad == {k \in 0 .. n : ~Good(k)}
<1>8. SUFFICES Bad = {}
  <2>1. n \in 0 .. n
    BY <1>2
  <2>2. ASSUME Bad = {} PROVE Good(n)
    BY <2>1, <2>2
  <2>3. QED
    BY <1>5, <1>6, <1>7, <2>2
<1>9. SUFFICES ASSUME Bad # {} PROVE FALSE
  OBVIOUS
<1>10. PICK m \in Bad : \A k \in Bad : m <= k
  <2>1. Bad \in SUBSET Nat
    BY <1>2
  <2> HIDE DEF Bad
  <2>2. QED
    BY <1>9, <2>1, SmallestOf
<1>11. m # 0
  <2>1. after[0] = had /\ up[0] = 0 /\ Worth(had) \in Int
    BY <1>1, <1>6, <1>7, ItemsArePriced, WorthTyped DEF Enters, Adds
  <2>2. Follows(had, had)
    BY <1>1 DEF Follows
  <2>3. Good(0)
    BY <2>1, <2>2
  <2> HIDE DEF Good
  <2>4. QED
    BY <1>10, <2>3
<1>12. m \in 1 .. n /\ m - 1 \in 0 .. n /\ m - 1 \notin Bad
  BY <1>2, <1>10, <1>11
<1>13. Good(m - 1)
  <2> HIDE DEF Good
  <2>1. QED
    BY <1>12
<1> DEFINE list == after[m - 1]
           w == op[r].want[m]
<1>14. /\ after[m] = Enter(list, w, q[w.item]) /\ up[m] = up[m - 1] + charges[m]
       /\ charges[m] = w.qty * q[w.item] /\ up[m - 1] \in Int /\ charges[m] \in Int
  BY <1>3, <1>4, <1>6, <1>7, <1>12, ElementOfSeq DEF Enters, Adds
<1>15. list \in Seq(ServiceItem) /\ Len(list) \in Nat
  BY <1>13, LenProperties DEF Follows
<1>16. w.item \in ServiceIds /\ w.qty \in Int
  BY <1>2, <1>12
<1> HIDE DEF w
<1>17. /\ Follows(list, after[m])
       /\ PricedBy(list, q) => /\ PricedBy(after[m], q)
                               /\ Worth(after[m]) = Worth(list) + charges[m]
  <2> HIDE DEF list, q
  <2>1. q \in [Items -> Prices]
    BY <1>1
  <2>2. QED
    BY <1>14, <1>15, <1>16, <2>1, EnterGrows
<1>18. Follows(had, after[m])
  <2>1. Follows(had, list)
    BY <1>13
  <2> HIDE DEF had, list
  <2>2. after[m] \in Seq(ServiceItem) /\ Len(after[m]) \in Nat /\ Len(list) <= Len(after[m])
    BY <1>17, LenProperties DEF Follows
  <2>3. Len(had) \in Nat /\ Len(had) <= Len(list)
    BY <1>1, <2>1 DEF Follows
  <2>4. Len(had) <= Len(after[m]) /\ \A k \in 1 .. Len(had) : k \in 1 .. Len(list)
    BY <1>15, <2>2, <2>3
  <2>5. \A k \in 1 .. Len(had) : /\ after[m][k].item = had[k].item
                                 /\ after[m][k].price = had[k].price /\ after[m][k].served = had[k].served
    BY <1>17, <2>1, <2>4 DEF Follows
  <2>6. QED
    BY <2>2, <2>4, <2>5 DEF Follows
<1>19. ASSUME PricedBy(had, q)
       PROVE  PricedBy(after[m], q) /\ Worth(after[m]) = Worth(had) + up[m]
  <2>1. PricedBy(list, q) /\ Worth(list) = Worth(had) + up[m - 1]
    BY <1>13, <1>19
  <2>2. Worth(had) \in Int
    BY <1>1, ItemsArePriced, WorthTyped
  <2> HIDE DEF had, list, q
  <2>3. QED
    BY <1>14, <1>17, <2>1, <2>2
<1>20. Good(m)
  BY <1>18, <1>19
<1> HIDE DEF Good
<1>21. QED
  BY <1>10, <1>20

-----------------------------------------------------------------------------
(* Saving. *)

\* What save() leaves in a plain field.
Merged(now, old, new) == IF new = old THEN now ELSE new

LEMMA BookingIs ==
  ASSUME NEW b \in BookingType
  PROVE  /\ DOMAIN b = {"status", "services", "roomServices", "total", "paid", "v"}
         /\ b.status \in {"Pending", "Checked in", "Checked out"}
         /\ b.services \in Seq(ServiceItem) /\ b.roomServices \in Seq(RoomServiceItem)
         /\ b.total \in Int /\ b.paid \in Int /\ b.v \in Nat
         /\ b = [status |-> b.status, services |-> b.services, roomServices |-> b.roomServices,
                 total |-> b.total, paid |-> b.paid, v |-> b.v]
BY DEF BookingType

\* A save that goes through, field by field.
Saves(r, how, list, new) ==
  /\ pc' = [pc EXCEPT ![r] = "done"]
  /\ Conditional(how) => booking.v = copy[r].v
  /\ booking' = [status |-> Merged(booking.status, copy[r].status, new.status),
                 services |-> IF list = "services" THEN ListAfter("services", how, copy[r], new)
                              ELSE booking.services,
                 roomServices |-> IF list = "roomServices" THEN ListAfter("roomServices", how, copy[r], new)
                                  ELSE booking.roomServices,
                 total |-> Merged(booking.total, copy[r].total, new.total),
                 paid |-> Merged(booking.paid, copy[r].paid, new.paid),
                 v |-> IF how \in {"push", "whole"} THEN booking.v + 1 ELSE booking.v]

\* A request that is answered and has changed nothing.
Leaves(r) ==
  /\ \/ pc' = [pc EXCEPT ![r] = "failed"]
     \/ pc[r] \in {"loaded", "quoted"} /\ pc' = [pc EXCEPT ![r] = "refused"]
  /\ UNCHANGED booking

LEMMA SaveIs ==
  ASSUME NEW r \in Requests, TypeOK, NEW how, NEW list \in {"services", "roomServices"},
         NEW new \in BookingType, new.v = copy[r].v, Save(r, how, list, new)
  PROVE  Saves(r, how, list, new) \/ Leaves(r)
<1> DEFINE old == copy[r]
           same == [new EXCEPT !.services = old.services, !.roomServices = old.roomServices]
           over == Overwrite(booking, old, same)
<1>1. CASE ~(Conditional(how) => booking.v = old.v)
  BY <1>1 DEF Save, Leaves
<1>2. CASE Conditional(how) => booking.v = old.v
  <2>1. old \in BookingType /\ booking \in BookingType
    BY DEF TypeOK
  <2>2. /\ pc' = [pc EXCEPT ![r] = "done"]
        /\ booking' = [over EXCEPT ![list] = ListAfter(list, how, old, new),
                                   !.v = booking.v + IF how \in {"push", "whole"} THEN 1 ELSE 0]
    BY <1>2 DEF Save
  <2>3. /\ same.status = new.status /\ same.services = old.services
        /\ same.roomServices = old.roomServices /\ same.total = new.total
        /\ same.paid = new.paid /\ same.v = new.v
    BY BookingIs
  <2> HIDE DEF same
  <2>4. /\ over = [f \in {"status", "services", "roomServices", "total", "paid", "v"} |->
                     IF same[f] = old[f] THEN booking[f] ELSE same[f]]
    BY <2>1, BookingIs DEF Overwrite
  <2> HIDE DEF over
  <2>5. /\ over.status = Merged(booking.status, old.status, new.status)
        /\ over.services = booking.services /\ over.roomServices = booking.roomServices
        /\ over.total = Merged(booking.total, old.total, new.total)
        /\ over.paid = Merged(booking.paid, old.paid, new.paid)
        /\ DOMAIN over = {"status", "services", "roomServices", "total", "paid", "v"}
    BY <2>3, <2>4 DEF Merged
  <2>6. over = [status |-> over.status, services |-> over.services, roomServices |-> over.roomServices,
                total |-> over.total, paid |-> over.paid, v |-> over.v]
    BY <2>4
  <2>7. (booking.v + IF how \in {"push", "whole"} THEN 1 ELSE 0)
          = (IF how \in {"push", "whole"} THEN booking.v + 1 ELSE booking.v)
    <3>1. booking.v \in Nat
      BY <2>1, BookingIs
    <3>2. QED
      BY <3>1
  <2>8. CASE list = "services"
    BY <1>2, <2>2, <2>5, <2>6, <2>7, <2>8 DEF Saves
  <2>9. CASE list = "roomServices"
    BY <1>2, <2>2, <2>5, <2>6, <2>7, <2>9 DEF Saves
  <2>10. QED
    BY <2>8, <2>9
<1>3. QED
  BY <1>1, <1>2

LEMMA Pushed ==
  ASSUME NEW S, NEW b \in Seq(S), NEW o \in Seq(S), NEW n \in Seq(S), Len(o) <= Len(n),
         NEW a, a = b \o SubSeq(n, Len(o) + 1, Len(n))
  PROVE  /\ a \in Seq(S) /\ Len(b) <= Len(a) /\ \A k \in 1 .. Len(b) : a[k] = b[k]
         /\ b = o /\ (\A k \in 1 .. Len(o) : n[k] = o[k]) => a = n
<1> DEFINE rest == SubSeq(n, Len(o) + 1, Len(n))
<1>1. Len(b) \in Nat /\ Len(o) \in Nat /\ Len(n) \in Nat /\ \A k \in 1 .. Len(n) : n[k] \in S
  BY LenProperties, ElementOfSeq
<1>2. rest \in Seq(S) /\ Len(rest) = Len(n) - Len(o) /\ \A k \in 1 .. Len(n) - Len(o) : rest[k] = n[Len(o) + k]
  <2>1. Len(o) + 1 \in Int /\ Len(n) \in Int /\ \A k \in Len(o) + 1 .. Len(n) : n[k] \in S
    BY <1>1
  <2>2. /\ rest \in Seq(S)
        /\ Len(rest) = IF Len(o) + 1 <= Len(n) THEN Len(n) - (Len(o) + 1) + 1 ELSE 0
        /\ \A k \in 1 .. Len(n) - (Len(o) + 1) + 1 : rest[k] = n[Len(o) + 1 + k - 1]
    BY <2>1, SubSeqProperties
  <2> HIDE DEF rest
  <2>3. Len(n) - (Len(o) + 1) + 1 = Len(n) - Len(o)
    BY <1>1
  <2>4. \A k \in 1 .. Len(n) - Len(o) : Len(o) + 1 + k - 1 = Len(o) + k
    BY <1>1
  <2>5. Len(rest) = Len(n) - Len(o)
    BY <1>1, <2>2
  <2>6. \A k \in 1 .. Len(n) - Len(o) : rest[k] = n[Len(o) + 1 + k - 1]
    BY <2>2, <2>3
  <2>7. \A k \in 1 .. Len(n) - Len(o) : rest[k] = n[Len(o) + k]
    BY <2>4, <2>6
  <2>8. QED
    BY <2>2, <2>5, <2>7
<1>a. a = b \o rest
  OBVIOUS
<1> HIDE DEF rest
<1>3. /\ a \in Seq(S) /\ Len(a) = Len(b) + Len(rest)
      /\ \A k \in 1 .. Len(b) + Len(rest) : a[k] = IF k <= Len(b) THEN b[k] ELSE rest[k - Len(b)]
  <2>1. /\ b \o rest \in Seq(S) /\ Len(b \o rest) = Len(b) + Len(rest)
        /\ \A k \in 1 .. Len(b) + Len(rest) :
             (b \o rest)[k] = IF k <= Len(b) THEN b[k] ELSE rest[k - Len(b)]
    BY <1>2, ConcatProperties
  <2>2. QED
    BY <1>a, <2>1
<1>4. Len(b) <= Len(a) /\ \A k \in 1 .. Len(b) : a[k] = b[k]
  BY <1>1, <1>2, <1>3
<1>5. ASSUME b = o, \A k \in 1 .. Len(o) : n[k] = o[k] PROVE a = n
  <2>1. Len(a) = Len(n)
    BY <1>1, <1>2, <1>3, <1>5
  <2>2. ASSUME NEW k \in 1 .. Len(n) PROVE a[k] = n[k]
    <3>1. CASE k <= Len(o)
      BY <1>1, <1>4, <1>5, <3>1
    <3>2. CASE ~(k <= Len(o))
      <4>1. k - Len(o) \in 1 .. Len(n) - Len(o) /\ Len(o) + (k - Len(o)) = k
        BY <1>1, <3>2
      <4>2. a[k] = rest[k - Len(o)]
        <5>1. Len(b) = Len(o) /\ Len(b) + Len(rest) = Len(n)
          BY <1>1, <1>2, <1>5
        <5>2. k \in 1 .. Len(b) + Len(rest) /\ ~(k <= Len(b))
          BY <3>2, <5>1
        <5>3. QED
          BY <1>3, <5>1, <5>2
      <4>3. QED
        BY <1>2, <4>1, <4>2
    <3>3. QED
      BY <3>1, <3>2
  <2>3. QED
    BY <1>3, <2>1, <2>2, SeqEqual
<1>6. QED
  BY <1>3, <1>4, <1>5

LEMMA CataloguedIs ==
  ASSUME NEW S, NEW a \in Seq(S), NEW b \in Seq(S)
  PROVE  Catalogued(a) = Catalogued(b) <=>
           Len(a) = Len(b) /\ \A k \in 1 .. Len(a) : a[k].item = b[k].item /\ a[k].price = b[k].price
<1>1. DOMAIN a = 1 .. Len(a) /\ DOMAIN b = 1 .. Len(b) /\ Len(a) \in Nat /\ Len(b) \in Nat
  BY LenProperties
<1>2. /\ DOMAIN Catalogued(a) = 1 .. Len(a) /\ \A k \in 1 .. Len(a) : Catalogued(a)[k] = <<a[k].item, a[k].price>>
      /\ DOMAIN Catalogued(b) = 1 .. Len(b) /\ \A k \in 1 .. Len(b) : Catalogued(b)[k] = <<b[k].item, b[k].price>>
  BY <1>1 DEF Catalogued
<1>3. ASSUME Catalogued(a) = Catalogued(b)
      PROVE  Len(a) = Len(b) /\ \A k \in 1 .. Len(a) : a[k].item = b[k].item /\ a[k].price = b[k].price
  <2>1. 1 .. Len(a) = 1 .. Len(b)
    BY <1>2, <1>3
  <2>2. Len(a) = Len(b)
    <3>1. \A x, y \in Nat : 1 .. x = 1 .. y => x = y
      OBVIOUS
    <3>2. Len(a) \in Nat /\ Len(b) \in Nat
      BY <1>1
    <3>3. QED
      BY <2>1, <3>1, <3>2
  <2>3. \A k \in 1 .. Len(a) : <<a[k].item, a[k].price>> = <<b[k].item, b[k].price>>
    BY <1>2, <1>3, <2>1
  <2>4. QED
    BY <2>2, <2>3
<1>4. ASSUME Len(a) = Len(b), \A k \in 1 .. Len(a) : a[k].item = b[k].item /\ a[k].price = b[k].price
      PROVE  Catalogued(a) = Catalogued(b)
  BY <1>1, <1>4 DEF Catalogued
<1>5. QED
  BY <1>3, <1>4

\* A field written by position in a list that holds the entries it was meant for.
Replaced(b, o, n) == [i \in DOMAIN b |-> Overwrite(b[i], o[i], n[i])]

LEMMA ServicesReplaced ==
  ASSUME NEW b \in Seq(ServiceItem), NEW o \in Seq(ServiceItem), NEW n \in Seq(ServiceItem),
         Catalogued(o) = Catalogued(b), Catalogued(n) = Catalogued(o)
  PROVE  /\ Replaced(b, o, n) \in Seq(ServiceItem) /\ Catalogued(Replaced(b, o, n)) = Catalogued(b)
         /\ b = o => Replaced(b, o, n) = n
<1> DEFINE a == Replaced(b, o, n)
<1>1. /\ Len(b) \in Nat /\ Len(o) = Len(b) /\ Len(n) = Len(b) /\ DOMAIN b = 1 .. Len(b)
      /\ \A k \in 1 .. Len(b) : /\ n[k].item = o[k].item /\ n[k].price = o[k].price
                                /\ b[k] \in ServiceItem /\ o[k] \in ServiceItem /\ n[k] \in ServiceItem
  <2>1. Len(b) \in Nat /\ DOMAIN b = 1 .. Len(b)
    BY LenProperties
  <2>2. Len(o) = Len(b) /\ Len(n) = Len(o) /\ \A k \in 1 .. Len(n) : n[k].item = o[k].item /\ n[k].price = o[k].price
    BY CataloguedIs
  <2>3. \A k \in 1 .. Len(b) : b[k] \in ServiceItem /\ o[k] \in ServiceItem /\ n[k] \in ServiceItem
    BY <2>2, ElementOfSeq
  <2>4. QED
    BY <2>1, <2>2, <2>3
<1>2. ASSUME NEW x \in ServiceItem, NEW y \in ServiceItem, NEW z \in ServiceItem,
             z.item = y.item, z.price = y.price
      PROVE  /\ Overwrite(x, y, z) \in ServiceItem
             /\ Overwrite(x, y, z).item = x.item /\ Overwrite(x, y, z).price = x.price
             /\ x = y => Overwrite(x, y, z) = z
  BY <1>2 DEF Overwrite, ServiceItem
<1>3. a \in [1 .. Len(b) -> ServiceItem]
  BY <1>1, <1>2 DEF Replaced
<1>4. a \in Seq(ServiceItem) /\ Len(a) = Len(b)
  BY <1>1, <1>3, FunctionIsSeq
<1>5. \A k \in 1 .. Len(b) : a[k] = Overwrite(b[k], o[k], n[k])
  BY <1>1 DEF Replaced
<1> HIDE DEF a
<1>6. Catalogued(a) = Catalogued(b)
  BY <1>1, <1>2, <1>4, <1>5, CataloguedIs
<1>7. b = o => a = n
  BY <1>1, <1>2, <1>4, <1>5, SeqEqual
<1>8. QED
  BY <1>4, <1>6, <1>7 DEF a

LEMMA RoomServicesReplaced ==
  ASSUME NEW b \in Seq(RoomServiceItem), NEW o \in Seq(RoomServiceItem), NEW n \in Seq(RoomServiceItem),
         Catalogued(o) = Catalogued(b), Catalogued(n) = Catalogued(o)
  PROVE  /\ Replaced(b, o, n) \in Seq(RoomServiceItem) /\ Catalogued(Replaced(b, o, n)) = Catalogued(b)
         /\ b = o => Replaced(b, o, n) = n
<1> DEFINE a == Replaced(b, o, n)
<1>1. /\ Len(b) \in Nat /\ Len(o) = Len(b) /\ Len(n) = Len(b) /\ DOMAIN b = 1 .. Len(b)
      /\ \A k \in 1 .. Len(b) : /\ n[k].item = o[k].item /\ n[k].price = o[k].price
                                /\ b[k] \in RoomServiceItem /\ o[k] \in RoomServiceItem /\ n[k] \in RoomServiceItem
  <2>1. Len(b) \in Nat /\ DOMAIN b = 1 .. Len(b)
    BY LenProperties
  <2>2. Len(o) = Len(b) /\ Len(n) = Len(o) /\ \A k \in 1 .. Len(n) : n[k].item = o[k].item /\ n[k].price = o[k].price
    BY CataloguedIs
  <2>3. \A k \in 1 .. Len(b) : b[k] \in RoomServiceItem /\ o[k] \in RoomServiceItem /\ n[k] \in RoomServiceItem
    BY <2>2, ElementOfSeq
  <2>4. QED
    BY <2>1, <2>2, <2>3
<1>2. ASSUME NEW x \in RoomServiceItem, NEW y \in RoomServiceItem, NEW z \in RoomServiceItem,
             z.item = y.item, z.price = y.price
      PROVE  /\ Overwrite(x, y, z) \in RoomServiceItem
             /\ Overwrite(x, y, z).item = x.item /\ Overwrite(x, y, z).price = x.price
             /\ x = y => Overwrite(x, y, z) = z
  BY <1>2 DEF Overwrite, RoomServiceItem
<1>3. a \in [1 .. Len(b) -> RoomServiceItem]
  BY <1>1, <1>2 DEF Replaced
<1>4. a \in Seq(RoomServiceItem) /\ Len(a) = Len(b)
  BY <1>1, <1>3, FunctionIsSeq
<1>5. \A k \in 1 .. Len(b) : a[k] = Overwrite(b[k], o[k], n[k])
  BY <1>1 DEF Replaced
<1> HIDE DEF a
<1>6. Catalogued(a) = Catalogued(b)
  BY <1>1, <1>2, <1>4, <1>5, CataloguedIs
<1>7. b = o => a = n
  BY <1>1, <1>2, <1>4, <1>5, SeqEqual
<1>8. QED
  BY <1>4, <1>6, <1>7 DEF a

\* The services a list had are in front of it, at their prices.
Keeps(had, new) ==
  /\ Len(had) <= Len(new)
  /\ \A k \in 1 .. Len(had) : new[k].item = had[k].item /\ new[k].price = had[k].price

\* What every save that goes through does to the stored booking; new is what
\* the handler made of its copy.
Written(r, new) ==
  /\ pc' = [pc EXCEPT ![r] = "done"]
  /\ booking' \in BookingType /\ booking'.v \in {booking.v, booking.v + 1}
  /\ booking'.v = booking.v =>
       /\ Catalogued(booking'.services) = Catalogued(booking.services)
       /\ Catalogued(booking'.roomServices) = Catalogued(booking.roomServices)
  /\ Keeps(booking.services, booking'.services)
  /\ booking'.status = Merged(booking.status, copy[r].status, new.status)
  /\ booking'.paid = Merged(booking.paid, copy[r].paid, new.paid)
  /\ calm => /\ booking'.services = new.services /\ booking'.roomServices = new.roomServices
             /\ booking'.total = new.total

LEMMA Known ==
  ASSUME NEW r \in Requests, BillingInv, pc[r] \in InFlight
  PROVE  /\ booking \in BookingType /\ copy[r] \in BookingType
         /\ copy[r].v = booking.v =>
              /\ Catalogued(copy[r].services) = Catalogued(booking.services)
              /\ Catalogued(copy[r].roomServices) = Catalogued(booking.roomServices)
         /\ calm => copy[r] = booking /\ quote[r] = price /\ ChargesAreComplete
                    /\ PricedBy(booking.services, price)
<1>1. TypeOK /\ SameVersionSameEntries /\ (calm => Calm)
  BY DEF BillingInv
<1>2. booking \in BookingType /\ copy[r] \in BookingType
  BY <1>1 DEF TypeOK
<1>3. DOMAIN booking.services = 1 .. Len(booking.services)
  BY <1>2, BookingIs, LenProperties
<1>4. calm => copy[r] = booking /\ quote[r] = price /\ ChargesAreComplete
              /\ PricedBy(booking.services, price)
  BY <1>1, <1>3 DEF Calm, PricedBy
<1>5. copy[r].v = booking.v =>
              /\ Catalogued(copy[r].services) = Catalogued(booking.services)
              /\ Catalogued(copy[r].roomServices) = Catalogued(booking.roomServices)
  BY <1>1 DEF SameVersionSameEntries
<1>6. QED
  BY <1>2, <1>4, <1>5

\* Plain fields, whichever list is written.
LEMMA FieldsWritten ==
  ASSUME NEW r \in Requests, BillingInv, pc[r] \in InFlight, NEW new \in BookingType,
         NEW how, NEW list \in {"services", "roomServices"}, Saves(r, how, list, new)
  PROVE  /\ pc' = [pc EXCEPT ![r] = "done"]
         /\ booking'.status \in {"Pending", "Checked in", "Checked out"} /\ booking'.total \in Int
         /\ booking'.paid \in Int /\ booking'.v \in Nat
         /\ booking'.v = IF how \in {"push", "whole"} THEN booking.v + 1 ELSE booking.v
         /\ booking'.v \in {booking.v, booking.v + 1} /\ booking.v + 1 # booking.v
         /\ booking'.status = Merged(booking.status, copy[r].status, new.status)
         /\ booking'.paid = Merged(booking.paid, copy[r].paid, new.paid)
         /\ calm => booking'.total = new.total
         /\ booking' = [status |-> booking'.status, services |-> booking'.services,
                        roomServices |-> booking'.roomServices, total |-> booking'.total,
                        paid |-> booking'.paid, v |-> booking'.v]
<1>1. /\ booking \in BookingType /\ copy[r] \in BookingType /\ (calm => copy[r] = booking)
  BY Known
<1>2. /\ booking.status \in {"Pending", "Checked in", "Checked out"}
      /\ new.status \in {"Pending", "Checked in", "Checked out"}
      /\ booking.total \in Int /\ new.total \in Int /\ booking.paid \in Int /\ new.paid \in Int
      /\ booking.v \in Nat
  BY <1>1, BookingIs
<1> DEFINE ss == IF list = "services" THEN ListAfter("services", how, copy[r], new)
                 ELSE booking.services
           rs == IF list = "roomServices" THEN ListAfter("roomServices", how, copy[r], new)
                 ELSE booking.roomServices
<1> HIDE DEF ss, rs
<1>3. /\ pc' = [pc EXCEPT ![r] = "done"]
      /\ booking' = [status |-> Merged(booking.status, copy[r].status, new.status),
                     services |-> ss, roomServices |-> rs,
                     total |-> Merged(booking.total, copy[r].total, new.total),
                     paid |-> Merged(booking.paid, copy[r].paid, new.paid),
                     v |-> IF how \in {"push", "whole"} THEN booking.v + 1 ELSE booking.v]
  BY DEF Saves, ss, rs
<1>4. /\ booking'.status = Merged(booking.status, copy[r].status, new.status)
      /\ booking'.total = Merged(booking.total, copy[r].total, new.total)
      /\ booking'.paid = Merged(booking.paid, copy[r].paid, new.paid)
      /\ booking'.v = IF how \in {"push", "whole"} THEN booking.v + 1 ELSE booking.v
      /\ booking'.services = ss /\ booking'.roomServices = rs
  BY <1>3
<1>5. booking' = [status |-> booking'.status, services |-> booking'.services,
                  roomServices |-> booking'.roomServices, total |-> booking'.total,
                  paid |-> booking'.paid, v |-> booking'.v]
  BY <1>3, <1>4
<1>6. /\ booking'.status \in {"Pending", "Checked in", "Checked out"} /\ booking'.total \in Int
      /\ booking'.paid \in Int
  BY <1>2, <1>4 DEF Merged
<1>7. booking'.v \in Nat /\ booking'.v \in {booking.v, booking.v + 1} /\ booking.v + 1 # booking.v
  <2>1. \A x \in Nat : x + 1 \in Nat /\ x + 1 # x
    OBVIOUS
  <2>2. booking'.v = booking.v \/ booking'.v = booking.v + 1
    BY <1>4
  <2>3. QED
    BY <1>2, <2>1, <2>2
<1>8. calm => booking'.total = new.total
  BY <1>1, <1>4 DEF Merged
<1>9. QED
  BY <1>3, <1>4, <1>5, <1>6, <1>7, <1>8

LEMMA ServicesWritten ==
  ASSUME NEW r \in Requests, BillingInv, pc[r] \in InFlight, NEW new \in BookingType,
         NEW how \in {"fields", "push", "items", "whole"}, Saves(r, how, "services", new),
         Keeps(copy[r].services, new.services), new.roomServices = copy[r].roomServices,
         how = "fields" => new.services = copy[r].services,
         how = "push" => \A k \in 1 .. Len(copy[r].services) : new.services[k] = copy[r].services[k],
         how = "items" => Catalogued(new.services) = Catalogued(copy[r].services)
  PROVE  Written(r, new)
<1> DEFINE b == booking.services
           o == copy[r].services
           n == new.services
           a == booking'.services
<1>1. /\ booking \in BookingType /\ copy[r] \in BookingType /\ (calm => copy[r] = booking)
      /\ copy[r].v = booking.v => Catalogued(o) = Catalogued(b)
  BY Known
<1>2. /\ b \in Seq(ServiceItem) /\ o \in Seq(ServiceItem) /\ n \in Seq(ServiceItem)
      /\ booking.roomServices \in Seq(RoomServiceItem) /\ (calm => o = b)
      /\ Len(b) \in Nat
  BY <1>1, BookingIs, LenProperties
<1>3. /\ a = ListAfter("services", how, copy[r], new) /\ booking'.roomServices = booking.roomServices
      /\ Conditional(how) => booking.v = copy[r].v
  BY DEF Saves
<1>4. /\ how = "fields" => a = b
      /\ how = "push" => a = b \o SubSeq(n, Len(o) + 1, Len(n))
      /\ how = "items" => a = Replaced(b, o, n)
      /\ how = "whole" => a = n
  BY <1>3 DEF ListAfter, Replaced
<1>5. /\ pc' = [pc EXCEPT ![r] = "done"]
      /\ booking'.status \in {"Pending", "Checked in", "Checked out"} /\ booking'.total \in Int
      /\ booking'.paid \in Int /\ booking'.v \in Nat
      /\ booking'.v = IF how \in {"push", "whole"} THEN booking.v + 1 ELSE booking.v
      /\ booking'.v \in {booking.v, booking.v + 1} /\ booking.v + 1 # booking.v
      /\ booking'.status = Merged(booking.status, copy[r].status, new.status)
      /\ booking'.paid = Merged(booking.paid, copy[r].paid, new.paid)
      /\ calm => booking'.total = new.total
      /\ booking' = [status |-> booking'.status, services |-> booking'.services,
                     roomServices |-> booking'.roomServices, total |-> booking'.total,
                     paid |-> booking'.paid, v |-> booking'.v]
  <2>1. "services" \in {"services", "roomServices"}
    OBVIOUS
  <2>2. QED
    BY <2>1, FieldsWritten
<1>6. /\ Keeps(o, n) /\ (how = "fields" => n = o) /\ (how = "items" => Catalogued(n) = Catalogued(o))
      /\ how = "push" => \A k \in 1 .. Len(o) : n[k] = o[k]
      /\ calm => booking.roomServices = new.roomServices
  BY <1>1
<1> HIDE DEF a, b, o, n
<1>7. a \in Seq(ServiceItem) /\ Keeps(b, a) /\ (calm => a = n)
      /\ (how \in {"fields", "items"} => Catalogued(a) = Catalogued(b))
  <2>1. CASE how = "fields"
    BY <1>2, <1>4, <1>6, <2>1 DEF Keeps
  <2>2. CASE how = "push"
    <3>1. Len(o) <= Len(n)
      BY <1>6 DEF Keeps
    <3>2. /\ a \in Seq(ServiceItem) /\ Len(b) <= Len(a) /\ \A k \in 1 .. Len(b) : a[k] = b[k]
          /\ b = o /\ (\A k \in 1 .. Len(o) : n[k] = o[k]) => a = n
      <4>1. /\ a = b \o SubSeq(n, Len(o) + 1, Len(n)) /\ b \in Seq(ServiceItem)
            /\ o \in Seq(ServiceItem) /\ n \in Seq(ServiceItem)
        BY <1>2, <1>4, <2>2
      <4>2. QED
        BY ONLY <3>1, <4>1, Pushed
    <3>3. QED
      BY <1>2, <1>6, <2>2, <3>2 DEF Keeps
  <2>3. CASE how = "items"
    <3>1. Catalogued(o) = Catalogued(b) /\ Catalogued(n) = Catalogued(o)
      BY <1>1, <1>3, <1>6, <2>3 DEF Conditional, b, o
    <3>2. a \in Seq(ServiceItem) /\ Catalogued(a) = Catalogued(b) /\ (b = o => a = n)
      BY <1>2, <1>4, <2>3, <3>1, ServicesReplaced
    <3>3. Len(a) = Len(b) /\ \A k \in 1 .. Len(a) : a[k].item = b[k].item /\ a[k].price = b[k].price
      BY <1>2, <3>2, CataloguedIs
    <3>4. QED
      BY <1>2, <3>2, <3>3 DEF Keeps
  <2>4. CASE how = "whole"
    <3>1. Catalogued(o) = Catalogued(b)
      BY <1>1, <1>3, <2>4 DEF Conditional, b, o
    <3>2. Len(o) = Len(b) /\ \A k \in 1 .. Len(o) : o[k].item = b[k].item /\ o[k].price = b[k].price
      BY <1>2, <3>1, CataloguedIs
    <3>3. Keeps(b, n)
      BY <1>6, <3>2 DEF Keeps
    <3>4. QED
      BY <1>2, <1>4, <2>4, <3>3
  <2>5. QED
    BY <2>1, <2>2, <2>3, <2>4
<1>8. booking' \in BookingType
  <2>1. booking'.services \in Seq(ServiceItem) /\ booking'.roomServices \in Seq(RoomServiceItem)
    BY <1>2, <1>3, <1>7 DEF a
  <2>2. QED
    BY <1>5, <2>1 DEF BookingType
<1>9. booking'.v = booking.v => Catalogued(a) = Catalogued(b)
  BY <1>5, <1>7
<1>10. QED
  BY <1>3, <1>5, <1>6, <1>7, <1>8, <1>9 DEF Written, a, b, n

LEMMA RoomServicesWritten ==
  ASSUME NEW r \in Requests, BillingInv, pc[r] \in InFlight, NEW new \in BookingType,
         NEW how \in {"fields", "push", "items", "whole"}, Saves(r, how, "roomServices", new),
         new.services = copy[r].services,
         how = "fields" => new.roomServices = copy[r].roomServices,
         how = "push" => copy[r].roomServices = <<>>,
         how = "items" => Catalogued(new.roomServices) = Catalogued(copy[r].roomServices)
  PROVE  Written(r, new)
<1> DEFINE b == booking.roomServices
           o == copy[r].roomServices
           n == new.roomServices
           a == booking'.roomServices
<1>1. /\ booking \in BookingType /\ copy[r] \in BookingType /\ (calm => copy[r] = booking)
      /\ copy[r].v = booking.v => Catalogued(o) = Catalogued(b)
  BY Known
<1>2. /\ b \in Seq(RoomServiceItem) /\ o \in Seq(RoomServiceItem) /\ n \in Seq(RoomServiceItem)
      /\ booking.services \in Seq(ServiceItem) /\ (calm => o = b)
      /\ Len(n) \in Nat /\ Len(booking.services) \in Nat
  BY <1>1, BookingIs, LenProperties
<1>3. /\ a = ListAfter("roomServices", how, copy[r], new) /\ booking'.services = booking.services
      /\ Conditional(how) => booking.v = copy[r].v
  BY DEF Saves
<1>4. /\ how = "fields" => a = b
      /\ how = "push" => a = b \o SubSeq(n, Len(o) + 1, Len(n))
      /\ how = "items" => a = Replaced(b, o, n)
      /\ how = "whole" => a = n
  BY <1>3 DEF ListAfter, Replaced
<1>5. /\ pc' = [pc EXCEPT ![r] = "done"]
      /\ booking'.status \in {"Pending", "Checked in", "Checked out"} /\ booking'.total \in Int
      /\ booking'.paid \in Int /\ booking'.v \in Nat
      /\ booking'.v = IF how \in {"push", "whole"} THEN booking.v + 1 ELSE booking.v
      /\ booking'.v \in {booking.v, booking.v + 1} /\ booking.v + 1 # booking.v
      /\ booking'.status = Merged(booking.status, copy[r].status, new.status)
      /\ booking'.paid = Merged(booking.paid, copy[r].paid, new.paid)
      /\ calm => booking'.total = new.total
      /\ booking' = [status |-> booking'.status, services |-> booking'.services,
                     roomServices |-> booking'.roomServices, total |-> booking'.total,
                     paid |-> booking'.paid, v |-> booking'.v]
  <2>1. "roomServices" \in {"services", "roomServices"}
    OBVIOUS
  <2>2. QED
    BY <2>1, FieldsWritten
<1>6. /\ (how = "fields" => n = o) /\ (how = "items" => Catalogued(n) = Catalogued(o))
      /\ (how = "push" => o = <<>>) /\ (calm => booking.services = new.services)
  BY <1>1
<1> HIDE DEF a, b, o, n
<1>7. a \in Seq(RoomServiceItem) /\ (calm => a = n)
      /\ (how \in {"fields", "items"} => Catalogued(a) = Catalogued(b))
  <2>1. CASE how = "fields"
    BY <1>2, <1>4, <1>6, <2>1
  <2>2. CASE how = "push"
    <3>1. o = <<>> /\ Len(o) = 0 /\ Len(o) <= Len(n)
      BY <1>2, <1>6, <2>2
    <3>2. \A k \in 1 .. Len(o) : n[k] = o[k]
      BY <3>1
    <3>3. /\ a \in Seq(RoomServiceItem)
          /\ b = o /\ (\A k \in 1 .. Len(o) : n[k] = o[k]) => a = n
      <4>1. /\ a = b \o SubSeq(n, Len(o) + 1, Len(n)) /\ b \in Seq(RoomServiceItem)
            /\ o \in Seq(RoomServiceItem) /\ n \in Seq(RoomServiceItem)
        BY <1>2, <1>4, <2>2
      <4>2. QED
        BY ONLY <3>1, <4>1, Pushed
    <3>4. QED
      BY <1>2, <2>2, <3>2, <3>3
  <2>3. CASE how = "items"
    <3>1. Catalogued(o) = Catalogued(b) /\ Catalogued(n) = Catalogued(o)
      BY <1>1, <1>3, <1>6, <2>3 DEF Conditional, b, o
    <3>2. a \in Seq(RoomServiceItem) /\ Catalogued(a) = Catalogued(b) /\ (b = o => a = n)
      BY <1>2, <1>4, <2>3, <3>1, RoomServicesReplaced
    <3>3. QED
      BY <1>2, <3>2
  <2>4. CASE how = "whole"
    BY <1>2, <1>4, <2>4
  <2>5. QED
    BY <2>1, <2>2, <2>3, <2>4
<1>8. booking' \in BookingType
  <2>1. booking'.services \in Seq(ServiceItem) /\ booking'.roomServices \in Seq(RoomServiceItem)
    BY <1>2, <1>3, <1>7 DEF a
  <2>2. QED
    BY <1>5, <2>1 DEF BookingType
<1>9. booking'.v = booking.v => Catalogued(a) = Catalogued(b)
  BY <1>5, <1>7
<1>10. Keeps(booking.services, booking'.services)
  BY <1>2, <1>3 DEF Keeps
<1>11. QED
  BY <1>3, <1>5, <1>6, <1>7, <1>8, <1>9, <1>10 DEF Written, a, b, n

-----------------------------------------------------------------------------
(* The handlers that save. *)

\* What a request that saves does to the booking.
Writes(r) ==
  /\ pc' = [pc EXCEPT ![r] = "done"]
  /\ booking' \in BookingType /\ booking'.v \in {booking.v, booking.v + 1}
  /\ booking'.v = booking.v =>
       /\ Catalogued(booking'.services) = Catalogued(booking.services)
       /\ Catalogued(booking'.roomServices) = Catalogued(booking.roomServices)
  /\ Keeps(booking.services, booking'.services)
  /\ booking'.paid = booking.paid
  /\ \/ booking'.status = booking.status /\ pc[r] # "mailed"
     \/ booking'.status = "Checked in" /\ copy[r].status = "Pending" /\ pc[r] # "mailed"
     \/ booking'.status = "Checked out" /\ pc[r] = "mailed"
  /\ calm => /\ PricedBy(booking'.services, price)
             /\ booking'.total = RoomCharge + Worth(booking'.services) + Worth(booking'.roomServices)
             /\ \A k \in 1 .. Len(booking.services) :
                  booking.services[k].served => booking'.services[k].served

\* A handler that touches neither the lists nor the total, or marks a service.
LEMMA WritesStatus ==
  ASSUME NEW r \in Requests, BillingInv, pc[r] \in InFlight, NEW new \in BookingType, Written(r, new),
         new.roomServices = copy[r].roomServices, new.total = copy[r].total, new.paid = copy[r].paid,
         Worth(new.services) = Worth(copy[r].services), Len(new.services) = Len(copy[r].services),
         \A k \in 1 .. Len(copy[r].services) :
            /\ new.services[k].item = copy[r].services[k].item
            /\ new.services[k].price = copy[r].services[k].price
            /\ copy[r].services[k].served => new.services[k].served,
         \/ new.status = copy[r].status /\ pc[r] # "mailed"
         \/ new.status = "Checked in" /\ copy[r].status = "Pending" /\ pc[r] # "mailed"
         \/ new.status = "Checked out" /\ copy[r].status # "Checked out" /\ pc[r] = "mailed"
  PROVE  Writes(r)
<1>1. /\ booking \in BookingType /\ copy[r] \in BookingType
      /\ calm => copy[r] = booking /\ quote[r] = price /\ ChargesAreComplete
                 /\ PricedBy(booking.services, price)
  BY Known
<1>2. booking'.paid = booking.paid
  BY DEF Written, Merged
<1>3. \/ booking'.status = booking.status /\ pc[r] # "mailed"
      \/ booking'.status = "Checked in" /\ copy[r].status = "Pending" /\ pc[r] # "mailed"
      \/ booking'.status = "Checked out" /\ pc[r] = "mailed"
  BY DEF Written, Merged
<1>4. ASSUME calm
      PROVE  /\ PricedBy(booking'.services, price)
             /\ booking'.total = RoomCharge + Worth(booking'.services) + Worth(booking'.roomServices)
             /\ \A k \in 1 .. Len(booking.services) :
                  booking.services[k].served => booking'.services[k].served
  <2>1. /\ booking'.services = new.services /\ booking'.roomServices = new.roomServices
        /\ booking'.total = new.total /\ copy[r] = booking
    BY <1>1, <1>4 DEF Written
  <2>2. PricedBy(booking'.services, price)
    <3>1. PricedBy(copy[r].services, price)
      BY <1>1, <1>4
    <3>2. PricedBy(new.services, price)
      BY <3>1 DEF PricedBy
    <3>3. QED
      BY <2>1, <3>2
  <2>3. booking'.total = RoomCharge + Worth(booking'.services) + Worth(booking'.roomServices)
    BY <1>1, <1>4, <2>1 DEF ChargesAreComplete, Charges
  <2>4. QED
    BY <2>1, <2>2, <2>3
<1>5. QED
  BY <1>2, <1>3, <1>4 DEF Written, Writes

\* A handler that changes the room services and the total.
LEMMA WritesRoomServices ==
  ASSUME NEW r \in Requests, BillingInv, pc[r] \in InFlight, NEW new \in BookingType, Written(r, new),
         new.services = copy[r].services, new.status = copy[r].status, new.paid = copy[r].paid,
         new.total = copy[r].total - Worth(copy[r].roomServices) + Worth(new.roomServices),
         pc[r] # "mailed"
  PROVE  Writes(r)
<1>1. /\ booking \in BookingType /\ copy[r] \in BookingType
      /\ calm => copy[r] = booking /\ quote[r] = price /\ ChargesAreComplete
                 /\ PricedBy(booking.services, price)
  BY Known
<1>2. booking'.paid = booking.paid /\ booking'.status = booking.status
  BY DEF Written, Merged
<1>3. ASSUME calm
      PROVE  /\ PricedBy(booking'.services, price)
             /\ booking'.total = RoomCharge + Worth(booking'.services) + Worth(booking'.roomServices)
             /\ \A k \in 1 .. Len(booking.services) :
                  booking.services[k].served => booking'.services[k].served
  <2>1. /\ booking'.services = booking.services /\ booking'.roomServices = new.roomServices
        /\ booking'.total = booking.total - Worth(booking.roomServices) + Worth(new.roomServices)
    BY <1>1, <1>3 DEF Written
  <2>2. /\ Worth(booking.services) \in Int /\ Worth(booking.roomServices) \in Int
        /\ Worth(new.roomServices) \in Int
    BY <1>1, BookingIs, ItemsArePriced, WorthTyped
  <2>3. booking.total = RoomCharge + Worth(booking.services) + Worth(booking.roomServices)
    BY <1>1, <1>3 DEF ChargesAreComplete, Charges
  <2>4. RoomCharge \in Int
    BY BillingAssumption
  <2>5. booking'.total = RoomCharge + Worth(booking'.services) + Worth(booking'.roomServices)
    <3>1. \A a, b, c, d \in Int : (a + b + c) - c + d = a + b + d
      OBVIOUS
    <3>2. QED
      BY <2>1, <2>2, <2>3, <2>4, <3>1
  <2>6. QED
    BY <1>1, <1>3, <2>1, <2>5
<1>4. QED
  BY <1>2, <1>3 DEF Written, Writes

LEMMA KeepsItself ==
  ASSUME NEW b \in BookingType
  PROVE  Keeps(b.services, b.services)
<1>1. Len(b.services) \in Nat
  BY BookingIs, LenProperties
<1>2. QED
  BY <1>1 DEF Keeps

LEMMA CheckInWrites ==
  ASSUME NEW r \in Requests, BillingInv, SaveCheckIn(r)
  PROVE  Writes(r) \/ Leaves(r)
<1>1. TypeOK /\ pc[r] = "loaded" /\ pc[r] \in InFlight
  BY DEF BillingInv, SaveCheckIn, Handles, InFlight
<1>2. copy[r] \in BookingType
  BY <1>1 DEF TypeOK
<1>3. CASE copy[r].status = "Pending"
  <2> DEFINE new == [copy[r] EXCEPT !.status = "Checked in"]
  <2>1. new \in BookingType
    BY <1>2 DEF BookingType
  <2>2. /\ new.status = "Checked in" /\ new.services = copy[r].services
        /\ new.roomServices = copy[r].roomServices /\ new.total = copy[r].total
        /\ new.paid = copy[r].paid /\ new.v = copy[r].v
    BY <1>2, BookingIs
  <2>3. Save(r, "fields", "services", new)
    BY <1>3 DEF SaveCheckIn
  <2> HIDE DEF new
  <2>4. CASE Saves(r, "fields", "services", new)
    <3>1. Keeps(copy[r].services, new.services)
      BY <1>2, <2>2, KeepsItself
    <3>2. Written(r, new)
      BY <1>1, <2>1, <2>2, <2>4, <3>1, ServicesWritten
    <3>3. QED
      BY <1>1, <1>3, <2>1, <2>2, <3>2, WritesStatus
  <2>5. QED
    BY <1>1, <2>1, <2>2, <2>3, <2>4, SaveIs
<1>4. CASE copy[r].status # "Pending"
  BY <1>1, <1>4 DEF SaveCheckIn, Refuse, Leaves, stored
<1>5. QED
  BY <1>3, <1>4

LEMMA CheckOutWrites ==
  ASSUME NEW r \in Requests, BillingInv, SaveCheckOut(r)
  PROVE  Writes(r) \/ Leaves(r)
<1>1. TypeOK /\ pc[r] = "mailed" /\ pc[r] \in InFlight /\ copy[r].status = "Checked in"
  BY DEF BillingInv, StageTellsKind, SaveCheckOut, Handles, InFlight
<1>2. copy[r] \in BookingType
  BY <1>1 DEF TypeOK
<1> DEFINE new == [copy[r] EXCEPT !.status = "Checked out"]
<1>3. new \in BookingType
  BY <1>2 DEF BookingType
<1>4. /\ new.status = "Checked out" /\ new.services = copy[r].services
      /\ new.roomServices = copy[r].roomServices /\ new.total = copy[r].total
      /\ new.paid = copy[r].paid /\ new.v = copy[r].v
  BY <1>2, BookingIs
<1>5. Save(r, "fields", "services", new)
  BY DEF SaveCheckOut
<1> HIDE DEF new
<1>6. CASE Saves(r, "fields", "services", new)
  <2>1. Keeps(copy[r].services, new.services)
    BY <1>2, <1>4, KeepsItself
  <2>2. Written(r, new)
    BY <1>1, <1>3, <1>4, <1>6, <2>1, ServicesWritten
  <2>3. QED
    BY <1>1, <1>3, <1>4, <2>2, WritesStatus
<1>7. QED
  BY <1>1, <1>3, <1>4, <1>5, <1>6, SaveIs

LEMMA ServedWrites ==
  ASSUME NEW r \in Requests, BillingInv, SaveServed(r)
  PROVE  Writes(r) \/ Leaves(r)
<1> DEFINE had == copy[r].services
           i == op[r].at
<1>1. TypeOK /\ pc[r] = "loaded" /\ pc[r] \in InFlight
  BY DEF BillingInv, SaveServed, Handles, InFlight
<1>2. copy[r] \in BookingType
  BY <1>1 DEF TypeOK
<1>3. had \in Seq(ServiceItem) /\ DOMAIN had = 1 .. Len(had) /\ Len(had) \in Nat
      /\ \A k \in 1 .. Len(had) : had[k] \in ServiceItem
  BY <1>2, BookingIs, LenProperties, ElementOfSeq
<1>4. CASE copy[r].status = "Checked in" /\ i \in DOMAIN had /\ ~had[i].served
  <2> DEFINE new == [copy[r] EXCEPT !.services[i].served = TRUE]
  <2>1. PICK e \in ServiceItem : e = [had[i] EXCEPT !.served = TRUE]
    <3>1. [had[i] EXCEPT !.served = TRUE] \in ServiceItem
      BY <1>3, <1>4 DEF ServiceItem
    <3>2. QED
      BY <3>1
  <2>2. e.item = had[i].item /\ e.qty = had[i].qty /\ e.price = had[i].price /\ e.served = TRUE
    BY <1>3, <1>4, <2>1 DEF ServiceItem
  <2> DEFINE marked == [had EXCEPT ![i] = e]
  <2>3. /\ marked \in [1 .. Len(had) -> ServiceItem] /\ marked[i] = e
        /\ \A k \in 1 .. Len(had) : k # i => marked[k] = had[k]
    BY <1>3, <1>4
  <2>4. new = [copy[r] EXCEPT !.services = marked]
    BY <2>1
  <2> HIDE DEF new, marked
  <2>5. marked \in Seq(ServiceItem) /\ Len(marked) = Len(had)
    <3> HIDE DEF had
    <3>1. QED
      BY <1>3, <2>3, FunctionIsSeq
  <2>6. /\ new \in BookingType /\ new.status = copy[r].status /\ new.services = marked
        /\ new.roomServices = copy[r].roomServices /\ new.total = copy[r].total
        /\ new.paid = copy[r].paid /\ new.v = copy[r].v
    BY <1>2, <2>4, <2>5 DEF BookingType
  <2>7. Save(r, "items", "services", new)
    BY <1>4 DEF SaveServed, new
  <2>8. \A k \in 1 .. Len(had) : /\ marked[k].item = had[k].item /\ marked[k].price = had[k].price
                                 /\ marked[k].qty = had[k].qty /\ (had[k].served => marked[k].served)
    BY <2>2, <2>3
  <2>9. Worth(marked) = Worth(had)
    <3>1. DOMAIN marked = DOMAIN had
      BY <1>3, <2>3
    <3>2. Costs(marked) = Costs(had)
      BY <1>3, <2>8, <3>1 DEF Costs
    <3>3. QED
      BY <3>2 DEF Worth, Costs
  <2>10. CASE Saves(r, "items", "services", new)
    <3>1. Keeps(copy[r].services, new.services)
      BY <1>3, <2>5, <2>6, <2>8 DEF Keeps
    <3>2. Catalogued(new.services) = Catalogued(copy[r].services)
      BY <1>3, <2>5, <2>6, <2>8, CataloguedIs
    <3>3. Written(r, new)
      BY <1>1, <2>6, <2>10, <3>1, <3>2, ServicesWritten
    <3>4. QED
      BY <1>1, <2>5, <2>6, <2>8, <2>9, <3>3, WritesStatus
  <2>11. QED
    BY <1>1, <2>6, <2>7, <2>10, SaveIs
<1>5. CASE ~(copy[r].status = "Checked in" /\ i \in DOMAIN had /\ ~had[i].served)
  BY <1>1, <1>5 DEF SaveServed, Refuse, Leaves, stored
<1>6. QED
  BY <1>4, <1>5

LEMMA OpIs ==
  ASSUME NEW r \in Requests, TypeOK
  PROVE  /\ op[r].want \in Seq([item : Items, qty : Int]) /\ Len(op[r].want) \in Nat
         /\ DOMAIN op[r].want = 1 .. Len(op[r].want)
         /\ \A k \in 1 .. Len(op[r].want) : /\ op[r].want[k].item \in Items /\ op[r].want[k].qty \in Int
                                            /\ op[r].want[k].item \in Wanted(r)
<1>1. op[r] \in OpType
  BY BillingAssumption DEF TypeOK
<1>2. op[r].want \in Seq([item : Items, qty : Int])
  BY <1>1 DEF OpType
<1>3. /\ Len(op[r].want) \in Nat /\ DOMAIN op[r].want = 1 .. Len(op[r].want)
      /\ \A k \in 1 .. Len(op[r].want) : op[r].want[k] \in [item : Items, qty : Int]
  BY <1>2, LenProperties, ElementOfSeq
<1>4. QED
  BY <1>2, <1>3 DEF Wanted

LEMMA StillBooking ==
  ASSUME NEW b \in BookingType, NEW ss \in Seq(ServiceItem), NEW rs \in Seq(RoomServiceItem),
         NEW total \in Int
  PROVE  /\ [b EXCEPT !.services = ss, !.total = total] \in BookingType
         /\ [b EXCEPT !.roomServices = rs, !.total = total] \in BookingType
<1>1. [b EXCEPT !.services = ss, !.total = total] \in BookingType
  BY DEF BookingType
<1>2. [b EXCEPT !.roomServices = rs, !.total = total] \in BookingType
  BY DEF BookingType
<1>3. QED
  BY <1>1, <1>2

LEMMA NothingIsNotPositive == \A x : x = 0 => ~(x > 0)
<1>1. \A x \in Int : x = 0 => ~(x > 0)
  OBVIOUS
<1>2. QED
  BY <1>1

LEMMA Arithmetic ==
  /\ \A a, b \in Int : a + b \in Int /\ a - b \in Int
  /\ \A a, b, c \in Int : a - b + c \in Int
OBVIOUS

LEMMA ServicesWrites ==
  ASSUME NEW r \in Requests, BillingInv, SaveServices(r)
  PROVE  Writes(r) \/ Leaves(r)
<1> DEFINE had == copy[r].services
           entered == Entered(r)
           how == CASE SubSeq(entered, 1, Len(had)) = had                                -> "push"
                    [] SubSeq(entered, 1, Len(had)) # had /\ Len(entered) = Len(had) -> "items"
                    [] OTHER                                                           -> "whole"
           new == [copy[r] EXCEPT !.services = entered, !.total = @ + Charge(r)]
<1>1. TypeOK /\ pc[r] = "quoted" /\ pc[r] \in InFlight /\ op[r].kind = "addServices"
  BY DEF BillingInv, SaveServices, Handles, InFlight
<1>2. Wanted(r) \subseteq ServiceIds
  BY <1>1 DEF BillingInv, StageTellsKind, Offered
<1>3. /\ Follows(had, entered) /\ Charge(r) \in Int
      /\ PricedBy(had, quote[r]) =>
           PricedBy(entered, quote[r]) /\ Worth(entered) = Worth(had) + Charge(r)
  BY <1>1, <1>2, EnteredGrows
<1>4. booking \in BookingType /\ copy[r] \in BookingType
      /\ (calm => copy[r] = booking /\ quote[r] = price /\ ChargesAreComplete
                  /\ PricedBy(booking.services, price))
  BY <1>1, Known
<1>5. /\ had \in Seq(ServiceItem) /\ Len(had) \in Nat /\ entered \in Seq(ServiceItem)
      /\ Len(entered) \in Nat /\ Len(had) <= Len(entered)
  BY <1>3, <1>4, BookingIs, LenProperties DEF Follows
<1>6. Save(r, how, "services", new)
  BY DEF SaveServices
<1> HIDE DEF entered
<1>7. new \in BookingType
  <2>1. copy[r].total + Charge(r) \in Int
    <3>1. copy[r].total \in Int
      BY <1>4, BookingIs
    <3>2. QED
      BY <1>3, <3>1, Arithmetic
  <2>2. <<>> \in Seq(RoomServiceItem)
    OBVIOUS
  <2>3. QED
    BY <1>4, <1>5, <2>1, <2>2, StillBooking
<1>8. /\ new.services = entered /\ new.total = copy[r].total + Charge(r)
      /\ new.status = copy[r].status /\ new.paid = copy[r].paid /\ new.v = copy[r].v
      /\ new.roomServices = copy[r].roomServices
  BY <1>4, BookingIs
<1> HIDE DEF new
<1>9. how \in {"push", "items", "whole"}
  OBVIOUS
<1>10. how = "push" => \A k \in 1 .. Len(had) : entered[k] = had[k]
  <2>1. SUFFICES ASSUME SubSeq(entered, 1, Len(had)) = had
                 PROVE  \A k \in 1 .. Len(had) : entered[k] = had[k]
    OBVIOUS
  <2>2. 1 \in Int /\ Len(had) \in Int /\ \A k \in 1 .. Len(had) : entered[k] \in ServiceItem
    <3>1. \A k \in 1 .. Len(entered) : entered[k] \in ServiceItem
      BY <1>5, ElementOfSeq
    <3>2. QED
      BY <1>5, <3>1
  <2>3. \A k \in 1 .. Len(had) - 1 + 1 : SubSeq(entered, 1, Len(had))[k] = entered[1 + k - 1]
    BY <2>2, SubSeqProperties
  <2> HIDE DEF had
  <2>4. Len(had) - 1 + 1 = Len(had) /\ \A k \in 1 .. Len(had) : 1 + k - 1 = k
    BY <1>5
  <2>5. QED
    BY <2>1, <2>3, <2>4
<1>11. how = "items" => Catalogued(entered) = Catalogued(had)
  <2>1. how = "items" => Len(entered) = Len(had)
    OBVIOUS
  <2> HIDE DEF how
  <2>2. QED
    BY <1>3, <1>5, <2>1, CataloguedIs DEF Follows
<1> HIDE DEF how
<1>12. CASE Saves(r, how, "services", new)
  <2>1. Keeps(copy[r].services, new.services)
    BY <1>3, <1>8 DEF Follows, Keeps
  <2>2. Written(r, new)
    BY <1>1, <1>7, <1>8, <1>9, <1>10, <1>11, <1>12, <2>1, ServicesWritten
  <2>3. booking'.paid = booking.paid /\ booking'.status = booking.status
    BY <1>8, <2>2 DEF Written, Merged
  <2>4. ASSUME calm
        PROVE  /\ PricedBy(booking'.services, price)
               /\ booking'.total = RoomCharge + Worth(booking'.services) + Worth(booking'.roomServices)
               /\ \A k \in 1 .. Len(booking.services) :
                    booking.services[k].served => booking'.services[k].served
    <3>1. /\ booking'.services = entered /\ booking'.roomServices = booking.roomServices
          /\ booking'.total = booking.total + Charge(r) /\ had = booking.services
      BY <1>4, <1>8, <2>2, <2>4 DEF Written
    <3>2. /\ PricedBy(entered, price) /\ Worth(entered) = Worth(had) + Charge(r)
          /\ booking.total = RoomCharge + Worth(had) + Worth(booking.roomServices)
      BY <1>3, <1>4, <2>4 DEF ChargesAreComplete, Charges
    <3>3. RoomCharge \in Int /\ Worth(had) \in Int /\ Worth(booking.roomServices) \in Int
      <4>1. RoomCharge \in Int
        BY BillingAssumption
      <4>2. booking.roomServices \in Seq(RoomServiceItem)
        BY <1>4, BookingIs
      <4>3. QED
        BY <1>5, <4>1, <4>2, ItemsArePriced, WorthTyped
    <3>4. \A a, b, c, d \in Int : (a + b + c) + d = a + (b + d) + c
      OBVIOUS
    <3>5. booking'.total = RoomCharge + Worth(booking'.services) + Worth(booking'.roomServices)
      BY <1>3, <3>1, <3>2, <3>3, <3>4
    <3>6. \A k \in 1 .. Len(booking.services) :
             booking.services[k].served => booking'.services[k].served
      BY <1>3, <3>1 DEF Follows
    <3>7. QED
      BY <3>1, <3>2, <3>5, <3>6
  <2>5. QED
    BY <1>1, <2>2, <2>3, <2>4 DEF Written, Writes
<1>13. QED
  BY <1>1, <1>6, <1>7, <1>8, <1>12, SaveIs

LEMMA RoomServicesWrites ==
  ASSUME NEW r \in Requests, BillingInv, SaveRoomServices(r)
  PROVE  Writes(r) \/ Leaves(r)
<1> DEFINE had == copy[r].roomServices
           want == op[r].want
           entered == [k \in DOMAIN op[r].want |->
                         [item |-> op[r].want[k].item, qty |-> op[r].want[k].qty,
                          price |-> quote[r][op[r].want[k].item]]]
           how == IF had = <<>> THEN "push" ELSE "whole"
           new == [copy[r] EXCEPT !.roomServices = entered, !.total = @ - Worth(had) + Charge(r)]
<1>1. TypeOK /\ pc[r] = "quoted" /\ pc[r] \in InFlight /\ op[r].kind = "setRoomServices"
  BY DEF BillingInv, SaveRoomServices, Handles, InFlight
<1>2. Wanted(r) \subseteq RoomServiceIds
  BY <1>1 DEF BillingInv, StageTellsKind, Offered
<1>3. copy[r] \in BookingType /\ quote[r] \in [Items -> Prices]
  BY <1>1 DEF TypeOK
<1>4. CASE Positive(r)
  <2>1. /\ Len(want) \in Nat /\ DOMAIN want = 1 .. Len(want)
        /\ \A k \in 1 .. Len(want) : /\ want[k].item \in RoomServiceIds /\ want[k].item \in Items
                                     /\ want[k].qty \in Nat \ {0}
    <3>1. /\ Len(want) \in Nat /\ DOMAIN want = 1 .. Len(want)
          /\ \A k \in 1 .. Len(want) : want[k].item \in Items /\ want[k].qty \in Int
                                       /\ want[k].item \in Wanted(r)
      BY <1>1, OpIs
    <3>2. \A k \in 1 .. Len(want) : want[k].qty > 0
      BY <1>4, <3>1 DEF Positive
    <3>3. \A x \in Int : x > 0 => x \in Nat \ {0}
      OBVIOUS
    <3>4. QED
      BY <1>2, <3>1, <3>2, <3>3
  <2>2. entered \in [1 .. Len(want) -> RoomServiceItem]
    BY <1>3, <2>1 DEF RoomServiceItem
  <2>3. entered \in Seq(RoomServiceItem)
    <3> HIDE DEF entered, want
    <3>1. QED
      BY <2>1, <2>2, FunctionIsSeq
  <2>4. Charge(r) = Worth(entered)
    <3>1. [k \in DOMAIN op[r].want |-> op[r].want[k].qty * quote[r][op[r].want[k].item]]
            = [k \in DOMAIN entered |-> entered[k].qty * entered[k].price]
      OBVIOUS
    <3>2. QED
      BY <3>1 DEF Charge, Worth
  <2>5. had \in Seq(RoomServiceItem)
    BY <1>3, BookingIs
  <2>6. Worth(had) \in Int /\ Worth(entered) \in Int
    BY <2>3, <2>5, ItemsArePriced, WorthTyped
  <2>7. Save(r, how, "roomServices", new)
    BY <1>4 DEF SaveRoomServices
  <2> HIDE DEF entered
  <2>8. new \in BookingType
    <3>1. copy[r].total - Worth(had) + Charge(r) \in Int
      <4>1. copy[r].total \in Int
        BY <1>3, BookingIs
      <4>2. QED
        BY <2>4, <2>6, <4>1, Arithmetic
    <3>2. <<>> \in Seq(ServiceItem)
      OBVIOUS
    <3>3. QED
      BY <1>3, <2>3, <3>1, <3>2, StillBooking
  <2>9. /\ new.services = copy[r].services /\ new.total = copy[r].total - Worth(had) + Worth(new.roomServices)
        /\ new.status = copy[r].status /\ new.paid = copy[r].paid /\ new.v = copy[r].v
    BY <1>3, <2>4, BookingIs
  <2>10. how \in {"push", "whole"} /\ (how = "push" => copy[r].roomServices = <<>>)
    OBVIOUS
  <2> HIDE DEF new, how
  <2>11. CASE Saves(r, how, "roomServices", new)
    <3>1. Written(r, new)
      BY <1>1, <2>8, <2>9, <2>10, <2>11, RoomServicesWritten
    <3>2. QED
      BY <1>1, <2>8, <2>9, <3>1, WritesRoomServices
  <2>12. QED
    BY <1>1, <2>7, <2>8, <2>9, <2>11, SaveIs
<1>5. CASE ~Positive(r)
  BY <1>1, <1>5 DEF SaveRoomServices, Refuse, Leaves, stored
<1>6. QED
  BY <1>4, <1>5

LEMMA QuantitiesWrites ==
  ASSUME NEW r \in Requests, BillingInv, SaveRoomServiceQuantities(r)
  PROVE  Writes(r) \/ Leaves(r)
<1> DEFINE had == copy[r].roomServices
           want == op[r].want
           set == [k \in DOMAIN had |->
                     IF had[k].item \in Wanted(r) /\ k = Position(had, had[k].item)
                     THEN [had[k] EXCEPT !.qty = QtyWanted(r, had[k].item)] ELSE had[k]]
           how == IF set = had THEN "fields" ELSE "items"
           new == [copy[r] EXCEPT !.roomServices = set, !.total = @ - Worth(had) + Worth(set)]
<1>1. TypeOK /\ pc[r] = "quoted" /\ pc[r] \in InFlight
  BY DEF BillingInv, SaveRoomServiceQuantities, Handles, InFlight
<1>2. copy[r] \in BookingType
  BY <1>1 DEF TypeOK
<1>3. /\ had \in Seq(RoomServiceItem) /\ DOMAIN had = 1 .. Len(had) /\ Len(had) \in Nat
      /\ \A k \in 1 .. Len(had) : had[k] \in RoomServiceItem
  BY <1>2, BookingIs, LenProperties, ElementOfSeq
<1>4. CASE Positive(r) /\ Wanted(r) \subseteq Listed(had)
  <2>1. ASSUME NEW i \in Wanted(r) PROVE QtyWanted(r, i) \in Nat \ {0}
    <3>1. /\ Len(want) \in Nat /\ DOMAIN want = 1 .. Len(want)
          /\ \A k \in 1 .. Len(want) : want[k].qty \in Int
      BY <1>1, OpIs
    <3>2. i \in Listed(want)
      BY DEF Wanted, Listed
    <3>3. Position(want, i) \in 1 .. Len(want)
      BY <3>1, <3>2, PositionIs
    <3>4. \A x \in Int : x > 0 => x \in Nat \ {0}
      OBVIOUS
    <3>5. want[Position(want, i)].qty \in Int /\ want[Position(want, i)].qty > 0
      BY <1>4, <3>1, <3>3 DEF Positive
    <3>6. QED
      BY <3>4, <3>5 DEF QtyWanted
  <2>2. ASSUME NEW k \in 1 .. Len(had)
        PROVE  set[k] \in RoomServiceItem /\ set[k].item = had[k].item /\ set[k].price = had[k].price
    <3>1. CASE had[k].item \in Wanted(r) /\ k = Position(had, had[k].item)
      <4>1. PICK q \in Nat \ {0} : q = QtyWanted(r, had[k].item)
        BY <2>1, <3>1
      <4>2. set[k] = [had[k] EXCEPT !.qty = q]
        BY <1>3, <3>1, <4>1
      <4>3. had[k] \in RoomServiceItem
        BY <1>3
      <4> HIDE DEF set, had
      <4>4. QED
        BY <4>2, <4>3 DEF RoomServiceItem
    <3>2. CASE ~(had[k].item \in Wanted(r) /\ k = Position(had, had[k].item))
      BY <1>3, <3>2
    <3>3. QED
      BY <3>1, <3>2
  <2>3. set = [k \in 1 .. Len(had) |-> set[k]]
    BY <1>3
  <2>4. Save(r, how, "roomServices", new)
    BY <1>4 DEF SaveRoomServiceQuantities
  <2> HIDE DEF set
  <2>5. set \in Seq(RoomServiceItem) /\ Len(set) = Len(had)
    <3>1. set \in [1 .. Len(had) -> RoomServiceItem]
      BY <2>2, <2>3
    <3> HIDE DEF had
    <3>2. QED
      BY <1>3, <3>1, FunctionIsSeq
  <2>6. Catalogued(set) = Catalogued(had)
    BY <1>3, <2>2, <2>5, CataloguedIs
  <2>7. Worth(had) \in Int /\ Worth(set) \in Int
    BY <1>3, <2>5, ItemsArePriced, WorthTyped
  <2>8. new \in BookingType
    <3>1. copy[r].total - Worth(had) + Worth(set) \in Int
      <4>1. copy[r].total \in Int
        BY <1>2, BookingIs
      <4>2. QED
        BY <2>7, <4>1, Arithmetic
    <3>2. <<>> \in Seq(ServiceItem)
      OBVIOUS
    <3>3. QED
      BY <1>2, <2>5, <3>1, <3>2, StillBooking
  <2>9. /\ new.services = copy[r].services /\ new.total = copy[r].total - Worth(had) + Worth(new.roomServices)
        /\ new.status = copy[r].status /\ new.paid = copy[r].paid /\ new.v = copy[r].v
        /\ new.roomServices = set
    BY <1>2, BookingIs
  <2>10. how \in {"fields", "items"} /\ (how = "fields" => set = had)
    OBVIOUS
  <2> HIDE DEF new, how
  <2>11. CASE Saves(r, how, "roomServices", new)
    <3>1. Written(r, new)
      BY <1>1, <2>6, <2>8, <2>9, <2>10, <2>11, RoomServicesWritten
    <3>2. QED
      BY <1>1, <2>8, <2>9, <3>1, WritesRoomServices
  <2>12. QED
    BY <1>1, <2>4, <2>8, <2>9, <2>11, SaveIs
<1>5. CASE ~(Positive(r) /\ Wanted(r) \subseteq Listed(had))
  BY <1>1, <1>5 DEF SaveRoomServiceQuantities, Refuse, Leaves, stored
<1>6. QED
  BY <1>4, <1>5

LEMMA RemovalWrites ==
  ASSUME NEW r \in Requests, BillingInv, SaveRemoval(r)
  PROVE  Writes(r) \/ Leaves(r)
<1> DEFINE had == copy[r].roomServices
           item == op[r].want[1].item
           k == Position(had, item)
           less == RemoveAt(had, k)
           new == [copy[r] EXCEPT !.roomServices = less, !.total = @ - had[k].price * had[k].qty]
<1>1. TypeOK /\ pc[r] = "loaded" /\ pc[r] \in InFlight
  BY DEF BillingInv, SaveRemoval, Handles, InFlight
<1>2. copy[r] \in BookingType
  BY <1>1 DEF TypeOK
<1>3. had \in Seq(RoomServiceItem) /\ DOMAIN had = 1 .. Len(had) /\ Len(had) \in Nat
      /\ \A j \in 1 .. Len(had) : had[j] \in RoomServiceItem
  BY <1>2, BookingIs, LenProperties, ElementOfSeq
<1>4. CASE item \in Listed(had)
  <2>1. k \in 1 .. Len(had)
    BY <1>3, <1>4, PositionIs
  <2>2. Save(r, "whole", "roomServices", new)
    BY <1>4 DEF SaveRemoval
  <2> HIDE DEF k
  <2>3. less \in Seq(RoomServiceItem)
    <3> HIDE DEF had
    <3>1. QED
      BY <1>3, <2>1, RemovalIs
  <2>4. Worth(less) = Worth(had) - had[k].price * had[k].qty
    <3> HIDE DEF had
    <3>1. QED
      BY <1>3, <2>1, WorthRemoves
  <2>5. Worth(had) \in Int /\ had[k].price * had[k].qty \in Int
    <3>1. had[k].price \in Int /\ had[k].qty \in Int
      BY <1>3, <2>1, EntriesAreNumbers
    <3>2. \A x, y \in Int : x * y \in Int
      OBVIOUS
    <3>3. QED
      BY <1>3, <3>1, <3>2, ItemsArePriced, WorthTyped
  <2> DEFINE cost == had[k].price * had[k].qty
  <2>6. new = [copy[r] EXCEPT !.roomServices = less, !.total = @ - cost]
    OBVIOUS
  <2> HIDE DEF less, new, cost
  <2>7. copy[r].total \in Int /\ cost \in Int /\ Worth(had) \in Int /\ Worth(less) = Worth(had) - cost
    BY <1>2, <2>4, <2>5, BookingIs DEF cost
  <2>8. new \in BookingType
    <3>1. copy[r].total - cost \in Int /\ <<>> \in Seq(ServiceItem)
      BY <2>7
    <3>2. QED
      BY <1>2, <2>3, <2>6, <3>1, StillBooking
  <2>9. /\ new.services = copy[r].services /\ new.roomServices = less /\ new.total = copy[r].total - cost
        /\ new.status = copy[r].status /\ new.paid = copy[r].paid /\ new.v = copy[r].v
    BY <1>2, <2>6, BookingIs
  <2>10. new.total = copy[r].total - Worth(had) + Worth(new.roomServices)
    <3>1. \A a, b, c \in Int : a - c = a - b + (b - c)
      OBVIOUS
    <3>2. QED
      BY <2>7, <2>9, <3>1
  <2>11. CASE Saves(r, "whole", "roomServices", new)
    <3>1. Written(r, new)
      BY <1>1, <2>8, <2>9, <2>11, RoomServicesWritten
    <3>2. QED
      BY <1>1, <2>8, <2>9, <2>10, <3>1, WritesRoomServices
  <2>12. QED
    BY <1>1, <2>2, <2>8, <2>9, <2>11, SaveIs
<1>5. CASE item \notin Listed(had)
  BY <1>1, <1>5 DEF SaveRemoval, Refuse, Leaves, stored
<1>6. QED
  BY <1>4, <1>5

-----------------------------------------------------------------------------
(* The invariant. *)

LEMMA EmptyWorth == Worth(<<>>) = 0
<1>1. Costs(<<>>) \in Seq(Int) /\ DOMAIN <<>> = 1 .. Len(Costs(<<>>)) /\ Worth(<<>>) = Sum(Costs(<<>>))
  <2>1. IsPriced(<<>>)
    <3>1. <<>> \in Seq(ServiceItem)
      OBVIOUS
    <3>2. QED
      BY <3>1, ItemsArePriced
  <2>2. QED
    BY <2>1, WorthTyped
<1> DEFINE list == Costs(<<>>)
<1> HIDE DEF list
<1>2. list \in Seq(Int) /\ Len(list) = 0
  <2>1. Len(list) \in Nat /\ 1 .. Len(list) = {}
    BY <1>1, LenProperties DEF list
  <2>2. \A n \in Nat : 1 .. n = {} => n = 0
    OBVIOUS
  <2>3. Len(list) = 0
    BY <2>1, <2>2
  <2>4. QED
    BY <1>1, <2>3 DEF list
<1>3. PICK up : Adds(up, list, Len(list)) /\ Sum(list) = up[Len(list)]
  BY <1>2, SumIs
<1>4. QED
  BY <1>1, <1>2, <1>3 DEF Adds, list

LEMMA InitHolds == Init => BillingInv
<1> SUFFICES ASSUME Init PROVE BillingInv
  OBVIOUS
<1>1. PICK first \in FirstServices, transfer \in BOOLEAN :
        booking = [status |-> "Pending", services |-> first, roomServices |-> <<>>,
                   total |-> RoomCharge + Worth(first),
                   paid |-> IF transfer THEN RoomCharge + Worth(first) ELSE 0, v |-> 0]
  BY DEF Init
<1>2. first \in Seq(ServiceItem) /\ Worth(first) \in Int /\ <<>> \in Seq(RoomServiceItem)
      /\ DOMAIN first = 1 .. Len(first)
  BY BillingAssumption, ItemsArePriced, WorthTyped
<1>3. RoomCharge \in Int
  BY BillingAssumption
<1>4. booking \in BookingType
  <2>1. RoomCharge + Worth(first) \in Int /\ 0 \in Int
    BY <1>2, <1>3
  <2> DEFINE due == RoomCharge + Worth(first)
             given == IF transfer THEN due ELSE 0
  <2>2. given \in Int
    BY <2>1
  <2>3. booking = [status |-> "Pending", services |-> first, roomServices |-> <<>>,
                   total |-> due, paid |-> given, v |-> 0]
    BY <1>1
  <2> HIDE DEF due, given
  <2>4. due \in Int
    BY <2>1 DEF due
  <2>5. QED
    BY <1>2, <2>2, <2>3, <2>4 DEF BookingType
<1>5. FirstPrice \in Prices
  BY BillingAssumption DEF FirstPrice
<1>6. TypeOK
  <2>1. price \in [Items -> Prices]
    BY <1>5 DEF Init
  <2>2. /\ removed \in SUBSET Items /\ invoice \in [Requests -> Nat] /\ op \in [Requests -> Ops]
        /\ pc \in [Requests -> {"idle"} \cup InFlight \cup Answered] /\ calm \in BOOLEAN
    BY DEF Init
  <2>3. copy \in [Requests -> BookingType] /\ quote \in [Requests -> [Items -> Prices]]
    BY <1>4, <2>1 DEF Init
  <2>4. QED
    BY <1>4, <2>1, <2>2, <2>3 DEF TypeOK
<1>7. \A r \in Requests : pc[r] = "idle" /\ invoice[r] = 0 /\ quote[r] = price /\ copy[r] = booking
  BY DEF Init
<1>8. VersionsAreOld /\ SameVersionSameEntries /\ StageTellsKind
  <2>1. \A r \in Requests : pc[r] \notin InFlight /\ pc[r] \notin {"quoted", "billed", "mailed"}
                            /\ ~(invoice[r] > 0)
    BY <1>7 DEF InFlight
  <2>2. QED
    BY <2>1 DEF VersionsAreOld, SameVersionSameEntries, StageTellsKind
<1>9. booking.status = "Pending" /\ booking.services = first /\ booking.roomServices = <<>>
      /\ booking.total = RoomCharge + Worth(first)
  BY <1>1
<1>10. CheckedOutIsInvoiced
  BY <1>9 DEF CheckedOutIsInvoiced
<1>11. Calm
  <2>1. ChargesAreComplete
    BY <1>2, <1>3, <1>9, EmptyWorth DEF ChargesAreComplete, Charges
  <2>2. \A k \in DOMAIN booking.services : booking.services[k].price = price[booking.services[k].item]
    <3>1. \A k \in DOMAIN first : first[k].price = FirstPrice /\ first[k].item \in Items
      <4>1. \A k \in DOMAIN first : first[k] \in ServiceItem
        BY <1>2, ElementOfSeq
      <4>2. QED
        BY <4>1, BillingAssumption, EntriesAreNumbers DEF Items
    <3>2. \A i \in Items : price[i] = FirstPrice
      BY DEF Init
    <3>3. QED
      BY <1>9, <3>1, <3>2
  <2>3. \A r \in Requests : pc[r] \notin InFlight /\ r \notin Billed
    BY <1>7 DEF InFlight, Billed
  <2>4. QED
    BY <1>7, <2>1, <2>2, <2>3 DEF Calm, Billed
<1>12. QED
  BY <1>6, <1>8, <1>10, <1>11 DEF BillingInv

\* A request that saves keeps the invariant.
LEMMA WritesKeep ==
  ASSUME NEW r \in Requests, BillingInv, pc[r] \in {"loaded", "quoted", "mailed"}, Writes(r),
         UNCHANGED <<price, removed, invoice, op, copy, quote, calm>>
  PROVE  BillingInv'
<1>1. TypeOK /\ VersionsAreOld /\ SameVersionSameEntries /\ StageTellsKind /\ CheckedOutIsInvoiced
      /\ (calm => Calm)
  BY DEF BillingInv
<1>2. /\ booking \in BookingType /\ pc \in [Requests -> {"idle"} \cup InFlight \cup Answered]
      /\ \A q \in Requests : copy[q] \in BookingType
  BY <1>1 DEF TypeOK
<1>3. /\ pc'[r] = "done" /\ \A q \in Requests : q # r => pc'[q] = pc[q]
      /\ pc' \in [Requests -> {"idle"} \cup InFlight \cup Answered]
  BY <1>2 DEF Writes, Answered
<1>4. \A q \in Requests : pc'[q] \in InFlight => q # r /\ pc[q] \in InFlight
  BY <1>3 DEF InFlight
<1>5. TypeOK'
  BY <1>1, <1>3 DEF TypeOK, Writes
<1>6. booking.v \in Nat /\ booking'.v \in {booking.v, booking.v + 1} /\ booking.v <= booking'.v
  <2>1. booking.v \in Nat /\ booking'.v \in {booking.v, booking.v + 1}
    BY <1>2, BookingIs DEF Writes
  <2>2. \A x \in Nat : x <= x /\ x <= x + 1
    OBVIOUS
  <2>3. QED
    BY <2>1, <2>2
<1>7. ASSUME NEW q \in Requests, pc'[q] \in InFlight
      PROVE  /\ copy'[q].v <= booking'.v
             /\ copy'[q].v = booking'.v =>
                  /\ Catalogued(copy'[q].services) = Catalogued(booking'.services)
                  /\ Catalogued(copy'[q].roomServices) = Catalogued(booking'.roomServices)
  <2>1. copy'[q] = copy[q] /\ pc[q] \in InFlight /\ copy[q].v \in Nat
    BY <1>2, <1>4, <1>7, BookingIs
  <2>2. copy[q].v <= booking.v
    BY <1>1, <2>1 DEF VersionsAreOld
  <2>3. copy'[q].v <= booking'.v
    BY <1>6, <2>1, <2>2
  <2>4. ASSUME copy'[q].v = booking'.v
        PROVE  /\ Catalogued(copy'[q].services) = Catalogued(booking'.services)
               /\ Catalogued(copy'[q].roomServices) = Catalogued(booking'.roomServices)
    <3>1. booking'.v = booking.v /\ copy[q].v = booking.v
      BY <1>6, <2>1, <2>2, <2>4
    <3>2. /\ Catalogued(copy[q].services) = Catalogued(booking.services)
          /\ Catalogued(copy[q].roomServices) = Catalogued(booking.roomServices)
      BY <1>1, <2>1, <3>1 DEF SameVersionSameEntries
    <3>3. /\ Catalogued(booking'.services) = Catalogued(booking.services)
          /\ Catalogued(booking'.roomServices) = Catalogued(booking.roomServices)
      BY <3>1 DEF Writes
    <3>4. QED
      BY <2>1, <3>2, <3>3
  <2>5. QED
    BY <2>3, <2>4
<1>8. VersionsAreOld' /\ SameVersionSameEntries'
  BY <1>7 DEF VersionsAreOld, SameVersionSameEntries
<1>9. StageTellsKind'
  <2> SUFFICES ASSUME NEW q \in Requests
               PROVE  /\ pc'[q] = "quoted" => op'[q].kind \in Quoting /\ (Wanted(q) \subseteq Offered(op[q].kind))'
                      /\ pc'[q] \in {"billed", "mailed"} => invoice'[q] > 0 /\ copy'[q].status = "Checked in"
                      /\ invoice'[q] > 0 => pc'[q] \in {"billed", "mailed", "done", "failed"}
    BY DEF StageTellsKind
  <2>1. (Wanted(q) \subseteq Offered(op[q].kind))' <=> Wanted(q) \subseteq Offered(op[q].kind)
    BY DEF Wanted, Offered
  <2>2. CASE q = r
    BY <1>3, <2>2
  <2>3. CASE q # r
    BY <1>1, <1>3, <2>1, <2>3 DEF StageTellsKind
  <2>4. QED
    BY <2>2, <2>3
<1>10. CheckedOutIsInvoiced'
  <2> SUFFICES ASSUME booking'.status = "Checked out" PROVE \E q \in Requests : invoice[q] > 0
    BY DEF CheckedOutIsInvoiced
  <2>1. CASE pc[r] = "mailed"
    BY <1>1, <2>1 DEF StageTellsKind
  <2>2. CASE pc[r] # "mailed"
    <3>1. booking.status = "Checked out"
      BY <2>2 DEF Writes
    <3>2. QED
      BY <1>1, <3>1 DEF CheckedOutIsInvoiced
  <2>3. QED
    BY <2>1, <2>2
<1>11. ASSUME calm PROVE Calm'
  <2>1. Calm /\ pc[r] \in InFlight
    BY <1>1, <1>11 DEF InFlight
  <2>2. \A q \in Requests : pc'[q] \notin InFlight
    BY <1>4, <2>1 DEF Calm
  <2>3. \A q \in Requests : quote'[q] = price'
    BY <2>1 DEF Calm
  <2>4. /\ PricedBy(booking'.services, price) /\ booking' \in BookingType
        /\ booking'.total = RoomCharge + Worth(booking'.services) + Worth(booking'.roomServices)
    BY <1>11 DEF Writes
  <2>5. \A k \in DOMAIN booking'.services : booking'.services[k].price = price'[booking'.services[k].item]
    BY <2>4, BookingIs, LenProperties DEF PricedBy
  <2>6. ChargesAreComplete'
    BY <2>4 DEF ChargesAreComplete, Charges
  <2>7. Billed' = Billed
    BY DEF Billed
  <2>8. ASSUME NEW q \in Billed, pc'[q] = "done" PROVE booking'.status = "Checked out"
    <3>1. q \in Requests /\ invoice[q] > 0
      BY DEF Billed
    <3>2. CASE q = r
      <4>1. pc[r] = "mailed"
        BY <1>1, <3>1, <3>2 DEF StageTellsKind
      <4>2. QED
        BY <4>1 DEF Writes
    <3>3. CASE q # r
      <4>1. booking.status = "Checked out" /\ copy[r] = booking
        BY <1>3, <2>1, <2>8, <3>1, <3>3 DEF Calm
      <4>2. QED
        BY <4>1 DEF Writes
    <3>4. QED
      BY <3>2, <3>3
  <2>9. ASSUME NEW p \in Billed, NEW q \in Billed, pc'[p] # "failed", pc'[q] # "failed" PROVE p = q
    <3>1. p \in Requests /\ q \in Requests
      BY DEF Billed
    <3>2. pc[p] # "failed" /\ pc[q] # "failed"
      BY <1>3, <2>9, <3>1
    <3>3. QED
      BY <2>1, <3>2 DEF Calm
  <2>10. QED
    BY <2>2, <2>3, <2>5, <2>6, <2>7, <2>8, <2>9 DEF Calm
<1>12. calm' => Calm'
  BY <1>11
<1>13. QED
  BY <1>5, <1>8, <1>9, <1>10, <1>12 DEF BillingInv

\* So does one that is answered and has changed nothing.
LEMMA LeavesKeep ==
  ASSUME NEW r \in Requests, BillingInv, pc[r] \in InFlight, Leaves(r),
         UNCHANGED <<price, removed, invoice, op, copy, quote, calm>>
  PROVE  BillingInv'
<1>1. TypeOK /\ VersionsAreOld /\ SameVersionSameEntries /\ StageTellsKind /\ CheckedOutIsInvoiced
      /\ (calm => Calm)
  BY DEF BillingInv
<1>2. pc \in [Requests -> {"idle"} \cup InFlight \cup Answered]
  BY <1>1 DEF TypeOK
<1>3. /\ pc'[r] \in {"failed", "refused"} /\ \A q \in Requests : q # r => pc'[q] = pc[q]
      /\ (pc'[r] = "refused" => pc[r] \in {"loaded", "quoted"})
      /\ pc' \in [Requests -> {"idle"} \cup InFlight \cup Answered] /\ booking' = booking
  BY <1>2 DEF Leaves, Answered
<1>4. \A q \in Requests : pc'[q] \in InFlight => q # r /\ pc[q] \in InFlight
  BY <1>3 DEF InFlight
<1>5. TypeOK'
  BY <1>1, <1>3 DEF TypeOK
<1>6. VersionsAreOld' /\ SameVersionSameEntries'
  BY <1>1, <1>3, <1>4 DEF VersionsAreOld, SameVersionSameEntries
<1>7. StageTellsKind'
  <2> SUFFICES ASSUME NEW q \in Requests
               PROVE  /\ pc'[q] = "quoted" => op'[q].kind \in Quoting /\ (Wanted(q) \subseteq Offered(op[q].kind))'
                      /\ pc'[q] \in {"billed", "mailed"} => invoice'[q] > 0 /\ copy'[q].status = "Checked in"
                      /\ invoice'[q] > 0 => pc'[q] \in {"billed", "mailed", "done", "failed"}
    BY DEF StageTellsKind
  <2>1. (Wanted(q) \subseteq Offered(op[q].kind))' <=> Wanted(q) \subseteq Offered(op[q].kind)
    BY DEF Wanted, Offered
  <2>2. CASE q = r
    BY <1>1, <1>3, <2>2 DEF StageTellsKind
  <2>3. CASE q # r
    BY <1>1, <1>3, <2>1, <2>3 DEF StageTellsKind
  <2>4. QED
    BY <2>2, <2>3
<1>8. CheckedOutIsInvoiced'
  BY <1>1, <1>3 DEF CheckedOutIsInvoiced
<1>9. ASSUME calm PROVE Calm'
  <2>1. Calm
    BY <1>1, <1>9
  <2>2. Billed' = Billed /\ (ChargesAreComplete' <=> ChargesAreComplete)
    BY <1>3 DEF Billed, ChargesAreComplete, Charges
  <2>3. \A q \in Requests : /\ pc'[q] = "done" => pc[q] = "done"
                            /\ pc'[q] # "failed" /\ q \in Billed => pc[q] # "failed"
    BY <1>1, <1>3 DEF StageTellsKind, Billed, InFlight
  <2>4. /\ \A p, q \in Requests : pc'[p] \in InFlight /\ pc'[q] \in InFlight => p = q
        /\ \A q \in Requests : pc'[q] \in InFlight => copy'[q] = booking'
        /\ \A q \in Requests : quote'[q] = price'
        /\ \A k \in DOMAIN booking'.services : booking'.services[k].price = price'[booking'.services[k].item]
        /\ ChargesAreComplete'
    BY <1>3, <1>4, <2>1, <2>2 DEF Calm
  <2>5. \A q \in Billed : q \in Requests
    BY DEF Billed
  <2>6. \A q \in Billed' : pc'[q] = "done" => booking'.status = "Checked out"
    BY <1>3, <2>1, <2>2, <2>3, <2>5 DEF Calm
  <2>7. \A p, q \in Billed' : pc'[p] # "failed" /\ pc'[q] # "failed" => p = q
    BY <2>1, <2>2, <2>3, <2>5 DEF Calm
  <2>8. QED
    BY <2>4, <2>6, <2>7 DEF Calm
<1>10. QED
  BY <1>5, <1>6, <1>7, <1>8, <1>9 DEF BillingInv

\* A request arrives.
LEMMA LoadKeeps ==
  ASSUME NEW r \in Requests, BillingInv, Load(r)
  PROVE  BillingInv'
<1>1. TypeOK /\ VersionsAreOld /\ SameVersionSameEntries /\ StageTellsKind /\ CheckedOutIsInvoiced
      /\ (calm => Calm)
  BY DEF BillingInv
<1>2. /\ pc'[r] = "loaded" /\ copy'[r] = booking
      /\ \A q \in Requests : q # r => pc'[q] = pc[q] /\ copy'[q] = copy[q]
      /\ pc' \in [Requests -> {"idle"} \cup InFlight \cup Answered]
      /\ copy' \in [Requests -> BookingType] /\ calm' \in BOOLEAN
      /\ booking' = booking /\ invoice' = invoice /\ price' = price /\ op' = op /\ quote' = quote
      /\ removed' = removed /\ pc[r] = "idle"
  BY <1>1 DEF Load, TypeOK, InFlight, stored
<1>3. TypeOK'
  BY <1>1, <1>2 DEF TypeOK
<1>4. booking.v \in Nat
  BY <1>1, BookingIs DEF TypeOK
<1>5. VersionsAreOld' /\ SameVersionSameEntries'
  <2>1. \A q \in Requests : pc'[q] \in InFlight => copy'[q].v <= booking'.v
    BY <1>1, <1>2, <1>4 DEF VersionsAreOld
  <2>2. SameVersionSameEntries'
    BY <1>1, <1>2 DEF SameVersionSameEntries
  <2>3. QED
    BY <2>1, <2>2 DEF VersionsAreOld
<1>6. StageTellsKind'
  <2> SUFFICES ASSUME NEW q \in Requests
               PROVE  /\ pc'[q] = "quoted" => op'[q].kind \in Quoting /\ (Wanted(q) \subseteq Offered(op[q].kind))'
                      /\ pc'[q] \in {"billed", "mailed"} => invoice'[q] > 0 /\ copy'[q].status = "Checked in"
                      /\ invoice'[q] > 0 => pc'[q] \in {"billed", "mailed", "done", "failed"}
    BY DEF StageTellsKind
  <2>1. (Wanted(q) \subseteq Offered(op[q].kind))' <=> Wanted(q) \subseteq Offered(op[q].kind)
    BY <1>2 DEF Wanted, Offered
  <2>2. CASE q = r
    BY <1>1, <1>2, <2>2 DEF StageTellsKind
  <2>3. CASE q # r
    BY <1>1, <1>2, <2>1, <2>3 DEF StageTellsKind
  <2>4. QED
    BY <2>2, <2>3
<1>7. CheckedOutIsInvoiced'
  BY <1>1, <1>2 DEF CheckedOutIsInvoiced
<1>8. ASSUME calm' PROVE Calm'
  <2>1. calm /\ \A q \in Requests : pc[q] \notin InFlight
    BY <1>8 DEF Load
  <2>2. Calm
    BY <1>1, <2>1
  <2>3. \A q \in Requests : pc'[q] \in InFlight => q = r
    BY <1>2, <2>1
  <2>4. Billed' = Billed /\ (ChargesAreComplete' <=> ChargesAreComplete)
    BY <1>2 DEF Billed, ChargesAreComplete, Charges
  <2>5. \A q \in Billed : q \in Requests /\ q # r
    BY <1>1, <1>2 DEF Billed, StageTellsKind
  <2>6. /\ \A p, q \in Requests : pc'[p] \in InFlight /\ pc'[q] \in InFlight => p = q
        /\ \A q \in Requests : pc'[q] \in InFlight => copy'[q] = booking'
        /\ \A q \in Requests : quote'[q] = price'
        /\ \A k \in DOMAIN booking'.services : booking'.services[k].price = price'[booking'.services[k].item]
        /\ ChargesAreComplete'
    BY <1>2, <2>2, <2>3, <2>4 DEF Calm
  <2>7. \A q \in Billed' : pc'[q] = "done" => booking'.status = "Checked out"
    BY <1>2, <2>2, <2>4, <2>5 DEF Calm
  <2>8. ASSUME NEW p \in Billed', NEW q \in Billed', pc'[p] # "failed", pc'[q] # "failed" PROVE p = q
    <3>1. p \in Billed /\ q \in Billed /\ pc[p] # "failed" /\ pc[q] # "failed"
      BY <1>2, <2>4, <2>5, <2>8
    <3>2. QED
      BY <2>2, <3>1 DEF Calm
  <2>9. QED
    BY <2>6, <2>7, <2>8 DEF Calm
<1>9. QED
  BY <1>3, <1>5, <1>6, <1>7, <1>8 DEF BillingInv

\* A request goes on, or is refused, without a change of the stored documents.
LEMMA GoesOn ==
  ASSUME NEW r \in Requests, BillingInv, pc[r] \in InFlight,
         UNCHANGED <<price, removed, booking, op, copy, calm>>,
         NEW to \in {"quoted", "billed", "mailed"}, pc' = [pc EXCEPT ![r] = to],
         invoice' \in [Requests -> Nat], quote' \in [Requests -> [Items -> Prices]],
         \A q \in Requests : q # r => invoice'[q] = invoice[q],
         invoice[r] > 0 => invoice'[r] = invoice[r],
         calm => \A q \in Requests : quote'[q] = price,
         to = "quoted" => /\ op[r].kind \in Quoting /\ Wanted(r) \subseteq Offered(op[r].kind)
                          /\ invoice'[r] = 0,
         to # "quoted" => invoice'[r] > 0 /\ copy[r].status = "Checked in"
  PROVE  BillingInv'
<1>1. TypeOK /\ VersionsAreOld /\ SameVersionSameEntries /\ StageTellsKind /\ CheckedOutIsInvoiced
      /\ (calm => Calm)
  BY DEF BillingInv
<1>2. /\ pc'[r] = to /\ \A q \in Requests : q # r => pc'[q] = pc[q]
      /\ pc' \in [Requests -> {"idle"} \cup InFlight \cup Answered] /\ pc'[r] \in InFlight
  BY <1>1 DEF TypeOK, InFlight
<1>3. \A q \in Requests : pc'[q] \in InFlight => pc[q] \in InFlight
  BY <1>2
<1>4. TypeOK'
  BY <1>1, <1>2 DEF TypeOK
<1>5. VersionsAreOld' /\ SameVersionSameEntries'
  BY <1>1, <1>3 DEF VersionsAreOld, SameVersionSameEntries
<1>6. StageTellsKind'
  <2> SUFFICES ASSUME NEW q \in Requests
               PROVE  /\ pc'[q] = "quoted" => op'[q].kind \in Quoting /\ (Wanted(q) \subseteq Offered(op[q].kind))'
                      /\ pc'[q] \in {"billed", "mailed"} => invoice'[q] > 0 /\ copy'[q].status = "Checked in"
                      /\ invoice'[q] > 0 => pc'[q] \in {"billed", "mailed", "done", "failed"}
    BY DEF StageTellsKind
  <2>1. (Wanted(q) \subseteq Offered(op[q].kind))' <=> Wanted(q) \subseteq Offered(op[q].kind)
    BY DEF Wanted, Offered
  <2>2. CASE q = r
    <3>1. CASE to = "quoted"
      <4>1. pc'[q] = "quoted" /\ invoice'[q] = 0
        BY <1>2, <2>2, <3>1
      <4>2. op'[q].kind \in Quoting /\ Wanted(q) \subseteq Offered(op[q].kind)
        BY <2>2, <3>1
      <4>3. pc'[q] \notin {"billed", "mailed"}
        BY <4>1
      <4>4. ~(invoice'[q] > 0)
        BY <4>1, NothingIsNotPositive, Zenon
      <4>5. (Wanted(q) \subseteq Offered(op[q].kind))'
        BY <2>1, <4>2
      <4>6. QED
        BY <4>2, <4>3, <4>4, <4>5
    <3>2. CASE to # "quoted"
      <4>1. pc'[q] \in {"billed", "mailed"} /\ copy'[q].status = "Checked in" /\ invoice'[q] > 0
        BY <1>2, <2>2, <3>2
      <4>2. QED
        BY <4>1
    <3>3. QED
      BY <3>1, <3>2
  <2>3. CASE q # r
    BY <1>1, <1>2, <2>1, <2>3 DEF StageTellsKind
  <2>4. QED
    BY <2>2, <2>3
<1>7. CheckedOutIsInvoiced'
  <2> SUFFICES ASSUME booking.status = "Checked out" PROVE \E q \in Requests : invoice'[q] > 0
    BY DEF CheckedOutIsInvoiced
  <2>1. PICK q \in Requests : invoice[q] > 0
    BY <1>1 DEF CheckedOutIsInvoiced
  <2>2. invoice'[q] > 0
    BY <2>1
  <2>3. QED
    BY <2>2
<1>8. ASSUME calm PROVE Calm'
  <2>1. Calm
    BY <1>1, <1>8
  <2>2. ChargesAreComplete' <=> ChargesAreComplete
    BY DEF ChargesAreComplete, Charges
  <2>3. \A q \in Billed' : q \in Requests /\ (q = r \/ q \in Billed)
    BY DEF Billed
  <2>4. /\ \A p, q \in Requests : pc'[p] \in InFlight /\ pc'[q] \in InFlight => p = q
        /\ \A q \in Requests : pc'[q] \in InFlight => copy'[q] = booking'
        /\ \A q \in Requests : quote'[q] = price'
        /\ \A k \in DOMAIN booking'.services : booking'.services[k].price = price'[booking'.services[k].item]
        /\ ChargesAreComplete'
    BY <1>3, <1>8, <2>1, <2>2 DEF Calm
  <2>5. ASSUME NEW q \in Billed', pc'[q] = "done" PROVE booking'.status = "Checked out"
    <3>1. q # r
      BY <1>2, <2>5
    <3>2. QED
      BY <1>2, <2>1, <2>3, <2>5, <3>1 DEF Calm
  <2>6. ASSUME NEW p \in Billed', NEW q \in Billed', pc'[p] # "failed", pc'[q] # "failed" PROVE p = q
    <3>1. ASSUME NEW x \in Billed', x # r, pc'[x] # "failed", r \in Billed' PROVE FALSE
      <4>1. x \in Requests /\ x \in Billed /\ pc'[x] = pc[x]
        BY <1>2, <2>3, <3>1
      <4>2. pc[x] \in {"billed", "mailed", "done"}
        BY <1>1, <3>1, <4>1 DEF StageTellsKind, Billed
      <4>3. pc[x] \notin InFlight
        BY <2>1, <3>1, <4>1 DEF Calm
      <4>4. pc[x] = "done"
        BY <4>2, <4>3 DEF InFlight
      <4>5. booking.status = "Checked out" /\ copy[r] = booking
        BY <2>1, <4>1, <4>4 DEF Calm
      <4>6. to = "quoted"
        BY <4>5
      <4>7. QED
        BY <3>1, <4>6 DEF Billed
    <3>2. CASE p = r \/ q = r
      BY <2>6, <3>1, <3>2
    <3>3. CASE p # r /\ q # r
      BY <1>2, <2>1, <2>3, <2>6, <3>3 DEF Calm
    <3>4. QED
      BY <3>2, <3>3
  <2>7. QED
    BY <2>4, <2>5, <2>6 DEF Calm
<1>9. QED
  BY <1>4, <1>5, <1>6, <1>7, <1>8 DEF BillingInv

LEMMA QuoteKeeps ==
  ASSUME NEW r \in Requests, BillingInv, Quote(r)
  PROVE  BillingInv'
<1>1. /\ TypeOK /\ StageTellsKind /\ (calm => Calm) /\ pc[r] = "loaded" /\ pc[r] \in InFlight
      /\ op[r].kind \in Quoting /\ invoice \in [Requests -> Nat] /\ quote \in [Requests -> [Items -> Prices]]
      /\ price \in [Items -> Prices]
      /\ UNCHANGED <<price, removed, booking, invoice, op, copy, calm>>
  BY DEF BillingInv, TypeOK, Quote, Quoting, InFlight, stored
<1>2. CASE Wanted(r) \subseteq Offered(op[r].kind) \ removed
  <2> DEFINE q1 == [i \in Items |-> IF i \in Wanted(r) THEN price[i] ELSE quote[r][i]]
  <2>1. q1 \in [Items -> Prices] /\ (quote[r] = price => q1 = price)
    BY <1>1
  <2>2. quote' = [quote EXCEPT ![r] = q1] /\ pc' = [pc EXCEPT ![r] = "quoted"]
    BY <1>2 DEF Quote
  <2> HIDE DEF q1
  <2>3. quote' \in [Requests -> [Items -> Prices]]
    BY <1>1, <2>1, <2>2
  <2>4. ASSUME calm PROVE \A q \in Requests : quote'[q] = price
    <3>1. \A q \in Requests : quote[q] = price
      BY <1>1, <2>4 DEF Calm
    <3>2. QED
      BY <1>1, <2>1, <2>2, <3>1
  <2>5. invoice[r] = 0
    <3>1. ~(invoice[r] > 0) /\ invoice[r] \in Nat
      BY <1>1 DEF StageTellsKind
    <3>2. \A x \in Nat : ~(x > 0) => x = 0
      OBVIOUS
    <3>3. QED
      BY <3>1, <3>2
  <2>6. Wanted(r) \subseteq Offered(op[r].kind)
    BY <1>2
  <2>7. QED
    BY <1>1, <2>2, <2>3, <2>4, <2>5, <2>6, GoesOn
<1>3. CASE ~(Wanted(r) \subseteq Offered(op[r].kind) \ removed)
  <2>1. pc' = [pc EXCEPT ![r] = "refused"] /\ UNCHANGED quote
    BY <1>3 DEF Quote
  <2>2. Leaves(r)
    BY <1>1, <2>1 DEF Leaves
  <2>3. QED
    BY <1>1, <2>1, <2>2, LeavesKeep
<1>4. QED
  BY <1>2, <1>3

LEMMA BillKeeps ==
  ASSUME NEW r \in Requests, BillingInv, BillCheckOut(r)
  PROVE  BillingInv'
<1> DEFINE left == copy[r].total - copy[r].paid
           due == IF left = 0 THEN 1 ELSE left
<1>1. /\ TypeOK /\ StageTellsKind /\ (calm => Calm) /\ pc[r] = "loaded" /\ pc[r] \in InFlight
      /\ UNCHANGED <<price, removed, op, copy, quote, calm>>
  BY DEF BillingInv, BillCheckOut, Handles, InFlight
<1>2. /\ copy[r] \in BookingType /\ invoice \in [Requests -> Nat]
      /\ quote \in [Requests -> [Items -> Prices]]
  BY <1>1 DEF TypeOK
<1>3. left \in Int
  BY <1>2, BookingIs, Arithmetic
<1>4. CASE copy[r].status = "Checked in" /\ due > 0
  <2>1. /\ invoice' = [invoice EXCEPT ![r] = due] /\ pc' = [pc EXCEPT ![r] = "billed"]
        /\ UNCHANGED booking
    BY <1>4 DEF BillCheckOut
  <2>2. due \in Nat
    <3> HIDE DEF left
    <3>1. due \in Int
      BY <1>3
    <3> HIDE DEF due
    <3>2. \A x \in Int : x > 0 => x \in Nat
      OBVIOUS
    <3>3. QED
      BY <1>4, <3>1, <3>2
  <2> HIDE DEF due
  <2>3. /\ invoice' \in [Requests -> Nat] /\ invoice'[r] = due
        /\ \A q \in Requests : q # r => invoice'[q] = invoice[q]
    BY <1>2, <2>1, <2>2
  <2>4. ~(invoice[r] > 0)
    BY <1>1 DEF StageTellsKind
  <2>5. calm => \A q \in Requests : quote'[q] = price
    BY <1>1 DEF Calm
  <2>6. QED
    BY <1>1, <1>2, <1>4, <2>1, <2>3, <2>4, <2>5, GoesOn
<1>5. CASE ~(copy[r].status = "Checked in" /\ due > 0)
  <2>1. pc' = [pc EXCEPT ![r] = "refused"] /\ UNCHANGED <<booking, invoice>>
    BY <1>5 DEF BillCheckOut, Refuse, stored
  <2>2. Leaves(r)
    BY <1>1, <2>1 DEF Leaves
  <2>3. QED
    BY <1>1, <2>1, <2>2, LeavesKeep
<1>6. QED
  BY <1>4, <1>5

LEMMA MailKeeps ==
  ASSUME NEW r \in Requests, BillingInv, MailCheckOut(r)
  PROVE  BillingInv'
<1>1. /\ TypeOK /\ StageTellsKind /\ (calm => Calm) /\ pc[r] = "billed" /\ pc[r] \in InFlight
      /\ pc' = [pc EXCEPT ![r] = "mailed"]
      /\ UNCHANGED <<price, removed, booking, invoice, op, copy, quote, calm>>
  BY DEF BillingInv, MailCheckOut, Handles, InFlight, stored
<1>2. /\ invoice' \in [Requests -> Nat] /\ quote' \in [Requests -> [Items -> Prices]]
      /\ \A q \in Requests : invoice'[q] = invoice[q]
  BY <1>1 DEF TypeOK
<1>3. invoice'[r] > 0 /\ copy[r].status = "Checked in"
  BY <1>1 DEF StageTellsKind
<1>4. calm => \A q \in Requests : quote'[q] = price
  BY <1>1 DEF Calm
<1>5. QED
  BY <1>1, <1>2, <1>3, <1>4, GoesOn

LEMMA FaultKeeps ==
  ASSUME NEW r \in Requests, BillingInv, Fault(r)
  PROVE  BillingInv'
<1>1. /\ pc[r] \in InFlight /\ pc' = [pc EXCEPT ![r] = "failed"]
      /\ UNCHANGED <<price, removed, booking, invoice, op, copy, quote, calm>>
  BY DEF Fault, stored
<1>2. Leaves(r)
  BY <1>1 DEF Leaves
<1>3. QED
  BY <1>1, <1>2, LeavesKeep

\* The steps that leave the requests and their booking alone.
LEMMA CatalogueKeeps ==
  ASSUME BillingInv, UNCHANGED <<stored, pc, op, copy, quote>>, price' \in [Items -> Prices],
         removed' \in SUBSET Items, calm' \in BOOLEAN, calm' => calm /\ price' = price
  PROVE  BillingInv'
<1>1. TypeOK /\ VersionsAreOld /\ SameVersionSameEntries /\ StageTellsKind /\ CheckedOutIsInvoiced
      /\ (calm => Calm) /\ UNCHANGED <<booking, invoice, pc, op, copy, quote>>
  BY DEF BillingInv, stored
<1>2. TypeOK'
  BY <1>1 DEF TypeOK
<1>3. VersionsAreOld' /\ SameVersionSameEntries' /\ CheckedOutIsInvoiced'
  BY <1>1 DEF VersionsAreOld, SameVersionSameEntries, CheckedOutIsInvoiced
<1>4. StageTellsKind'
  BY <1>1 DEF StageTellsKind, Wanted, Offered
<1>5. calm' => Calm'
  BY <1>1 DEF Calm, Billed, ChargesAreComplete, Charges
<1>6. QED
  BY <1>2, <1>3, <1>4, <1>5 DEF BillingInv

\* Which requests save, and that nothing else changes then.
LEMMA SavesAre ==
  ASSUME NEW r \in Requests, BillingInv,
         \/ SaveServices(r) \/ SaveRoomServices(r) \/ SaveRoomServiceQuantities(r)
         \/ SaveRemoval(r) \/ SaveCheckIn(r) \/ SaveServed(r) \/ SaveCheckOut(r)
  PROVE  /\ Writes(r) \/ Leaves(r)
         /\ pc[r] \in {"loaded", "quoted", "mailed"}
         /\ UNCHANGED <<price, removed, invoice, op, copy, quote, calm>>
<1>1. Writes(r) \/ Leaves(r)
  BY ServicesWrites, RoomServicesWrites, QuantitiesWrites, RemovalWrites, CheckInWrites,
     ServedWrites, CheckOutWrites
<1>2. pc[r] \in {"loaded", "quoted", "mailed"}
  BY DEF SaveServices, SaveRoomServices, SaveRoomServiceQuantities, SaveRemoval, SaveCheckIn,
         SaveServed, SaveCheckOut, Handles
<1>3. UNCHANGED <<price, removed, invoice, op, copy, quote, calm>>
  BY DEF SaveServices, SaveRoomServices, SaveRoomServiceQuantities, SaveRemoval, SaveCheckIn,
         SaveServed, SaveCheckOut
<1>4. QED
  BY <1>1, <1>2, <1>3

LEMMA StepKeeps == BillingInv /\ [Next]_vars => BillingInv'
<1> SUFFICES ASSUME BillingInv, [Next]_vars PROVE BillingInv'
  OBVIOUS
<1>1. TypeOK
  BY DEF BillingInv
<1>2. CASE UNCHANGED vars
  <2>1. /\ UNCHANGED <<stored, pc, op, copy, quote, price, removed, calm>>
        /\ price \in [Items -> Prices] /\ removed \in SUBSET Items /\ calm \in BOOLEAN
    BY <1>1, <1>2 DEF vars, TypeOK
  <2>2. QED
    BY <2>1, CatalogueKeeps
<1>3. CASE \E r \in Requests : Handler(r) \/ Fault(r)
  <2>1. PICK r \in Requests : Handler(r) \/ Fault(r)
    BY <1>3
  <2>2. CASE \/ SaveServices(r) \/ SaveRoomServices(r) \/ SaveRoomServiceQuantities(r)
             \/ SaveRemoval(r) \/ SaveCheckIn(r) \/ SaveServed(r) \/ SaveCheckOut(r)
    <3>1. /\ Writes(r) \/ Leaves(r)
          /\ pc[r] \in {"loaded", "quoted", "mailed"} /\ pc[r] \in InFlight
          /\ UNCHANGED <<price, removed, invoice, op, copy, quote, calm>>
      BY <2>2, SavesAre DEF InFlight
    <3>2. QED
      BY <3>1, WritesKeep, LeavesKeep
  <2>3. CASE Load(r)
    BY <2>3, LoadKeeps
  <2>4. CASE Quote(r)
    BY <2>4, QuoteKeeps
  <2>5. CASE BillCheckOut(r)
    BY <2>5, BillKeeps
  <2>6. CASE MailCheckOut(r)
    BY <2>6, MailKeeps
  <2>7. CASE Fault(r)
    BY <2>7, FaultKeeps
  <2>8. QED
    BY <2>1, <2>2, <2>3, <2>4, <2>5, <2>6, <2>7 DEF Handler
<1>4. CASE \E i \in Changing : RemoveItem(i)
  <2>1. PICK i \in Changing : RemoveItem(i)
    BY <1>4
  <2>2. i \in Items
    BY BillingAssumption
  <2>3. /\ UNCHANGED <<stored, pc, op, copy, quote>> /\ price' = price /\ calm' = calm
        /\ removed' = removed \cup {i}
    BY <2>1 DEF RemoveItem
  <2>4. price' \in [Items -> Prices] /\ removed' \in SUBSET Items /\ calm' \in BOOLEAN
    BY <1>1, <2>2, <2>3 DEF TypeOK
  <2>5. QED
    BY <2>3, <2>4, CatalogueKeeps
<1>5. CASE \E i \in Changing, x \in Prices : UpdatePrice(i, x)
  <2>1. PICK i \in Changing, x \in Prices : UpdatePrice(i, x)
    BY <1>5
  <2>2. /\ UNCHANGED <<stored, pc, op, copy, quote>> /\ removed' = removed /\ calm' = FALSE
        /\ price' = [price EXCEPT ![i] = x]
    BY <2>1 DEF UpdatePrice
  <2>3. price' \in [Items -> Prices] /\ removed' \in SUBSET Items /\ calm' \in BOOLEAN
    BY <1>1, <2>2 DEF TypeOK
  <2>4. QED
    BY <2>2, <2>3, CatalogueKeeps
<1>6. QED
  BY <1>2, <1>3, <1>4, <1>5 DEF Next

-----------------------------------------------------------------------------
(* The theorems. *)

\* Whatever overlaps and whatever fails, the stored booking, the copies and the
\* invoices stay well formed, a version key that is still the loaded one stands
\* for the same entries, and while nothing overlaps the account is exact.
THEOREM BillingInductive == Spec => []BillingInv
<1>1. Init => BillingInv
  BY InitHolds
<1>2. BillingInv /\ [Next]_vars => BillingInv'
  BY StepKeeps
<1>3. QED
  BY <1>1, <1>2, PTL DEF Spec

\* The version key does its work: while it is the one a handler loaded, both
\* lists hold the entries the handler saw, so that a write by position
\* (booking.service.ts, save() after a change of an entry) hits its entry.
THEOREM EntriesStaySound == Spec => []EntriesAreSound
<1>1. BillingInv => EntriesAreSound
  BY DEF BillingInv, EntriesAreSound
<1>2. QED
  BY <1>1, BillingInductive, PTL

\* While requests come one at a time and no price is changed, the total of the
\* booking is the nights and every service and room service on it, for lists of
\* any length.
THEOREM TotalStaysExact == Spec => []TotalIsExact
<1>1. BillingInv => TotalIsExact
  BY DEF BillingInv, Calm, TotalIsExact
<1>2. QED
  BY <1>1, BillingInductive, PTL

\* No stay ends without a stored invoice, and, one request at a time, none has
\* two but for checkouts that failed (checkoutBooking).
THEOREM CheckoutsStayInvoiced == Spec => []CheckoutsAreInvoiced
<1>1. BillingInv => CheckoutsAreInvoiced
  <2> SUFFICES ASSUME BillingInv PROVE CheckoutsAreInvoiced
    OBVIOUS
  <2> DEFINE S == {r \in Billed : pc[r] # "failed"}
  <2>1. ASSUME calm PROVE Cardinality(S) <= 1
    <3>1. \A r, q \in S : r = q
      BY <2>1 DEF BillingInv, Calm
    <3>2. CASE S = {}
      <4>1. Cardinality(S) = 0
        BY <3>2, FS_EmptySet
      <4>2. QED
        BY <4>1
    <3>3. CASE S # {}
      <4>1. PICK r \in S : TRUE
        BY <3>3
      <4>2. S = {r}
        BY <3>1, <4>1
      <4> HIDE DEF S
      <4>3. Cardinality(S) = 1
        BY <4>2, FS_Singleton
      <4>4. QED
        BY <4>3
    <3>4. QED
      BY <3>2, <3>3
  <2>2. CheckedOutIsInvoiced
    BY DEF BillingInv
  <2>3. QED
    BY <2>1, <2>2 DEF CheckoutsAreInvoiced, OneCheckoutInvoice
<1>2. QED
  BY <1>1, BillingInductive, PTL

\* What a step may do to the booking, for the theorems on steps.
LEMMA StepsAre ==
  ASSUME BillingInv, [Next]_vars
  PROVE  \/ UNCHANGED booking
         \/ \E r \in Requests : Writes(r) /\ pc[r] \in InFlight /\ UNCHANGED <<invoice, copy, calm>>
<1>1. CASE UNCHANGED vars
  BY <1>1 DEF vars, stored
<1>2. CASE \E r \in Requests : Handler(r) \/ Fault(r)
  <2>1. PICK r \in Requests : Handler(r) \/ Fault(r)
    BY <1>2
  <2>2. CASE \/ SaveServices(r) \/ SaveRoomServices(r) \/ SaveRoomServiceQuantities(r)
             \/ SaveRemoval(r) \/ SaveCheckIn(r) \/ SaveServed(r) \/ SaveCheckOut(r)
    <3>1. /\ Writes(r) \/ Leaves(r)
          /\ pc[r] \in InFlight /\ UNCHANGED <<invoice, copy, calm>>
      BY <2>2, SavesAre DEF InFlight
    <3>2. QED
      BY <3>1 DEF Leaves
  <2>3. CASE Load(r) \/ Quote(r) \/ BillCheckOut(r) \/ MailCheckOut(r) \/ Fault(r)
    BY <2>3 DEF Load, Quote, BillCheckOut, MailCheckOut, Fault, Refuse, stored
  <2>4. QED
    BY <2>1, <2>2, <2>3 DEF Handler
<1>3. CASE \E i \in Changing : RemoveItem(i) \/ \E x \in Prices : UpdatePrice(i, x)
  BY <1>3 DEF RemoveItem, UpdatePrice, stored
<1>4. QED
  BY <1>1, <1>2, <1>3 DEF Next

LEMMA PrefixIs ==
  ASSUME NEW a \in Seq(ServiceItem), NEW b \in Seq(ServiceItem), Keeps(a, b)
  PROVE  IsPrefix(Catalogued(a), Catalogued(b))
<1> DEFINE s == Catalogued(a)
           t == Catalogued(b)
           n == Len(a)
           T == ServiceIds \X Int
<1>1. /\ n \in Nat /\ Len(b) \in Nat /\ n <= Len(b) /\ DOMAIN a = 1 .. n /\ DOMAIN b = 1 .. Len(b)
      /\ \A k \in 1 .. n : a[k] \in ServiceItem /\ \A j \in 1 .. Len(b) : b[j] \in ServiceItem
      /\ \A k \in 1 .. n : b[k].item = a[k].item /\ b[k].price = a[k].price
  BY LenProperties, ElementOfSeq DEF Keeps
<1>2. s \in [1 .. n -> T] /\ \A k \in 1 .. n : s[k] = <<a[k].item, a[k].price>>
  BY <1>1, EntriesAreNumbers DEF Catalogued
<1>3. t \in [1 .. Len(b) -> T] /\ \A k \in 1 .. Len(b) : t[k] = <<b[k].item, b[k].price>>
  <2>1. \A j \in 1 .. Len(b) : b[j] \in ServiceItem
    BY ElementOfSeq
  <2>2. QED
    BY <1>1, <2>1, EntriesAreNumbers DEF Catalogued
<1> HIDE DEF s, t, n, T
<1>4. s \in Seq(T) /\ Len(s) = n /\ t \in Seq(T) /\ Len(t) = Len(b)
  BY <1>1, <1>2, <1>3, FunctionIsSeq
<1>5. \A k \in 1 .. n : t[k] = s[k] /\ s[k] \in T /\ t[k] \in T
  <2>1. \A k \in 1 .. n : k \in 1 .. Len(b)
    BY <1>1
  <2>2. \A k \in 1 .. n : t[k] = s[k]
    BY <1>1, <1>2, <1>3, <2>1
  <2>3. QED
    BY <1>2, <2>2
<1>6. SubSeq(s, 1, n) = SubSeq(t, 1, n)
  <2>1. 1 \in Int /\ n \in Int /\ \A k \in 1 .. n : s[k] \in T /\ t[k] \in T
    BY <1>1, <1>5
  <2> DEFINE x == SubSeq(s, 1, n)
             y == SubSeq(t, 1, n)
  <2>2. /\ x \in Seq(T) /\ Len(x) = IF 1 <= n THEN n - 1 + 1 ELSE 0
        /\ \A k \in 1 .. n - 1 + 1 : x[k] = s[1 + k - 1]
    BY <2>1, SubSeqProperties
  <2>3. /\ y \in Seq(T) /\ Len(y) = IF 1 <= n THEN n - 1 + 1 ELSE 0
        /\ \A k \in 1 .. n - 1 + 1 : y[k] = t[1 + k - 1]
    BY <2>1, SubSeqProperties
  <2> HIDE DEF x, y
  <2>4. n - 1 + 1 = n /\ Len(x) = n /\ Len(y) = n /\ \A k \in 1 .. n : 1 + k - 1 = k
    BY <1>1, <2>2, <2>3
  <2>5. \A k \in 1 .. n : x[k] = y[k]
    BY <1>5, <2>2, <2>3, <2>4
  <2>6. x = y
    BY <2>2, <2>3, <2>4, <2>5, SeqEqual
  <2>7. QED
    BY <2>6 DEF x, y
<1>7. QED
  BY <1>1, <1>4, <1>6 DEF IsPrefix, s, t

\* No handler takes a service off a booking, moves it, or changes the price it
\* was entered with, whatever overlaps (addServicesToBooking,
\* updateBookingServiceStatus and the saves of the others).
THEOREM ServicesStay == Spec => ServicesOnlyGrow
<1>1. BillingInv /\ [Next]_vars
        => [IsPrefix(Catalogued(booking.services), Catalogued(booking'.services))]_vars
  <2> SUFFICES ASSUME BillingInv, [Next]_vars
               PROVE  IsPrefix(Catalogued(booking.services), Catalogued(booking'.services))
    OBVIOUS
  <2>1. booking \in BookingType
    BY DEF BillingInv, TypeOK
  <2>2. booking.services \in Seq(ServiceItem)
    BY <2>1, BookingIs
  <2>3. CASE UNCHANGED booking
    <3>1. Keeps(booking.services, booking.services)
      BY <2>1, KeepsItself
    <3>2. QED
      BY <2>2, <2>3, <3>1, PrefixIs
  <2>4. CASE \E r \in Requests : Writes(r)
    <3>1. booking' \in BookingType /\ Keeps(booking.services, booking'.services)
      BY <2>4 DEF Writes
    <3>2. booking'.services \in Seq(ServiceItem)
      BY <3>1, BookingIs
    <3>3. QED
      BY <2>2, <3>1, <3>2, PrefixIs
  <2>5. QED
    BY <2>3, <2>4, StepsAre
<1>2. QED
  BY <1>1, BillingInductive, PTL DEF Spec, ServicesOnlyGrow

\* A bill is for what the handler's own copy says is left.
Due(doc) == LET left == doc.total - doc.paid IN IF left = 0 THEN 1 ELSE left
BilledAsLoaded ==
  \A r \in Requests :
    op[r].kind = "checkOut" /\ pc[r] \in {"billed", "mailed"} => invoice[r] = Due(copy[r])

LEMMA BillsStay ==
  ASSUME BillingInv, BilledAsLoaded, [Next]_vars
  PROVE  BilledAsLoaded'
<1>1. TypeOK
  BY DEF BillingInv
<1>2. ASSUME UNCHANGED <<invoice, op, copy>>,
             \A r \in Requests : pc'[r] \in {"billed", "mailed"} =>
               pc[r] \in {"billed", "mailed"}
      PROVE  BilledAsLoaded'
  BY <1>2 DEF BilledAsLoaded, Due
<1>3. ASSUME NEW r \in Requests, Handler(r) \/ Fault(r) PROVE BilledAsLoaded'
  <2>1. CASE \/ SaveServices(r) \/ SaveRoomServices(r) \/ SaveRoomServiceQuantities(r)
             \/ SaveRemoval(r) \/ SaveCheckIn(r) \/ SaveServed(r) \/ SaveCheckOut(r)
    <3>1. (Writes(r) \/ Leaves(r)) /\ UNCHANGED <<invoice, op, copy>>
      BY <2>1, SavesAre
    <3>2. \/ pc' = [pc EXCEPT ![r] = "done"]
          \/ pc' = [pc EXCEPT ![r] = "failed"]
          \/ pc' = [pc EXCEPT ![r] = "refused"]
      BY <3>1 DEF Writes, Leaves
    <3>3. \A q \in Requests : pc'[q] \in {"billed", "mailed"} => pc[q] \in {"billed", "mailed"}
      BY <1>1, <3>2 DEF TypeOK
    <3>4. QED
      BY <1>2, <3>1, <3>3
  <2>2. CASE Load(r)
    <3>1. /\ UNCHANGED <<invoice, op>> /\ pc'[r] = "loaded"
          /\ \A q \in Requests : q # r => pc'[q] = pc[q] /\ copy'[q] = copy[q]
      BY <1>1, <2>2 DEF Load, TypeOK, stored
    <3>2. QED
      BY <3>1 DEF BilledAsLoaded, Due
  <2>3. CASE Quote(r) \/ MailCheckOut(r) \/ Fault(r)
    <3>1. UNCHANGED <<invoice, op, copy>>
      BY <2>3 DEF Quote, MailCheckOut, Fault, stored
    <3>2. \/ pc' = [pc EXCEPT ![r] = "quoted"]
          \/ pc' = [pc EXCEPT ![r] = "refused"]
          \/ pc[r] = "billed" /\ pc' = [pc EXCEPT ![r] = "mailed"]
          \/ pc' = [pc EXCEPT ![r] = "failed"]
      BY <2>3 DEF Quote, MailCheckOut, Handles, Fault
    <3>3. \A q \in Requests : pc'[q] \in {"billed", "mailed"} => pc[q] \in {"billed", "mailed"}
      BY <1>1, <3>2 DEF TypeOK
    <3>4. QED
      BY <1>2, <3>1, <3>3
  <2>4. CASE BillCheckOut(r)
    <3>1. UNCHANGED <<op, copy>>
      BY <2>4 DEF BillCheckOut
    <3>2. CASE pc' = [pc EXCEPT ![r] = "billed"]
      <4>1. invoice' = [invoice EXCEPT ![r] = Due(copy[r])]
        <5>1. "billed" # "refused"
          OBVIOUS
        <5>2. pc'[r] = "billed"
          BY <1>1, <3>2 DEF TypeOK
        <5>3. ~(pc' = [pc EXCEPT ![r] = "refused"])
          BY <1>1, <5>1, <5>2 DEF TypeOK
        <5>4. QED
          BY <2>4, <5>3 DEF BillCheckOut, Refuse, Due
      <4>2. /\ invoice'[r] = Due(copy[r])
            /\ \A q \in Requests : q # r => invoice'[q] = invoice[q] /\ pc'[q] = pc[q]
        BY <1>1, <3>2, <4>1 DEF TypeOK
      <4>3. QED
        BY <3>1, <4>2 DEF BilledAsLoaded, Due
    <3>3. CASE pc' = [pc EXCEPT ![r] = "refused"]
      <4>1. pc'[r] = "refused"
        BY <1>1, <3>3 DEF TypeOK
      <4>2. ~(pc' = [pc EXCEPT ![r] = "billed"])
        BY <1>1, <4>1 DEF TypeOK
      <4>3. UNCHANGED invoice
        BY <2>4, <4>2 DEF BillCheckOut, Refuse, stored
      <4>4. \A q \in Requests : pc'[q] \in {"billed", "mailed"} => pc[q] \in {"billed", "mailed"}
        BY <1>1, <3>3 DEF TypeOK
      <4>5. QED
        BY <1>2, <3>1, <4>3, <4>4
    <3>4. QED
      BY <2>4, <3>2, <3>3 DEF BillCheckOut, Refuse
  <2>5. QED
    BY <1>3, <2>1, <2>2, <2>3, <2>4 DEF Handler
<1>4. ASSUME UNCHANGED <<stored, pc, op, copy>> PROVE BilledAsLoaded'
  BY <1>2, <1>4 DEF stored
<1>5. CASE UNCHANGED vars
  BY <1>4, <1>5 DEF vars
<1>6. CASE \E i \in Changing : RemoveItem(i) \/ \E x \in Prices : UpdatePrice(i, x)
  BY <1>4, <1>6 DEF RemoveItem, UpdatePrice
<1>7. QED
  BY <1>3, <1>5, <1>6 DEF Next

\* One request at a time and at fixed prices, the invoice with which a stay is
\* closed is for all that is on the booking and was not paid, for lists of any
\* length (checkoutBooking).
THEOREM StaysCloseAsBilled == Spec => ClosesAsBilled
<1>1. Init => BilledAsLoaded
  <2> SUFFICES ASSUME Init PROVE BilledAsLoaded
    OBVIOUS
  <2>1. \A r \in Requests : pc[r] = "idle"
    BY DEF Init
  <2>2. QED
    BY <2>1 DEF BilledAsLoaded
<1>2. Spec => []BilledAsLoaded
  BY <1>1, BillingInductive, BillsStay, PTL DEF Spec
<1>3. ASSUME BillingInv, BilledAsLoaded, NEW r \in Requests, calm, Closes(r)
      PROVE  invoice[r] = Outstanding
  <2>1. op[r].kind = "checkOut" /\ pc[r] = "mailed" /\ pc[r] \in InFlight
    BY <1>3 DEF Closes, Handles, InFlight
  <2>2. copy[r] = booking /\ ChargesAreComplete
    BY <1>3, <2>1 DEF BillingInv, Calm
  <2>3. invoice[r] = Due(booking)
    BY <1>3, <2>1, <2>2 DEF BilledAsLoaded
  <2>4. booking.total = Charges
    BY <2>2 DEF ChargesAreComplete
  <2>5. Due(booking) = Outstanding
    BY <2>4 DEF Due, Outstanding
  <2>6. QED
    BY <2>3, <2>5
<1>4. BillingInv /\ BilledAsLoaded
        => [\A r \in Requests : calm /\ Closes(r) => invoice[r] = Outstanding]_vars
  BY <1>3
<1>5. QED
  BY <1>2, <1>4, BillingInductive, PTL DEF Spec, ClosesAsBilled

LEMMA RankIs ==
  /\ \A s \in {"Pending", "Checked in", "Checked out"} : Rank(s) \in Int
  /\ \A s, t : \/ s = t
               \/ s = "Checked in" /\ t = "Pending"
               \/ s = "Checked out" /\ t = "Checked in"
               => Rank(s) = Rank(t) \/ Rank(s) = Rank(t) + 1
<1>1. /\ \A s : s = "Pending" => Rank(s) = 0
      /\ \A s : s = "Checked in" => Rank(s) = 1
      /\ \A s : s = "Checked out" => Rank(s) = 2
  BY DEF Rank
<1>2. 0 \in Int /\ 1 \in Int /\ 2 \in Int /\ 1 = 0 + 1 /\ 2 = 1 + 1
  OBVIOUS
<1>3. ASSUME NEW s \in {"Pending", "Checked in", "Checked out"} PROVE Rank(s) \in Int
  <2>1. Rank(s) = 0 \/ Rank(s) = 1 \/ Rank(s) = 2
    BY <1>1, Zenon
  <2>2. QED
    BY <1>2, <2>1, Zenon
<1>4. \A s, t : s = t => Rank(s) = Rank(t)
  BY Zenon
<1>5. ASSUME NEW s, NEW t, s = "Checked in", t = "Pending" PROVE Rank(s) = Rank(t) + 1
  <2>1. Rank(s) = 1 /\ Rank(t) = 0
    BY <1>1, <1>5, Zenon
  <2>2. QED
    BY <1>2, <2>1, Zenon
<1>6. ASSUME NEW s, NEW t, s = "Checked out", t = "Checked in" PROVE Rank(s) = Rank(t) + 1
  <2>1. Rank(s) = 2 /\ Rank(t) = 1
    BY <1>1, <1>6, Zenon
  <2>2. QED
    BY <1>2, <2>1, Zenon
<1>7. QED
  BY <1>3, <1>4, <1>5, <1>6, Zenon

\* One request at a time, a stay goes from pending to checked in to checked out
\* and never back, and a service that was served stays so (checkIn,
\* checkoutBooking, updateBookingServiceStatus).
THEOREM StaysMoveForward == Spec => MovesForward
<1>1. ASSUME BillingInv, [Next]_vars, calm'
      PROVE  /\ Rank(booking'.status) - Rank(booking.status) \in {0, 1}
             /\ \A k \in DOMAIN booking.services :
                  booking.services[k].served => booking'.services[k].served
  <2>1. booking \in BookingType
    BY <1>1 DEF BillingInv, TypeOK
  <2>2. booking.status \in {"Pending", "Checked in", "Checked out"}
        /\ DOMAIN booking.services = 1 .. Len(booking.services)
    BY <2>1, BookingIs, LenProperties
  <2>3. CASE UNCHANGED booking
    <3>1. Rank(booking.status) \in Int /\ booking'.status = booking.status
      BY <2>2, <2>3, RankIs, Zenon
    <3>2. \A x \in Int : x - x = 0
      OBVIOUS
    <3>3. Rank(booking'.status) - Rank(booking.status) = 0
      BY <3>1, <3>2
    <3>4. QED
      BY <2>3, <3>3
  <2>4. CASE \E r \in Requests : Writes(r) /\ pc[r] \in InFlight /\ UNCHANGED <<invoice, copy, calm>>
    <3>1. PICK r \in Requests : Writes(r) /\ pc[r] \in InFlight /\ UNCHANGED <<invoice, copy, calm>>
      BY <2>4
    <3>2. calm /\ copy[r] = booking /\ StageTellsKind
      BY <1>1, <3>1, Known DEF BillingInv
    <3>3. \/ booking'.status = booking.status
          \/ booking'.status = "Checked in" /\ booking.status = "Pending"
          \/ booking'.status = "Checked out" /\ booking.status = "Checked in"
      BY <3>1, <3>2 DEF Writes, StageTellsKind
    <3>4. Rank(booking'.status) - Rank(booking.status) \in {0, 1}
      <4>1. Rank(booking.status) \in Int
        BY <2>2, RankIs, Zenon
      <4>2. Rank(booking'.status) = Rank(booking.status) \/ Rank(booking'.status) = Rank(booking.status) + 1
        BY <3>3, RankIs, Zenon
      <4>3. \A x \in Int : x - x = 0 /\ (x + 1) - x = 1
        OBVIOUS
      <4>4. Rank(booking'.status) - Rank(booking.status) = 0 \/ Rank(booking'.status) - Rank(booking.status) = 1
        BY <4>1, <4>2, <4>3
      <4>5. QED
        BY <4>4
    <3>5. QED
      BY <2>2, <3>1, <3>2, <3>4 DEF Writes
  <2>5. QED
    BY <1>1, <2>3, <2>4, StepsAre
<1>2. BillingInv /\ [Next]_vars
        => [calm' => Rank(booking'.status) - Rank(booking.status) \in {0, 1}]_vars
  BY <1>1
<1>3. BillingInv /\ [Next]_vars
        => [calm' => \A k \in DOMAIN booking.services :
              booking.services[k].served => booking'.services[k].served]_vars
  BY <1>1
<1>4. QED
  BY <1>2, <1>3, BillingInductive, PTL DEF Spec, MovesForward, LifecycleForward, ServedIsFinal

=============================================================================
