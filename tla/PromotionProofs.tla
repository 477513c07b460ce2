-------------------------- MODULE PromotionProofs --------------------------
(***************************************************************************)
(* Theorems about Promotion, for every set of users and promotions and     *)
(* every finite set of requests.  The first part holds however requests    *)
(* interleave; the second needs them to come one at a time (Serial).       *)
(***************************************************************************)
EXTENDS Promotion, FiniteSetTheorems, TLAPS

\* Adding a member to one of the sets a function returns keeps its type.
LEMMA AddTyped ==
  ASSUME NEW S, NEW T, NEW f \in [S -> SUBSET T], NEW x \in S, NEW y \in T
  PROVE  [f EXCEPT ![x] = @ \cup {y}] \in [S -> SUBSET T]
OBVIOUS

\* TypeOK is inductive.  Named apart from the theorem so that steps can cite it.
LEMMA TypeInit == Init => TypeOK
BY AmountsInt DEF Init, TypeOK, InFlight, Answered

LEMMA TypeNext == TypeOK /\ [Next]_vars => TypeOK'
<1> SUFFICES ASSUME TypeOK, [Next]_vars PROVE TypeOK'
  OBVIOUS
<1> USE DEF TypeOK, db, locals, InFlight, Answered
<1>1. ASSUME NEW p \in Promos, NEW n \in Amounts, CreatePromotion(p, n)
      PROVE TypeOK'
  BY <1>1, AmountsInt DEF CreatePromotion
<1>2. ASSUME NEW r \in Requests, ReadPromotion(r) PROVE TypeOK'
  BY <1>2 DEF ReadPromotion, Admit
<1>3. ASSUME NEW r \in Requests, ReadUserPromotion(r) PROVE TypeOK'
  BY <1>3 DEF ReadUserPromotion
<1>4. ASSUME NEW r \in Requests, SavePromotion(r) PROVE TypeOK'
  <2>1. promo[r] \in Promos /\ seen[r] - 1 \in Int
    OBVIOUS
  <2>2. [debited EXCEPT ![promo[r]] = @ \cup {r}] \in [Promos -> SUBSET Requests]
    BY <2>1, AddTyped
  <2>3. CASE promo[r] \in stored
    <3>1. /\ debited' = [debited EXCEPT ![promo[r]] = @ \cup {r}]
          /\ amount' = [amount EXCEPT ![promo[r]] = seen[r] - 1]
          /\ pc' = [pc EXCEPT ![r] = "saved"]
          /\ UNCHANGED <<created, stored, born, records, history, locals>>
      BY <1>4, <2>3 DEF SavePromotion
    <3>2. debited' \in [Promos -> SUBSET Requests]
      BY <3>1, <2>2
    <3>3. QED
      BY <3>1, <3>2, <2>1
  <2>4. CASE promo[r] \notin stored
    BY <1>4, <2>4 DEF SavePromotion
  <2>5. QED
    BY <2>3, <2>4
<1>5. ASSUME NEW r \in Requests, SaveUserPromotion(r) PROVE TypeOK'
  <2>1. promo[r] \in Promos /\ user[r] \in Users
    OBVIOUS
  <2>2. [history[user[r]] EXCEPT ![promo[r]] = @ \cup {r}] \in [Promos -> SUBSET Requests]
    BY <2>1, AddTyped
  <2>3. [history EXCEPT ![user[r]][promo[r]] = @ \cup {r}]
          \in [Users -> [Promos -> SUBSET Requests]]
    BY <2>1, <2>2
  <2>4. QED
    BY <1>5, <2>1, <2>3 DEF SaveUserPromotion
<1>6. ASSUME NEW r \in Requests, DeletePromotion(r) PROVE TypeOK'
  BY <1>6 DEF DeletePromotion, Admit
<1>7. ASSUME NEW r \in Requests, PullPromotion(r) PROVE TypeOK'
  BY <1>7 DEF PullPromotion
<1>8. ASSUME NEW r \in Requests, Abort(r) PROVE TypeOK'
  BY <1>8 DEF Abort
<1>9. CASE UNCHANGED vars
  BY <1>9 DEF vars
<1>10. QED
  BY <1>1, <1>2, <1>3, <1>4, <1>5, <1>6, <1>7, <1>8, <1>9
  DEF Next, UseStep, DeleteStep

\* Every reachable state is well typed, whatever the constants.
THEOREM TypeCorrect == Spec => []TypeOK
<1>1. Init => TypeOK
  BY TypeInit
<1>2. TypeOK /\ [Next]_vars => TypeOK'
  BY TypeNext
<1>3. QED
  BY <1>1, <1>2, PTL DEF Spec

-----------------------------------------------------------------------------
(* Any interleaving.  The strengthening says what a request carries across *)
(* its awaits: the amount it read is one the promotion once had (Carried), *)
(* and a debit belongs to one request, which is past its save (Debits).    *)

Carried ==
  \A r \in Requests : pc[r] \in {"read", "checked"} =>
    /\ promo[r] \in created
    /\ 1 <= seen[r] /\ seen[r] <= born[promo[r]]
    /\ seen[r] + Cardinality(debited[promo[r]]) >= born[promo[r]]

Debits ==
  /\ \A p \in Promos : \A r \in debited[p] :
       p \in created /\ promo[r] = p /\ pc[r] \in {"saved", "used", "failed"}
  /\ \A r \in Requests : pc[r] = "saved" => r \in debited[promo[r]]

RaceInv == TypeOK /\ AmountBounds /\ NoStockLost /\ EntryIsDebited /\ Carried /\ Debits

\* The sets of requests the model counts are finite.
LEMMA DebitedFinite ==
  ASSUME TypeOK, NEW p \in Promos
  PROVE  /\ IsFiniteSet(debited[p])
         /\ Cardinality(debited[p]) \in Nat
<1>1. IsFiniteSet(debited[p])
  BY RequestsFinite, FS_Subset DEF TypeOK
<1>2. QED
  BY <1>1, FS_CardinalityType

LEMMA DebitedFinitePrime ==
  ASSUME TypeOK', NEW p \in Promos
  PROVE  Cardinality(debited'[p]) \in Nat
<1>1. IsFiniteSet(debited'[p])
  BY RequestsFinite, FS_Subset DEF TypeOK
<1>2. QED
  BY <1>1, FS_CardinalityType

LEMMA RaceInit == Init => RaceInv
<1> SUFFICES ASSUME Init PROVE RaceInv
  OBVIOUS
<1>1. TypeOK
  BY TypeInit
<1>2. AmountBounds /\ NoStockLost /\ EntryIsDebited /\ Carried /\ Debits
  BY <1>1 DEF Init, AmountBounds, NoStockLost, EntryIsDebited, Carried, Debits
<1>3. QED
  BY <1>1, <1>2 DEF RaceInv

LEMMA RaceNext == RaceInv /\ [Next]_vars => RaceInv'
<1> SUFFICES ASSUME RaceInv, [Next]_vars PROVE RaceInv'
  OBVIOUS
<1> USE DEF RaceInv, db, locals
<1> DEFINE Rest == AmountBounds /\ NoStockLost /\ EntryIsDebited /\ Carried /\ Debits
<1>0. TypeOK /\ TypeOK'
  BY TypeNext
<1>1. ASSUME NEW p \in Promos, NEW n \in Amounts, CreatePromotion(p, n)
      PROVE Rest'
  <2>1. n \in Int /\ debited' = debited /\ debited[p] = {}
    BY <1>0, <1>1, AmountsInt DEF CreatePromotion, Debits, TypeOK
  <2>2. amount'[p] = n /\ born'[p] = n /\ Cardinality(debited'[p]) = 0
    BY <1>0, <1>1, <2>1, FS_EmptySet DEF CreatePromotion, TypeOK
  <2>3. \A q \in Promos : q # p => amount'[q] = amount[q] /\ born'[q] = born[q]
    BY <1>0, <1>1 DEF CreatePromotion, TypeOK
  <2>4. AmountBounds'
    BY <1>0, <1>1, <2>1, <2>2, <2>3 DEF CreatePromotion, AmountBounds, Floor, TypeOK
  <2>5. NoStockLost'
    <3>1. SUFFICES ASSUME NEW q \in Promos, q \in created'
                   PROVE  amount'[q] + Cardinality(debited'[q]) >= born'[q]
      BY <1>0 DEF NoStockLost, TypeOK
    <3>2. CASE q = p
      BY <2>1, <2>2, <3>2
    <3>3. CASE q # p
      BY <1>1, <2>1, <2>3, <3>1, <3>3 DEF CreatePromotion, NoStockLost
    <3>4. QED
      BY <3>2, <3>3
  <2>6. EntryIsDebited' /\ Debits'
    BY <1>0, <1>1 DEF CreatePromotion, EntryIsDebited, Debits, TypeOK
  <2>7. Carried'
    BY <1>0, <1>1, <2>1, <2>3 DEF CreatePromotion, Carried, TypeOK
  <2>8. QED
    BY <2>4, <2>5, <2>6, <2>7
<1>2. ASSUME NEW r \in Requests, ReadPromotion(r) PROVE Rest'
  <2>1. AmountBounds' /\ NoStockLost' /\ EntryIsDebited'
    <3>1. UNCHANGED <<created, amount, born, debited, history, user, promo>>
      BY <1>2 DEF ReadPromotion
    <3>2. QED
      BY <3>1 DEF AmountBounds, NoStockLost, EntryIsDebited
  <2>5. Debits'
    <3>1. /\ UNCHANGED <<created, debited, promo>> /\ pc[r] = "idle"
          /\ \/ pc' = [pc EXCEPT ![r] = "read"]
             \/ pc' = [pc EXCEPT ![r] = "rejected"]
      BY <1>2 DEF ReadPromotion, Admit
    <3>2. \A q \in Requests : q # r => pc'[q] = pc[q]
      BY <1>0, <3>1 DEF TypeOK
    <3>3. \A p \in Promos : debited[p] \subseteq Requests /\ r \notin debited[p]
      BY <1>0, <3>1 DEF Debits, TypeOK
    <3>4. pc'[r] # "saved"
      BY <1>0, <3>1 DEF TypeOK
    <3>5. QED
      BY <3>1, <3>2, <3>3, <3>4 DEF Debits
  <2>2. promo[r] \in created /\ amount[promo[r]] > 0
        => /\ 1 <= amount[promo[r]] /\ amount[promo[r]] <= born[promo[r]]
           /\ amount[promo[r]] + Cardinality(debited[promo[r]]) >= born[promo[r]]
    BY <1>0 DEF AmountBounds, NoStockLost, TypeOK
  <2>3. Carried'
    BY <1>0, <1>2, <2>2 DEF ReadPromotion, Carried, TypeOK
  <2>4. QED
    BY <2>1, <2>3, <2>5
<1>3. ASSUME NEW r \in Requests, ReadUserPromotion(r) PROVE Rest'
  <2>1. UNCHANGED <<created, amount, born, debited, history, user, promo, seen>>
    BY <1>3 DEF ReadUserPromotion
  <2>2. AmountBounds' /\ NoStockLost' /\ EntryIsDebited'
    BY <2>1 DEF AmountBounds, NoStockLost, EntryIsDebited
  <2>3. Debits' /\ Carried'
    <3>1. /\ pc[r] = "read" /\ pc'[r] \in {"checked", "rejected"}
          /\ \A q \in Requests : q # r => pc'[q] = pc[q]
      BY <1>0, <1>3 DEF ReadUserPromotion, TypeOK
    <3>2. \A p \in Promos : debited[p] \subseteq Requests
      BY <1>0 DEF TypeOK
    <3>3. Debits'
      BY <2>1, <3>1, <3>2 DEF Debits
    <3>4. Carried'
      BY <2>1, <3>1 DEF Carried
    <3>5. QED
      BY <3>3, <3>4
  <2>4. QED
    BY <2>2, <2>3
<1>4. ASSUME NEW r \in Requests, SavePromotion(r) PROVE Rest'
  <2> DEFINE p == promo[r]
  <2>1. CASE p \notin stored
    <3>1. /\ UNCHANGED <<created, amount, born, debited, history, user, promo, seen>>
          /\ pc[r] = "checked" /\ pc' = [pc EXCEPT ![r] = "failed"]
      BY <1>4, <2>1 DEF SavePromotion
    <3>2. /\ pc'[r] = "failed" /\ \A q \in Requests : q # r => pc'[q] = pc[q]
          /\ \A q \in Promos : debited[q] \subseteq Requests
      BY <1>0, <3>1 DEF TypeOK
    <3>3. AmountBounds' /\ NoStockLost' /\ EntryIsDebited'
      BY <3>1 DEF AmountBounds, NoStockLost, EntryIsDebited
    <3>4. Debits' /\ Carried'
      BY <3>1, <3>2 DEF Debits, Carried
    <3>5. QED
      BY <3>3, <3>4
  <2>2. CASE p \in stored
    <3>1. /\ pc[r] = "checked" /\ pc' = [pc EXCEPT ![r] = "saved"]
          /\ debited' = [debited EXCEPT ![p] = @ \cup {r}]
          /\ amount' = [amount EXCEPT ![p] = seen[r] - 1]
          /\ UNCHANGED <<created, stored, born, records, history, locals>>
      BY <1>4, <2>2 DEF SavePromotion
    <3>2. /\ p \in Promos /\ p \in created
          /\ 1 <= seen[r] /\ seen[r] <= born[p]
          /\ seen[r] + Cardinality(debited[p]) >= born[p]
      BY <1>0, <3>1 DEF Carried, TypeOK
    <3>3. /\ debited'[p] = debited[p] \cup {r} /\ amount'[p] = seen[r] - 1
          /\ \A q \in Promos : q # p => debited'[q] = debited[q] /\ amount'[q] = amount[q]
      BY <1>0, <3>1, <3>2 DEF TypeOK
    <3>4. Cardinality(debited'[p]) = Cardinality(debited[p]) + 1
      <4>1. r \notin debited[p]
        BY <3>1, <3>2 DEF Debits
      <4>2. QED
        BY <1>0, <3>2, <3>3, <4>1, DebitedFinite, FS_AddElement
    <3>5. \A q \in Promos : Cardinality(debited[q]) \in Nat
                            /\ amount[q] \in Int /\ born[q] \in Int
      BY <1>0, DebitedFinite DEF TypeOK
    <3>6. seen[r] \in Int
      BY <1>0 DEF TypeOK
    <3>7. AmountBounds'
      BY <1>0, <3>1, <3>2, <3>3, <3>5, <3>6 DEF AmountBounds, Floor, TypeOK
    <3>8. NoStockLost'
      BY <1>0, <3>1, <3>2, <3>3, <3>4, <3>5, <3>6 DEF NoStockLost, TypeOK
    <3>9. EntryIsDebited'
      BY <1>0, <3>1, <3>2, <3>3 DEF EntryIsDebited, TypeOK
    <3>10. Debits'
      BY <1>0, <3>1, <3>2, <3>3 DEF Debits, TypeOK
    <3>11. Carried'
      <4>1. \A q \in Promos : Cardinality(debited'[q]) >= Cardinality(debited[q])
        <5>1. SUFFICES ASSUME NEW q \in Promos
                       PROVE  Cardinality(debited'[q]) >= Cardinality(debited[q])
          OBVIOUS
        <5>2. CASE q = p
          BY <3>2, <3>4, <3>5, <5>2
        <5>3. CASE q # p
          BY <3>3, <3>5, <5>3
        <5>4. QED
          BY <5>2, <5>3
      <4>2. SUFFICES ASSUME NEW s \in Requests, pc'[s] \in {"read", "checked"}
                     PROVE  /\ promo[s] \in created
                            /\ 1 <= seen[s] /\ seen[s] <= born[promo[s]]
                            /\ seen[s] + Cardinality(debited'[promo[s]]) >= born[promo[s]]
        BY <3>1 DEF Carried
      <4>3. s # r /\ pc[s] \in {"read", "checked"}
        BY <1>0, <3>1, <4>2 DEF TypeOK
      <4>4. /\ promo[s] \in created /\ promo[s] \in Promos /\ seen[s] \in Int
            /\ 1 <= seen[s] /\ seen[s] <= born[promo[s]]
            /\ seen[s] + Cardinality(debited[promo[s]]) >= born[promo[s]]
        BY <1>0, <4>3 DEF Carried, TypeOK
      <4>5. /\ Cardinality(debited'[promo[s]]) \in Nat
            /\ Cardinality(debited'[promo[s]]) >= Cardinality(debited[promo[s]])
        BY <1>0, <4>1, <4>4, DebitedFinitePrime
      <4>6. QED
        BY <3>5, <4>4, <4>5
    <3>12. QED
      BY <3>7, <3>8, <3>9, <3>10, <3>11
  <2>3. QED
    BY <2>1, <2>2
<1>5. ASSUME NEW r \in Requests, SaveUserPromotion(r) PROVE Rest'
  <2>0. UNCHANGED <<created, amount, born, debited, user, promo, seen>>
    BY <1>5 DEF SaveUserPromotion
  <2>1. AmountBounds' /\ NoStockLost' /\ Debits' /\ Carried'
    <3>1. AmountBounds' /\ NoStockLost'
      BY <2>0 DEF AmountBounds, NoStockLost
    <3>2. Debits' /\ Carried'
      <4>1. /\ pc[r] = "saved"
            /\ \/ pc' = [pc EXCEPT ![r] = "used"]
               \/ pc' = [pc EXCEPT ![r] = "failed"]
        BY <1>5 DEF SaveUserPromotion
      <4>2. QED
        <5>1. /\ \A q \in Requests : q # r => pc'[q] = pc[q]
              /\ pc'[r] \in {"used", "failed"}
          BY <1>0, <4>1 DEF TypeOK
        <5>2. \A p \in Promos : debited[p] \subseteq Requests
          BY <1>0 DEF TypeOK
        <5>3. Debits'
          BY <2>0, <5>1, <5>2 DEF Debits
        <5>4. Carried'
          BY <2>0, <5>1 DEF Carried
        <5>5. QED
          BY <5>3, <5>4
    <3>3. QED
      BY <3>1, <3>2
  <2>2. r \in debited[promo[r]] /\ user[r] \in Users /\ promo[r] \in Promos
    BY <1>0, <1>5 DEF SaveUserPromotion, Debits, TypeOK
  <2>3. EntryIsDebited'
    <3>1. \/ history' = history
          \/ history' = [history EXCEPT ![user[r]][promo[r]] = @ \cup {r}]
      BY <1>5 DEF SaveUserPromotion
    <3>2. \A u \in Users, p \in Promos : \A s \in history'[u][p] :
            \/ s \in history[u][p]
            \/ s = r /\ u = user[r] /\ p = promo[r]
      BY <1>0, <2>2, <3>1 DEF TypeOK
    <3>3. QED
      BY <2>0, <2>2, <3>2 DEF EntryIsDebited
  <2>4. QED
    BY <2>1, <2>3
<1>6. ASSUME NEW r \in Requests, DeletePromotion(r) PROVE Rest'
  BY <1>0, <1>6 DEF DeletePromotion, Admit, AmountBounds, NoStockLost, EntryIsDebited,
                    Debits, Carried, TypeOK
<1>7. ASSUME NEW r \in Requests, PullPromotion(r) PROVE Rest'
  BY <1>0, <1>7 DEF PullPromotion, AmountBounds, NoStockLost, EntryIsDebited,
                    Debits, Carried, TypeOK
<1>8. ASSUME NEW r \in Requests, Abort(r) PROVE Rest'
  BY <1>0, <1>8 DEF Abort, InFlight, AmountBounds, NoStockLost, EntryIsDebited,
                    Debits, Carried, TypeOK
<1>9. CASE UNCHANGED vars
  BY <1>0, <1>9 DEF vars, AmountBounds, NoStockLost, EntryIsDebited, Debits, Carried, TypeOK
<1>10. QED
  BY <1>0, <1>1, <1>2, <1>3, <1>4, <1>5, <1>6, <1>7, <1>8, <1>9
  DEF Next, UseStep, DeleteStep

LEMMA RaceInvariant == Spec => []RaceInv
<1>1. Init => RaceInv
  BY RaceInit
<1>2. RaceInv /\ [Next]_vars => RaceInv'
  BY RaceNext
<1>3. QED
  BY <1>1, <1>2, PTL DEF Spec

\* Lost updates never take a promotion's amount below nothing or above what it
\* was created with.
THEOREM AmountStaysInBounds == Spec => []AmountBounds
<1>1. RaceInv => AmountBounds
  BY DEF RaceInv
<1>2. QED
  BY RaceInvariant, <1>1, PTL

\* No interleaving takes more uses out of a promotion than saves were made.
THEOREM StockIsNeverLost == Spec => []NoStockLost
<1>1. RaceInv => NoStockLost
  BY DEF RaceInv
<1>2. QED
  BY RaceInvariant, <1>1, PTL

\* A recorded use was paid for by a debit of the same request.
THEOREM EntriesAreDebited == Spec => []EntryIsDebited
<1>1. RaceInv => EntryIsDebited
  BY DEF RaceInv
<1>2. QED
  BY RaceInvariant, <1>1, PTL

-----------------------------------------------------------------------------
(* Requests one at a time.  What a request has read is then still so when it *)
(* writes.                                                                   *)

OneAtATime ==
  \A r, q \in Requests : pc[r] \in InFlight /\ pc[q] \in InFlight => r = q

StillTrueFor(r) ==
  /\ pc[r] \in {"read", "checked"} =>
       promo[r] \in stored /\ seen[r] = amount[promo[r]]
  /\ pc[r] = "saved" => promo[r] \in stored /\ amount[promo[r]] >= 0
  /\ pc[r] \in {"checked", "saved"} /\ spelt[r] = Plain =>
       history[user[r]][promo[r]] = {}
  /\ pc[r] = "pulling" => promo[r] \in created /\ promo[r] \notin stored
StillTrue == \A r \in Requests : StillTrueFor(r)

SerialInv == RaceInv /\ OneAtATime /\ StillTrue /\ StockIsExact /\ OnePlainUsePerUser

\* A request that takes a step is the only one left in flight.
LEMMA Alone ==
  ASSUME Serial, TypeOK, OneAtATime, NEW r \in Requests,
         UseStep(r) \/ DeleteStep(r) \/ Abort(r)
  PROVE  \A q \in Requests : q # r => pc'[q] \notin InFlight /\ pc[q] \notin InFlight
<1>1. \A q \in Requests : q # r => pc'[q] = pc[q]
  <2>1. CASE ReadPromotion(r) \/ ReadUserPromotion(r)
    BY <2>1 DEF ReadPromotion, ReadUserPromotion, TypeOK
  <2>2. CASE SavePromotion(r) \/ SaveUserPromotion(r)
    BY <2>2 DEF SavePromotion, SaveUserPromotion, TypeOK
  <2>3. CASE DeletePromotion(r) \/ PullPromotion(r) \/ Abort(r)
    BY <2>3 DEF DeletePromotion, PullPromotion, Abort, TypeOK
  <2>4. QED
    BY <2>1, <2>2, <2>3 DEF UseStep, DeleteStep
<1>2. CASE pc[r] \in InFlight
  BY <1>1, <1>2 DEF OneAtATime
<1>3. CASE pc[r] \notin InFlight
  <2>1. ReadPromotion(r) \/ DeletePromotion(r)
    BY <1>3 DEF UseStep, DeleteStep, Abort, ReadUserPromotion, SavePromotion,
                SaveUserPromotion, PullPromotion, InFlight
  <2>2. Admit(r)
    BY <2>1 DEF ReadPromotion, DeletePromotion
  <2>3. QED
    BY <1>1, <2>2 DEF Admit
<1>4. QED
  BY <1>2, <1>3

LEMMA SerialInit == Init => SerialInv
<1> SUFFICES ASSUME Init PROVE SerialInv
  OBVIOUS
<1>1. RaceInv
  BY RaceInit
<1>2. \A r \in Requests : pc[r] = "idle"
  BY DEF Init
<1>3. OneAtATime /\ StillTrue
  BY <1>2 DEF OneAtATime, StillTrue, StillTrueFor, InFlight
<1>4. OnePlainUsePerUser /\ StockIsExact
  BY DEF Init, OnePlainUsePerUser, StockIsExact
<1>5. QED
  BY <1>1, <1>3, <1>4 DEF SerialInv

LEMMA SerialNext ==
  ASSUME Serial, SerialInv, [Next]_vars
  PROVE  SerialInv'
<1> DEFINE Rest == OneAtATime /\ StillTrue /\ StockIsExact /\ OnePlainUsePerUser
<1>0. /\ RaceInv /\ RaceInv' /\ TypeOK /\ TypeOK'
      /\ OneAtATime /\ StillTrue /\ StockIsExact /\ OnePlainUsePerUser
  BY RaceNext DEF SerialInv, RaceInv
<1>1. ASSUME NEW r \in Requests, UseStep(r) \/ DeleteStep(r) \/ Abort(r), StillTrueFor(r)'
      PROVE  OneAtATime' /\ StillTrue'
  <2>1. \A q \in Requests : q # r => pc'[q] \notin InFlight
    BY <1>0, <1>1, Alone
  <2>2. OneAtATime'
    BY <2>1 DEF OneAtATime
  <2>3. StillTrue'
    BY <1>1, <2>1 DEF StillTrue, StillTrueFor, InFlight
  <2>4. QED
    BY <2>2, <2>3
<1>2. ASSUME NEW p \in Promos, NEW n \in Amounts, CreatePromotion(p, n) PROVE Rest'
  <2>1. /\ p \notin created /\ debited[p] = {} /\ n \in Int
        /\ UNCHANGED <<debited, history, pc, user, promo, spelt, seen>>
        /\ created' = created \cup {p} /\ stored' = stored \cup {p}
        /\ amount' = [amount EXCEPT ![p] = n] /\ born' = [born EXCEPT ![p] = n]
    BY <1>0, <1>2, AmountsInt DEF CreatePromotion, db, locals, RaceInv, Debits
  <2>2. OneAtATime' /\ OnePlainUsePerUser'
    BY <1>0, <2>1 DEF OneAtATime, OnePlainUsePerUser
  <2>3. \A r \in Requests : pc[r] \in InFlight => promo[r] # p
    BY <1>0, <2>1 DEF RaceInv, Carried, Debits, StillTrue, StillTrueFor, InFlight, TypeOK
  <2>4. StillTrue'
    <3>1. \A q \in Promos : q # p => amount'[q] = amount[q]
      BY <1>0, <2>1 DEF TypeOK
    <3>2. QED
      BY <1>0, <2>1, <2>3, <3>1 DEF StillTrue, StillTrueFor, InFlight, TypeOK
  <2>5. StockIsExact'
    <3>1. SUFFICES ASSUME NEW q \in Promos, q \in created'
                   PROVE  amount'[q] = born'[q] - Cardinality(debited'[q])
      BY <1>0 DEF StockIsExact, TypeOK
    <3>2. CASE q = p
      <4>1. amount'[q] = n /\ born'[q] = n /\ debited'[q] = {}
        BY <1>0, <2>1, <3>2 DEF TypeOK
      <4>2. QED
        BY <2>1, <4>1, FS_EmptySet
    <3>3. CASE q # p
      BY <1>0, <2>1, <3>1, <3>3 DEF StockIsExact, TypeOK
    <3>4. QED
      BY <3>2, <3>3
  <2>6. QED
    BY <2>2, <2>4, <2>5
<1>3. ASSUME NEW r \in Requests, ReadPromotion(r) PROVE Rest'
  <2>1. UNCHANGED <<created, stored, amount, born, debited, history, user, promo, spelt>>
    BY <1>3 DEF ReadPromotion, db
  <2>2. StillTrueFor(r)'
    BY <1>0, <1>3, <2>1 DEF ReadPromotion, StillTrueFor, TypeOK
  <2>3. OneAtATime' /\ StillTrue'
    BY <1>1, <1>3, <2>2 DEF UseStep
  <2>4. QED
    BY <1>0, <2>1, <2>3 DEF StockIsExact, OnePlainUsePerUser
<1>4. ASSUME NEW r \in Requests, ReadUserPromotion(r) PROVE Rest'
  <2>1. /\ UNCHANGED <<created, stored, amount, born, debited, history, user, promo, spelt, seen>>
        /\ pc[r] = "read"
    BY <1>4 DEF ReadUserPromotion, db
  <2>2. \/ /\ spelt[r] = Plain => history[user[r]][promo[r]] = {}
           /\ pc'[r] = "checked"
        \/ pc'[r] = "rejected"
    BY <1>0, <1>4 DEF ReadUserPromotion, Listed, TypeOK
  <2>3. StillTrueFor(r)'
    BY <1>0, <2>1, <2>2 DEF StillTrue, StillTrueFor
  <2>4. OneAtATime' /\ StillTrue'
    BY <1>1, <1>4, <2>3 DEF UseStep
  <2>5. QED
    BY <1>0, <2>1, <2>4 DEF StockIsExact, OnePlainUsePerUser
<1>5. ASSUME NEW r \in Requests, SavePromotion(r) PROVE Rest'
  <2> DEFINE p == promo[r]
  <2>1. /\ p \in Promos /\ p \in stored /\ p \in created /\ seen[r] = amount[p]
        /\ pc[r] = "checked" /\ seen[r] >= 1
        /\ spelt[r] = Plain => history[user[r]][p] = {}
        /\ r \notin debited[p]
    BY <1>0, <1>5 DEF SavePromotion, RaceInv, Carried, Debits, StillTrue, StillTrueFor, TypeOK
  <2>2. /\ UNCHANGED <<created, stored, born, history, user, promo, spelt, seen>>
        /\ amount' = [amount EXCEPT ![p] = seen[r] - 1]
        /\ debited' = [debited EXCEPT ![p] = @ \cup {r}]
        /\ pc' = [pc EXCEPT ![r] = "saved"]
    BY <1>5, <2>1 DEF SavePromotion, locals
  <2>3. /\ amount'[p] = amount[p] - 1 /\ amount[p] \in Int /\ amount[p] >= 1
        /\ pc'[r] = "saved" /\ debited'[p] = debited[p] \cup {r}
        /\ \A q \in Promos : q # p => amount'[q] = amount[q] /\ debited'[q] = debited[q]
    BY <1>0, <2>1, <2>2 DEF TypeOK
  <2>4. StillTrueFor(r)'
    <3>1. amount'[p] >= 0
      BY <2>3
    <3>2. QED
      BY <2>1, <2>2, <2>3, <3>1 DEF StillTrueFor
  <2>5. OneAtATime' /\ StillTrue'
    BY <1>1, <1>5, <2>4 DEF UseStep
  <2>6. Cardinality(debited'[p]) = Cardinality(debited[p]) + 1
    BY <1>0, <2>1, <2>3, DebitedFinite, FS_AddElement
  <2>7. StockIsExact'
    <3>1. SUFFICES ASSUME NEW q \in Promos, q \in created
                   PROVE  amount'[q] = born[q] - Cardinality(debited'[q])
      BY <1>0, <2>2 DEF StockIsExact, TypeOK
    <3>2. /\ Cardinality(debited[q]) \in Nat /\ amount[q] \in Int /\ born[q] \in Int
          /\ amount[q] = born[q] - Cardinality(debited[q])
      BY <1>0, <3>1, DebitedFinite DEF StockIsExact, TypeOK
    <3>3. CASE q = p
      <4>1. /\ amount'[q] = amount[q] - 1
            /\ Cardinality(debited'[q]) = Cardinality(debited[q]) + 1
        BY <2>3, <2>6, <3>3
      <4>2. QED
        BY <3>2, <4>1
    <3>4. CASE q # p
      BY <2>3, <3>2, <3>4
    <3>5. QED
      BY <3>3, <3>4
  <2>8. OnePlainUsePerUser'
    BY <1>0, <2>2 DEF OnePlainUsePerUser
  <2>9. QED
    BY <2>5, <2>7, <2>8
<1>6. ASSUME NEW r \in Requests, SaveUserPromotion(r) PROVE Rest'
  <2>1. /\ UNCHANGED <<created, stored, amount, born, debited, user, promo, spelt>>
        /\ pc[r] = "saved"
        /\ \/ history' = history
           \/ history' = [history EXCEPT ![user[r]][promo[r]] = @ \cup {r}]
    BY <1>6 DEF SaveUserPromotion, locals
  <2>2. pc'[r] \in {"used", "failed"}
    BY <1>0, <1>6 DEF SaveUserPromotion, TypeOK
  <2>3. StillTrueFor(r)'
    BY <2>2 DEF StillTrueFor
  <2>4. OneAtATime' /\ StillTrue'
    BY <1>1, <1>6, <2>3 DEF UseStep
  <2>5. /\ spelt[r] = Plain => history[user[r]][promo[r]] = {}
        /\ user[r] \in Users /\ promo[r] \in Promos
    BY <1>0, <2>1 DEF StillTrue, StillTrueFor, TypeOK
  <2>6. OnePlainUsePerUser'
    <3>1. SUFFICES ASSUME NEW u \in Users, NEW p \in Promos,
                          NEW x \in history'[u][p], NEW y \in history'[u][p],
                          spelt[x] = Plain, spelt[y] = Plain
                   PROVE  x = y
      BY <2>1 DEF OnePlainUsePerUser
    <3>2. CASE history'[u][p] = history[u][p]
      BY <1>0, <3>1, <3>2 DEF OnePlainUsePerUser
    <3>3. CASE history'[u][p] # history[u][p]
      <4>1. /\ u = user[r] /\ p = promo[r]
            /\ history'[u][p] = history[u][p] \cup {r}
        <5>1. history' = [history EXCEPT ![user[r]][promo[r]] = @ \cup {r}]
          BY <2>1, <3>3
        <5>2. /\ history \in [Users -> [Promos -> SUBSET Requests]]
              /\ user[r] \in Users /\ promo[r] \in Promos
          BY <1>0, <2>5 DEF TypeOK
        <5>3. ~(u = user[r] /\ p = promo[r]) => history'[u][p] = history[u][p]
          BY <5>1, <5>2
        <5>4. history'[user[r]][promo[r]] = history[user[r]][promo[r]] \cup {r}
          BY <5>1, <5>2
        <5>5. QED
          BY <3>3, <5>3, <5>4
      <4>2. spelt[r] = Plain => history'[u][p] = {r}
        BY <2>5, <4>1
      <4>3. QED
        BY <1>0, <3>1, <4>1, <4>2 DEF OnePlainUsePerUser
    <3>4. QED
      BY <3>2, <3>3
  <2>7. StockIsExact'
    BY <1>0, <2>1 DEF StockIsExact
  <2>8. QED
    BY <2>4, <2>6, <2>7
<1>7. ASSUME NEW r \in Requests, DeletePromotion(r) PROVE Rest'
  <2>1. UNCHANGED <<created, amount, born, debited, history, user, promo, spelt>>
    BY <1>7 DEF DeletePromotion, locals
  <2>2. StillTrueFor(r)'
    BY <1>0, <1>7, <2>1 DEF DeletePromotion, StillTrueFor, TypeOK
  <2>3. OneAtATime' /\ StillTrue'
    BY <1>1, <1>7, <2>2 DEF DeleteStep
  <2>4. QED
    BY <1>0, <2>1, <2>3 DEF StockIsExact, OnePlainUsePerUser
<1>8. ASSUME NEW r \in Requests, PullPromotion(r) PROVE Rest'
  <2>1. UNCHANGED <<created, stored, amount, born, debited, user, promo, spelt>>
    BY <1>8 DEF PullPromotion, locals
  <2>2. pc'[r] = "deleted"
    BY <1>0, <1>8 DEF PullPromotion, TypeOK
  <2>3. OneAtATime' /\ StillTrue'
    BY <1>1, <1>8, <2>2 DEF DeleteStep, StillTrueFor
  <2>4. \A u \in Users, p \in Promos : history'[u][p] \subseteq history[u][p]
    BY <1>0, <1>8 DEF PullPromotion, TypeOK
  <2>5. QED
    BY <1>0, <2>1, <2>3, <2>4 DEF StockIsExact, OnePlainUsePerUser
<1>9. ASSUME NEW r \in Requests, Abort(r) PROVE Rest'
  <2>1. UNCHANGED <<created, stored, amount, born, debited, history, user, promo, spelt>>
    BY <1>9 DEF Abort, db, locals
  <2>2. pc'[r] = "failed"
    BY <1>0, <1>9 DEF Abort, TypeOK
  <2>3. OneAtATime' /\ StillTrue'
    BY <1>1, <1>9, <2>2 DEF StillTrueFor
  <2>4. QED
    BY <1>0, <2>1, <2>3 DEF StockIsExact, OnePlainUsePerUser
<1>10. CASE UNCHANGED vars
  <2>1. /\ UNCHANGED <<created, stored, amount, born, debited, history>>
        /\ UNCHANGED <<pc, user, promo, spelt, seen>>
    BY <1>10 DEF vars, db, locals
  <2>2. Rest'
    BY <1>0, <2>1 DEF OneAtATime, StillTrue, StillTrueFor, StockIsExact, OnePlainUsePerUser
  <2>3. QED
    BY <1>0, <2>2 DEF SerialInv
<1>11. CASE Next
  <2>1. Rest'
    BY <1>2, <1>3, <1>4, <1>5, <1>6, <1>7, <1>8, <1>9, <1>11 DEF Next, UseStep, DeleteStep
  <2>2. QED
    BY <1>0, <2>1 DEF SerialInv
<1>12. QED
  BY <1>10, <1>11

LEMMA SerialInvariant == Serial /\ Spec => []SerialInv
<1> SUFFICES ASSUME Serial PROVE Spec => []SerialInv
  OBVIOUS
<1>1. Init => SerialInv
  BY SerialInit
<1>2. SerialInv /\ [Next]_vars => SerialInv'
  BY SerialNext
<1>3. QED
  BY <1>1, <1>2, PTL DEF Spec

\* One request at a time, a user has used a promotion by its plain id once
\* at most, whatever he did with it under other spellings.
THEOREM SerialUseIsOnce == Serial /\ Spec => []OnePlainUsePerUser
<1>1. SerialInv => OnePlainUsePerUser
  BY DEF SerialInv
<1>2. QED
  BY SerialInvariant, <1>1, PTL

\* One request at a time, the amount left is the amount created less the debits.
THEOREM SerialStockIsExact == Serial /\ Spec => []StockIsExact
<1>1. SerialInv => StockIsExact
  BY DEF SerialInv
<1>2. QED
  BY SerialInvariant, <1>1, PTL

\* One request at a time, no more uses are recorded than a promotion had.
THEOREM SerialNoOverRedemption == Serial /\ Spec => []NoOverRedemption
<1>1. ASSUME SerialInv PROVE NoOverRedemption
  <2>0. TypeOK /\ AmountBounds /\ EntryIsDebited /\ StockIsExact
    BY <1>1 DEF SerialInv, RaceInv
  <2>1. SUFFICES ASSUME NEW p \in created
                 PROVE  Cardinality(Entries(p)) <= born[p] - Floor(born[p])
    BY DEF NoOverRedemption
  <2>2. p \in Promos /\ amount[p] \in Int /\ born[p] \in Int /\ Floor(born[p]) \in Int
    BY <2>0, <2>1 DEF TypeOK, Floor
  <2>3. Entries(p) \subseteq debited[p]
    BY <2>0, <2>2 DEF Entries, EntryIsDebited
  <2>4. IsFiniteSet(debited[p]) /\ Cardinality(debited[p]) \in Nat
    BY <2>0, <2>2, DebitedFinite
  <2>5. /\ Cardinality(Entries(p)) <= Cardinality(debited[p])
        /\ Cardinality(Entries(p)) \in Nat
    BY <2>3, <2>4, FS_Subset, FS_CardinalityType
  <2>6. Cardinality(debited[p]) = born[p] - amount[p] /\ Floor(born[p]) <= amount[p]
    BY <2>0, <2>1, <2>2, <2>4 DEF StockIsExact, AmountBounds
  <2>7. QED
    BY <2>2, <2>4, <2>5, <2>6
<1>2. QED
  BY SerialInvariant, <1>1, PTL

\* One request at a time, uses by the plain id are recorded once, all uses stay
\* within the stock, and each was debited.
THEOREM SerialRedemptionsAreExact == Serial /\ Spec => []RedemptionsAreExact
<1>1. OnePlainUsePerUser /\ NoOverRedemption /\ StockIsExact => RedemptionsAreExact
  BY DEF RedemptionsAreExact
<1>2. QED
  BY SerialUseIsOnce, SerialNoOverRedemption, SerialStockIsExact, <1>1, PTL

-----------------------------------------------------------------------------
(* The refinement. *)

\* What a step other than CreatePromotion does to the ledger's stock: it may
\* only move the debit of the one request that takes it.
LEMMA OwingAlone ==
  ASSUME Serial, SerialInv, [Next]_vars, NEW r \in Requests,
         UseStep(r) \/ DeleteStep(r) \/ Abort(r)
  PROVE  /\ \A p \in Promos : Owing(p) <=> pc[r] = "saved" /\ promo[r] = p
         /\ \A p \in Promos : Owing(p)' <=> pc'[r] = "saved" /\ promo'[r] = p
<1>1. \A q \in Requests : q # r => pc'[q] \notin InFlight /\ pc[q] \notin InFlight
  BY Alone DEF SerialInv, RaceInv
<1>2. \A p \in Promos : Owing(p) <=> pc[r] = "saved" /\ promo[r] = p
  BY <1>1 DEF Owing, InFlight
<1>3. \A p \in Promos : Owing(p)' <=> pc'[r] = "saved" /\ promo'[r] = p
  BY <1>1 DEF Owing, InFlight
<1>4. QED
  BY <1>2, <1>3

LEMMA LedgerInit == Init => Ledger!Init
<1> SUFFICES ASSUME Init PROVE Ledger!Init
  OBVIOUS
<1>1. LedgerHolders = [p \in Promos |-> {}]
  BY DEF Init, LedgerHolders, Entries
<1>2. \A p \in Promos : ~Owing(p)
  BY DEF Init, Owing
<1>3. LedgerStock = [p \in Promos |-> 0]
  BY <1>2 DEF Init, LedgerStock
<1>4. QED
  BY <1>1, <1>3 DEF Init, Ledger!Init

LEMMA LedgerNext ==
  ASSUME Serial, SerialInv, [Next]_vars
  PROVE  [Ledger!Next]_(Ledger!vars)
<1>0. /\ RaceInv /\ TypeOK /\ TypeOK' /\ StillTrue
      /\ Debits /\ EntryIsDebited /\ AmountBounds /\ SerialInv'
  BY RaceNext, SerialNext DEF SerialInv, RaceInv
<1> DEFINE Same == UNCHANGED <<stored, LedgerStock, LedgerHolders>>
<1>1. Same => UNCHANGED Ledger!vars
  BY DEF Ledger!vars
<1>2. UNCHANGED <<history, user, spelt>> => LedgerHolders' = LedgerHolders
  BY DEF LedgerHolders, Entries
<1>3. ASSUME NEW p \in Promos, NEW n \in Amounts, CreatePromotion(p, n)
      PROVE  Ledger!Next
  <2>1. /\ p \notin created /\ UNCHANGED <<history, pc, user, promo, spelt>>
        /\ stored' = stored \cup {p} /\ amount' = [amount EXCEPT ![p] = n]
    BY <1>3 DEF CreatePromotion, locals
  <2>2. p \notin stored /\ ~Owing(p)
    BY <1>0, <2>1 DEF StillTrue, StillTrueFor, Owing, TypeOK
  <2>3. LedgerHolders[p] = {}
    <3>1. Entries(p) = {}
      BY <1>0, <2>1 DEF Entries, EntryIsDebited, Debits
    <3>2. QED
      BY <3>1 DEF LedgerHolders
  <2>4. \A q \in Promos : Owing(q)' <=> Owing(q)
    BY <2>1 DEF Owing
  <2>5. LedgerStock' = [LedgerStock EXCEPT ![p] = n]
    <3>1. \A q \in Promos : amount'[q] + (IF Owing(q)' THEN 1 ELSE 0)
                             = IF q = p THEN n ELSE LedgerStock[q]
      BY <1>0, <2>1, <2>2, <2>4, AmountsInt DEF LedgerStock, TypeOK
    <3>2. QED
      BY <3>1 DEF LedgerStock
  <2>6. Ledger!Offer(p, n)
    BY <1>2, <2>1, <2>2, <2>3, <2>5 DEF Ledger!Offer
  <2>7. QED
    BY <2>6 DEF Ledger!Next
<1>4. ASSUME NEW r \in Requests, ReadPromotion(r) \/ ReadUserPromotion(r)
      PROVE  Same
  <2>1. /\ UNCHANGED <<stored, amount, history, user, promo, spelt>>
        /\ pc[r] # "saved" /\ pc'[r] # "saved"
    BY <1>0, <1>4 DEF ReadPromotion, ReadUserPromotion, Admit, db, TypeOK
  <2>2. \A p \in Promos : Owing(p)' <=> Owing(p)
    BY <1>4, <2>1, OwingAlone DEF UseStep
  <2>3. QED
    BY <1>2, <2>1, <2>2 DEF LedgerStock
<1>5. ASSUME NEW r \in Requests, SavePromotion(r) PROVE Same
  <2>1. /\ promo[r] \in stored /\ promo[r] \in Promos /\ seen[r] = amount[promo[r]]
        /\ pc[r] = "checked"
    BY <1>0, <1>5 DEF SavePromotion, StillTrue, StillTrueFor, TypeOK
  <2>2. /\ UNCHANGED <<stored, history, user, promo, spelt>>
        /\ amount' = [amount EXCEPT ![promo[r]] = seen[r] - 1]
        /\ pc' = [pc EXCEPT ![r] = "saved"]
    BY <1>5, <2>1 DEF SavePromotion, locals
  <2>3. \A p \in Promos : ~Owing(p) /\ (Owing(p)' <=> p = promo[r])
    BY <1>0, <1>5, <2>1, <2>2, OwingAlone DEF UseStep, TypeOK
  <2>4. \A p \in Promos : amount'[p] + (IF Owing(p)' THEN 1 ELSE 0)
                          = amount[p] + (IF Owing(p) THEN 1 ELSE 0)
    BY <1>0, <2>1, <2>2, <2>3 DEF TypeOK
  <2>5. LedgerStock' = LedgerStock
    BY <2>4 DEF LedgerStock
  <2>6. QED
    BY <1>2, <2>2, <2>5
<1>6. ASSUME NEW r \in Requests, pc[r] = "saved", pc'[r] \in {"used", "failed"},
             SaveUserPromotion(r) \/ Abort(r), history' = history
      PROVE  Ledger!Next
  <2>1. UNCHANGED <<stored, amount, user, promo, spelt>>
    BY <1>6 DEF SaveUserPromotion, Abort, db, locals
  <2>2. promo[r] \in Promos /\ promo[r] \in stored /\ amount[promo[r]] \in Nat
    BY <1>0, <1>6 DEF StillTrue, StillTrueFor, TypeOK
  <2>3. \A p \in Promos : (Owing(p) <=> p = promo[r]) /\ ~Owing(p)'
    BY <1>6, OwingAlone DEF UseStep
  <2>4. LedgerStock[promo[r]] > 0
        /\ LedgerStock' = [LedgerStock EXCEPT ![promo[r]] = @ - 1]
    <3>1. LedgerStock[promo[r]] = amount[promo[r]] + 1
      BY <2>2, <2>3 DEF LedgerStock
    <3>2. \A q \in Promos : amount'[q] + (IF Owing(q)' THEN 1 ELSE 0)
                             = IF q = promo[r] THEN LedgerStock[q] - 1 ELSE LedgerStock[q]
      BY <1>0, <2>1, <2>2, <2>3 DEF LedgerStock, TypeOK
    <3>3. LedgerStock' = [LedgerStock EXCEPT ![promo[r]] = @ - 1]
      BY <2>2, <3>2 DEF LedgerStock
    <3>4. QED
      BY <2>2, <3>1, <3>3
  <2>5. Ledger!Waste(promo[r])
    BY <1>2, <1>6, <2>1, <2>2, <2>4 DEF Ledger!Waste
  <2>6. QED
    BY <2>2, <2>5 DEF Ledger!Next
<1>7. ASSUME NEW r \in Requests, SaveUserPromotion(r),
             history' = [history EXCEPT ![user[r]][promo[r]] = @ \cup {r}]
      PROVE  Ledger!Next
  <2>1. UNCHANGED <<stored, amount, user, promo, spelt>> /\ pc[r] = "saved" /\ pc'[r] # "saved"
    BY <1>0, <1>7 DEF SaveUserPromotion, locals, TypeOK
  <2>2. /\ promo[r] \in Promos /\ promo[r] \in stored /\ amount[promo[r]] \in Nat
        /\ user[r] \in Users /\ spelt[r] \in Spellings
        /\ spelt[r] = Plain => history[user[r]][promo[r]] = {}
    BY <1>0, <2>1 DEF StillTrue, StillTrueFor, TypeOK
  <2>3. \A p \in Promos : (Owing(p) <=> p = promo[r]) /\ ~Owing(p)'
    BY <1>7, <2>1, OwingAlone DEF UseStep
  <2>4. LedgerStock[promo[r]] > 0
        /\ LedgerStock' = [LedgerStock EXCEPT ![promo[r]] = @ - 1]
    <3>1. LedgerStock[promo[r]] = amount[promo[r]] + 1
      BY <2>2, <2>3 DEF LedgerStock
    <3>2. \A q \in Promos : amount'[q] + (IF Owing(q)' THEN 1 ELSE 0)
                             = IF q = promo[r] THEN LedgerStock[q] - 1 ELSE LedgerStock[q]
      BY <1>0, <2>1, <2>2, <2>3 DEF LedgerStock, TypeOK
    <3>3. LedgerStock' = [LedgerStock EXCEPT ![promo[r]] = @ - 1]
      BY <2>2, <3>2 DEF LedgerStock
    <3>4. QED
      BY <2>2, <3>1, <3>3
  <2>5. spelt[r] = Plain =>
          \A d \in Spellings : <<user[r], d>> \notin LedgerHolders[promo[r]]
    <3>1. SUFFICES ASSUME spelt[r] = Plain, NEW d \in Spellings,
                          <<user[r], d>> \in LedgerHolders[promo[r]]
                   PROVE  FALSE
      OBVIOUS
    <3>2. PICK q \in Entries(promo[r]) : user[q] = user[r]
      BY <2>2, <3>1 DEF LedgerHolders
    <3>3. PICK u \in Users : q \in history[u][promo[r]]
      BY <3>2 DEF Entries
    <3>4. u = user[r]
      BY <1>0, <2>2, <3>2, <3>3 DEF EntryIsDebited
    <3>5. QED
      BY <2>2, <3>1, <3>3, <3>4
  <2>6. LedgerHolders' = [LedgerHolders EXCEPT ![promo[r]] = @ \cup {<<user[r], spelt[r]>>}]
    <3>1. \A u \in Users, p \in Promos :
            history'[u][p] = IF u = user[r] /\ p = promo[r]
                             THEN history[u][p] \cup {r} ELSE history[u][p]
      BY <1>0, <1>7, <2>2 DEF TypeOK
    <3>2. \A p \in Promos :
            Entries(p)' = IF p = promo[r] THEN Entries(p) \cup {r} ELSE Entries(p)
      <4>1. SUFFICES ASSUME NEW p \in Promos
                     PROVE  Entries(p)' = IF p = promo[r] THEN Entries(p) \cup {r}
                                          ELSE Entries(p)
        OBVIOUS
      <4>2. /\ \A x : x \in Entries(p)' <=> \E u \in Users : x \in history'[u][p]
            /\ \A x : x \in Entries(p) <=> \E u \in Users : x \in history[u][p]
        BY Zenon DEF Entries
      <4>3. CASE p = promo[r]
        <5>1. \A x : x \in Entries(p)' <=> x \in Entries(p) \cup {r}
          BY <2>2, <3>1, <4>2, <4>3
        <5>2. QED
          BY <4>3, <5>1
      <4>4. CASE p # promo[r]
        <5>1. \A x : x \in Entries(p)' <=> x \in Entries(p)
          BY <3>1, <4>2, <4>4
        <5>2. QED
          BY <4>4, <5>1
      <4>5. QED
        BY <4>3, <4>4
    <3>3. \A p \in Promos : {<<user[x], spelt[x]>> : x \in Entries(p)'}
            = IF p = promo[r] THEN LedgerHolders[p] \cup {<<user[r], spelt[r]>>}
              ELSE LedgerHolders[p]
      BY <2>2, <3>2 DEF LedgerHolders
    <3>4. LedgerHolders' = [p \in Promos |-> {<<user[x], spelt[x]>> : x \in Entries(p)'}]
      BY <2>1 DEF LedgerHolders
    <3>5. QED
      BY <2>2, <3>3, <3>4 DEF LedgerHolders
  <2>7. Ledger!Use(user[r], promo[r], spelt[r])
    BY <2>1, <2>2, <2>4, <2>5, <2>6 DEF Ledger!Use
  <2>8. QED
    BY <2>2, <2>7 DEF Ledger!Next
<1>8. ASSUME NEW r \in Requests, Abort(r), pc[r] # "saved" PROVE Same
  <2>1. UNCHANGED <<stored, amount, history, user, promo, spelt>> /\ pc'[r] # "saved"
    BY <1>0, <1>8 DEF Abort, db, locals, TypeOK
  <2>2. \A p \in Promos : Owing(p)' <=> Owing(p)
    BY <1>8, <2>1, OwingAlone
  <2>3. QED
    BY <1>2, <2>1, <2>2 DEF LedgerStock
<1>9. ASSUME NEW r \in Requests, DeletePromotion(r) PROVE Ledger!Next \/ Same
  <2>1. /\ UNCHANGED <<amount, history, user, promo, spelt>> /\ stored' = stored \ {promo[r]}
        /\ pc[r] # "saved" /\ pc'[r] # "saved" /\ promo[r] \in Promos
    BY <1>0, <1>9 DEF DeletePromotion, Admit, locals, TypeOK
  <2>2. \A p \in Promos : Owing(p)' <=> Owing(p)
    BY <1>9, <2>1, OwingAlone DEF DeleteStep
  <2>3. LedgerStock' = LedgerStock
    BY <2>1, <2>2 DEF LedgerStock
  <2>4. CASE promo[r] \in stored
    <3>1. Ledger!Withdraw(promo[r])
      BY <1>2, <2>1, <2>3, <2>4 DEF Ledger!Withdraw
    <3>2. QED
      BY <2>1, <3>1 DEF Ledger!Next
  <2>5. CASE promo[r] \notin stored
    BY <1>2, <2>1, <2>3, <2>5
  <2>6. QED
    BY <2>4, <2>5
<1>10. ASSUME NEW r \in Requests, PullPromotion(r) PROVE Ledger!Next \/ Same
  <2>1. /\ UNCHANGED <<stored, amount, user, promo, spelt>>
        /\ pc[r] = "pulling" /\ pc'[r] # "saved"
        /\ promo[r] \in Promos /\ promo[r] \notin stored
    BY <1>0, <1>10 DEF PullPromotion, locals, StillTrue, StillTrueFor, TypeOK
  <2>2. \A p \in Promos : Owing(p)' <=> Owing(p)
    BY <1>10, <2>1, OwingAlone DEF DeleteStep
  <2>3. LedgerStock' = LedgerStock
    BY <2>1, <2>2 DEF LedgerStock
  <2>4. CASE spelt[r] = Plain
    <3>1. \A u \in Users, p \in Promos :
            history'[u][p] = IF p = promo[r] THEN {} ELSE history[u][p]
      BY <1>0, <1>10, <2>1, <2>4 DEF PullPromotion, TypeOK
    <3>2. \A p \in Promos : Entries(p)' = IF p = promo[r] THEN {} ELSE Entries(p)
      BY <3>1 DEF Entries
    <3>3. \A p \in Promos : {<<user[x], spelt[x]>> : x \in Entries(p)'}
            = IF p = promo[r] THEN {} ELSE LedgerHolders[p]
      BY <3>2 DEF LedgerHolders
    <3>4. LedgerHolders' = [p \in Promos |-> {<<user[x], spelt[x]>> : x \in Entries(p)'}]
      BY <2>1 DEF LedgerHolders
    <3>5. LedgerHolders' = [LedgerHolders EXCEPT ![promo[r]] = {}]
      BY <2>1, <3>3, <3>4 DEF LedgerHolders
    <3>6. Ledger!Forget(promo[r])
      BY <2>1, <2>3, <3>5 DEF Ledger!Forget
    <3>7. QED
      BY <2>1, <3>6 DEF Ledger!Next
  <2>5. CASE spelt[r] # Plain
    <3>1. history' = history
      BY <1>10, <2>5 DEF PullPromotion
    <3>2. QED
      BY <1>2, <2>1, <2>3, <3>1
  <2>6. QED
    BY <2>4, <2>5
<1>11. CASE UNCHANGED vars
  <2>1. UNCHANGED <<stored, amount, history, pc, user, promo, spelt>>
    BY <1>11 DEF vars, db, locals
  <2>2. \A p \in Promos : Owing(p)' <=> Owing(p)
    BY <2>1 DEF Owing
  <2>3. Same
    BY <1>2, <2>1, <2>2 DEF LedgerStock
  <2>4. QED
    BY <1>1, <2>3
<1>12. ASSUME NEW r \in Requests, SaveUserPromotion(r) PROVE Ledger!Next
  <2>1. pc[r] = "saved" /\ pc'[r] \in {"used", "failed"}
    BY <1>0, <1>12 DEF SaveUserPromotion, TypeOK
  <2>2. \/ history' = history
        \/ history' = [history EXCEPT ![user[r]][promo[r]] = @ \cup {r}]
    BY <1>12 DEF SaveUserPromotion
  <2>3. QED
    BY <1>6, <1>7, <1>12, <2>1, <2>2
<1>13. ASSUME NEW r \in Requests, Abort(r) PROVE Ledger!Next \/ Same
  <2>1. history' = history /\ pc'[r] = "failed"
    BY <1>0, <1>13 DEF Abort, db, TypeOK
  <2>2. QED
    BY <1>6, <1>8, <1>13, <2>1
<1>14. CASE Next
  BY <1>1, <1>3, <1>4, <1>5, <1>9, <1>10, <1>12, <1>13, <1>14 DEF Next, UseStep, DeleteStep
<1>15. QED
  BY <1>11, <1>14

\* One request at a time, the two-document, four-call protocol is the atomic
\* ledger: every step is one of its operations or invisible to it.
THEOREM SerialImplementsLedger == Serial /\ Spec => LedgerSpec
<1> SUFFICES ASSUME Serial PROVE Spec => LedgerSpec
  OBVIOUS
<1>1. Init => Ledger!Init
  BY LedgerInit
<1>2. SerialInv /\ [Next]_vars => [Ledger!Next]_(Ledger!vars)
  BY LedgerNext
<1>3. Spec => []SerialInv
  BY SerialInvariant
<1>4. QED
  BY <1>1, <1>2, <1>3, PTL DEF Spec, LedgerSpec, Ledger!Spec

=============================================================================
