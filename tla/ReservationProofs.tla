------------------------- MODULE ReservationProofs -------------------------
(***************************************************************************)
(* Theorems about Reservation, for every set of rooms, services, users,    *)
(* promotions and asks and every finite set of requests.  The promotion's  *)
(* side is inherited: a booking redeems as Promotion does.  The second     *)
(* part is for requests that come one at a time (Serial).                  *)
(***************************************************************************)
EXTENDS Reservation, PromotionProofs

\* A step of createBooking, a fault or a removal is a step of Promotion or
\* leaves its variables alone.
LEMMA StepRedeems ==
  ASSUME TypeOK, [ReservationNext]_resVars
  PROVE  [Next]_vars
<1> USE DEF promoVars, vars
<1>1. ASSUME NEW r \in Requests, BookingStep(r) PROVE UNCHANGED vars
  BY <1>1 DEF BookingStep, FindRoom, CheckOverlap, ReadDiscount, PromotionRefused,
              FindServices, InsertBooking, LoadForInvoice, SaveInvoice, LinkInvoice, LinkInvoiceTo,
              MailInvoice
<1>2. ASSUME NEW r \in Requests, PromotionStep(r) \/ WithdrawPromotion(r) PROVE Next
  BY <1>2 DEF PromotionStep, WithdrawPromotion, Next
<1>3. ASSUME NEW r \in Requests, Fault(r) PROVE [Next]_vars
  <2>1. /\ pc' = [pc EXCEPT ![r] = IF @ \in InFlight THEN "failed" ELSE @]
        /\ UNCHANGED <<db, locals>>
    BY <1>3 DEF Fault
  <2>2. CASE pc[r] \in InFlight
    <3>1. Abort(r)
      BY <2>1, <2>2 DEF Abort
    <3>2. QED
      BY <3>1 DEF Next
  <2>3. CASE pc[r] \notin InFlight
    BY <2>1, <2>3 DEF TypeOK
  <2>4. QED
    BY <2>2, <2>3
<1>4. ASSUME NEW p \in Promos, NEW n \in Amounts, AddPromotion(p, n) PROVE Next
  BY <1>4 DEF AddPromotion, Next
<1>5. ASSUME NEW m \in Rooms, RemoveRoom(m) PROVE UNCHANGED vars
  BY <1>5 DEF RemoveRoom
<1>6. ASSUME NEW s \in Services, RemoveService(s) PROVE UNCHANGED vars
  BY <1>6 DEF RemoveService
<1>7. CASE UNCHANGED resVars
  BY <1>7 DEF resVars
<1>8. QED
  BY <1>1, <1>2, <1>3, <1>4, <1>5, <1>6, <1>7 DEF ReservationNext

\* Whatever bookings, faults and removals do, promotions and the lists of users
\* change only as Promotion says.
THEOREM ReservationRedeemsAsPromotion == ReservationSpec => RedeemsAsPromotion
<1>1. ReservationInit => Init
  BY DEF ReservationInit
<1>2. ReservationInit => TypeOK
  BY <1>1, TypeInit
<1>3. TypeOK /\ [ReservationNext]_resVars => TypeOK' /\ [Next]_vars
  BY StepRedeems, TypeNext
<1>4. QED
  BY <1>1, <1>2, <1>3, PTL DEF ReservationSpec, Spec, RedeemsAsPromotion

\* Hence what is proved of promotions under any interleaving holds here.
LEMMA RaceInvariantHere == ReservationSpec => []RaceInv
BY ReservationRedeemsAsPromotion, RaceInvariant, PTL DEF RedeemsAsPromotion

-----------------------------------------------------------------------------
(* Any interleaving.  Typed is the type invariant of the booking's own     *)
(* variables; Staged says at which positions a booking is stored and what  *)
(* is invoiced there; Checked that a request which is past its overlap     *)
(* query saw none that it finds; Spared that one which saw one, or has not *)
(* looked yet, has not begun to redeem its promotion.                      *)

Before == {"idle", "overlap", "promotion", "services", "insert", "refused"}
After == {"reload", "saving", "linking", "mailing", "booked"}
Free == {"promotion", "services", "insert"}

Staged ==
  \A r \in Requests :
    /\ bpc[r] \in Before => r \notin bookings
    /\ bpc[r] \in After => r \in bookings
    /\ bpc[r] \in {"reload", "saving", "linking", "mailing"} => ask[r].transfer
    /\ bpc[r] \in {"saving", "linking"} => Billable(r)
    /\ bpc[r] \in {"reload", "saving"} => invoice[r] = "none"
    /\ bpc[r] = "linking" => invoice[r] = "pending"
    /\ bpc[r] = "mailing" => invoice[r] = "linked"

Checked ==
  \A r \in Requests : bpc[r] \in Free \/ r \in bookings =>
    \A q \in present[r] : ~Found(r, q)

Spared ==
  \A r \in Requests :
    /\ bpc[r] \in {"idle", "overlap"} => present[r] = {}
    /\ bpc[r] = "overlap" => pc[r] = "idle"
    /\ (\E q \in present[r] : Found(r, q)) => bpc[r] = "refused" /\ pc[r] = "idle"

BookingInv ==
  ReservationTypeOK /\ Staged /\ Checked /\ Spared /\ InvoicesMatchBookings

\* ReservationTypeOK is inductive, given Promotion's part.
LEMMA ReservationTypeNext ==
  ASSUME ReservationTypeOK, [ReservationNext]_resVars
  PROVE  ReservationTypeOK'
<1> USE DEF ReservationTypeOK, BInFlight, BAnswered, Goto, catalog, stays
<1>0. TypeOK'
  BY StepRedeems, TypeNext
<1>1. ASSUME NEW r \in Requests,
             FindRoom(r) \/ CheckOverlap(r) \/ ReadDiscount(r) \/ PromotionRefused(r)
             \/ FindServices(r) \/ LoadForInvoice(r)
      PROVE ReservationTypeOK'
  BY <1>0, <1>1 DEF FindRoom, CheckOverlap, ReadDiscount, PromotionRefused,
                    FindServices, LoadForInvoice, AfterPromotion
<1>2. ASSUME NEW r \in Requests,
             InsertBooking(r) \/ SaveInvoice(r) \/ LinkInvoice(r) \/ MailInvoice(r)
      PROVE ReservationTypeOK'
  BY <1>0, <1>2 DEF InsertBooking, SaveInvoice, LinkInvoice, LinkInvoiceTo, MailInvoice
<1>3. ASSUME NEW r \in Requests, PromotionStep(r) \/ WithdrawPromotion(r)
      PROVE ReservationTypeOK'
  BY <1>0, <1>3 DEF PromotionStep, WithdrawPromotion
<1>4. ASSUME NEW r \in Requests, Fault(r) PROVE ReservationTypeOK'
  BY <1>0, <1>4 DEF Fault
<1>5. ASSUME NEW p \in Promos, NEW n \in Amounts, AddPromotion(p, n)
      PROVE ReservationTypeOK'
  BY <1>0, <1>5 DEF AddPromotion
<1>6. ASSUME NEW m \in Rooms, RemoveRoom(m) PROVE ReservationTypeOK'
  BY <1>0, <1>6 DEF RemoveRoom
<1>7. ASSUME NEW s \in Services, RemoveService(s) PROVE ReservationTypeOK'
  BY <1>0, <1>7 DEF RemoveService
<1>8. CASE UNCHANGED resVars
  BY <1>0, <1>8 DEF resVars
<1>9. QED
  BY <1>1, <1>2, <1>3, <1>4, <1>5, <1>6, <1>7, <1>8 DEF ReservationNext, BookingStep

LEMMA BookingInit == ReservationInit => BookingInv
<1> SUFFICES ASSUME ReservationInit PROVE BookingInv
  OBVIOUS
<1>1. ReservationTypeOK
  BY TypeInit DEF ReservationInit, ReservationTypeOK
<1>2. Staged /\ Checked /\ Spared /\ InvoicesMatchBookings
  BY DEF ReservationInit, Init, Staged, Checked, Spared, InvoicesMatchBookings,
         Before, After, Free
<1>3. QED
  BY <1>1, <1>2 DEF BookingInv

\* A request's position and what hangs on it change in its own steps only.
LEMMA BookingNext ==
  ASSUME BookingInv, [ReservationNext]_resVars
  PROVE  BookingInv'
<1> DEFINE Rest == Staged /\ Checked /\ Spared /\ InvoicesMatchBookings
<1> USE DEF BookingInv, Goto, catalog, stays, locals, Before, After, Free
<1>0. ReservationTypeOK /\ ReservationTypeOK' /\ TypeOK
  BY ReservationTypeNext DEF ReservationTypeOK
<1>1. ASSUME NEW r \in Requests, FindRoom(r) PROVE Rest'
  BY <1>0, <1>1 DEF FindRoom, ReservationTypeOK, Staged, Checked, Spared,
                    InvoicesMatchBookings, Found, Overlap, Billable, promoVars, vars
<1>2. ASSUME NEW r \in Requests, CheckOverlap(r) PROVE Rest'
  <2>1. /\ bpc[r] = "overlap" /\ pc[r] = "idle" /\ r \notin bookings
        /\ UNCHANGED <<stays, ask, pc, promo>>
        /\ present' = [present EXCEPT ![r] = bookings]
    BY <1>2 DEF CheckOverlap, Staged, Spared, promoVars, vars
  <2>2. \A q \in Requests : q # r => bpc'[q] = bpc[q] /\ present'[q] = present[q]
    BY <1>0, <1>2 DEF CheckOverlap, ReservationTypeOK
  <2>3. present'[r] = bookings
    BY <1>0, <2>1 DEF ReservationTypeOK
  <2>4. \/ bpc'[r] = "refused"
        \/ bpc'[r] \in Free /\ \A q \in bookings : ~Found(r, q)
    BY <1>0, <1>2 DEF CheckOverlap, AfterPromotion, ReservationTypeOK
  <2>5. \A x, y : Found(x, y)' <=> Found(x, y)
    BY <2>1 DEF Found, Overlap
  <2>6. Checked' /\ Spared'
    BY <1>0, <2>1, <2>2, <2>3, <2>4, <2>5 DEF Checked, Spared
  <2>7. Staged' /\ InvoicesMatchBookings'
    BY <1>0, <2>1, <2>2, <2>4 DEF Staged, InvoicesMatchBookings, Billable
  <2>8. QED
    BY <2>6, <2>7
<1>3. ASSUME NEW r \in Requests, ReadDiscount(r) \/ PromotionRefused(r) \/ FindServices(r)
      PROVE Rest'
  BY <1>0, <1>3 DEF ReadDiscount, PromotionRefused, FindServices, AfterPromotion,
                    ReservationTypeOK, Staged, Checked, Spared,
                    InvoicesMatchBookings, Found, Overlap, Billable, promoVars, vars
<1>4. ASSUME NEW r \in Requests, InsertBooking(r) PROVE Rest'
  <2>1. /\ bpc[r] = "insert" /\ r \notin bookings /\ bookings' = bookings \cup {r}
        /\ discounted' \subseteq discounted \cup {r} /\ discounted \subseteq discounted'
        /\ UNCHANGED <<invoice, mailed, ask, present, promo, pc>>
    BY <1>4 DEF InsertBooking, Staged, promoVars, vars
  <2>2. /\ \A q \in Requests : q # r => bpc'[q] = bpc[q]
        /\ IF ask[r].transfer THEN bpc'[r] = "reload" ELSE bpc'[r] = "booked"
    BY <1>0, <1>4 DEF InsertBooking, ReservationTypeOK
  <2>3. invoice[r] = "none" /\ r \notin mailed
    BY <1>0, <2>1 DEF InvoicesMatchBookings, ReservationTypeOK
  <2>4. \A q \in Requests : q # r => (Billable(q)' <=> Billable(q))
    BY <2>1 DEF Billable
  <2>5. Staged' /\ InvoicesMatchBookings'
    BY <1>0, <2>1, <2>2, <2>3, <2>4 DEF Staged, InvoicesMatchBookings
  <2>6. \A x, y : Found(x, y)' <=> Found(x, y)
    BY <2>1 DEF Found, Overlap
  <2>7. Checked' /\ Spared'
    BY <1>0, <2>1, <2>2, <2>6 DEF Checked, Spared
  <2>8. QED
    BY <2>5, <2>7
<1>5. ASSUME NEW r \in Requests, LoadForInvoice(r) \/ MailInvoice(r) PROVE Rest'
  <2>1. /\ UNCHANGED <<bookings, discounted, invoice, ask, present, promo, pc>>
        /\ mailed' = mailed \/ (bpc[r] = "mailing" /\ mailed' = mailed \cup {r})
    BY <1>5 DEF LoadForInvoice, MailInvoice, promoVars, vars
  <2>2. \A q \in Requests : q # r => bpc'[q] = bpc[q]
    BY <1>0, <1>5 DEF LoadForInvoice, MailInvoice, ReservationTypeOK
  <2>3. \/ bpc[r] = "reload" /\ bpc'[r] = "saving" /\ Billable(r)
        \/ bpc[r] = "reload" /\ bpc'[r] = "failed"
        \/ bpc[r] = "mailing" /\ bpc'[r] = "booked" /\ mailed' = mailed \cup {r}
    BY <1>0, <1>5 DEF LoadForInvoice, MailInvoice, ReservationTypeOK
  <2>4. \A q : Billable(q)' <=> Billable(q)
    BY <2>1 DEF Billable
  <2>5. Staged' /\ InvoicesMatchBookings'
    BY <1>0, <2>1, <2>2, <2>3, <2>4 DEF Staged, InvoicesMatchBookings
  <2>6. \A x, y : Found(x, y)' <=> Found(x, y)
    BY <2>1 DEF Found, Overlap
  <2>7. Checked' /\ Spared'
    BY <1>0, <2>1, <2>2, <2>3, <2>6 DEF Checked, Spared
  <2>8. QED
    BY <2>5, <2>7
<1>6. ASSUME NEW r \in Requests, SaveInvoice(r) \/ LinkInvoice(r) PROVE Rest'
  BY <1>0, <1>6 DEF SaveInvoice, LinkInvoice, LinkInvoiceTo, ReservationTypeOK, Staged,
                    Checked, Spared, InvoicesMatchBookings, Found, Overlap, Billable,
                    promoVars, vars
<1>7. ASSUME NEW r \in Requests, PromotionStep(r) \/ WithdrawPromotion(r) PROVE Rest'
  <2>1. /\ bpc[r] \in {"idle", "promotion"}
        /\ UNCHANGED <<catalog, stays, bpc, ask, present, user, promo>>
        /\ \A q \in Requests : q # r => pc'[q] = pc[q]
    BY <1>0, <1>7 DEF PromotionStep, WithdrawPromotion, UseStep, DeleteStep, TypeOK,
         ReadPromotion, ReadUserPromotion, SavePromotion, SaveUserPromotion,
         DeletePromotion, PullPromotion
  <2>2. QED
    BY <1>0, <2>1 DEF ReservationTypeOK, Staged, Checked, Spared,
                      InvoicesMatchBookings, Found, Overlap, Billable
<1>8. ASSUME NEW r \in Requests, Fault(r) PROVE Rest'
  <2>1. /\ UNCHANGED <<bookings, discounted, invoice, ask, present, promo>>
        /\ mailed' = mailed \/ (bpc[r] = "mailing" /\ mailed' = mailed \cup {r})
    BY <1>8 DEF Fault
  <2>2. \A q \in Requests : q # r => bpc'[q] = bpc[q] /\ pc'[q] = pc[q]
    BY <1>0, <1>8 DEF Fault, TypeOK, ReservationTypeOK
  <2>3. /\ bpc'[r] = IF bpc[r] \in BInFlight THEN "failed" ELSE bpc[r]
        /\ pc'[r] = IF pc[r] \in InFlight THEN "failed" ELSE pc[r]
        /\ Busy(r)
    BY <1>0, <1>8 DEF Fault, TypeOK, ReservationTypeOK
  <2>4. \A x, y : Found(x, y)' <=> Found(x, y)
    BY <2>1 DEF Found, Overlap
  <2>5. Spared'
    BY <2>1, <2>2, <2>3, <2>4 DEF Spared, Busy, InFlight, BInFlight
  <2>6. Checked' /\ Staged' /\ InvoicesMatchBookings'
    BY <2>1, <2>2, <2>3, <2>4 DEF Checked, Staged, InvoicesMatchBookings, Billable, BInFlight
  <2>7. QED
    BY <2>5, <2>6
<1>9. ASSUME NEW p \in Promos, NEW n \in Amounts, AddPromotion(p, n) PROVE Rest'
  BY <1>9 DEF AddPromotion, CreatePromotion, Staged, Checked, Spared,
              InvoicesMatchBookings, Found, Overlap, Billable
<1>10. ASSUME UNCHANGED <<stays, bpc, ask, present, pc, promo>> PROVE Rest'
  <2>1. \A x, y : Found(x, y)' <=> Found(x, y)
    BY <1>10 DEF Found, Overlap
  <2>2. Checked' /\ Spared'
    BY <1>10, <2>1 DEF Checked, Spared
  <2>3. Staged' /\ InvoicesMatchBookings'
    BY <1>10 DEF Staged, InvoicesMatchBookings, Billable
  <2>4. QED
    BY <2>2, <2>3
<1>11. QED
  <2>1. ASSUME \/ \E m \in Rooms : RemoveRoom(m)
               \/ \E s \in Services : RemoveService(s)
               \/ UNCHANGED resVars
        PROVE  Rest'
    BY <1>10, <2>1 DEF RemoveRoom, RemoveService, resVars, promoVars, vars
  <2>2. Rest'
    BY <1>1, <1>2, <1>3, <1>4, <1>5, <1>6, <1>7, <1>8, <1>9, <2>1
    DEF ReservationNext, BookingStep
  <2>3. QED
    BY <1>0, <2>2

LEMMA BookingInvariant == ReservationSpec => []BookingInv
BY BookingInit, BookingNext, PTL DEF ReservationSpec

\* Every reachable state is well typed, whatever the constants.
THEOREM ReservationTypeCorrect == ReservationSpec => []ReservationTypeOK
<1>1. BookingInv => ReservationTypeOK
  BY DEF BookingInv
<1>2. QED
  BY BookingInvariant, <1>1, PTL

\* No booking is stored over one its own overlap query could see.
THEOREM SeenStaysAreRespected == ReservationSpec => []NoOverlapWithSeen
<1>1. BookingInv => NoOverlapWithSeen
  BY DEF BookingInv, ReservationTypeOK, Checked, NoOverlapWithSeen
<1>2. QED
  BY BookingInvariant, <1>1, PTL

\* Invoices belong to stored transfer bookings with something to pay, only linked
\* ones are mailed, and who is told "booked" for a transfer was mailed one.
THEOREM InvoicesAreForBookings == ReservationSpec => []InvoicesMatchBookings
<1>1. BookingInv => InvoicesMatchBookings
  BY DEF BookingInv
<1>2. QED
  BY BookingInvariant, <1>1, PTL

\* A request that found the room taken never debits its promotion.
THEOREM TakenRoomsCostNothing == ReservationSpec => []NoDebitForTakenRoom
<1>1. BookingInv /\ RaceInv => NoDebitForTakenRoom
  BY DEF BookingInv, Spared, RaceInv, Debits, TypeOK, NoDebitForTakenRoom
<1>2. QED
  BY BookingInvariant, RaceInvariantHere, <1>1, PTL

-----------------------------------------------------------------------------
(* A discount is backed.  UsesKept is about promotions alone: a use that   *)
(* went through has its debit and, while the promotion is there, its entry; *)
(* a promotion is taken out of the lists only once it is gone for good.    *)
(* Redeemed says that a booking goes on with a discount only after its use *)
(* went through.                                                           *)

UsesKept ==
  \A r \in Requests :
    /\ pc[r] = "used" =>
         /\ r \in debited[promo[r]]
         /\ promo[r] \in stored => r \in history[user[r]][promo[r]]
    /\ pc[r] = "pulling" => promo[r] \in created /\ promo[r] \notin stored

Redeemed ==
  \A r \in Requests :
    r \in discounted \/ (bpc[r] \in {"services", "insert"} /\ ask[r].withPromo)
      => pc[r] = "used"

LEMMA UsesKeptNext ==
  ASSUME RaceInv, UsesKept, [Next]_vars
  PROVE  UsesKept'
<1> USE DEF UsesKept, db, locals
<1>0. TypeOK /\ Debits
  BY DEF RaceInv
<1>1. ASSUME NEW p \in Promos, NEW n \in Amounts, CreatePromotion(p, n) PROVE UsesKept'
  <2>1. /\ p \notin created
        /\ UNCHANGED <<debited, history, pc, user, promo>>
        /\ created' = created \cup {p} /\ stored' = stored \cup {p}
    BY <1>1 DEF CreatePromotion
  <2>2. \A r \in Requests : r \in debited[promo[r]] => promo[r] # p
    BY <1>0, <2>1 DEF Debits, TypeOK
  <2>3. QED
    BY <2>1, <2>2
<1>2. ASSUME NEW r \in Requests, ReadPromotion(r) \/ ReadUserPromotion(r) \/ Abort(r)
      PROVE UsesKept'
  BY <1>0, <1>2 DEF ReadPromotion, ReadUserPromotion, Abort, TypeOK
<1>3. ASSUME NEW r \in Requests, SavePromotion(r) PROVE UsesKept'
  <2>1. /\ UNCHANGED <<created, stored, history, user, promo>>
        /\ pc' = [pc EXCEPT ![r] = "saved"] \/ pc' = [pc EXCEPT ![r] = "failed"]
    BY <1>3 DEF SavePromotion
  <2>2. \A p \in Promos : debited[p] \subseteq debited'[p]
    <3>1. \/ debited' = debited
          \/ debited' = [debited EXCEPT ![promo[r]] = @ \cup {r}]
      BY <1>3 DEF SavePromotion
    <3>2. QED
      BY <1>0, <3>1 DEF TypeOK
  <2>3. QED
    BY <1>0, <2>1, <2>2 DEF TypeOK
<1>4. ASSUME NEW r \in Requests, SaveUserPromotion(r) PROVE UsesKept'
  <2>1. UNCHANGED <<created, stored, debited, user, promo>> /\ pc[r] = "saved"
    BY <1>4 DEF SaveUserPromotion
  <2>2. \A u \in Users, p \in Promos : history[u][p] \subseteq history'[u][p]
    <3>1. \/ history' = history
          \/ history' = [history EXCEPT ![user[r]] =
                           [history[user[r]] EXCEPT ![promo[r]] = @ \cup {r}]]
      BY <1>4 DEF SaveUserPromotion
    <3>2. user[r] \in Users /\ promo[r] \in Promos
      BY <1>0 DEF TypeOK
    <3>3. ASSUME NEW u \in Users, NEW p \in Promos
          PROVE  history[u][p] \subseteq history'[u][p]
      <4>1. CASE u = user[r] /\ p = promo[r]
        BY <1>0, <3>1, <3>2, <4>1 DEF TypeOK
      <4>2. CASE ~(u = user[r] /\ p = promo[r])
        BY <1>0, <3>1, <3>2, <4>2 DEF TypeOK
      <4>3. QED
        BY <4>1, <4>2
    <3>4. QED
      BY <3>3
  <2>3. \A q \in Requests : q # r => pc'[q] = pc[q]
    BY <1>0, <1>4 DEF SaveUserPromotion, TypeOK
  <2>4. \/ pc'[r] = "failed"
        \/ pc'[r] = "used" /\ r \in history'[user[r]][promo[r]]
    BY <1>0, <1>4 DEF SaveUserPromotion, TypeOK
  <2>5. r \in debited[promo[r]]
    BY <1>0, <2>1 DEF Debits
  <2>6. QED
    BY <1>0, <2>1, <2>2, <2>3, <2>4, <2>5 DEF TypeOK
<1>5. ASSUME NEW r \in Requests, DeletePromotion(r) PROVE UsesKept'
  BY <1>0, <1>5 DEF DeletePromotion, TypeOK
<1>6. ASSUME NEW r \in Requests, PullPromotion(r) PROVE UsesKept'
  <2>1. /\ UNCHANGED <<created, stored, debited, user, promo>>
        /\ promo[r] \notin stored
    BY <1>6 DEF PullPromotion
  <2>2. \A u \in Users, p \in Promos : p # promo[r] => history'[u][p] = history[u][p]
    BY <1>0, <1>6 DEF PullPromotion, TypeOK
  <2>3. /\ \A q \in Requests : q # r => pc'[q] = pc[q]
        /\ pc'[r] = "deleted"
    BY <1>0, <1>6 DEF PullPromotion, TypeOK
  <2>4. QED
    BY <1>0, <2>1, <2>2, <2>3 DEF TypeOK
<1>7. CASE UNCHANGED vars
  BY <1>7 DEF vars
<1>8. QED
  BY <1>1, <1>2, <1>3, <1>4, <1>5, <1>6, <1>7 DEF Next, UseStep, DeleteStep

LEMMA RedeemedNext ==
  ASSUME BookingInv, Redeemed, [ReservationNext]_resVars
  PROVE  Redeemed'
<1> USE DEF Redeemed, Goto, catalog, stays, locals
<1>0. ReservationTypeOK /\ TypeOK
  BY DEF BookingInv, ReservationTypeOK
<1>1. ASSUME NEW r \in Requests, BookingStep(r) PROVE Redeemed'
  BY <1>0, <1>1 DEF BookingStep, FindRoom, CheckOverlap, ReadDiscount, PromotionRefused,
       FindServices, InsertBooking, LoadForInvoice, SaveInvoice, LinkInvoice, LinkInvoiceTo,
       MailInvoice,
       AfterPromotion, ReservationTypeOK, promoVars, vars
<1>2. ASSUME NEW r \in Requests, PromotionStep(r) \/ WithdrawPromotion(r) PROVE Redeemed'
  <2>1. /\ UNCHANGED <<stays, bpc, ask>>
        /\ pc[r] # "used"
        /\ \A q \in Requests : q # r => pc'[q] = pc[q]
    BY <1>0, <1>2 DEF PromotionStep, WithdrawPromotion, UseStep, DeleteStep, TypeOK, Admit,
         ReadPromotion, ReadUserPromotion, SavePromotion, SaveUserPromotion,
         DeletePromotion, PullPromotion
  <2>2. QED
    BY <2>1
<1>3. ASSUME NEW r \in Requests, Fault(r) PROVE Redeemed'
  BY <1>0, <1>3 DEF Fault, InFlight, BInFlight, TypeOK, ReservationTypeOK
<1>4. ASSUME UNCHANGED <<stays, bpc, ask, pc>> PROVE Redeemed'
  BY <1>4
<1>5. ASSUME \/ \E p \in Promos, n \in Amounts : AddPromotion(p, n)
             \/ \E m \in Rooms : RemoveRoom(m)
             \/ \E s \in Services : RemoveService(s)
             \/ UNCHANGED resVars
      PROVE Redeemed'
  BY <1>4, <1>5 DEF AddPromotion, CreatePromotion, RemoveRoom, RemoveService, resVars,
                    promoVars, vars
<1>6. QED
  BY <1>1, <1>2, <1>3, <1>5 DEF ReservationNext

LEMMA UsesKeptInvariant == Spec => []UsesKept
<1>1. Init => UsesKept
  BY DEF Init, UsesKept
<1>2. QED
  BY <1>1, RaceInvariant, UsesKeptNext, PTL DEF Spec

LEMMA RedeemedInvariant == ReservationSpec => []Redeemed
<1>1. ReservationInit => Redeemed
  BY DEF ReservationInit, Redeemed
<1>2. QED
  BY <1>1, BookingInvariant, RedeemedNext, PTL DEF ReservationSpec

\* Whoever has a discount paid for it with a use of the promotion: the debit is
\* there, and so is the entry until the promotion is deleted.
THEOREM DiscountsAreBacked == ReservationSpec => []DiscountIsBacked
<1>1. ReservationSpec => []UsesKept
  BY UsesKeptInvariant, ReservationRedeemsAsPromotion, PTL DEF RedeemsAsPromotion
<1>2. BookingInv /\ UsesKept /\ Redeemed => DiscountIsBacked
  BY DEF BookingInv, ReservationTypeOK, UsesKept, Redeemed, DiscountIsBacked
<1>3. QED
  BY BookingInvariant, RedeemedInvariant, <1>1, <1>2, PTL

-----------------------------------------------------------------------------
(* Requests one at a time.  At most one is being served, so the bookings its *)
(* overlap query saw are those there when it inserts its own.                *)

OneBusy == \A r, q \in Requests : Busy(r) /\ Busy(q) => r = q

UpToDate == \A r \in Requests : bpc[r] \in Free => present[r] = bookings

SerialBookingInv == BookingInv /\ OneBusy /\ UpToDate /\ NoDoubleBookingAsSpelt

\* Whose step it is, no other request is being served before or after it.
LEMMA AloneHere ==
  ASSUME Serial, BookingInv, OneBusy, NEW r \in Requests,
         BookingStep(r) \/ PromotionStep(r) \/ WithdrawPromotion(r) \/ Fault(r)
  PROVE  \A q \in Requests \ {r} : /\ bpc'[q] = bpc[q]
                                   /\ ~Busy(q) /\ ~Busy(q)'
<1>0. ReservationTypeOK /\ TypeOK
  BY DEF BookingInv, ReservationTypeOK
<1>1. \A q \in Requests \ {r} : bpc'[q] = bpc[q] /\ pc'[q] = pc[q]
  <2>1. CASE BookingStep(r)
    BY <1>0, <2>1 DEF BookingStep, FindRoom, CheckOverlap, ReadDiscount, PromotionRefused,
         FindServices, InsertBooking, LoadForInvoice, SaveInvoice, LinkInvoice, LinkInvoiceTo,
         MailInvoice,
         ReservationTypeOK, Goto, promoVars, vars
  <2>2. CASE PromotionStep(r) \/ WithdrawPromotion(r)
    BY <1>0, <2>2 DEF PromotionStep, WithdrawPromotion, UseStep, DeleteStep, TypeOK,
         ReadPromotion, ReadUserPromotion, SavePromotion, SaveUserPromotion,
         DeletePromotion, PullPromotion
  <2>3. CASE Fault(r)
    BY <1>0, <2>3 DEF Fault, Goto, TypeOK, ReservationTypeOK
  <2>4. QED
    BY <2>1, <2>2, <2>3
<1>2. Busy(r) \/ Turn(r)
  BY DEF BookingStep, FindRoom, CheckOverlap, ReadDiscount, PromotionRefused,
         FindServices, InsertBooking, LoadForInvoice, SaveInvoice, LinkInvoice, LinkInvoiceTo,
         MailInvoice,
         PromotionStep, WithdrawPromotion, Fault, Busy, BInFlight
<1>3. \A q \in Requests \ {r} : ~Busy(q)
  BY <1>2 DEF OneBusy, Turn
<1>4. QED
  BY <1>1, <1>3 DEF Busy

LEMMA SerialBookingNext ==
  ASSUME Serial, SerialBookingInv, [ReservationNext]_resVars
  PROVE  SerialBookingInv'
<1> DEFINE Rest == OneBusy /\ UpToDate /\ NoDoubleBookingAsSpelt
<1> USE DEF SerialBookingInv, Goto, catalog, stays, Free
<1>0. BookingInv' /\ ReservationTypeOK /\ Checked /\ Staged
  BY BookingNext DEF BookingInv
<1>1. ASSUME NEW r \in Requests,
             BookingStep(r) \/ PromotionStep(r) \/ WithdrawPromotion(r) \/ Fault(r)
      PROVE  OneBusy'
  BY <1>1, AloneHere DEF OneBusy
<1>2. ASSUME NEW r \in Requests, InsertBooking(r) PROVE UpToDate' /\ NoDoubleBookingAsSpelt'
  <2>1. /\ bpc[r] = "insert" /\ present[r] = bookings
        /\ bookings' = bookings \cup {r} /\ bpc'[r] \notin Free
        /\ UNCHANGED ask
    BY <1>0, <1>2 DEF InsertBooking, UpToDate, ReservationTypeOK
  <2>2. \A q \in bookings : ~Found(r, q) /\ ~Found(q, r)
    BY <1>0, <2>1 DEF Checked, Found, Overlap, ReservationTypeOK
  <2>3. NoDoubleBookingAsSpelt'
    BY <2>1, <2>2 DEF NoDoubleBookingAsSpelt, Found, Overlap
  <2>4. \A q \in Requests \ {r} : bpc'[q] \notin Free
    BY <1>2, AloneHere DEF BookingStep, Busy, BInFlight
  <2>5. QED
    BY <2>1, <2>3, <2>4 DEF UpToDate
<1>3. ASSUME NEW r \in Requests, CheckOverlap(r) PROVE UpToDate' /\ NoDoubleBookingAsSpelt'
  BY <1>0, <1>3 DEF CheckOverlap, UpToDate, NoDoubleBookingAsSpelt, Found, Overlap,
                    ReservationTypeOK
<1>4. ASSUME NEW r \in Requests,
             \/ FindRoom(r) \/ ReadDiscount(r) \/ PromotionRefused(r) \/ FindServices(r)
             \/ LoadForInvoice(r) \/ SaveInvoice(r) \/ LinkInvoice(r) \/ MailInvoice(r)
             \/ Fault(r)
      PROVE UpToDate' /\ NoDoubleBookingAsSpelt'
  <2>1. /\ UNCHANGED <<bookings, ask, present>>
        /\ \A q \in Requests : bpc'[q] \in Free => bpc[q] \in Free
    BY <1>0, <1>4 DEF FindRoom, ReadDiscount, PromotionRefused, FindServices, LoadForInvoice,
         SaveInvoice, LinkInvoice, LinkInvoiceTo, MailInvoice, Fault, AfterPromotion,
         ReservationTypeOK
  <2>2. QED
    BY <2>1 DEF UpToDate, NoDoubleBookingAsSpelt, Found, Overlap
<1>5. ASSUME UNCHANGED <<bookings, ask, present, bpc>> PROVE UpToDate' /\ NoDoubleBookingAsSpelt'
  BY <1>5 DEF UpToDate, NoDoubleBookingAsSpelt, Found, Overlap
<1>6. ASSUME NEW r \in Requests, PromotionStep(r) \/ WithdrawPromotion(r)
      PROVE UpToDate' /\ NoDoubleBookingAsSpelt'
  BY <1>5, <1>6 DEF PromotionStep, WithdrawPromotion
<1>7. ASSUME \/ \E p \in Promos, n \in Amounts : AddPromotion(p, n)
             \/ \E m \in Rooms : RemoveRoom(m)
             \/ \E s \in Services : RemoveService(s)
             \/ UNCHANGED resVars
      PROVE Rest'
  <2>1. UNCHANGED <<bookings, ask, present, bpc, pc>>
    BY <1>7 DEF AddPromotion, CreatePromotion, RemoveRoom, RemoveService, resVars,
                promoVars, vars
  <2>2. OneBusy'
    BY <2>1 DEF OneBusy, Busy
  <2>3. QED
    BY <1>5, <2>1, <2>2
<1>8. ASSUME NEW r \in Requests, BookingStep(r) PROVE UpToDate' /\ NoDoubleBookingAsSpelt'
  BY <1>2, <1>3, <1>4, <1>8 DEF BookingStep
<1>9. Rest'
  BY <1>1, <1>4, <1>6, <1>7, <1>8 DEF ReservationNext
<1>10. QED
  BY <1>0, <1>9

LEMMA SerialBookingInvariant == Serial /\ ReservationSpec => []SerialBookingInv
<1> SUFFICES ASSUME Serial PROVE ReservationSpec => []SerialBookingInv
  OBVIOUS
<1>1. ReservationInit => SerialBookingInv
  BY BookingInit DEF ReservationInit, Init, SerialBookingInv, OneBusy, UpToDate,
     NoDoubleBookingAsSpelt, Busy, InFlight, BInFlight, Free
<1>2. SerialBookingInv /\ [ReservationNext]_resVars => SerialBookingInv'
  BY SerialBookingNext
<1>3. QED
  BY <1>1, <1>2, PTL DEF ReservationSpec

\* One request at a time, no two bookings that write a room's id alike share a
\* night.
THEOREM SerialNoDoubleBookingAsSpelt == Serial /\ ReservationSpec => []NoDoubleBookingAsSpelt
<1>1. SerialBookingInv => NoDoubleBookingAsSpelt
  BY DEF SerialBookingInv
<1>2. QED
  BY SerialBookingInvariant, <1>1, PTL

\* Inserting a booking is reserving nights that are free; every other step leaves
\* the calendar alone.
LEMMA CalendarNext ==
  ASSUME Serial, SerialBookingInv, [ReservationNext]_resVars
  PROVE  [Calendar!Next]_([r \in bookings |-> StayOf(ask[r])])
<1> DEFINE booked == [r \in bookings |-> StayOf(ask[r])]
<1> USE DEF catalog, stays
<1>0. ReservationTypeOK /\ Staged /\ NoDoubleBookingAsSpelt' /\ UpToDate
  BY SerialBookingNext DEF SerialBookingInv, BookingInv
<1>1. ASSUME NEW r \in Requests, InsertBooking(r) PROVE Calendar!Next
  <2>1. /\ bookings' = bookings \cup {r} /\ UNCHANGED ask
        /\ r \notin bookings
    BY <1>0, <1>1 DEF InsertBooking, Staged, Before
  <2>2. booked' = [q \in bookings \cup {r} |-> StayOf(ask[q])]
    BY <2>1
  <2>3. booked' = [q \in DOMAIN booked \cup {r} |->
                     IF q = r THEN StayOf(ask[r]) ELSE booked[q]]
    BY <2>1, <2>2
  <2>4. ASSUME NEW q \in bookings PROVE ~Calendar!Clash(booked[q], StayOf(ask[r]))
    <3>1. ~Found(q, r)
      BY <1>0, <2>1 DEF NoDoubleBookingAsSpelt, Found, Overlap
    <3>2. QED
      BY <3>1 DEF Found, Overlap, StayOf, Calendar!Clash
  <2>5. Calendar!Reserve(r, StayOf(ask[r]))
    BY <2>1, <2>3, <2>4 DEF Calendar!Reserve
  <2>6. ask[r] \in Asks
    BY <1>0 DEF ReservationTypeOK
  <2>7. QED
    BY <2>5, <2>6 DEF Calendar!Next
<1>2. ASSUME UNCHANGED <<bookings, ask>> PROVE UNCHANGED booked
  BY <1>2
<1>3. ASSUME NEW r \in Requests, BookingStep(r), ~InsertBooking(r)
      PROVE UNCHANGED <<bookings, ask>>
  BY <1>3 DEF BookingStep, FindRoom, CheckOverlap, ReadDiscount, PromotionRefused,
     FindServices, LoadForInvoice, SaveInvoice, LinkInvoice, LinkInvoiceTo, MailInvoice
<1>4. ASSUME \/ \E r \in Requests : PromotionStep(r) \/ WithdrawPromotion(r) \/ Fault(r)
             \/ \E p \in Promos, n \in Amounts : AddPromotion(p, n)
             \/ \E m \in Rooms : RemoveRoom(m)
             \/ \E s \in Services : RemoveService(s)
             \/ UNCHANGED resVars
      PROVE UNCHANGED <<bookings, ask>>
  BY <1>4 DEF PromotionStep, WithdrawPromotion, Fault, AddPromotion, RemoveRoom,
              RemoveService, resVars
<1>5. QED
  BY <1>1, <1>2, <1>3, <1>4 DEF ReservationNext

\* One request at a time, createBooking implements the room calendar.
THEOREM SerialImplementsCalendar == Serial /\ ReservationSpec => CalendarSpec
<1> SUFFICES ASSUME Serial PROVE ReservationSpec => CalendarSpec
  OBVIOUS
<1>1. ReservationInit => Calendar!Init
  BY DEF ReservationInit, Calendar!Init
<1>2. SerialBookingInv /\ [ReservationNext]_resVars
        => [Calendar!Next]_([r \in bookings |-> StayOf(ask[r])])
  BY CalendarNext
<1>3. ReservationSpec => []SerialBookingInv
  BY SerialBookingInvariant
<1>4. QED
  BY <1>1, <1>2, <1>3, PTL DEF ReservationSpec, CalendarSpec, Calendar!Spec

-----------------------------------------------------------------------------
(* Discounts, one request at a time. *)

\* No two uses of one user and promotion by its plain id both went through, also
\* when the promotion has left the user's list since.
SingleUse ==
  \A r, q \in Requests :
    /\ pc[r] = "used" /\ pc[q] = "used"
    /\ user[r] = user[q] /\ promo[r] = promo[q]
    /\ spelt[r] = Plain /\ spelt[q] = Plain
    => r = q

LEMMA SingleUseNext ==
  ASSUME SerialInv, UsesKept, SingleUse, [Next]_vars
  PROVE  SingleUse'
<1> USE DEF db, locals
<1>0. TypeOK /\ StillTrue
  BY DEF SerialInv, RaceInv
<1>1. ASSUME NEW r \in Requests, SaveUserPromotion(r) PROVE SingleUse'
  <2>1. /\ UNCHANGED <<user, promo, spelt>> /\ pc[r] = "saved"
        /\ \A q \in Requests : q # r => pc'[q] = pc[q]
    BY <1>0, <1>1 DEF SaveUserPromotion, TypeOK
  <2>2. /\ promo[r] \in stored
        /\ spelt[r] = Plain => history[user[r]][promo[r]] = {}
    BY <1>0, <2>1 DEF StillTrue, StillTrueFor
  <2>3. spelt[r] = Plain =>
          \A q \in Requests : pc[q] = "used" => ~(user[q] = user[r] /\ promo[q] = promo[r])
    BY <2>2 DEF UsesKept
  <2>4. QED
    BY <2>1, <2>3 DEF SingleUse
<1>2. ASSUME NEW r \in Requests,
             \/ ReadPromotion(r) \/ ReadUserPromotion(r) \/ SavePromotion(r)
             \/ DeleteStep(r) \/ Abort(r)
      PROVE SingleUse'
  <2>1. /\ UNCHANGED <<user, promo, spelt>>
        /\ \A q \in Requests : pc'[q] = "used" => pc[q] = "used"
    BY <1>0, <1>2 DEF ReadPromotion, ReadUserPromotion, SavePromotion, DeleteStep,
         DeletePromotion, PullPromotion, Abort, TypeOK
  <2>2. QED
    BY <2>1 DEF SingleUse
<1>3. ASSUME (\E p \in Promos, n \in Amounts : CreatePromotion(p, n)) \/ UNCHANGED vars
      PROVE SingleUse'
  BY <1>3 DEF CreatePromotion, vars, SingleUse
<1>4. QED
  BY <1>1, <1>2, <1>3 DEF Next, UseStep

\* One request at a time, a promotion gives a customer who asks by its plain id
\* one discount at most.
THEOREM SerialOneDiscount == Serial /\ ReservationSpec => []OneDiscountPerCustomer
<1> SUFFICES ASSUME Serial PROVE ReservationSpec => []OneDiscountPerCustomer
  OBVIOUS
<1>1. Init => SingleUse
  BY DEF Init, SingleUse
<1>2. Spec => []SingleUse
  BY <1>1, SerialInvariant, UsesKeptInvariant, SingleUseNext, PTL DEF Spec
<1>3. ReservationSpec => []SingleUse
  BY <1>2, ReservationRedeemsAsPromotion, PTL DEF RedeemsAsPromotion
<1>4. BookingInv /\ Redeemed /\ SingleUse => OneDiscountPerCustomer
  BY DEF BookingInv, ReservationTypeOK, Redeemed, SingleUse, OneDiscountPerCustomer
<1>5. QED
  BY BookingInvariant, RedeemedInvariant, <1>3, <1>4, PTL

\* One request at a time, a promotion gives no more discounts than it had uses.
THEOREM SerialDiscountsWithinStock ==
  Serial /\ ReservationSpec => []DiscountsWithinStock
<1> SUFFICES ASSUME Serial PROVE ReservationSpec => []DiscountsWithinStock
  OBVIOUS
<1>1. ReservationSpec => []SerialInv
  BY SerialInvariant, ReservationRedeemsAsPromotion, PTL DEF RedeemsAsPromotion
<1>2. SerialInv /\ DiscountIsBacked /\ BookingInv => DiscountsWithinStock
  <2> SUFFICES ASSUME SerialInv, DiscountIsBacked, BookingInv, NEW p \in created
      PROVE  Cardinality(DiscountedWith(p)) <= born[p] - Floor(born[p])
    BY DEF DiscountsWithinStock
  <2>1. TypeOK /\ AmountBounds /\ StockIsExact /\ p \in Promos
    BY DEF SerialInv, RaceInv, TypeOK
  <2>2. DiscountedWith(p) \subseteq debited[p]
    BY DEF DiscountedWith, DiscountIsBacked
  <2>3. Cardinality(DiscountedWith(p)) <= Cardinality(debited[p])
    BY <2>1, <2>2, DebitedFinite, FS_Subset
  <2>4. IsFiniteSet(DiscountedWith(p)) /\ Cardinality(DiscountedWith(p)) \in Nat
    BY <2>1, <2>2, DebitedFinite, FS_Subset, FS_CardinalityType
  <2>5. Cardinality(debited[p]) \in Nat /\ amount[p] = born[p] - Cardinality(debited[p])
    BY <2>1, DebitedFinite DEF StockIsExact
  <2>6. QED
    BY <2>1, <2>3, <2>4, <2>5 DEF AmountBounds, Floor, TypeOK
<1>3. QED
  BY <1>1, <1>2, BookingInvariant, DiscountsAreBacked, PTL
=============================================================================
