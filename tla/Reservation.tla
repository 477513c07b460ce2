---------------------------- MODULE Reservation ----------------------------
(***************************************************************************)
(* POST /bookings/:roomId: BookingService.createBooking and                *)
(* createTransferInvoice, composed with the promotions it redeems.         *)
(*                                                                         *)
(* createBooking checks that the room is free, redeems the promotion, looks *)
(* up the services and only then inserts the booking, one await after      *)
(* another and nothing locked.  A transfer booking is then invoiced.  A    *)
(* request r that books goes through the steps of Promotion for r while    *)
(* its own position (bpc) is "promotion"; a request whose bpc stays "idle" *)
(* is a direct use or a deletion of a promotion.                           *)
(*                                                                         *)
(* A booking, and its invoice, is identified by the request that made it.  *)
(* Ids travel as text here too: findOne and find cast them, but a booking  *)
(* stores the room's id as the request wrote it, and the overlap query     *)
(* compares that text.                                                     *)
(***************************************************************************)
EXTENDS Promotion, Sequences

CONSTANTS
  Rooms, Services,
  Asks,          \* what a booking request may ask for
  Gratis,        \* the asks, with the promotions applied, that leave nothing to
                 \* pay: the DTOs put no bound on a discount, nor a price above 0
  Faults         \* TRUE: awaited calls may fail and the server may go down

\* A room and services are named by an id and the way it is spelt.
ASSUME AsksTyped ==
  Asks \subseteq [room : Rooms, roomAs : Spellings, from : Int, to : Int,
                  withPromo : BOOLEAN, wants : Seq(Services \X Spellings),
                  transfer : BOOLEAN]
ASSUME GratisTyped == Gratis \subseteq Asks \X SUBSET Promos

VARIABLES
  rooms,     \* the rooms in the collection
  services,  \* the services in the collection
  bookings,  \* the bookings in the collection
  discounted,\* bookings stored with a promotionId, hence a discount
  invoice,   \* of a booking: not stored, PENDING without a link, or with it
  mailed,    \* history: the bookings whose invoice was mailed to the customer
  bpc,       \* where createBooking stands for a request
  ask,       \* what the request asks for
  present    \* history: the bookings there when r's overlap query ran

promoVars == vars
catalog == <<rooms, services>>
stays == <<bookings, discounted, invoice, mailed>>
resVars == <<promoVars, catalog, stays, bpc, ask, present>>

\* createBooking is at an await, named for the call it is about to make.
BInFlight == {"overlap", "promotion", "services", "insert",
              "reload", "saving", "linking", "mailing"}
\* "booked": answered with the booking; "refused": it threw before the insert;
\* "failed": an awaited call failed, or it threw after the insert.
BAnswered == {"booked", "refused", "failed"}

ReservationTypeOK ==
  /\ TypeOK
  /\ rooms \in SUBSET Rooms
  /\ services \in SUBSET Services
  /\ bookings \in SUBSET Requests
  /\ discounted \in SUBSET bookings
  /\ invoice \in [Requests -> {"none", "pending", "linked"}]
  /\ mailed \in SUBSET Requests
  /\ bpc \in [Requests -> {"idle"} \cup BInFlight \cup BAnswered]
  /\ ask \in [Requests -> Asks]
  /\ present \in [Requests -> SUBSET Requests]

ReservationInit ==
  /\ Init
  /\ rooms = Rooms
  /\ services = Services
  /\ bookings = {}
  /\ discounted = {}
  /\ invoice = [r \in Requests |-> "none"]
  /\ mailed = {}
  /\ bpc = [r \in Requests |-> "idle"]
  /\ ask \in [Requests -> Asks]
  /\ present = [r \in Requests |-> {}]

\* The stays of two requests share a night in one room.
Overlap(r, q) ==
  /\ ask[r].room = ask[q].room
  /\ ask[r].from < ask[q].to /\ ask[q].from < ask[r].to

\* What the overlap query of r finds of a booking q: the two strict comparisons
\* of dates, and the text of the room's id.
Found(r, q) == Overlap(r, q) /\ ask[r].roomAs = ask[q].roomAs

Busy(r) == pc[r] \in InFlight \/ bpc[r] \in BInFlight
\* Under Serial a request starts when no other is being served.
Turn(r) == Serial => \A q \in Requests \ {r} : ~Busy(q)

Goto(r, at) == bpc' = [bpc EXCEPT ![r] = at]

-----------------------------------------------------------------------------
(* createBooking *)

\* roomService.findOne, then the check of the two dates.
FindRoom(r) ==
  /\ bpc[r] = "idle" /\ pc[r] = "idle" /\ Turn(r)
  /\ Goto(r, IF ask[r].room \in rooms /\ ask[r].from < ask[r].to
             THEN "overlap" ELSE "refused")
  /\ UNCHANGED <<promoVars, catalog, stays, ask, present>>

\* Where createBooking goes on once it has settled the promotion.
AfterPromotion(r) == IF ask[r].wants = <<>> THEN "insert" ELSE "services"

\* Mutant: the query finds only the bookings that begin during the stay.
CheckOverlapStarts(r) ==
  /\ bpc[r] = "overlap"
  /\ present' = [present EXCEPT ![r] = bookings]
  /\ Goto(r, IF \E q \in bookings : Found(r, q) /\ ask[q].from >= ask[r].from
             THEN "refused"
             ELSE IF ask[r].withPromo THEN "promotion" ELSE AfterPromotion(r))
  /\ UNCHANGED <<promoVars, catalog, stays, ask>>
\* Mutant: usePromotion is not called.
CheckOverlapOnly(r) ==
  /\ bpc[r] = "overlap"
  /\ present' = [present EXCEPT ![r] = bookings]
  /\ Goto(r, IF \E q \in bookings : Found(r, q) THEN "refused" ELSE AfterPromotion(r))
  /\ UNCHANGED <<promoVars, catalog, stays, ask>>

\* find({ roomId, ... }): any stored booking of the room by this spelling of its
\* id, whatever its status, whose dates overlap the ones asked for.
CheckOverlap(r) ==
  /\ bpc[r] = "overlap"
  /\ present' = [present EXCEPT ![r] = bookings]
  /\ \/ /\ \E q \in bookings : Found(r, q)
        /\ Goto(r, "refused")
     \/ /\ \A q \in bookings : ~Found(r, q)
        /\ Goto(r, IF ask[r].withPromo THEN "promotion" ELSE AfterPromotion(r))
  /\ UNCHANGED <<promoVars, catalog, stays, ask>>

\* Mutant: the promotion is redeemed before the room is known to be free.
PromotionStepEarly(r) ==
  /\ bpc[r] \in {"overlap", "promotion"} \/ (bpc[r] = "idle" /\ Turn(r))
  /\ UseStep(r)
  /\ UNCHANGED <<catalog, stays, bpc, ask, present>>

\* usePromotion is awaited: its steps for a booking, or for a direct use.
PromotionStep(r) ==
  /\ \/ bpc[r] = "promotion"
     \/ bpc[r] = "idle" /\ Turn(r)
  /\ UseStep(r)
  /\ UNCHANGED <<catalog, stays, bpc, ask, present>>

\* usePromotion returned: getPromotionById, which throws if the promotion has
\* been deleted since, and otherwise gives the discount.
ReadDiscount(r) ==
  /\ bpc[r] = "promotion" /\ pc[r] = "used"
  /\ Goto(r, IF promo[r] \in stored THEN AfterPromotion(r) ELSE "refused")
  /\ UNCHANGED <<promoVars, catalog, stays, ask, present>>

\* Mutant: the catch block swallows the error.
PromotionRefusedSilently(r) ==
  /\ bpc[r] = "promotion" /\ pc[r] \in {"rejected", "failed"}
  /\ Goto(r, AfterPromotion(r))
  /\ UNCHANGED <<promoVars, catalog, stays, ask, present>>

\* Mutant: the catch block gives the promotion its use back.
PromotionRefusedRefunded(r) ==
  /\ bpc[r] = "promotion" /\ pc[r] \in {"rejected", "failed"}
  /\ amount' = [amount EXCEPT ![promo[r]] = @ + 1]
  /\ Goto(r, "refused")
  /\ UNCHANGED <<created, stored, born, debited, records, history, pc, locals,
                 catalog, stays, ask, present>>

\* usePromotion threw, and the catch block throws again.
PromotionRefused(r) ==
  /\ bpc[r] = "promotion" /\ pc[r] \in {"rejected", "failed"}
  /\ Goto(r, "refused")
  /\ UNCHANGED <<promoVars, catalog, stays, ask, present>>

\* The services asked for are there, no one twice (the lengths of what was asked
\* and found must agree), each written as the server writes it (find() by text).
AllFound(wants) ==
  /\ \A i \in DOMAIN wants : wants[i][1] \in services /\ wants[i][2] = Plain
  /\ \A i, j \in DOMAIN wants : wants[i][1] = wants[j][1] => i = j

\* serviceService.findByIds, the test of lengths and the sum of prices, which
\* throws on a service that is not found among what was returned.
FindServices(r) ==
  /\ bpc[r] = "services"
  /\ Goto(r, IF AllFound(ask[r].wants) THEN "insert" ELSE "refused")
  /\ UNCHANGED <<promoVars, catalog, stays, ask, present>>

\* Mutant: the promotion of a transfer is noted, its booking left for later.
InsertBookingLater(r) ==
  /\ bpc[r] = "insert"
  /\ bookings' = IF ask[r].transfer THEN bookings ELSE bookings \cup {r}
  /\ discounted' = IF ask[r].withPromo THEN discounted \cup {r} ELSE discounted
  /\ Goto(r, IF ask[r].transfer THEN "reload" ELSE "booked")
  /\ UNCHANGED <<promoVars, catalog, invoice, mailed, ask, present>>

\* bookingModel.create
InsertBooking(r) ==
  /\ bpc[r] = "insert"
  /\ bookings' = bookings \cup {r}
  /\ discounted' = IF ask[r].withPromo THEN discounted \cup {r} ELSE discounted
  /\ Goto(r, IF ask[r].transfer THEN "reload" ELSE "booked")
  /\ UNCHANGED <<promoVars, catalog, invoice, mailed, ask, present>>

-----------------------------------------------------------------------------
(* createTransferInvoice *)

\* createInvoice's amount > 0: nights and services less the discount, if any.
Billable(r) == <<ask[r], IF r \in discounted THEN {promo[r]} ELSE {}>> \notin Gratis

\* Mutant: the amount is not checked.
LoadForInvoiceUnchecked(r) ==
  /\ bpc[r] = "reload"
  /\ Goto(r, IF ask[r].room \in rooms THEN "saving" ELSE "failed")
  /\ UNCHANGED <<promoVars, catalog, stays, ask, present>>

\* findBookingById populates the room, whose number goes on the invoice: a
\* TypeError if it was removed, and perhaps if its id is not spelt as in its own
\* document (Mongoose's matter).  createInvoice then throws unless amount > 0.
LoadForInvoice(r) ==
  LET billed == ask[r].room \in rooms /\ Billable(r) IN
  /\ bpc[r] = "reload"
  /\ \/ billed /\ Goto(r, "saving")
     \/ (billed => ask[r].roomAs # Plain) /\ Goto(r, "failed")
  /\ UNCHANGED <<promoVars, catalog, stays, ask, present>>

\* newInvoice.save(): stored as PENDING before PayOS is asked for a link.
SaveInvoice(r) ==
  /\ bpc[r] = "saving"
  /\ invoice' = [invoice EXCEPT ![r] = "pending"]
  /\ Goto(r, "linking")
  /\ UNCHANGED <<promoVars, catalog, bookings, discounted, mailed, ask, present>>

\* createPaymentLink answered, the link is saved, and the handler goes on.
LinkInvoiceTo(r, at) ==
  /\ bpc[r] = "linking"
  /\ invoice' = [invoice EXCEPT ![r] = "linked"]
  /\ Goto(r, at)
  /\ UNCHANGED <<promoVars, catalog, bookings, discounted, mailed, ask, present>>
\* Mutant: the invoice is not mailed.
LinkInvoiceUnmailed(r) == LinkInvoiceTo(r, "booked")

LinkInvoice(r) == LinkInvoiceTo(r, "mailing")

\* sendInvoiceEmail, then the answer.
MailInvoice(r) ==
  /\ bpc[r] = "mailing"
  /\ mailed' = mailed \cup {r}
  /\ Goto(r, "booked")
  /\ UNCHANGED <<promoVars, catalog, bookings, discounted, invoice, ask, present>>

-----------------------------------------------------------------------------
(* The rest of the system, as far as createBooking can see it. *)

\* DELETE /promotions/:id
WithdrawPromotion(r) ==
  /\ bpc[r] = "idle" /\ Turn(r)
  /\ DeleteStep(r)
  /\ UNCHANGED <<catalog, stays, bpc, ask, present>>

\* POST /promotions
AddPromotion(p, n) ==
  /\ CreatePromotion(p, n)
  /\ UNCHANGED <<catalog, stays, bpc, ask, present>>

\* DELETE /rooms/:id, which asks nothing about bookings.
RemoveRoom(m) ==
  /\ m \in rooms
  /\ rooms' = rooms \ {m}
  /\ UNCHANGED <<promoVars, services, stays, bpc, ask, present>>

\* DELETE /services/:id
RemoveService(s) ==
  /\ s \in services
  /\ services' = services \ {s}
  /\ UNCHANGED <<promoVars, rooms, stays, bpc, ask, present>>

\* The call r awaits fails, or the server goes down: r does no more.  A mail may
\* have been sent all the same.
Fault(r) ==
  /\ Faults /\ Busy(r)
  /\ pc' = [pc EXCEPT ![r] = IF @ \in InFlight THEN "failed" ELSE @]
  /\ Goto(r, IF bpc[r] \in BInFlight THEN "failed" ELSE bpc[r])
  /\ \/ UNCHANGED mailed
     \/ bpc[r] = "mailing" /\ mailed' = mailed \cup {r}
  /\ UNCHANGED <<db, locals, catalog, bookings, discounted, invoice, ask, present>>

-----------------------------------------------------------------------------
BookingStep(r) ==
  \/ FindRoom(r) \/ CheckOverlap(r)
  \/ ReadDiscount(r) \/ PromotionRefused(r)
  \/ FindServices(r) \/ InsertBooking(r)
  \/ LoadForInvoice(r) \/ SaveInvoice(r) \/ LinkInvoice(r) \/ MailInvoice(r)

ReservationNext ==
  \/ \E r \in Requests :
       BookingStep(r) \/ PromotionStep(r) \/ WithdrawPromotion(r) \/ Fault(r)
  \/ \E p \in Promos, n \in Amounts : AddPromotion(p, n)
  \/ \E m \in Rooms : RemoveRoom(m)
  \/ \E s \in Services : RemoveService(s)

ReservationSpec == ReservationInit /\ [][ReservationNext]_resVars

-----------------------------------------------------------------------------
(* What createBooking promises. *)

\* The overlap query and the insert are two steps, but no booking is stored
\* over one that its own query could see: one that was there by then, under the
\* same spelling of the room's id (booking.service.ts:128-144).
NoOverlapWithSeen ==
  \A r, q \in bookings : r # q /\ Found(r, q) => q \notin present[r]

\* No two bookings of a room share a night: "The room is not available for the
\* selected dates" (booking.service.ts:142).
NoDoubleBooking ==
  \A r, q \in bookings : r # q => ~Overlap(r, q)

\* What createBooking's query keeps of that, one request at a time: no two
\* bookings that write the room's id alike share a night.
NoDoubleBookingAsSpelt ==
  \A r, q \in bookings : r # q => ~Found(r, q)

\* A booking has its promotion's discount only if its own request debited the
\* promotion and entered it in the customer's list, unless deletePromotion has
\* taken it out of all lists.
DiscountIsBacked ==
  \A r \in discounted :
    /\ r \in debited[promo[r]]
    /\ promo[r] \in stored => r \in history[user[r]][promo[r]]

\* Redeeming a promotion in the middle of a booking is no different from redeeming
\* it on its own: what createBooking and its failures do to promotions and lists
\* is what Promotion allows, so that all that holds of Promotion holds here.
RedeemsAsPromotion == Spec

\* One request at a time, a promotion gives a customer who asks by its plain id
\* one discount at most, and gives no more discounts than it had uses.
DiscountedWith(p) == {r \in discounted : promo[r] = p}
OneDiscountPerCustomer ==
  \A r, q \in discounted :
    /\ user[r] = user[q] /\ promo[r] = promo[q]
    /\ spelt[r] = Plain /\ spelt[q] = Plain
    => r = q
DiscountsWithinStock ==
  \A p \in created : Cardinality(DiscountedWith(p)) <= born[p] - Floor(born[p])

\* A promotion is debited for a booking only after the room was found free:
\* a request whose overlap query found a booking leaves the promotion alone.
NoDebitForTakenRoom ==
  \A r \in Requests, q \in Requests :
    q \in present[r] /\ Found(r, q) => r \notin debited[promo[r]]

\* Invoices are for stored transfer bookings with something to pay, a customer is
\* mailed an invoice only when it has its link, and who is told "booked" for a
\* transfer has been mailed it, whatever was removed or failed on the way.
InvoicesMatchBookings ==
  \A r \in Requests :
    /\ invoice[r] # "none" => r \in bookings /\ ask[r].transfer /\ Billable(r)
    /\ r \in mailed => invoice[r] = "linked"
    /\ bpc[r] = "booked" /\ ask[r].transfer => r \in mailed

-----------------------------------------------------------------------------
(* The calendar createBooking is meant to keep. *)

StayOf(a) == [room |-> <<a.room, a.roomAs>>, from |-> a.from, to |-> a.to]

Calendar == INSTANCE RoomCalendar
  WITH Stays <- {StayOf(a) : a \in Asks},
       booked <- [r \in bookings |-> StayOf(ask[r])]

\* One request at a time, inserting a booking is reserving free nights, in a
\* calendar that has a page for each way to write a room's id.
CalendarSpec == Calendar!Spec

=============================================================================
