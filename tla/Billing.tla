------------------------------ MODULE Billing ------------------------------
(***************************************************************************)
(* One stored booking under the requests that change it after it was made: *)
(* check-in, checkout, services, room services, serving a service.         *)
(*                                                                         *)
(* Every handler of BookingService loads the document, awaits something,   *)
(* changes its copy in memory and calls save().  What save() sends is the  *)
(* difference between copy and loaded document, so handlers that overlap   *)
(* mix their writes field by field; see Save below.                        *)
(*                                                                         *)
(* A request is identified by a member of Requests and is served once.     *)
(***************************************************************************)
EXTENDS Integers, Sequences, FiniteSets, SequencesExt

CONSTANTS
  Requests,
  ServiceIds,      \* services an administrator offers
  RoomServiceIds,  \* room services an administrator offers
  Prices,          \* the prices they may have
  Changing,        \* the items that are repriced or removed meanwhile
  RoomCharge,      \* what the nights cost, discount included
  Ops,             \* what a request may ask for, see OpType
  FirstServices,   \* the lists of services a booking may be created with
  Faults           \* TRUE: awaited calls may fail and the server may go down

Items == ServiceIds \cup RoomServiceIds

\* A request body: the kind of request; for the kinds that take a list, the
\* items and quantities of its entries in order, no item twice (findByIds
\* would return it once and the lengths differ); any number is a quantity, the
\* DTOs ask for no more; at is the position of the service to be served, in the
\* list shown to the staff.
OpType == [kind : {"addServices", "setRoomServices", "updateRoomServices",
                   "removeRoomService", "checkIn", "checkOut", "serve"},
           want : Seq([item : Items, qty : Int]),
           at : Nat]

ServiceItem == [item : ServiceIds, qty : Int, price : Prices, served : BOOLEAN]
RoomServiceItem == [item : RoomServiceIds, qty : Nat \ {0}, price : Prices]

\* The price of every item to begin with.
FirstPrice == CHOOSE x \in Prices : TRUE

\* A booking was created with services at the prices of the catalogue.
ASSUME BillingAssumption ==
  /\ IsFiniteSet(Requests)
  /\ Prices \subseteq Int /\ Prices # {} /\ Changing \subseteq Items
  /\ RoomCharge \in Int
  /\ Ops \subseteq OpType
  /\ FirstServices \subseteq Seq(ServiceItem)
  /\ \A first \in FirstServices : \A k \in DOMAIN first : first[k].price = FirstPrice
  /\ ServiceIds \cap RoomServiceIds = {}
  /\ Faults \in BOOLEAN

VARIABLES
  price,     \* the catalogue: services and roomservices, the field price
  removed,   \* the items that were deleted from it
  booking,   \* the stored document; v is its version key
  invoice,   \* the checkout invoice a request stored: its amount, 0 for none
  pc,        \* where a request stands
  op,        \* what it asks for
  copy,      \* the document it loaded
  quote,     \* the prices it read from the catalogue
  calm       \* history: no two requests overlapped, no price was changed

stored == <<booking, invoice>>
vars == <<price, removed, stored, pc, op, copy, quote, calm>>

InFlight == {"loaded", "quoted", "billed", "mailed"}
\* "failed": it had a copy and did not save it, or a call it awaited failed.
Answered == {"done", "refused", "failed"}

BookingType ==
  [status : {"Pending", "Checked in", "Checked out"},
   services : Seq(ServiceItem), roomServices : Seq(RoomServiceItem),
   total : Int, paid : Int, v : Nat]

TypeOK ==
  /\ price \in [Items -> Prices]
  /\ removed \in SUBSET Items
  /\ booking \in BookingType
  /\ invoice \in [Requests -> Nat]
  /\ pc \in [Requests -> {"idle"} \cup InFlight \cup Answered]
  /\ op \in [Requests -> Ops]
  /\ copy \in [Requests -> BookingType]
  /\ quote \in [Requests -> [Items -> Prices]]
  /\ calm \in BOOLEAN

\* The sum of a list of numbers.
Sum(list) ==
  LET upTo[k \in 0 .. Len(list)] == IF k = 0 THEN 0 ELSE upTo[k - 1] + list[k]
  IN upTo[Len(list)]
\* What the items of a list come to at the prices they were entered with.
Worth(items) == Sum([k \in DOMAIN items |-> items[k].qty * items[k].price])

\* bookingModel.create: a transfer booking counts as paid.
Init ==
  /\ price = [i \in Items |-> FirstPrice]
  /\ removed = {}
  /\ \E first \in FirstServices, transfer \in BOOLEAN :
       LET due == RoomCharge + Worth(first) IN
       booking = [status |-> "Pending", services |-> first, roomServices |-> <<>>,
                  total |-> due, paid |-> IF transfer THEN due ELSE 0, v |-> 0]
  /\ invoice = [r \in Requests |-> 0]
  /\ pc = [r \in Requests |-> "idle"]
  /\ op \in [Requests -> Ops]
  /\ copy = [r \in Requests |-> booking]
  /\ quote = [r \in Requests |-> price]
  /\ calm = TRUE

-----------------------------------------------------------------------------
(* Mongoose, as the handlers use it. *)

\* The fields of new that differ from old are written over rec's; the others
\* are not sent.
Overwrite(rec, old, new) ==
  [f \in DOMAIN rec |-> IF new[f] = old[f] THEN rec[f] ELSE new[f]]

\* save() of a copy (old) changed in memory (new), onto the stored document:
\*   "fields"  only plain fields were changed: no condition on the version;
\*   "push"    entries were pushed on a list: they go behind what is stored,
\*             the version grows, again without a condition;
\*   "items"   fields of entries were changed: they go to the entries at the
\*             same positions, on condition that the version is as loaded;
\*   "whole"   a list was assigned, spliced, or both pushed and changed: it is
\*             sent as a whole, on the same condition, and the version grows.
\* list is the name of the list in question.
Conditional(how) == how \in {"items", "whole"}

ListAfter(list, how, old, new) ==
  CASE how = "push"   -> booking[list] \o SubSeq(new[list], Len(old[list]) + 1, Len(new[list]))
    [] how = "items"  -> [i \in DOMAIN booking[list] |->
                            Overwrite(booking[list][i], old[list][i], new[list][i])]
    [] how = "whole"  -> new[list]
    [] how = "fields" -> booking[list]

Save(r, how, list, new) ==
  LET old == copy[r] IN
  \/ /\ Conditional(how) => booking.v = old.v
     /\ booking' = [Overwrite(booking, old, [new EXCEPT !.services = old.services,
                                                        !.roomServices = old.roomServices])
                      EXCEPT ![list] = ListAfter(list, how, old, new),
                             !.v = booking.v + IF how \in {"push", "whole"} THEN 1 ELSE 0]
     /\ pc' = [pc EXCEPT ![r] = "done"]
  \/ /\ Conditional(how) /\ booking.v # old.v   \* VersionError
     /\ pc' = [pc EXCEPT ![r] = "failed"]
     /\ UNCHANGED booking

Refuse(r) ==
  /\ pc' = [pc EXCEPT ![r] = "refused"]
  /\ UNCHANGED stored

-----------------------------------------------------------------------------
(* The handlers. *)

\* A request arrives and its handler reads the booking; what the handler then
\* checks, it checks on its copy.
Load(r) ==
  /\ pc[r] = "idle"
  /\ calm' = (calm /\ \A q \in Requests : pc[q] \notin InFlight)
  /\ copy' = [copy EXCEPT ![r] = booking]
  /\ pc' = [pc EXCEPT ![r] = "loaded"]
  /\ UNCHANGED <<price, removed, stored, op, quote>>

Handles(r, kind, at) == op[r].kind = kind /\ pc[r] = at
Wanted(r) == {op[r].want[k].item : k \in DOMAIN op[r].want}
\* The entry for item i in a list: the first one, as find() has it.
Position(list, i) == SelectInSeq(list, LAMBDA e : e.item = i)
Listed(list) == {list[k].item : k \in DOMAIN list}
Positive(r) == \A k \in DOMAIN op[r].want : op[r].want[k].qty > 0
QtyWanted(r, i) == op[r].want[Position(op[r].want, i)].qty

\* serviceService.findByIds, roomServiceService.findByIds or findOne: all the
\* items asked for must be there, and their prices are read.
Offered(kind) == IF kind = "addServices" THEN ServiceIds ELSE RoomServiceIds
Quote(r) ==
  /\ op[r].kind \in {"addServices", "setRoomServices", "updateRoomServices"}
  /\ pc[r] = "loaded"
  /\ \/ /\ Wanted(r) \subseteq Offered(op[r].kind) \ removed
        /\ quote' = [quote EXCEPT ![r] = [i \in Items |-> IF i \in Wanted(r) THEN price[i] ELSE @[i]]]
        /\ pc' = [pc EXCEPT ![r] = "quoted"]
     \/ /\ ~(Wanted(r) \subseteq Offered(op[r].kind) \ removed)
        /\ pc' = [pc EXCEPT ![r] = "refused"]
        /\ UNCHANGED quote
  /\ UNCHANGED <<price, removed, stored, op, copy, calm>>

\* The charge for a request's entries at the prices it was quoted.
Charge(r) == Sum([k \in DOMAIN op[r].want |-> op[r].want[k].qty * quote[r][op[r].want[k].item]])

\* Mutant: the list is written with an update of its own, not with save().
SaveServicesByUpdate(r) ==
  /\ Handles(r, "addServices", "quoted")
  /\ booking' = [booking EXCEPT
       !.services = copy[r].services \o
                      [k \in DOMAIN op[r].want |->
                         [item |-> op[r].want[k].item, qty |-> op[r].want[k].qty,
                          price |-> quote[r][op[r].want[k].item], served |-> FALSE]],
       !.total = @ + Charge(r)]
  /\ pc' = [pc EXCEPT ![r] = "done"]
  /\ UNCHANGED <<price, removed, invoice, op, copy, quote, calm>>

\* A service the list has gets a larger quantity, at the price it was entered
\* with; a new one is pushed at the price quoted.
Enter(list, w, quoted) ==
  IF w.item \in Listed(list)
  THEN [list EXCEPT ![Position(list, w.item)].qty = @ + w.qty]
  ELSE Append(list, [item |-> w.item, qty |-> w.qty, price |-> quoted, served |-> FALSE])
\* The entries of the request are entered in turn.
Entered(r) ==
  LET after[k \in 0 .. Len(op[r].want)] ==
        IF k = 0 THEN copy[r].services
        ELSE Enter(after[k - 1], op[r].want[k], quote[r][op[r].want[k].item])
  IN after[Len(op[r].want)]

\* addServicesToBooking: the total grows by the prices quoted.  No quantity is
\* too small.
SaveServices(r) ==
  LET had == copy[r].services
      new == Entered(r)
      how == CASE SubSeq(new, 1, Len(had)) = had                          -> "push"
               [] SubSeq(new, 1, Len(had)) # had /\ Len(new) = Len(had) -> "items"
               [] OTHER                                                   -> "whole"
  IN
  /\ Handles(r, "addServices", "quoted")
  /\ Save(r, how, "services", [copy[r] EXCEPT !.services = new,
                                              !.total = @ + Charge(r)])
  /\ UNCHANGED <<price, removed, invoice, op, copy, quote, calm>>

\* addRoomServicesToBooking: quantities must be positive; the list is assigned
\* anew, at the prices quoted; the old entries come off the total and the new
\* ones go on it.  Assigning an empty list over an empty list changes nothing, so
\* the rest is a push.
SaveRoomServices(r) ==
  LET had == copy[r].roomServices
      entered == [k \in DOMAIN op[r].want |->
                    [item |-> op[r].want[k].item, qty |-> op[r].want[k].qty,
                     price |-> quote[r][op[r].want[k].item]]]
  IN
  /\ Handles(r, "setRoomServices", "quoted")
  /\ IF Positive(r)
     THEN Save(r, IF had = <<>> THEN "push" ELSE "whole", "roomServices",
               [copy[r] EXCEPT !.roomServices = entered,
                               !.total = @ - Worth(had) + Charge(r)])
     ELSE Refuse(r)
  /\ UNCHANGED <<price, removed, invoice, op, copy, quote, calm>>

\* Mutant: the old quantity is not taken off the total.
SaveRoomServiceQuantitiesTwice(r) ==
  LET had == copy[r].roomServices
      set == [k \in DOMAIN had |->
                IF had[k].item \in Wanted(r)
                THEN [had[k] EXCEPT !.qty = QtyWanted(r, had[k].item)] ELSE had[k]]
  IN
  /\ Handles(r, "updateRoomServices", "quoted")
  /\ Save(r, "items", "roomServices",
          [copy[r] EXCEPT !.roomServices = set, !.total = @ + Worth(set)])
  /\ UNCHANGED <<price, removed, invoice, op, copy, quote, calm>>

\* updateRoomServicesInBooking: every item must be on the booking; its quantity
\* is replaced, the price it was entered with stays.
SaveRoomServiceQuantities(r) ==
  LET had == copy[r].roomServices
      set == [k \in DOMAIN had |->
                IF had[k].item \in Wanted(r) /\ k = Position(had, had[k].item)
                THEN [had[k] EXCEPT !.qty = QtyWanted(r, had[k].item)] ELSE had[k]]
  IN
  /\ Handles(r, "updateRoomServices", "quoted")
  /\ IF Positive(r) /\ Wanted(r) \subseteq Listed(had)
     THEN Save(r, IF set = had THEN "fields" ELSE "items", "roomServices",
               [copy[r] EXCEPT !.roomServices = set,
                               !.total = @ - Worth(had) + Worth(set)])
     ELSE Refuse(r)
  /\ UNCHANGED <<price, removed, invoice, op, copy, quote, calm>>

\* Mutant: the entry is taken out with an update that leaves the version alone.
SaveRemovalByUpdate(r) ==
  LET k == Position(copy[r].roomServices, op[r].want[1].item) IN
  /\ Handles(r, "removeRoomService", "loaded")
  /\ k \in DOMAIN booking.roomServices
  /\ booking' = [booking EXCEPT !.roomServices = RemoveAt(@, k)]
  /\ pc' = [pc EXCEPT ![r] = "done"]
  /\ UNCHANGED <<price, removed, invoice, op, copy, quote, calm>>

\* removeRoomServiceFromBooking: the first entry for the item is spliced out.
SaveRemoval(r) ==
  LET had == copy[r].roomServices
      item == op[r].want[1].item
      k == Position(had, item)
  IN
  /\ Handles(r, "removeRoomService", "loaded")
  /\ IF item \in Listed(had)
     THEN Save(r, "whole", "roomServices",
               [copy[r] EXCEPT !.roomServices = RemoveAt(had, k),
                               !.total = @ - had[k].price * had[k].qty])
     ELSE Refuse(r)
  /\ UNCHANGED <<price, removed, invoice, op, copy, quote, calm>>

\* Mutant: the status is not tested.
SaveCheckInAnyway(r) ==
  /\ Handles(r, "checkIn", "loaded")
  /\ Save(r, "fields", "services", [copy[r] EXCEPT !.status = "Checked in"])
  /\ UNCHANGED <<price, removed, invoice, op, copy, quote, calm>>

\* checkIn
SaveCheckIn(r) ==
  /\ Handles(r, "checkIn", "loaded")
  /\ IF copy[r].status = "Pending"
     THEN Save(r, "fields", "services", [copy[r] EXCEPT !.status = "Checked in"])
     ELSE Refuse(r)
  /\ UNCHANGED <<price, removed, invoice, op, copy, quote, calm>>

\* updateBookingServiceStatus: served once, while the guest is in.
SaveServed(r) ==
  LET k == op[r].at
      had == copy[r].services
  IN
  /\ Handles(r, "serve", "loaded")
  /\ IF copy[r].status = "Checked in" /\ k \in DOMAIN had /\ ~had[k].served
     THEN Save(r, "items", "services", [copy[r] EXCEPT !.services[k].served = TRUE])
     ELSE Refuse(r)
  /\ UNCHANGED <<price, removed, invoice, op, copy, quote, calm>>

\* Mutant: what was paid already is billed again.
BillCheckOutAgain(r) ==
  /\ Handles(r, "checkOut", "loaded")
  /\ copy[r].status = "Checked in" /\ copy[r].total > 0
  /\ invoice' = [invoice EXCEPT ![r] = copy[r].total]
  /\ pc' = [pc EXCEPT ![r] = "billed"]
  /\ UNCHANGED <<price, removed, booking, op, copy, quote, calm>>

\* checkoutBooking, first part: what is left to pay, or 1 if nothing is, goes
\* on an invoice, which createInvoice stores as PENDING if it is more than 0.
BillCheckOut(r) ==
  LET left == copy[r].total - copy[r].paid
      due == IF left = 0 THEN 1 ELSE left
  IN
  /\ Handles(r, "checkOut", "loaded")
  /\ \/ /\ copy[r].status = "Checked in" /\ due > 0
        /\ invoice' = [invoice EXCEPT ![r] = due]
        /\ pc' = [pc EXCEPT ![r] = "billed"]
        /\ UNCHANGED booking
     \/ /\ ~(copy[r].status = "Checked in" /\ due > 0)
        /\ Refuse(r)
  /\ UNCHANGED <<price, removed, op, copy, quote, calm>>

\* The payment link is made and saved and the invoice mailed.
MailCheckOut(r) ==
  /\ Handles(r, "checkOut", "billed")
  /\ pc' = [pc EXCEPT ![r] = "mailed"]
  /\ UNCHANGED <<price, removed, stored, op, copy, quote, calm>>

\* Mutant: the booking is checked out before it is billed.
SaveCheckOutFirst(r) ==
  /\ Handles(r, "checkOut", "loaded") /\ copy[r].status = "Checked in"
  /\ Save(r, "fields", "services", [copy[r] EXCEPT !.status = "Checked out"])
  /\ UNCHANGED <<price, removed, invoice, op, copy, quote, calm>>

\* checkoutBooking, last part: only now is the booking checked out.
SaveCheckOut(r) ==
  /\ Handles(r, "checkOut", "mailed")
  /\ Save(r, "fields", "services", [copy[r] EXCEPT !.status = "Checked out"])
  /\ UNCHANGED <<price, removed, invoice, op, copy, quote, calm>>

\* The awaited call fails, or the server goes down.
Fault(r) ==
  /\ Faults /\ pc[r] \in InFlight
  /\ pc' = [pc EXCEPT ![r] = "failed"]
  /\ UNCHANGED <<price, removed, stored, op, copy, quote, calm>>

-----------------------------------------------------------------------------
(* The catalogue. *)

\* PATCH /services/:id, /room-services/:id
UpdatePrice(i, x) ==
  /\ i \notin removed /\ price[i] # x
  /\ price' = [price EXCEPT ![i] = x]
  /\ calm' = FALSE
  /\ UNCHANGED <<removed, stored, pc, op, copy, quote>>

\* DELETE /services/:id, /room-services/:id: bookings are not looked at.
RemoveItem(i) ==
  /\ i \notin removed
  /\ removed' = removed \cup {i}
  /\ UNCHANGED <<price, stored, pc, op, copy, quote, calm>>

-----------------------------------------------------------------------------
Handler(r) ==
  \/ Load(r) \/ Quote(r)
  \/ SaveServices(r) \/ SaveRoomServices(r) \/ SaveRoomServiceQuantities(r)
  \/ SaveRemoval(r) \/ SaveCheckIn(r) \/ SaveServed(r)
  \/ BillCheckOut(r) \/ MailCheckOut(r) \/ SaveCheckOut(r)

Next ==
  \/ \E r \in Requests : Handler(r) \/ Fault(r)
  \/ \E i \in Changing : RemoveItem(i) \/ \E x \in Prices : UpdatePrice(i, x)

Spec == Init /\ [][Next]_vars

-----------------------------------------------------------------------------
(* Under any interleaving. *)

Catalogued(list) == [k \in DOMAIN list |-> <<list[k].item, list[k].price>>]

\* The version key does its work: while it is the one a handler loaded, both
\* lists hold the entries the handler saw, at the same places and prices, so a
\* positional write changes the entry it was meant for.  (Quantities and the
\* served mark may differ: writing them leaves the version alone.)
SameVersionSameEntries ==
  \A r \in Requests : pc[r] \in InFlight /\ copy[r].v = booking.v =>
    /\ Catalogued(copy[r].services) = Catalogued(booking.services)
    /\ Catalogued(copy[r].roomServices) = Catalogued(booking.roomServices)

\* The lists of a booking, wherever they are held.
EntriesAreSound == TypeOK /\ SameVersionSameEntries

\* No handler takes a service off a booking, moves it, or changes the price it
\* was entered with.
ServicesOnlyGrow ==
  [][IsPrefix(Catalogued(booking.services), Catalogued(booking'.services))]_vars

\* A booking is checked out only when a checkout invoice has been stored.
CheckedOutIsInvoiced ==
  booking.status = "Checked out" => \E r \in Requests : invoice[r] > 0

-----------------------------------------------------------------------------
(* While requests come one at a time and no price is changed. *)

Billed == {r \in Requests : invoice[r] > 0}

\* "Automated calculation of outstanding charges" (README.md:18): the total is
\* the nights and every service and room service on the booking.
Charges == RoomCharge + Worth(booking.services) + Worth(booking.roomServices)
ChargesAreComplete == booking.total = Charges
\* It is, as long as nothing overlaps and no price changes.
TotalIsExact == calm => ChargesAreComplete

\* What is left to pay, and what is billed for it: 1 when nothing is left.
Outstanding == LET left == Charges - booking.paid IN IF left = 0 THEN 1 ELSE left
Closes(r) == Handles(r, "checkOut", "mailed") /\ pc'[r] = "done"

\* "... and invoice generation" (README.md:18): when checkoutBooking closes a stay,
\* its invoice is for all that is on the booking and was not paid, as long as
\* nothing overlaps and no price changes: whatever was added, altered, removed or
\* refused before, and after checkouts that failed.
ClosesAsBilled ==
  [][\A r \in Requests : calm /\ Closes(r) => invoice[r] = Outstanding]_vars

\* Rank in the life of a booking; it never goes back: "Booking must be pending
\* before check-in" (booking.service.ts:332).
Rank(status) == CASE status = "Pending" -> 0 [] status = "Checked in" -> 1
                  [] status = "Checked out" -> 2
LifecycleForward ==
  [][calm' => Rank(booking'.status) - Rank(booking.status) \in {0, 1}]_vars

\* "Booking must be checked in before checkout" (booking.service.ts:353): a
\* stay is billed once, but for checkouts that failed after the bill was stored.
OneCheckoutInvoice == calm => Cardinality({r \in Billed : pc[r] # "failed"}) <= 1

\* No stay ends without its bill, and none ends with two.
CheckoutsAreInvoiced == CheckedOutIsInvoiced /\ OneCheckoutInvoice

\* "Service is already served or not pending" (booking.service.ts:1009): a
\* service, once served, stays so.
ServedIsFinal ==
  [][calm' => \A k \in DOMAIN booking.services :
       booking.services[k].served => booking'.services[k].served]_vars

\* Neither a stay nor a service goes back.
MovesForward == LifecycleForward /\ ServedIsFinal

=============================================================================
