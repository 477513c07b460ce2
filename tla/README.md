# Verification of the Resort Management System back end

A TLA+ development kept beside the NestJS/MongoDB server in `src/`. It models
the server's handlers as they meet in the shared database, checks them with TLC
on small instances, and proves with TLAPS what matters most for every size.
Paths below are relative to the repository; `PROJECT.json` maps each definition
to the lines it models.

## 1. The system

One Node process serves HTTP requests. A handler runs without interruption from
one `await` to the next; at an `await` any other handler may run. Everything
shared is in MongoDB collections, and in one file. There are **no transactions,
no locks, no queues and no timers**: what keeps requests apart is a check made
earlier in the same handler, a unique index, or Mongoose's version key. A call
that fails, or a server that stops, leaves behind whatever the handler had
already written.

| Component | State | Operations | Uses / is used by | Module |
|---|---|---|---|---|
| Promotions (`promotion/`) | `promotions` (amount left), `userPromotions` (one document per user, with the list of promotions used) | `createPromotion`, `usePromotion`, `deletePromotion`; the list of offers | `createBooking` calls `usePromotion` | `Promotion`, `Queries` |
| Booking creation (`booking/`) | `bookings` | `createBooking`, `createTransferInvoice` | rooms, promotions, services, invoices, mail | `Reservation` |
| Stay and billing (`booking/`) | one `bookings` document: status, services, roomServices, totalAmount, `__v` | check-in, checkout, adding, changing, removing and serving of services; lists and counts | services, room services, invoices, mail | `Billing`, `Catalog`, `Queries` |
| Invoices (`invoice/`) | `invoices`: status, checkoutUrl | `createInvoice`, `getInvoiceById` (asks PayOS, may store), `updateInvoiceStatusByOrderCode` (redirect from PayOS) | called by both booking components | `Invoicing` |
| Invoice mail and PDF (`email/`) | the file `invoice.pdf`, one for the whole process | write, send, `unlinkSync` | called by both booking components | `Invoicing` |
| Authentication and tokens (`auth/`, `token/`) | `users.password`, `users.isVerified`, `tokens` | register, verify, login, forgot, reset and change password, Google login | users, mail | `Accounts` |
| Users and staff (`user/`) | `users` (role, serviceTypeId) | create, update (two writes), delete | service types | `Accounts`, `Queries` |
| Rooms, room types (`room/`, `roomType/`) | `rooms`, `roomtypes` | create, update, remove; search, lists, availability | bookings, ratings | `Catalog`, `Availability`, `Queries` |
| Services, service types, room services | three collections | create, update, remove, lists | bookings, staff | `Catalog`, `Queries` |
| Ratings (`rating/`) | `ratings`, `rooms.averageRating` | `addRating`: insert, read all, write the average | rooms | `Catalog` |
| Reports of guests, dashboard | `reports`, otherwise none | lists, figures, exports | everything | `Queries` |
| Image upload, HTTP plumbing, base repository, seed script | none | - | - | not modelled |

What is hard, and what correctness means:

- **Promotions.** Overlapping uses read the same amount, both write it back less
  one, and both pass the test for an earlier use. An id is cast by one query and
  compared as text by the next. Correct: the amount stays within bounds, no stock
  vanishes, a recorded use was debited; a user uses a promotion once and it is never
  over-redeemed.
- **Booking creation.** The overlap query and the insert are up to five awaits
  apart; the promotion is redeemed between them; the invoice comes after. The room's
  id is cast by one query and compared as text by the next.
  Correct: no two stays share a night in a room, a discount is backed by a debit,
  a request for a taken room costs no promotion.
- **Stay and billing.** Each handler loads the document, awaits, changes its copy
  and saves the *difference*: `totalAmount` and `status` as absolute values without
  a condition, list entries by position, on condition of the version key. Correct:
  positional writes meet the entry they were meant for, the total is what is
  listed, a stay goes forward and is billed once.
- **Invoices.** The status is overwritten by redirects and by polling in whatever
  order they come, and the route of the redirects is open to everybody. Correct: a
  status comes from PayOS or was brought for this invoice, it does not go back, and in
  the end it is what PayOS says.
- **Mail.** Overlapping mails write, attach and delete one file. Correct: a
  customer receives their own invoice; a failed deletion costs no checkout.
- **Accounts.** The password is hashed twice on the way in; a link is bound to the
  password hash, and to an address that may change hands; an update of the role is
  two writes. Correct: links bind the account they were mailed for, a reset works
  once, a session outlasts resets, who registers can log in.
- **Catalog.** What a room, a service or a booking refers to is looked up before a
  write, or not at all; the average of a room is computed after an await and
  written as a value. Correct: nothing is stored under a parent that never was, but for
  rooms whose type an update leaves blank; a
  price was near its base price; an average is one of ratings that exist, and of
  all of them if nobody else was rating.
- **Queries.** A figure, a page or an export is put together from several reads.
  Correct: parts and totals differ by no more than what changed meanwhile, an
  offered room or promotion could be had, the pages of a list make up the list.

The full list of hazards, each at its line and with the properties aimed at it,
is in `PROJECT.json` under `hazards`.

## 2. The modules

| Module | What it is |
|---|---|
| `Promotion` | promotions and their redemption, one action per stretch between awaits |
| `PromotionLedger` | abstract: a use takes one from the stock and enters the user, in one step |
| `Reservation` | `createBooking` and `createTransferInvoice`, **composed with** `Promotion` (EXTENDS it; a booking's redemption is made of `Promotion`'s own steps) |
| `RoomCalendar` | abstract: reserving free nights of a room, in one step |
| `Billing` | one stored booking under all the requests that change it, with Mongoose's `save()` |
| `Invoicing` | invoices and their mails, against PayOS and the customers' browsers |
| `Accounts` | users, passwords, mailed links, tokens |
| `Catalog` | what the resort offers, its ratings, the lists of work |
| `Availability` | the two searches for a free week, the room search, the overlap query, as pure operators |
| `Queries` | dashboard, exports, room search, paged lists, on top of `Availability` |
| `PromotionProofs`, `ReservationProofs`, `BillingProofs`, `InvoicingProofs`, `AccountsProofs`, `CatalogProofs`, `AvailabilityProofs`, `QueriesProofs` | the theorems |
| `MC...` | the instances TLC checks |

### Conventions

- A **request** is a member of `Requests` and is served once; `pc[r]` (in
  `Reservation` also `bpc[r]`) is the await at which its handler stands. "Retry"
  is another request asking the same thing. In `Invoicing` there are `Handlers`
  instead, which serve one request after another.
- An action is an awaited call with the code around it. An early `throw` before
  any write ends in "refused" ("rejected"). A failed call ends in "failed";
  nothing is undone, because the code undoes nothing.
- `Abort`, `Fault`, `MakerFault`, `HandlerFault` are the failure of the awaited
  call or the end of the process at that point. Every in-memory copy is lost and
  the stored state stays, so a restart needs no action of its own; `Accounts` has
  `Crash` as well, for a failure that takes all requests down together.
- History variables are marked "history". `Serial` (`Promotion`, `Reservation`), `calm`
  (`Billing`), `overlapped` (`Accounts`), `alone` and `touched` (`Catalog`), `late` and `met`
  (`Invoicing`) tell whether requests have overlapped. The actions are the same
  either way; some properties hold whatever overlaps, others only when nothing
  does, and say so. The distance between the two is what the missing locks cost.
- Definitions whose comment starts with "Mutant:" are variants of an operation,
  each with one plausible mistake. No specification uses them: put in place of the
  operation, each breaks the property it is listed with in `PROJECT.json`, which
  shows that the property depends on that code.

### `Promotion`

`stored`, `amount` are the collection `promotions`; `records`, `history` the
collection `userPromotions`, an entry of a list being identified by the request
that pushed it. `created`, `born`, `debited` are history variables: ids handed
out, initial amounts, requests whose `promotion.save()` reached the promotion.
`seen`, `fresh` are the handler's locals, `spelt` how the request writes the id.

Mongoose casts an id whatever the case of its letters; JavaScript and MongoDB compare text.
`Spellings` are the ways to write one id, `Plain` the one the server itself writes and
stores. `findById` finds a promotion by any of them; the search of the user's list
(`Listed`) and the `$pull` of a deletion find the plain one only.

| Code (`userPromotion.service.ts`, `promotion.service.ts`) | Action |
|---|---|
| `findById`, "no longer available" | `ReadPromotion` |
| `findOne({userId})`, "already used" | `ReadUserPromotion` |
| `amount -= 1; promotion.save()` | `SavePromotion`: writes the value read less one |
| `userPromotion.save()` | `SaveUserPromotion`: `$push`, or an insert that the unique index may refuse |
| `findByIdAndDelete`; `updateMany($pull)` | `DeletePromotion`; `PullPromotion` |
| `createPromotion` | `CreatePromotion` |

### `Reservation`

`FindRoom`, `CheckOverlap`, the steps of `Promotion` (`PromotionStep`), then
`ReadDiscount` or `PromotionRefused`, `FindServices`, `InsertBooking`; for a transfer
`LoadForInvoice`, `SaveInvoice`, `LinkInvoice`, `MailInvoice`. Requests whose `bpc`
stays "idle" use or delete promotions directly. Rooms and services may be removed
at any moment. A room is named by an id and a spelling (`roomAs`): `findOne` casts it, the
overlap query compares the text with that of stored bookings (`Found`), and the booking
stores the text. `NoDoubleBooking` is what the code's message says; `NoDoubleBookingAsSpelt`
what its query can keep. A list of services is refused if one is missing, named
twice or not written plainly (`AllFound`). `mailed` remembers whose invoice went out.
Dates are days as integers; amounts are abstracted to whether there
is anything to pay (`Billable`; `Gratis` names what leaves nothing), because
`createInvoice` throws at 0 and the DTO puts no upper bound on a discount. Whether Mongoose's
`populate` finds a room whose id is written otherwise is left open (`LoadForInvoice`).

### `Billing`

`Save` is Mongoose's `save()` as these handlers use it. Only changed paths are
sent. A plain field is set without any condition. A pushed entry is appended to
whatever is stored and advances the version key. A changed field of an entry goes
to the same position, if the version key is as loaded. An assigned or spliced list
is sent whole on the same condition. A condition that fails is a `VersionError`
("failed"). This is the library's behaviour and marked external in the map; which
case applies is taken from what the handler does to the document.

`checkoutBooking` is `Load`, `BillCheckOut` (the invoice is stored),
`MailCheckOut` (link and mail), `SaveCheckOut` (only now is the status changed).

### `Invoicing`

A maker (`createInvoice` with the mail after it) goes `Insert`, `CreateLink`,
`SaveUrl`, `WritePDF`, `FinishPDF`, `SendMail`, `Unlink`. The file is whose it is,
"torn" (being written) or "none"; with another mail about, a finished write may
turn out to be either's or torn. PayOS (`Payment`) moves a link from PENDING to
PROCESSING or to PAID, CANCELLED or EXPIRED, and tells the browser to call back
with the status it then has. `Deliver` is such a call: late, repeated, never, or made by
somebody PayOS had not sent, with any of `Strays` (a status PayOS knows, or some other text);
`stray` remembers what was brought so.
`Look`, `Ask`, `SaveStatus` are `getInvoiceById`. A maker called by `POST
/invoices` sends no mail; it is one that stops at "saved".

### `Accounts`

bcrypt is a term: `[of, layers, salt]`, what was hashed, how often, and by whom.
`register` hashes and `UserService.create` hashes again, so the stored hash has two
layers, and `Compare` fails on the password the user chose. A link is an address
and the hash that signed it. Ids are the requests that inserted them, and one
account is there to begin with (`seeded`), so that deletion and a new
registration of the address can be told apart. `WriteUser` and `UnsetType` are the
two updates of `updateUser`. `Crash`: the verification mail is sent without `await`
or `catch`, so a mail server that refuses it ends the process.

### `Catalog`

One record type for all five kinds of document, as they share their handlers'
shape: lookup of the parent, then write (`LookForCreate`, `Insert`;
`LookForUpdate`, `Write`; `Remove`). A room's type may be left out of an update ("keep") or
given as nothing ("blank"), which is written without a lookup. The three lists of work (`getServiceStatusCount`
and the two lists of services to be served) are loops with up to three lookups per
entry: `StartList`, `ListRoom`, `ListService`, `ListType`. `addRating` is
`LookForRating`, `SaveRating`, `ReadRatings`, `SaveAverage`.

### `Availability` and `Queries`

A moment is three to a day: midnight, check-out (05:00 UTC), check-in (07:00 UTC).
`NextWeekByDay` is `calculateNextAvailableWeek` as a recursive function,
`NextWeekBySort` the `$reduce` of `filterRoomsByRoomTypeFields`: the stays in the order of
their arrivals, the latest applied last.

A behaviour of `Queries` is one query, or one client who turns the pages of a list,
while up to `MaxChanges` documents are created, changed or removed and a midnight
may pass. `past` is the history of the database, `got` what has been read so
far, by name and page. `Due` gives the reads that may come next: several where the
code uses `Promise.all`, one where it awaits in turn. `Value` says what a read
returns. Answers are computed from `got` when nothing is due any more.

A document's number is its place in the lists, which are sorted by `createdAt` (`Before`,
`Rank`, `Sorted`). It is not the order of insertion: Mongoose dates a document before it
sends it. `Create` inserts in any order, with any date since the query began, and those of
`underway` with a date of before (`Dates`). A client's next page is due when the one
before is complete and names one (`Asked`). `Steady` says that nobody enters a list but
behind all who were ever in it. `PagesAddUp` asks for it: where somebody enters at the front,
as new documents do in the default order, newest first, the next `skip` shows a row again.

`QueriesAssumption` says what the other handlers guarantee of the documents they leave
behind: a booking's dates are in order (`booking.service.ts:122`), and nobody has used a
promotion that is yet to be created. A promotion's stock may go down and up, as `Promotion`
has it. A use is not updated. A booking keeps its
room and dates, has one of three statuses (only `updateBookingStatus`,
`booking.service.ts:309`, could write "Cancelled", and it has no caller) and is never
removed; nor is an invoice, whose amount is not negative (`invoice.service.ts:39`) and
does not change. The years of the calendar do not go back, and what is stored bears
one of its days.

## 3. The runs

| Run | Bounds | Shows |
|---|---|---|
| `promotion_races` | 3 requests, 2 users, 2 promotions, 2 spellings, amounts -1..2, failures | any interleaving: `AmountBounds`, `NoStockLost`, `EntryIsDebited` |
| `reservation_races` | 2 requests, 8 kinds of ask, 2 spellings, 2 rooms, 1 promotion, 1 service, removals, failures | any interleaving: `NoOverlapWithSeen`, `DiscountIsBacked`, `NoDebitForTakenRoom`, `InvoicesMatchBookings`, and `RedeemsAsPromotion`: with the bookings left out, what remains is a behaviour of `Promotion` |
| `reservation_serial` | 3 requests, 3 kinds of ask, 2 spellings, failures, `Serial` | `NoDoubleBookingAsSpelt`, `OneDiscountPerCustomer`, `DiscountsWithinStock`, `RedemptionsAreExact`, and the refinements `CalendarSpec` and `LedgerSpec` |
| `billing` | 3 requests of 12 kinds (quantities 0 and -2 among them), 2 services, 2 room services, 2 prices, one of which changes, deletions, failures | any interleaving: `EntriesAreSound`, `ServicesOnlyGrow`, no stay ends without its invoice; while `calm`: `TotalIsExact`, `ClosesAsBilled`, `MovesForward`, one invoice for a stay |
| `invoicing` | one invoice that is paid and asked for by 2 handlers with 2 calls that bring a status, redirects or not, or 3 invoices that are mailed | `StatusIsKnown`, `StatusGoesForward`, `MailIsSound`, and the liveness property `Settles` |
| `accounts` | 3 requests of 14 kinds, 1 address, 2 passwords, crashes | `AccountsAreSound`, `LinksBindAccounts`, `SessionsLast`; without overlaps `ResetOnce` and that service staff have a type (`StaffTypes`) |
| `catalog` | 3 requests of 30 kinds, 6 documents, 5 prices, 3 scores | `CatalogIsSound`, `PriceNearBase`, `AverageOfRatings`, `AloneIsExact`, `ListsHold` |
| `queries` | 7 databases of up to 12 documents, 3 changes, one midnight | `FiguresAddUp`, `WeekIsFree`, `OffersAreReal`, `PagesAddUp` |
| `reservation_double_booking` | 2 requests | `NoDoubleBooking` fails when requests overlap |
| `billing_lost_charge` | as `billing`, fixed prices | `ChargesAreComplete` fails when requests overlap |
| `registered_cannot_log_in` | 2 requests | `IncorrectIsWrong` fails: a registration, then a login |
| `listing_next_page` | as `queries` | `FollowerMissesNothing` fails |

Several properties are conjunctions of named parts, each with its own comment:
`RedemptionsAreExact` (each user once, never over-redeemed, amount exact),
`CheckoutsAreInvoiced`, `MovesForward`, `MailIsSound`, `StaffTypes`, `ListsHold`,
`FiguresAddUp` (revenue, exports, staff and status counts, availability),
`OffersAreReal`, `PagesAddUp`.

Every bound is a constant of a `.cfg` or a set of an MC module. Why they are
enough:

- **Requests.** Most handlers have two to five steps, so two requests give every
  overlap of two handlers. Three are the least for a lost update that a third
  request exploits, for setting up a list that two others then change, for a
  forgotten password with two resets, and for a deletion and a new registration
  under an old link. `reservation_races` has two, since there each has up to a dozen
  steps and four collections to meet in; three were checked with the narrower asks.
- **Asks.** Stays 1-3, 2-4 and 3-5 of one room share nights or touch on the day of
  departure; another room; dates the wrong way round; with and without promotion,
  service, transfer; a service named twice or written otherwise. Two spellings of an id are
enough: the code only tells whether two texts are the same, and a text from the one
the server writes. In `catalog`, prices at both ends of the allowed band and one
  beyond each; each kind of document created, updated, moved, removed.
- **Amounts.** -1 and 0 because the DTO accepts any number; 1 and 2 for the last use
  and the one before. A fractional amount behaves as the next whole number above in
  the test `amount <= 0`.
- **Quantities.** -2 and 0 because `addServicesToBooking` tests none and the room
  service handlers must refuse them; 1 to 3 otherwise. Strings, which the DTOs let
  through too, are left out. `RoomCharge` is one number; `Changing` names what is
  repriced or removed.
- **PayOS.** `MaxDeliveries` of 2 lets a redirect come twice, or late, or meet a call that
  nobody was sent with; with two handlers a third would overlap no more. `Strays` is the
  status that is most confusing to bring, PAID; for that invoice alone a status PayOS does not
  know was checked besides, with the same outcome. `Scenarios` separates what can meet:
  mails share a file and nothing else, and the requests about an invoice touch that
  invoice only.
- **Databases.** The scenarios of `MCQueries` each put documents around the edge that
  matters to their queries: two New Years and a 31 December for revenue; stays that
  touch, nest, or end at midnight for availability; lists of two to five documents
  with pages of one or two; an invoice that is dated before the query and inserted during
  it; a promotion whose last use comes back. `MaxChanges` of 3 is one change between any two of the
  reads of the longest of them, and enough to move a document over a page.
- **Days.** `Calendar` has the eight days that the ranges of those scenarios tell apart.

Deadlock is not checked: every request is served once, every query ends, so every
behaviour may end. Symmetry is used between requests, users and promotions, which
are interchangeable; it is not used where liveness is checked.

**Fairness.** Only `Invoicing` states any, for `Settles`: *an invoice that goes on
being asked for ends up with the status of its link*. Strong fairness of `Look` (for
each invoice) is the premise that somebody goes on asking for it, by `getInvoiceById`;
strong fairness of `Ask` and
`SaveStatus` says that not every call of every handler fails, which is what Node's
event loop and a database that answers again give. Strong, because a handler that
fails (`HandlerFault`) disables the step for a while. Nothing is asked of browsers
(redirects may all be lost; calls with other statuses are finitely many), of PayOS (it may leave a payment pending for ever) or of
the makers. No other liveness is claimed: the remaining handlers are straight lines of
awaits with no loop, retry or waiting for one another, and whether one ends depends
on MongoDB and the mail server answering, for which the code sets no timeout.

## 4. What is proved

`PromotionProofs` holds for any finite set of requests and any users, promotions and
whole amounts.

Without `Serial`: `TypeCorrect`, `AmountStaysInBounds`, `StockIsNeverLost`,
`EntriesAreDebited`.

The inductive invariant `RaceInv` joins these four properties with two facts about what
a handler carries across its awaits. `Carried`: the amount a request has read and not
yet written back is at least 1 and at most what the promotion was created with, and
together with the debits already made it accounts for the whole initial stock.
`Debits`: a debit belongs to one request, for that promotion, which is past its
`promotion.save()`; a request between its two saves has made one. `AmountBounds` and
`NoStockLost` are not inductive alone: a stale `seen` is written back, so the bounds
must be known of what the requests carry and not only of what is stored.

With `Serial`: `SerialUseIsOnce` (by its plain id a user uses a promotion once, whatever
he does under other spellings), `SerialStockIsExact`, `SerialNoOverRedemption`, together
`SerialRedemptionsAreExact`, and `SerialImplementsLedger`: `Spec => Ledger!Spec`. The ledger
notes its holders with the spelling they used: it refuses whoever holds a promotion and
asks by the plain id, and nobody else. That no user's list holds a promotion twice would be
more, and false (section 5).

`SerialInv` adds `OneAtATime` (at most one request is in flight) and `StillTrue` (what
the one in flight has read is still what is stored). In the refinement mapping the
stock is the stored amount plus one while a request stands between its two saves
(`Owing`): the abstract use happens at the second save, and if the request fails there,
the abstract step is `Waste`, a use taken that nobody holds.

The assumptions are those stated in `Promotion`: finitely many requests, amounts that
are integers, `Plain` one of the `Spellings`, `Serial` a Boolean.

`ReservationProofs` holds besides for any rooms, services and asks of the stated types,
with any stays (`AsksTyped`, `GratisTyped`) and with or without failures.

Without `Serial`: `ReservationRedeemsAsPromotion` (every step of `Reservation` is a step
of `Promotion` or leaves promotions and lists alone, so each theorem of
`PromotionProofs` holds of the composed system), `ReservationTypeCorrect`,
`SeenStaysAreRespected`, `InvoicesAreForBookings`, `TakenRoomsCostNothing`,
`DiscountsAreBacked`.

The inductive invariant `BookingInv` joins the types and `InvoicesMatchBookings` (nobody is told "booked" for a transfer before the linked invoice
was mailed) with what the place of a request in the handler tells of it: `Staged` (what it has inserted
and invoiced so far), `Checked` (past its overlap query it saw none that the query finds),
`Spared` (one that saw one, or has not looked yet, has not begun to redeem).
`DiscountIsBacked` needs a fact from either collection: `UsesKept`, an invariant of
`Promotion` (who was told its use went through was debited and keeps its entry while the
promotion is stored), and `Redeemed` (a booking goes on with a discount only after its use
went through).

With `Serial`: `SerialNoDoubleBookingAsSpelt`, `SerialImplementsCalendar` (`Serial /\
ReservationSpec => CalendarSpec`), `SerialOneDiscount`, `SerialDiscountsWithinStock`.

`SerialBookingInv` adds that one request at most is being served (`OneBusy`) and that
what its overlap query saw is still all there is (`UpToDate`); this makes
`InsertBooking` the reservation of nights that are free, and every other step a stutter
of the calendar. That calendar has a page for each way to write a room's id: with one page for
a room the refinement would be false (section 5). `OneDiscountPerCustomer` rests on
`SingleUse`: no two uses of one user and promotion by the plain id both went through.

`AvailabilityProofs` is about the tests on which the searches for a room are built, for any
stays (pairs of moments) and days. `NoOverlapIsFree`: a week in which
`calculateNextAvailableWeek` finds no overlap is free of the stay, at whatever hours it
begins and ends. `OverlapIsTaken`: conversely, if guests come and go at the hours of the
house (`Proper`); stays at other hours may be passed over for nothing, never booked over.
Together, `SearchStopsAtFreeWeeks`. `SearchAgreesWithBooking`: the room search finds a
room for two dates exactly if the overlap query of `createBooking` finds no stay in the
way, and its `$cond` moves the week on over the stays that the day-by-day search sees.
`InTheWaySharesANight`: that query's strict comparisons mean a shared night. The argument
is arithmetic: each moment is three times its day plus the time of day (`DayOfMoment`),
and two stays share a night if each begins before the other ends (`SharedNight`).
`SearchFindsFirstWeek`: the loop of `calculateNextAvailableWeek`, which has no bound of its
own, comes to an end at the first day without an overlap, if the stays end some day. The
function that gives each day the first one to stop at satisfies the recursive equation of
the loop, and nothing else does: take the day nearest to its stop at which another
solution differs. So `NextWeekIsFreeAndFirst`; `SortFindsFirstWeek` says the same of the
search by arrivals.

`BillingProofs` holds for any finite set of requests, any services and room services, any
lists of them in requests and on the booking, any whole quantities and prices (the DTOs
accept 0 and less). What is assumed (`BillingAssumption`) is that a booking begins with
services at the prices of the catalogue, as `createBooking` stores them, that no service
is a room service as well, and that a room service comes in a positive quantity.

The inductive invariant `BillingInv` joins the types with `VersionsAreOld` (no copy is
newer than the document), `SameVersionSameEntries` (while the version key is the loaded
one, the stored lists have the copy's items and prices at the copy's positions),
`StageTellsKind`, `CheckedOutIsInvoiced` and, while `calm`, `Calm`: one request at most is
about, its copy is the stored document, the prices it read are the prices there are, and
the total is what is listed. From it follow, whatever overlaps, `EntriesStaySound`, `ServicesStay` and the first
half of `CheckoutsStayInvoiced`; while `calm`, `TotalStaysExact`, `StaysCloseAsBilled`,
`StaysMoveForward` and the rest. `StaysCloseAsBilled` needs besides that a checkout past
its bill has billed what its copy of the booking leaves to pay (`BilledAsLoaded`), a copy
that is the stored document when it closes the stay. `EntriesAreSound` is not inductive
alone: a positional write keeps both lists in step only because every change of a list's
length advances the version key, of which the copies must be known to hold none that is
still to come. Each saving handler is first shown to be a case of `Saves` (which way
`save()` goes, with which list), so that the library's rules are argued once (`Written`).
Totals are sums of lists of any length; `Sum` and `Entered` are recursive functions, and
what they compute is shown by the smallest counterexample (`PartialSums`, `AddsOnce`).

`InvoicingProofs` holds for any invoices and any handlers. `InvoicingInv` says what each
place of a maker implies (`InvoicesAreMade`), that handlers carry only
statuses the link has had or that were brought for the invoice they serve, and redirects only
the former (`ToldIsHad`), that while nothing overlaps and no status comes late or astray
the stored status, the answer and the link follow one another (`InStep`), and of which
mails the one file can be (`FileIsOfMet`, `SentIsAttached`). From it `StatusStaysKnown`,
`StatusMovesForward`, `MailStaysSound`.

`AccountsProofs` holds for any finite set of requests, any addresses and passwords.
`AccountsInv` is about what is unique because it is new: ids and salts that were handed
out are not handed out again (`IdsAreOld`, `HashesAreOld`), so the hash that signed a link
tells whose it is (`HashTellsAccount`, `LinkTellsAccount`). From it `AccountsStaySound`,
`SessionsDoLast` and `LinksStayBound`, whatever overlaps or crashes. `CalmInv` adds, while
requests have not overlapped, that what a handler has checked still holds and that a used
link signs with a password that is gone (`CheckStillHolds`, `LinksAreSpent`), for
`ResetsAreOnce` and `StaffAreTyped`.

`CatalogProofs` holds for any finite set of requests, any stock, any whole prices, and
any list of entries of bookings. The stock is assumed to be what the handlers would have
made (`StockAssumption`): parents that exist, prices near the base price, no name twice, no
average without a rating; scores are those the DTO accepts. `CatalogInv` remembers
removals: what once was there is stored or was removed (`WasThere`), ids are not used
again, and a room without a type it ever had was updated with a blank one (`Blanked`). From it `CatalogStaysSound`, `PricesStayNear`; `AveragesAreOfRatings`,
`AveragesAreStars` and `AloneStaysExact`, with `Mean` reduced to the cardinality of a
set (`Points`); and `ListsStayRight`, of lists of any length with up to three lookups for each
entry.

`QueriesProofs` holds for any calendar, any scenario that meets `QueriesAssumption`, any
number of documents, changes and pages, and any limit.

`HistoryInv` is about the database alone: documents are finitely many and in one of their
known forms (`Sound`), whoever is new has never been there (`Fresh`), a use comes after
its promotion (`UsesLater`), whoever was there is as he was or changed (`Kept`), and states
differ in one document (`OneAtATime`). `WeeksAreFree` needs no more, with the theorems of `AvailabilityProofs` on
the two searches: the one by arrivals (`SortFindsFirstWeek`) is shown to end at a free week
by taking stays out one at a time (`FoldExists`, `SetInduction`), keeping that no stay so
far takes a night of the week and each begins before the next (`Cleared`).

`ReadsInv` adds what the reads know: pages are begun in order, each when the one before
is complete (`InOrder`); a page and a count are those of some moment of the history,
later pages of moments no earlier (`PagesSeen`); what was offered was in stock and unused
at some moment (`OffersSeen`). For `OffersStayReal` the gap between the two reads of
`getAllPromotions` is closed in `StockAndUse`: a promotion that was there at the first read,
of what the user has used, was in stock then already, or its stock rose in between
(`Raised`); one that came since was unused when it came.
For `PagesMakeTheList`: in a list that is joined at its end nobody moves down
(`NobodyPushesIn`, `NobodyMovesDown`), so no row is on two pages; a row that stays keeps its
rank, each page before its own names the next, and the page of its rank shows it.
The sort is by ranks, whose holders are unique (`RankFacts`, `SortedFacts`).

`FigureInv` adds to `HistoryInv`, for the figures of the dashboard, that bookings and
invoices last (`Lasting`), that invoices bear days of the calendar, those that came meanwhile
none before the query's first but those that were under way (`Dated`), and that each figure read is the one of some moment of the query
(`FiguresSeen`; `FiguresAreSound`). It is needed because an answer's figures are of different
moments: nothing relates them but what may have happened in between.
`FiguresAlwaysAddUp` follows in four arguments, for any documents, amounts and number of
changes:

- *Revenue* (`SoundRevenue`, `SoundExport`). A sum over a set that is cut into parts is the
  sum of the sums over them (`PartsOfTwo`, `PartsOfMany`); months cut a year
  (`MonthsOfYear`), types the invoices that have one (`TypesOfInvoices`). Invoices only
  come, so revenue read at any moment, of this year or of one that is over, lies between
  those of the beginning and the end (`RevenueGrows`). An export lists what it read first;
  what its later sheets have besides was dated before it and inserted since.
- *Counts* (`SoundStaff`, `SoundStatuses`). What two moments tell apart is at most one
  document for each change between them (`FewDiffer`), so two counts of one kind are no
  further apart than that (`NumbersMove`), and counts of kinds that exclude one another add
  up within the number of changes (`NumbersAdd`, `ThreeReads`). Statuses are read in turn
  (`StatusesInOrder`).
- *Sheets* (`SoundSheets`): who is on both sheets of staff was changed between the reads.
- *Rooms* (`SoundRooms`): each room slept in tonight has a booking that lasts, so the rooms
  said to be free are no more than those not taken.

So every safety invariant and every action property that a passing run checks is stated by
a theorem. Left to TLC is `Settles`, which is liveness under fairness and out of the
prover's reach.

## 5. Where the code and its words disagree

Shown by a run:

1. `reservation_double_booking`: both overlap queries come before either insert, against
   "The room is not available for the selected dates" (`booking.service.ts:142`).
2. `billing_lost_charge`: `totalAmount` is saved as an absolute value while entries are
   pushed without a condition; one charge is missing, against "Automated calculation of
   outstanding charges" (`README.md:18`).
3. `registered_cannot_log_in`: the password is hashed by `register` and again by
   `UserService.create`; the user is told "Password is incorrect"
   (`auth.service.ts:104`) until the password has been reset.
4. `listing_next_page`: `nextPage: number | null` (`common.type.ts:28`) is "21" after page
   2. `PaginateParams` is a type alias, so the global `ValidationPipe` leaves query strings
   as they are, and `page + 1` joins strings.

Seen in the same models without a run of their own (drop the condition on overlaps
or on spelling from the property):

- one request after the other, a promotion is used again by the same id in capital letters,
  against "User has already used this promotion" (`userPromotion.service.ts:76`): `findById`
  casts the id (`:54`), the search of the list compares it as text (`:71`) with the id as the
  server writes it (`:80`);
- one request after the other, a stay asked for under the room's id in capital letters is stored
  over one that is there, against `booking.service.ts:142`: `findOne` casts the id
  (`room.service.ts:317`), the overlap query compares it as text (`booking.service.ts:130`)
  with what earlier bookings stored. The entity declares it with `Types.ObjectId`, which
  @nestjs/mongoose makes a `Mixed` path, stored as sent; the aggregations reckon with
  that (`room.service.ts:202-206`);
- two overlapping requests of one user both use one promotion by its plain id, too; the last
  use of a promotion is given twice;
- a promotion's stock rises when a use writes back what it read before others, so that it
  may be offered to a user who has used it by the time it is in stock again;
- a service asked for again after a price change is charged at today's price and listed
  at the first one (`booking.service.ts:632`);
- a service added while `checkoutBooking` stores and mails its invoice is on the closed stay
  and on no invoice, against `README.md:18`: the status is set without a condition
  (`booking.service.ts:425`);
- a slow check-in takes a booking from checked out back to checked in, against
  `booking.service.ts:332`; a served service is pending again after the whole list was
  written back; two checkout invoices for one stay, by overlapping checkouts or by
  repeating one that failed after its invoice was stored;
- two overlapping resets with one link both change the password; two overlapping updates
  leave service staff without a service type;
- a room is updated with a blank type, against `room.service.ts:335`, which says that one is
  found: the update looks it up only if it is truthy (`:329`) and writes it in any case (`:346`);
  the DTO accepts an empty string;
- two overlapping ratings leave one out of the average, until the next rating;
- a redirect that comes late sets a paid invoice back until somebody asks PayOS again; so
  does any call of its public route, which also stores a status PayOS does not know;
- an invoice dated before an export, and inserted during it, is in the sums by type and not
  among the invoices listed;
- two overlapping mails: one customer receives the other's PDF, or a checkout fails on
  `unlinkSync` after its invoice was stored.

Seen in single handlers:

- a transfer booking is stored with `paidAmount` equal to its total before its invoice is
  made, and stays so when `createTransferInvoice` throws;
- `addServicesToBooking` tests no status, so a service added after checkout is never billed;
- a use of a promotion stays debited when `createBooking` throws after it;
- `deletePromotion` pulls the promotion from the lists as the request writes it, so that by an
  id in capital letters it is deleted and stays on the lists;
- a service whose id is written in capital letters is found by the query and not in what
  it returned (`booking.service.ts:182`): a TypeError refuses the booking;
- a room with a blank type makes the room search fail, whose `$toObjectId`
  (`room.service.ts:540`) cannot convert it;
- the default range of the revenue by room type omits 31 December
  (`admin-dashboard.controller.ts:93` and `:131`), and "the last 5 years" covers six;
- the revenue by service counts a booking's services once for each of its invoices;
- a newest-first list, which is the default, misses or repeats documents when one is
  created while somebody turns its pages;
- offers are cut out of an array with `skip + limit`, which joins strings, so that from
  page 2 on a page holds more than was asked for;
- the lists of work, the export of bookings and a room's page fail as a whole when one room,
  service, type or rater has been removed, in `getServiceStatusCount` despite
  `if (!fullService) continue` (`booking.service.ts:753`);
- the verification mail is sent without `await` or `catch` (`auth.service.ts:79`): a mail
  server that refuses it ends the process.

## 6. What is not modelled

- `addServiceToBooking`: its route supplies no quantity, so the save is always refused
  by the schema. `updateBookingStatus`: no caller.
- Sorting of lists by other fields than `createdAt`; the filters of the room search by
  features of a type; percentages of growth; layout and texts of mails, PDFs and sheets.
- `changeProfileInfo`, `changeAvatar`, images: written and never read by anything modelled.
- Access tokens (stateless), expiry of links and tokens, guards, request validation
  beyond what the models' input sets state.
- Image upload, HTTP plumbing, base repository: no state of their own.
- The seed script: its service types lack the `roomTypeId` that
  `serviceType.service.ts:30` requires, so it stops at the first of them.

Approximations: local-time days are taken as UTC days; stored stays have `from < to`;
the reads by which a list of rooms is decorated (`mapToRoomDTO`) are one read;
the revenue by room type is grouped by the type, in the code by its name; page numbers
have one digit. In `Invoicing`, a mail server that accepts a mail and then fails the call is
left out (`Reservation` has it, in `Fault`), and calls with a status nobody was sent with are
finitely many (`MaxDeliveries`). In the lists of work, the filter by status, the cut into
pages and the comparison of type ids as text are left out. `Availability` and `Queries` take
the ids of rooms, types and promotions to be written plainly wherever they are stored: what
other spellings do is the matter of `Promotion` and `Reservation`, and of blank types that of
`Catalog`. In `Queries` a document changes at most once while one query runs.

## 7. Plan

Done, in this order: `Promotion` with its ledger and proofs, `Reservation` with the
calendar and proofs, `Billing`, `Invoicing`, `Accounts`, `Catalog`, `Availability` with
its proofs, `Queries`.

Then the proofs of `Billing`, `Invoicing`, `Accounts` and `Catalog`, of both searches for a
free week, and of the lists, offers and pages of `Queries`.

Last, `FiguresAddUp` of `Queries`. What remains is what section 6 names, and `Settles`,
should a prover for liveness come within reach.
