----------------------------- MODULE Invoicing -----------------------------
(***************************************************************************)
(* Invoices after the booking handlers asked for them: InvoiceService, the *)
(* redirects of InvoiceController, and the mail with the PDF.              *)
(*                                                                         *)
(* PayOS is outside.  It keeps a status for each payment link, and sends   *)
(* the customer's browser back with the status it then has; the browser    *)
(* may call late, again, or never.  That route is open to everybody, so    *)
(* that a call may also bring a status PayOS sent nobody with.  The server *)
(* learns the status from these calls and from asking, and stores what it  *)
(* is told.                                                                *)
(***************************************************************************)
EXTENDS Naturals, FiniteSets

CONSTANTS
  Invoices,       \* each is made, and mailed, by a handler of its own
  Handlers,       \* what serves the other requests, one after another
  Strays,         \* what a call may bring without having been told to by PayOS
  MaxDeliveries,  \* bound: how often browsers call with a status
  Scenarios       \* bound: the invoices that are made, and those that anybody
                  \* then pays or asks for

ASSUME InvoicingAssumption ==
  /\ MaxDeliveries \in Nat
  /\ Scenarios \subseteq [made : SUBSET Invoices, asked : SUBSET Invoices]
  /\ Invoices # {} /\ {"none", "torn"} \cap Invoices = {}
  /\ "none" \notin Strays

VARIABLES
  active,      \* one of Scenarios
  invoice,     \* the stored invoices
  maker,       \* where the handler that makes an invoice stands
  payos,       \* the status of its link at PayOS, "none" without one
  redirects,   \* the calls browsers have been told to make
  deliveries,  \* how many they have made
  pc, of,      \* a handler, the invoice it serves,
  loaded,      \* the status it loaded
  answer,      \* and the one it was told
  file,        \* invoice.pdf: whose it is, "torn", or "none"
  attached,    \* what went out with the mail of an invoice
  had,         \* history: the statuses a link has had
  stray,       \* history: those brought that PayOS had sent nobody with
  met,         \* history: the mails that were in the making at the same time
  late         \* history: handlers have overlapped, or a status came late
               \* or astray

paying == <<payos, redirects, had, stray>>
handling == <<deliveries, pc, of, loaded, answer, late>>
mailing == <<file, attached, met>>
vars == <<active, invoice, maker, paying, handling, mailing>>

Final == {"PAID", "CANCELLED", "EXPIRED"}
Status == {"PENDING", "PROCESSING"} \cup Final
Said == Status \cup Strays
\* What a payment may come to; external.
Moves == {<<"PENDING", s>> : s \in Status \ {"PENDING"}}
         \cup {<<"PROCESSING", s>> : s \in {"PAID", "CANCELLED"}}
Mailing == {"writing", "written", "sent"}

TypeOK ==
  /\ active \in Scenarios
  /\ DOMAIN invoice \subseteq Invoices
  /\ \A i \in DOMAIN invoice : invoice[i] \in [status : Said, checkoutUrl : BOOLEAN]
  /\ maker \in [Invoices -> {"none", "inserted", "linked", "saved", "done", "failed"} \cup Mailing]
  /\ payos \in [Invoices -> Status \cup {"none"}]
  /\ redirects \subseteq Invoices \X Status
  /\ deliveries \in 0 .. MaxDeliveries
  /\ pc \in [Handlers -> {"idle", "looking", "found"}]
  /\ of \in [Handlers -> Invoices]
  /\ loaded \in [Handlers -> Said] /\ answer \in [Handlers -> Said]
  /\ file \in Invoices \cup {"none", "torn"}
  /\ attached \in [Invoices -> Invoices \cup {"none", "torn"}]
  /\ had \in [Invoices -> SUBSET Status]
  /\ stray \in [Invoices -> SUBSET Strays]
  /\ met \in [Invoices -> SUBSET Invoices]
  /\ late \in BOOLEAN

Init ==
  /\ active \in Scenarios
  /\ invoice = <<>>
  /\ maker = [i \in Invoices |-> "none"]
  /\ payos = [i \in Invoices |-> "none"] /\ redirects = {}
  /\ deliveries = 0
  /\ pc = [h \in Handlers |-> "idle"]
  /\ of = [h \in Handlers |-> CHOOSE i \in Invoices : TRUE]
  /\ loaded = [h \in Handlers |-> "PENDING"] /\ answer = loaded
  /\ file = "none"
  /\ attached = [i \in Invoices |-> "none"]
  /\ had = [i \in Invoices |-> {}]
  /\ stray = [i \in Invoices |-> {}]
  /\ met = [i \in Invoices |-> {}]
  /\ late = FALSE

Advance(i, from, to) == maker[i] = from /\ maker' = [maker EXCEPT ![i] = to]

-----------------------------------------------------------------------------
(* createInvoice, called by POST /invoices and by the booking handlers. *)

Insert(i) ==
  /\ i \in active.made /\ Advance(i, "none", "inserted")
  /\ invoice' = [j \in DOMAIN invoice \cup {i} |->
                   IF j = i THEN [status |-> "PENDING", checkoutUrl |-> FALSE] ELSE invoice[j]]
  /\ UNCHANGED <<active, paying, handling, mailing>>

\* createPaymentLink; its answer may get lost, which fails the request.
CreateLink(i) ==
  /\ Advance(i, "inserted", "linked") \/ Advance(i, "inserted", "failed")
  /\ payos' = [payos EXCEPT ![i] = "PENDING"]
  /\ had' = [had EXCEPT ![i] = {"PENDING"}]
  /\ UNCHANGED <<active, invoice, redirects, stray, handling, mailing>>

\* The second save() sends the one path that changed, not the status.
SaveUrl(i) ==
  /\ Advance(i, "linked", "saved")
  /\ invoice' = [invoice EXCEPT ![i].checkoutUrl = TRUE]
  /\ UNCHANGED <<active, paying, handling, mailing>>

-----------------------------------------------------------------------------
(* sendInvoiceEmail: every mail writes, attaches and deletes one file. *)

\* Mutant: a PDF that is there is not written again.
WritePDFOnce(i) ==
  /\ \/ file = "none" /\ Advance(i, "saved", "writing") /\ file' = "torn"
     \/ file # "none" /\ Advance(i, "saved", "written") /\ UNCHANGED file
  /\ UNCHANGED <<active, invoice, paying, handling, attached, met>>

\* page.pdf opens invoice.pdf and truncates it.
WritePDF(i) ==
  LET others == {j \in Invoices \ {i} : maker[j] \in Mailing} IN
  /\ Advance(i, "saved", "writing")
  /\ file' = "torn"
  /\ met' = [j \in Invoices |-> CASE j = i -> others
                                  [] j \in others -> met[j] \cup {i}
                                  [] OTHER -> met[j]]
  /\ UNCHANGED <<active, invoice, paying, handling, attached>>

\* It is written and closed.  With another mail about, that one may have
\* deleted it, written its own, or written into it.
FinishPDF(i) ==
  /\ Advance(i, "writing", "written")
  /\ file' \in CASE met[i] = {}                      -> {i}
                [] met[i] # {} /\ file = "none"   -> {"none"}
                [] met[i] # {} /\ file # "none"   -> {i, file, "torn"}
  /\ UNCHANGED <<active, invoice, paying, handling, attached, met>>

\* sendMail opens it again, and fails if it is gone.
SendMail(i) ==
  /\ \/ /\ file # "none" /\ Advance(i, "written", "sent")
        /\ attached' = [attached EXCEPT ![i] = file]
     \/ file = "none" /\ Advance(i, "written", "failed") /\ UNCHANGED attached
  /\ UNCHANGED <<active, invoice, paying, handling, file, met>>

\* unlinkSync throws if the file is gone.
Unlink(i) ==
  /\ \/ file # "none" /\ Advance(i, "sent", "done") /\ file' = "none"
     \/ file = "none" /\ Advance(i, "sent", "failed") /\ UNCHANGED file
  /\ UNCHANGED <<active, invoice, paying, handling, attached, met>>

\* What the maker awaits fails: the file stays as it is.
MakerFault(i) ==
  /\ \E from \in {"inserted", "linked", "saved", "writing", "written"} : Advance(i, from, "failed")
  /\ UNCHANGED <<active, invoice, paying, handling, mailing>>

-----------------------------------------------------------------------------
(* PayOS. *)

\* The customer pays or cancels, once the link is known; or it expires.
Payment(i, s) ==
  /\ i \in active.asked /\ <<payos[i], s>> \in Moves
  /\ s \in {"PROCESSING", "PAID"} => invoice[i].checkoutUrl
  /\ payos' = [payos EXCEPT ![i] = s]
  /\ had' = [had EXCEPT ![i] = @ \cup {s}]
  /\ redirects' = redirects \cup IF s = "EXPIRED" THEN {} ELSE {<<i, s>>}
  /\ UNCHANGED <<active, invoice, maker, stray, handling, mailing>>

-----------------------------------------------------------------------------
(* The requests about an invoice. *)

\* A handler finds the invoice and goes on to the next await.
Find(h, i, where) ==
  /\ i \in active.asked /\ pc[h] = "idle" /\ i \in DOMAIN invoice
  /\ of' = [of EXCEPT ![h] = i]
  /\ loaded' = [loaded EXCEPT ![h] = invoice[i].status]
  /\ pc' = [pc EXCEPT ![h] = where]

Busy == \E h \in Handlers : pc[h] # "idle"

\* updateInvoiceStatusByOrderCode: the status is the one in the call, which need
\* not be a redirect.  An empty one fails save(), see HandlerFault.
Deliver(h, i, s) ==
  /\ <<i, s>> \in redirects \/ s \in Strays
  /\ deliveries < MaxDeliveries
  /\ Find(h, i, "found")
  /\ answer' = [answer EXCEPT ![h] = s]
  /\ deliveries' = deliveries + 1
  /\ stray' = [stray EXCEPT ![i] = @ \cup IF <<i, s>> \in redirects THEN {} ELSE {s}]
  /\ late' = (late \/ Busy \/ s # payos[i])
  /\ UNCHANGED <<active, invoice, maker, payos, redirects, had, mailing>>

\* getInvoiceById
Look(h, i) ==
  /\ Find(h, i, "looking")
  /\ late' = (late \/ Busy)
  /\ UNCHANGED <<active, invoice, maker, deliveries, answer, paying, mailing>>

\* Mutant: only a payment counts.
AskPaid(h) ==
  /\ pc[h] = "looking"
  /\ answer' = [answer EXCEPT ![h] = IF payos[of[h]] = "none" THEN @ ELSE payos[of[h]]]
  /\ pc' = [pc EXCEPT ![h] = IF payos[of[h]] = "PAID" THEN "found" ELSE "idle"]
  /\ UNCHANGED <<active, invoice, maker, deliveries, of, loaded, late, paying, mailing>>
\* Mutant: PayOS is not asked again after it has once answered.
AskCached(h) ==
  /\ pc[h] = "looking"
  /\ answer' = [answer EXCEPT ![h] = IF @ # "PENDING" \/ payos[of[h]] = "none" THEN @
                                     ELSE payos[of[h]]]
  /\ pc' = [pc EXCEPT ![h] = IF answer'[h] = "PENDING" THEN "idle" ELSE "found"]
  /\ UNCHANGED <<active, invoice, maker, deliveries, of, loaded, late, paying, mailing>>

\* PayOS is asked; without a link it throws; a pending payment changes nothing.
Ask(h) ==
  /\ pc[h] = "looking"
  /\ \/ /\ payos[of[h]] \in {"none", "PENDING"}
        /\ pc' = [pc EXCEPT ![h] = "idle"]
        /\ UNCHANGED answer
     \/ /\ payos[of[h]] \notin {"none", "PENDING"}
        /\ answer' = [answer EXCEPT ![h] = payos[of[h]]]
        /\ pc' = [pc EXCEPT ![h] = "found"]
  /\ UNCHANGED <<active, invoice, maker, deliveries, of, loaded, late, paying, mailing>>

\* Mutant: a redirect means payment.
SaveStatusPaid(h) ==
  /\ pc[h] = "found"
  /\ invoice' = [invoice EXCEPT ![of[h]].status = "PAID"]
  /\ pc' = [pc EXCEPT ![h] = "idle"]
  /\ UNCHANGED <<active, maker, deliveries, of, loaded, answer, late, paying, mailing>>

\* Both handlers: the status is set and saved.  It is sent only if it is not
\* the one that was loaded; then it is written whatever is stored by now.
SaveStatus(h) ==
  /\ pc[h] = "found"
  /\ invoice' = [invoice EXCEPT ![of[h]].status = IF answer[h] = loaded[h] THEN @ ELSE answer[h]]
  /\ pc' = [pc EXCEPT ![h] = "idle"]
  /\ UNCHANGED <<active, maker, deliveries, of, loaded, answer, late, paying, mailing>>

\* The awaited call fails.
HandlerFault(h) ==
  /\ pc[h] # "idle"
  /\ pc' = [pc EXCEPT ![h] = "idle"]
  /\ UNCHANGED <<active, invoice, maker, deliveries, of, loaded, answer, late, paying, mailing>>

-----------------------------------------------------------------------------
Make(i) ==
  \/ Insert(i) \/ CreateLink(i) \/ SaveUrl(i)
  \/ WritePDF(i) \/ FinishPDF(i) \/ SendMail(i) \/ Unlink(i)

Next ==
  \/ \E i \in Invoices : Make(i) \/ MakerFault(i) \/ \E s \in Status : Payment(i, s)
  \/ \E h \in Handlers :
       \/ Ask(h) \/ SaveStatus(h) \/ HandlerFault(h)
       \/ \E i \in Invoices : Look(h, i) \/ \E s \in Said : Deliver(h, i, s)

\* Somebody goes on asking for the invoice, and of the calls a handler awaits
\* not all fail.  Nothing is asked of makers, browsers, or PayOS.
Fairness ==
  /\ \A i \in Invoices : SF_vars(\E h \in Handlers : Look(h, i))
  /\ \A h \in Handlers : SF_vars(Ask(h)) /\ SF_vars(SaveStatus(h))

Spec == Init /\ [][Next]_vars /\ Fairness

-----------------------------------------------------------------------------
\* The stored status is one the link has had at PayOS, if not the newest, or one
\* that somebody brought for this invoice.
StatusFromPayOS ==
  \A i \in DOMAIN invoice : invoice[i].status \in had[i] \cup {"PENDING"} \cup stray[i]

\* If requests for an invoice do not overlap and no status comes late or astray,
\* it does not leave a final one, and does not go back to an earlier one.
StatusGoesForward ==
  [][~late' => \A i \in DOMAIN invoice :
       invoice'[i].status # invoice[i].status => <<invoice[i].status, invoice'[i].status>> \in Moves]_vars

\* An invoice that goes on being asked for ends up with the status of its link,
\* also when redirects are lost, come late or twice, when a status was brought
\* that PayOS had sent nobody with, and when a handler writes an answer that is
\* out of date by then.
Settles ==
  \A i \in Invoices : <>[](payos[i] \in Final => invoice[i].status = payos[i])

\* A customer who receives someone else's PDF, or part of one, owes it to a mail
\* in the making at the same time; one that failed earlier leaves a file behind
\* that harms nobody.
NoStrayPDF ==
  \A i \in Invoices :
    \/ attached[i] \in {"none", i}
    \/ met[i] # {} /\ attached[i] \in met[i] \cup {"torn"}

\* A mail that went out fails its request only if another was in the making.
SentIsDone ==
  \A i \in Invoices : maker[i] = "failed" /\ attached[i] # "none" => met[i] # {}

\* An invoice is what it was made to be, what PayOS said, or what was brought for
\* it: no status reaches it from another invoice or out of nowhere.
StatusIsKnown == TypeOK /\ StatusFromPayOS

\* A mail that meets no other delivers its own invoice and comes to its end.
MailIsSound == NoStrayPDF /\ SentIsDone

=============================================================================
