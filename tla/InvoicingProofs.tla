--------------------------- MODULE InvoicingProofs ---------------------------
(***************************************************************************)
(* Theorems about Invoicing, for every set of invoices and of handlers: a  *)
(* stored status is one that PayOS gave or that was brought for the        *)
(* invoice, it moves forward while requests do not overlap, and a customer *)
(* gets the right PDF from a mail that met no other.                       *)
(***************************************************************************)
EXTENDS Invoicing, TLAPS

-----------------------------------------------------------------------------
(* The inductive invariant. *)

\* An invoice is there from its first save() on, its link from the answer of
\* PayOS on; before that nobody has been told of it.
Unlinked(i) == maker[i] \in {"none", "inserted"}
InvoicesAreMade ==
  \A i \in Invoices :
    /\ maker[i] # "none" <=> i \in DOMAIN invoice
    /\ Unlinked(i) => payos[i] = "none" /\ had[i] = {}
    /\ payos[i] = "none" \/ payos[i] \in had[i]

\* What a browser has been told is something that the link was, and so is what a
\* handler has been told, if nobody brought it.
ToldIsHad ==
  /\ \A p \in redirects : p[2] \in had[p[1]]
  /\ \A h \in Handlers :
       /\ pc[h] # "idle" => of[h] \in DOMAIN invoice
       /\ pc[h] = "found" => answer[h] \in had[of[h]] \cup stray[of[h]]

\* While nothing overlaps and no redirect comes late, one handler is about at
\* most, the status it loaded is the stored one, and what is stored, what it was
\* told and what PayOS has follow each other.
Behind(s, t) == s = t \/ <<s, t>> \in Moves
InStep ==
  /\ \A i \in DOMAIN invoice :
       IF payos[i] = "none" THEN invoice[i].status = "PENDING"
       ELSE Behind(invoice[i].status, payos[i])
  /\ \A h \in Handlers : pc[h] # "idle" =>
       /\ \A g \in Handlers : pc[g] # "idle" => g = h
       /\ loaded[h] = invoice[of[h]].status
       /\ pc[h] = "found" => Behind(loaded[h], answer[h]) /\ Behind(answer[h], payos[of[h]])

\* Two mails in the making have met; the file is of one that has, and of the
\* mail itself if that has met no other.
MailsHaveMet ==
  \A i, j \in Invoices : i # j /\ maker[i] \in Mailing /\ maker[j] \in Mailing => j \in met[i]
FileIsOfMet ==
  \A i \in Invoices : maker[i] \in Mailing =>
    /\ file \in {"torn", "none", i} \cup met[i]
    /\ met[i] = {} => file = IF maker[i] = "writing" THEN "torn" ELSE i
SentIsAttached ==
  \A i \in Invoices : attached[i] # "none" => maker[i] \in {"sent", "done", "failed"}

InvoicingInv ==
  /\ TypeOK /\ InvoicesAreMade /\ ToldIsHad /\ StatusFromPayOS
  /\ (~late => InStep)
  /\ MailsHaveMet /\ FileIsOfMet /\ SentIsAttached /\ NoStrayPDF /\ SentIsDone

-----------------------------------------------------------------------------
(* Statuses and the steps of handlers. *)

LEMMA MovesAre ==
  \A s, t : <<s, t>> \in Moves <=> \/ s = "PENDING" /\ t \in Status \ {"PENDING"}
                                   \/ s = "PROCESSING" /\ t \in {"PAID", "CANCELLED"}
BY DEF Moves

LEMMA BehindIsOrder ==
  \A s, t, u : Behind(s, t) /\ Behind(t, u) => Behind(s, u)
BY MovesAre DEF Behind, Status, Final


\* What is said of payments, and of mails.
PayingInv ==
  InvoicesAreMade /\ ToldIsHad /\ StatusFromPayOS /\ (~late => InStep)
MailInv ==
  MailsHaveMet /\ FileIsOfMet /\ SentIsAttached /\ NoStrayPDF /\ SentIsDone

LEMMA InvoicingTypeNext == InvoicingInv /\ [Next]_vars => TypeOK'
<1> SUFFICES ASSUME InvoicingInv, [Next]_vars PROVE TypeOK'
  OBVIOUS
<1>1. TypeOK /\ InvoicesAreMade
  BY DEF InvoicingInv
<1> USE DEF Advance, Mailing, paying, handling, mailing
<1>2. ASSUME NEW i \in Invoices, Make(i) PROVE TypeOK'
  <2>1. CASE Insert(i)
    BY <1>1, <2>1 DEF Insert, TypeOK, Status, Said
  <2>2. CASE CreateLink(i)
    BY <1>1, <2>2 DEF CreateLink, TypeOK, Status, Said
  <2>3. CASE SaveUrl(i)
    <3>1. i \in DOMAIN invoice /\ invoice' = [invoice EXCEPT ![i].checkoutUrl = TRUE]
      BY <1>1, <2>3 DEF SaveUrl, InvoicesAreMade
    <3>2. DOMAIN invoice' = DOMAIN invoice
          /\ \A j \in DOMAIN invoice' : invoice'[j] \in [status : Said, checkoutUrl : BOOLEAN]
      BY <1>1, <3>1 DEF TypeOK
    <3>3. QED
      BY <1>1, <2>3, <3>2 DEF SaveUrl, TypeOK
  <2>4. CASE WritePDF(i)
    <3>1. /\ maker' = [maker EXCEPT ![i] = "writing"] /\ file' = "torn"
          /\ UNCHANGED <<active, invoice, paying, handling, attached>>
      BY <2>4 DEF WritePDF
    <3>2. met' \in [Invoices -> SUBSET Invoices]
      BY <1>1, <2>4 DEF WritePDF, TypeOK
    <3>3. QED
      BY <1>1, <3>1, <3>2 DEF TypeOK
  <2>5. CASE FinishPDF(i)
    <3>1. file' \in {i, file, "torn", "none"}
      BY <2>5 DEF FinishPDF
    <3>2. QED
      BY <1>1, <2>5, <3>1 DEF FinishPDF, TypeOK
  <2>6. CASE SendMail(i)
    BY <1>1, <2>6 DEF SendMail, TypeOK
  <2>7. CASE Unlink(i)
    BY <1>1, <2>7 DEF Unlink, TypeOK
  <2>8. QED
    BY <1>2, <2>1, <2>2, <2>3, <2>4, <2>5, <2>6, <2>7 DEF Make
<1>3. ASSUME NEW i \in Invoices, MakerFault(i) PROVE TypeOK'
  BY <1>1, <1>3 DEF MakerFault, TypeOK
<1>4. ASSUME NEW i \in Invoices, NEW s \in Status, Payment(i, s) PROVE TypeOK'
  BY <1>1, <1>4 DEF Payment, TypeOK
<1>5. ASSUME NEW h \in Handlers, Ask(h) PROVE TypeOK'
  BY <1>1, <1>5 DEF Ask, TypeOK, Said
<1>6. ASSUME NEW h \in Handlers, SaveStatus(h) PROVE TypeOK'
  <2>1. PICK s : s = IF answer[h] = loaded[h] THEN invoice[of[h]].status ELSE answer[h]
    OBVIOUS
  <2>2. of[h] \in DOMAIN invoice
    BY <1>6 DEF SaveStatus, InvoicingInv, ToldIsHad
  <2>3. s \in Said
    BY <1>1, <2>1, <2>2 DEF TypeOK
  <2>4. invoice' = [invoice EXCEPT ![of[h]].status = s]
    BY <1>6, <2>1 DEF SaveStatus
  <2>5. DOMAIN invoice' = DOMAIN invoice
        /\ \A j \in DOMAIN invoice' : invoice'[j] \in [status : Said, checkoutUrl : BOOLEAN]
    BY <1>1, <2>2, <2>3, <2>4 DEF TypeOK
  <2>6. QED
    BY <1>1, <1>6, <2>5 DEF SaveStatus, TypeOK
<1>7. ASSUME NEW h \in Handlers, HandlerFault(h) PROVE TypeOK'
  BY <1>1, <1>7 DEF HandlerFault, TypeOK
<1>8. ASSUME NEW h \in Handlers, NEW i \in Invoices, Look(h, i) PROVE TypeOK'
  BY <1>1, <1>8 DEF Look, Find, Busy, TypeOK
<1>9. ASSUME NEW h \in Handlers, NEW i \in Invoices, NEW s \in Said, Deliver(h, i, s) PROVE TypeOK'
  <2>1. deliveries' \in 0 .. MaxDeliveries
    BY <1>1, <1>9, InvoicingAssumption DEF Deliver, TypeOK
  <2>2. QED
    BY <1>1, <1>9, <2>1 DEF Deliver, Find, Busy, TypeOK
<1>10. CASE UNCHANGED vars
  BY <1>1, <1>10 DEF vars, TypeOK
<1>11. QED
  BY <1>2, <1>3, <1>4, <1>5, <1>6, <1>7, <1>8, <1>9, <1>10 DEF Next

-----------------------------------------------------------------------------
(* What is stored, told and paid. *)

\* A step that only an invoice's maker takes, once the link is made.
LEMMA MakerKeepsPaying ==
  ASSUME InvoicingInv, NEW i \in Invoices, NEW to, maker' = [maker EXCEPT ![i] = to],
         maker[i] \notin {"none", "inserted"}, to \notin {"none", "inserted"},
         UNCHANGED <<paying, handling>>,
         DOMAIN invoice' = DOMAIN invoice,
         \A j \in DOMAIN invoice : invoice'[j].status = invoice[j].status
  PROVE  PayingInv'
<1> USE DEF paying, handling
<1>1. TypeOK /\ PayingInv
  BY DEF InvoicingInv, PayingInv
<1>2. maker'[i] = to /\ \A j \in Invoices \ {i} : maker'[j] = maker[j]
  BY <1>1 DEF TypeOK
<1>3. InvoicesAreMade'
  BY <1>1, <1>2 DEF PayingInv, InvoicesAreMade, Unlinked
<1>4. ToldIsHad' /\ StatusFromPayOS'
  BY <1>1 DEF PayingInv, ToldIsHad, StatusFromPayOS
<1>5. ~late => InStep'
  BY <1>1 DEF PayingInv, InStep, Behind, ToldIsHad
<1>6. QED
  BY <1>3, <1>4, <1>5 DEF PayingInv

LEMMA InsertKeepsPaying ==
  ASSUME InvoicingInv, NEW i \in Invoices, Insert(i)
  PROVE  PayingInv'
<1> USE DEF paying, handling
<1>1. TypeOK /\ PayingInv
  BY DEF InvoicingInv, PayingInv
<1>2. /\ maker[i] = "none" /\ maker'[i] = "inserted" /\ \A j \in Invoices \ {i} : maker'[j] = maker[j]
      /\ DOMAIN invoice' = DOMAIN invoice \cup {i} /\ i \notin DOMAIN invoice
      /\ invoice'[i].status = "PENDING"
      /\ \A j \in DOMAIN invoice : invoice'[j] = invoice[j]
      /\ UNCHANGED <<paying, handling>>
  BY <1>1 DEF Insert, Advance, TypeOK, PayingInv, InvoicesAreMade
<1>3. InvoicesAreMade'
  BY <1>1, <1>2 DEF PayingInv, InvoicesAreMade, Unlinked
<1>4. ToldIsHad' /\ StatusFromPayOS'
  BY <1>1, <1>2 DEF PayingInv, ToldIsHad, StatusFromPayOS
<1>5. ~late => InStep'
  <2> SUFFICES ASSUME ~late PROVE InStep'
    OBVIOUS
  <2>1. payos'[i] = "none"
    BY <1>1, <1>2 DEF PayingInv, InvoicesAreMade, Unlinked
  <2>2. QED
    BY <1>1, <1>2, <2>1 DEF PayingInv, InStep, Behind, ToldIsHad
<1>6. QED
  BY <1>2, <1>3, <1>4, <1>5 DEF PayingInv

LEMMA LinkKeepsPaying ==
  ASSUME InvoicingInv, NEW i \in Invoices, CreateLink(i) \/ MakerFault(i)
  PROVE  PayingInv'
<1> USE DEF paying, handling, mailing
<1>1. TypeOK /\ PayingInv
  BY DEF InvoicingInv, PayingInv
<1>2. CASE CreateLink(i)
  <2>1. /\ maker[i] = "inserted" /\ maker'[i] \in {"linked", "failed"}
        /\ \A j \in Invoices \ {i} : maker'[j] = maker[j] /\ payos'[j] = payos[j] /\ had'[j] = had[j]
        /\ payos'[i] = "PENDING" /\ had'[i] = {"PENDING"}
        /\ UNCHANGED <<invoice, redirects, stray, handling>>
    BY <1>1, <1>2 DEF CreateLink, Advance, TypeOK
  <2>2. had[i] = {} /\ payos[i] = "none" /\ i \in DOMAIN invoice
    BY <1>1, <2>1 DEF PayingInv, InvoicesAreMade, Unlinked
  <2>3. InvoicesAreMade'
    BY <1>1, <2>1, <2>2 DEF PayingInv, InvoicesAreMade, Unlinked
  <2>4. \A j \in Invoices : had[j] \subseteq had'[j]
    BY <2>1, <2>2
  <2>5. ToldIsHad' /\ StatusFromPayOS'
    BY <1>1, <2>1, <2>4 DEF PayingInv, ToldIsHad, StatusFromPayOS, TypeOK
  <2>6. ~late => InStep'
    <3> SUFFICES ASSUME ~late PROVE InStep'
      OBVIOUS
    <3>1. \A h \in Handlers : pc[h] = "found" => of[h] # i
      <4> SUFFICES ASSUME NEW h \in Handlers, pc[h] = "found", of[h] = i PROVE FALSE
        OBVIOUS
      <4>1. Behind(answer[h], "none")
        BY <1>1, <2>2 DEF PayingInv, InStep
      <4>2. answer[h] # "none"
        BY <1>1, InvoicingAssumption DEF TypeOK, Said, Status, Final
      <4>3. QED
        BY <4>1, <4>2, MovesAre DEF Behind, Status, Final
    <3>2. invoice[i].status = "PENDING"
      BY <1>1, <2>2 DEF PayingInv, InStep
    <3>3. \A j \in DOMAIN invoice : j \in Invoices
      BY <1>1 DEF TypeOK
    <3>4. \A j \in DOMAIN invoice :
            IF payos'[j] = "none" THEN invoice[j].status = "PENDING"
            ELSE Behind(invoice[j].status, payos'[j])
      BY <1>1, <2>1, <3>2, <3>3 DEF PayingInv, InStep, Behind
    <3>5. \A h \in Handlers : pc[h] = "found" => payos'[of[h]] = payos[of[h]]
      BY <1>1, <2>1, <3>1 DEF TypeOK
    <3>6. QED
      BY <1>1, <2>1, <3>4, <3>5 DEF PayingInv, InStep, Behind
  <2>7. QED
    BY <2>1, <2>3, <2>5, <2>6 DEF PayingInv
<1>3. CASE MakerFault(i)
  <2>1. /\ maker[i] \notin {"none"} /\ maker' = [maker EXCEPT ![i] = "failed"]
        /\ UNCHANGED <<invoice, paying, handling>>
    BY <1>3 DEF MakerFault, Advance
  <2>2. maker'[i] = "failed" /\ \A j \in Invoices \ {i} : maker'[j] = maker[j]
    BY <1>1, <2>1 DEF TypeOK
  <2>3. InvoicesAreMade'
    BY <1>1, <2>1, <2>2 DEF PayingInv, InvoicesAreMade, Unlinked
  <2>4. ToldIsHad' /\ StatusFromPayOS' /\ (~late => InStep')
    BY <1>1, <2>1 DEF PayingInv, ToldIsHad, StatusFromPayOS, InStep
  <2>5. QED
    BY <2>1, <2>3, <2>4 DEF PayingInv
<1>4. QED
  BY <1>2, <1>3

LEMMA PaymentKeepsPaying ==
  ASSUME InvoicingInv, NEW i \in Invoices, NEW s \in Status, Payment(i, s)
  PROVE  PayingInv'
<1> USE DEF handling, mailing
<1>1. TypeOK /\ PayingInv
  BY DEF InvoicingInv, PayingInv
<1>2. /\ <<payos[i], s>> \in Moves
      /\ payos'[i] = s /\ had'[i] = had[i] \cup {s}
      /\ \A j \in Invoices \ {i} : payos'[j] = payos[j] /\ had'[j] = had[j]
      /\ redirects' \subseteq redirects \cup {<<i, s>>}
      /\ UNCHANGED <<invoice, maker, stray, handling>>
  BY <1>1 DEF Payment, TypeOK
<1>3. payos[i] # "none" /\ s # "none"
  BY <1>2, MovesAre DEF Status, Final
<1>4. InvoicesAreMade'
  BY <1>1, <1>2, <1>3 DEF PayingInv, InvoicesAreMade, Unlinked
<1>5. \A j \in Invoices : had[j] \subseteq had'[j]
  BY <1>2
<1>6. ToldIsHad' /\ StatusFromPayOS'
  BY <1>1, <1>2, <1>5 DEF PayingInv, ToldIsHad, StatusFromPayOS, TypeOK
<1>7. ~late => InStep'
  <2> SUFFICES ASSUME ~late PROVE InStep'
    OBVIOUS
  <2>1. Behind(payos[i], s) /\ \A t : Behind(t, payos[i]) => Behind(t, s)
    BY <1>2, BehindIsOrder DEF Behind
  <2>2. ASSUME NEW j \in DOMAIN invoice
        PROVE  IF payos'[j] = "none" THEN invoice[j].status = "PENDING"
               ELSE (Behind(invoice[j].status, payos[j]) /\ j # i)
                    \/ (Behind(invoice[j].status, payos[i]) /\ j = i)
    BY <1>1, <1>2, <1>3 DEF PayingInv, InStep, TypeOK
  <2>3. ASSUME NEW h \in Handlers, pc[h] = "found"
        PROVE  (Behind(answer[h], payos[of[h]]) /\ of[h] # i)
               \/ (Behind(answer[h], payos[i]) /\ of[h] = i)
    BY <1>1, <2>3 DEF PayingInv, InStep
  <2>4. QED
    BY <1>1, <1>2, <2>1, <2>2, <2>3 DEF PayingInv, InStep, Behind, TypeOK
<1>8. QED
  BY <1>2, <1>4, <1>6, <1>7 DEF PayingInv

LEMMA FindKeepsPaying ==
  ASSUME InvoicingInv, NEW h \in Handlers, NEW i \in Invoices,
         Look(h, i) \/ \E s \in Said : Deliver(h, i, s)
  PROVE  PayingInv'
<1> USE DEF paying, mailing
<1>1. TypeOK /\ PayingInv
  BY DEF InvoicingInv, PayingInv
<1>2. /\ pc[h] = "idle" /\ pc'[h] \in {"looking", "found"} /\ of'[h] = i /\ i \in DOMAIN invoice
      /\ loaded'[h] = invoice[i].status
      /\ \A g \in Handlers \ {h} : pc'[g] = pc[g] /\ of'[g] = of[g] /\ loaded'[g] = loaded[g]
                                   /\ answer'[g] = answer[g]
      /\ UNCHANGED <<invoice, maker, payos, redirects, had>>
      /\ stray[i] \subseteq stray'[i] /\ \A j \in Invoices \ {i} : stray'[j] = stray[j]
      /\ ~late' => ~late /\ \A g \in Handlers : pc[g] = "idle"
  <2>1. CASE Look(h, i)
    BY <1>1, <2>1 DEF Look, Find, Busy, TypeOK
  <2>2. ASSUME NEW s \in Said, Deliver(h, i, s)
        PROVE  /\ stray[i] \subseteq stray'[i] /\ \A j \in Invoices \ {i} : stray'[j] = stray[j]
               /\ UNCHANGED <<invoice, maker, payos, redirects, had>>
    BY <1>1, <2>2 DEF Deliver, TypeOK
  <2>3. ASSUME NEW s \in Said, Deliver(h, i, s)
        PROVE  /\ pc[h] = "idle" /\ pc'[h] = "found" /\ of'[h] = i /\ i \in DOMAIN invoice
               /\ loaded'[h] = invoice[i].status
               /\ \A g \in Handlers \ {h} : pc'[g] = pc[g] /\ of'[g] = of[g]
                                        /\ loaded'[g] = loaded[g] /\ answer'[g] = answer[g]
               /\ ~late' => ~late /\ \A g \in Handlers : pc[g] = "idle"
    BY <1>1, <2>3 DEF Deliver, Find, Busy, TypeOK
  <2>4. QED
    BY <2>1, <2>2, <2>3
<1>3. pc'[h] = "found" =>
        /\ <<i, answer'[h]>> \in redirects \/ answer'[h] \in stray'[i]
        /\ answer'[h] \in Said /\ (~late' => answer'[h] = payos[i])
  <2>1. ASSUME NEW s \in Said, Deliver(h, i, s)
        PROVE  answer'[h] = s /\ (<<i, s>> \in redirects \/ s \in stray'[i])
               /\ (~late' => s = payos[i])
    BY <1>1, <2>1 DEF Deliver, Find, TypeOK
  <2>2. Look(h, i) => pc'[h] = "looking"
    BY <1>1 DEF Look, Find, TypeOK
  <2>3. CASE Look(h, i)
    BY <2>2, <2>3
  <2>4. CASE \E s \in Said : Deliver(h, i, s)
    BY <2>1, <2>4
  <2>5. QED
    BY <2>3, <2>4
<1>4. \A j \in Invoices : stray[j] \subseteq stray'[j]
  BY <1>2
<1>5. InvoicesAreMade' /\ StatusFromPayOS'
  BY <1>1, <1>2, <1>4 DEF TypeOK, PayingInv, InvoicesAreMade, Unlinked, StatusFromPayOS
<1>6. ToldIsHad'
  <2>1. pc'[h] = "found" => answer'[h] \in had[i] \cup stray'[i]
    BY <1>1, <1>3 DEF PayingInv, ToldIsHad
  <2>2. QED
    BY <1>1, <1>2, <1>4, <2>1 DEF TypeOK, PayingInv, ToldIsHad
<1>7. ~late' => InStep'
  <2> SUFFICES ASSUME ~late' PROVE InStep'
    OBVIOUS
  <2>1. pc'[h] = "found" => Behind(loaded'[h], answer'[h]) /\ Behind(answer'[h], payos[i])
    <3> SUFFICES ASSUME pc'[h] = "found"
                 PROVE  Behind(invoice[i].status, answer'[h]) /\ Behind(answer'[h], payos[i])
      BY <1>2
    <3>1. answer'[h] = payos[i]
      BY <1>3
    <3>2. payos[i] # "none"
      BY <1>3, <3>1, InvoicingAssumption DEF Said, Status, Final
    <3>3. QED
      BY <1>1, <1>2, <3>1, <3>2 DEF PayingInv, InStep, Behind
  <2>2. QED
    BY <1>1, <1>2, <2>1 DEF PayingInv, InStep, Behind
<1>8. QED
  BY <1>5, <1>6, <1>7 DEF PayingInv

\* A handler that goes on, or gives up.
LEMMA AskKeepsPaying ==
  ASSUME InvoicingInv, NEW h \in Handlers, Ask(h) \/ HandlerFault(h)
  PROVE  PayingInv'
<1> USE DEF paying, mailing
<1>1. TypeOK /\ PayingInv
  BY DEF InvoicingInv, PayingInv
<1>2. /\ pc[h] # "idle" /\ pc'[h] \in {"idle", "found"}
      /\ pc'[h] = "found" => answer'[h] = payos[of[h]] /\ payos[of[h]] # "none"
      /\ \A g \in Handlers \ {h} : pc'[g] = pc[g] /\ answer'[g] = answer[g]
      /\ UNCHANGED <<invoice, maker, payos, redirects, had, stray, of, loaded, late>>
  BY <1>1 DEF Ask, HandlerFault, TypeOK
<1>3. of[h] \in DOMAIN invoice /\ of[h] \in Invoices
  BY <1>1, <1>2 DEF PayingInv, ToldIsHad, TypeOK
<1>4. InvoicesAreMade' /\ StatusFromPayOS'
  BY <1>1, <1>2 DEF PayingInv, InvoicesAreMade, Unlinked, StatusFromPayOS
<1>5. ToldIsHad'
  BY <1>1, <1>2, <1>3 DEF PayingInv, ToldIsHad, InvoicesAreMade
<1>6. ~late' => InStep'
  BY <1>1, <1>2, <1>3 DEF PayingInv, InStep, Behind
<1>7. QED
  BY <1>4, <1>5, <1>6 DEF PayingInv

\* A handler that is in step moves the status on.
LEMMA StatusSaved ==
  ASSUME InvoicingInv, NEW h \in Handlers, SaveStatus(h)
  PROVE  /\ of[h] \in DOMAIN invoice /\ DOMAIN invoice' = DOMAIN invoice
         /\ \A j \in DOMAIN invoice \ {of[h]} : invoice'[j] = invoice[j]
         /\ \/ invoice'[of[h]].status = answer[h]
            \/ invoice'[of[h]].status = invoice[of[h]].status /\ answer[h] = loaded[h]
<1>1. of[h] \in DOMAIN invoice
  BY DEF InvoicingInv, ToldIsHad, SaveStatus
<1>2. PICK s : s = IF answer[h] = loaded[h] THEN invoice[of[h]].status ELSE answer[h]
  OBVIOUS
<1>3. invoice' = [invoice EXCEPT ![of[h]].status = s]
  BY <1>2 DEF SaveStatus
<1>4. invoice[of[h]] \in [status : Said, checkoutUrl : BOOLEAN]
  BY <1>1 DEF InvoicingInv, TypeOK
<1>5. invoice'[of[h]].status = s
  BY <1>1, <1>3, <1>4
<1>6. QED
  BY <1>1, <1>2, <1>3, <1>5

LEMMA SaveKeepsPaying ==
  ASSUME InvoicingInv, NEW h \in Handlers, SaveStatus(h)
  PROVE  PayingInv'
<1> USE DEF paying, mailing
<1>1. TypeOK /\ PayingInv
  BY DEF InvoicingInv, PayingInv
<1>2. /\ of[h] \in DOMAIN invoice /\ DOMAIN invoice' = DOMAIN invoice
      /\ \A j \in DOMAIN invoice \ {of[h]} : invoice'[j] = invoice[j]
      /\ \/ invoice'[of[h]].status = answer[h]
         \/ invoice'[of[h]].status = invoice[of[h]].status /\ answer[h] = loaded[h]
  BY StatusSaved
<1>3. /\ pc[h] = "found" /\ pc'[h] = "idle" /\ \A g \in Handlers \ {h} : pc'[g] = pc[g]
      /\ UNCHANGED <<maker, payos, redirects, had, stray, of, loaded, answer, late>>
  BY <1>1 DEF SaveStatus, TypeOK
<1>4. answer[h] \in had[of[h]] \cup stray[of[h]]
  BY <1>1, <1>3 DEF PayingInv, ToldIsHad
<1>5. InvoicesAreMade' /\ ToldIsHad'
  BY <1>1, <1>2, <1>3 DEF PayingInv, InvoicesAreMade, Unlinked, ToldIsHad
<1>6. StatusFromPayOS'
  BY <1>1, <1>2, <1>3, <1>4 DEF PayingInv, StatusFromPayOS
<1>7. ~late' => InStep'
  <2> SUFFICES ASSUME ~late PROVE InStep'
    BY <1>3
  <2>1. \A g \in Handlers : pc'[g] = "idle"
    BY <1>1, <1>3 DEF PayingInv, InStep, TypeOK
  <2>2. invoice'[of[h]].status = answer[h] /\ Behind(answer[h], payos[of[h]])
    BY <1>1, <1>2, <1>3 DEF PayingInv, InStep
  <2>3. payos[of[h]] # "none"
    BY <1>1, <2>2, MovesAre, InvoicingAssumption DEF TypeOK, Behind, Said, Status, Final
  <2>4. QED
    BY <1>1, <1>2, <1>3, <2>1, <2>2, <2>3 DEF PayingInv, InStep
<1>8. QED
  BY <1>5, <1>6, <1>7 DEF PayingInv

LEMMA PayingNext == InvoicingInv /\ [Next]_vars => PayingInv'
<1> SUFFICES ASSUME InvoicingInv, [Next]_vars PROVE PayingInv'
  OBVIOUS
<1>1. ASSUME NEW i \in Invoices, Make(i) PROVE PayingInv'
  <2>1. TypeOK
    BY DEF InvoicingInv
  <2>2. CASE Insert(i)
    BY <2>2, InsertKeepsPaying
  <2>3. CASE CreateLink(i)
    BY <2>3, LinkKeepsPaying
  <2>4. CASE SaveUrl(i)
    <3>1. i \in DOMAIN invoice /\ maker[i] = "linked"
      BY <2>4 DEF SaveUrl, Advance, InvoicingInv, InvoicesAreMade
    <3>2. DOMAIN invoice' = DOMAIN invoice
          /\ \A j \in DOMAIN invoice : invoice'[j].status = invoice[j].status
      BY <2>1, <2>4, <3>1 DEF SaveUrl, TypeOK
    <3>3. maker' = [maker EXCEPT ![i] = "saved"] /\ UNCHANGED <<paying, handling>>
      BY <2>4 DEF SaveUrl, Advance
    <3>4. QED
      BY <3>1, <3>2, <3>3, MakerKeepsPaying
  <2>5. CASE WritePDF(i) \/ FinishPDF(i)
    BY <2>5, MakerKeepsPaying DEF WritePDF, FinishPDF, Advance
  <2>6. CASE SendMail(i) \/ Unlink(i)
    BY <2>6, MakerKeepsPaying DEF SendMail, Unlink, Advance
  <2>7. QED
    BY <1>1, <2>2, <2>3, <2>4, <2>5, <2>6 DEF Make
<1>2. ASSUME NEW i \in Invoices, MakerFault(i) PROVE PayingInv'
  BY <1>2, LinkKeepsPaying
<1>3. CASE UNCHANGED vars
  BY <1>3 DEF vars, paying, handling, mailing, InvoicingInv, PayingInv, InvoicesAreMade, Unlinked,
     ToldIsHad, StatusFromPayOS, InStep
<1>4. QED
  BY <1>1, <1>2, <1>3, PaymentKeepsPaying, FindKeepsPaying, AskKeepsPaying, SaveKeepsPaying DEF Next

-----------------------------------------------------------------------------
(* Mails. *)

\* What is to be known of one mail.
MailIsRight(i) ==
  /\ \A j \in Invoices \ {i} : maker[i] \in Mailing /\ maker[j] \in Mailing => j \in met[i]
  /\ maker[i] \in Mailing =>
       /\ file \in {"torn", "none", i} \cup met[i]
       /\ met[i] = {} => file = IF maker[i] = "writing" THEN "torn" ELSE i
  /\ attached[i] # "none" => maker[i] \in {"sent", "done", "failed"}
  /\ attached[i] \in {"none", i} \/ (met[i] # {} /\ attached[i] \in met[i] \cup {"torn"})
  /\ maker[i] = "failed" /\ attached[i] # "none" => met[i] # {}

LEMMA MailsAreRight == MailInv <=> \A i \in Invoices : MailIsRight(i)
BY DEF MailInv, MailIsRight, MailsHaveMet, FileIsOfMet, SentIsAttached, NoStrayPDF, SentIsDone

\* A mail whose maker does not step: what another does to the file counts only
\* if the two have met.
LEMMA OthersKeepMail ==
  ASSUME TypeOK, NEW i \in Invoices, NEW j \in Invoices \ {i}, MailIsRight(i),
         maker'[i] = maker[i], attached'[i] = attached[i], met'[i] = met[i],
         maker'[j] \in Mailing => maker[j] \in Mailing,
         \A k \in Invoices \ {i, j} : maker'[k] = maker[k],
         file' = file \/ (maker[j] \in Mailing /\ file' \in {j, "torn", "none"})
  PROVE  MailIsRight(i)'
<1>1. maker[i] \in Mailing /\ maker[j] \in Mailing => j \in met[i]
  BY DEF MailIsRight
<1>2. QED
  BY <1>1 DEF MailIsRight

LEMMA MailNext == InvoicingInv /\ [Next]_vars => MailInv'
<1> SUFFICES ASSUME InvoicingInv, [Next]_vars PROVE MailInv'
  OBVIOUS
<1>1. TypeOK /\ \A i \in Invoices : MailIsRight(i)
  BY MailsAreRight DEF InvoicingInv, MailInv
<1>2. ASSUME UNCHANGED <<maker, mailing>> PROVE MailInv'
  BY <1>2 DEF InvoicingInv, MailInv, mailing, MailsHaveMet, FileIsOfMet, SentIsAttached,
     NoStrayPDF, SentIsDone
<1>3. ASSUME NEW i \in Invoices, Make(i) \/ MakerFault(i) PROVE MailInv'
  <2>1. \A j \in Invoices \ {i} : maker'[j] = maker[j] /\ attached'[j] = attached[j]
    BY <1>1, <1>3 DEF Make, MakerFault, Insert, CreateLink, SaveUrl, WritePDF, FinishPDF, SendMail,
       Unlink, Advance, mailing, TypeOK
  <2>2. CASE WritePDF(i)
    <3> DEFINE others == {j \in Invoices \ {i} : maker[j] \in Mailing}
    <3>1. /\ maker[i] = "saved" /\ maker'[i] = "writing" /\ file' = "torn" /\ attached' = attached
          /\ met'[i] = others
          /\ \A j \in others : met'[j] = met[j] \cup {i}
          /\ \A j \in Invoices \ {i} : j \notin others => met'[j] = met[j]
      BY <1>1, <2>2 DEF WritePDF, Advance, TypeOK
    <3>2. MailIsRight(i)'
      BY <1>1, <2>1, <3>1 DEF MailIsRight, Mailing
    <3>3. ASSUME NEW j \in Invoices \ {i} PROVE MailIsRight(j)'
      BY <1>1, <2>1, <3>1 DEF MailIsRight, Mailing
    <3>4. QED
      BY <3>2, <3>3, MailsAreRight DEF MailInv, MailIsRight, MailsHaveMet, FileIsOfMet, SentIsAttached,
         NoStrayPDF, SentIsDone
  <2>3. CASE ~WritePDF(i)
    <3>1. met' = met
      BY <1>3, <2>3 DEF Make, MakerFault, Insert, CreateLink, SaveUrl, FinishPDF, SendMail,
         Unlink, mailing
    <3>2. \/ /\ maker[i] \notin Mailing /\ maker'[i] \notin Mailing /\ file' = file
             /\ attached' = attached /\ maker[i] \notin {"done", "failed"}
          \/ FinishPDF(i) \/ SendMail(i) \/ Unlink(i) \/ MakerFault(i)
      BY <1>1, <1>3, <2>3 DEF Make, Insert, CreateLink, SaveUrl, mailing, Mailing, Advance, TypeOK
    <3>3. file' = file \/ (maker[i] \in Mailing /\ file' \in {i, "torn", "none"})
      BY <3>2 DEF FinishPDF, SendMail, Unlink, MakerFault, Advance, Mailing, mailing
    <3>4. maker'[i] \in Mailing => maker[i] \in Mailing
      BY <1>1, <3>2 DEF FinishPDF, SendMail, Unlink, MakerFault, Advance, Mailing, TypeOK
    <3>5. MailIsRight(i)'
      <4>1. CASE FinishPDF(i)
        BY <1>1, <2>1, <3>1, <4>1 DEF FinishPDF, Advance, MailIsRight, Mailing, TypeOK
      <4>2. CASE SendMail(i)
        BY <1>1, <2>1, <3>1, <4>2, InvoicingAssumption DEF SendMail, Advance, MailIsRight, Mailing, TypeOK
      <4>3. CASE Unlink(i)
        BY <1>1, <2>1, <3>1, <4>3, InvoicingAssumption DEF Unlink, Advance, MailIsRight, Mailing, TypeOK
      <4>4. CASE MakerFault(i)
        BY <1>1, <2>1, <3>1, <4>4 DEF MakerFault, Advance, MailIsRight, Mailing, mailing, TypeOK
      <4>5. CASE /\ maker[i] \notin Mailing /\ maker'[i] \notin Mailing /\ file' = file
                 /\ attached' = attached /\ maker[i] \notin {"done", "failed"}
        BY <1>1, <3>1, <4>5 DEF MailIsRight, Mailing
      <4>6. QED
        BY <3>2, <4>1, <4>2, <4>3, <4>4, <4>5
    <3>6. ASSUME NEW j \in Invoices \ {i} PROVE MailIsRight(j)'
      BY <1>1, <2>1, <3>1, <3>3, <3>4, OthersKeepMail
    <3>7. QED
      BY <3>5, <3>6, MailsAreRight DEF MailInv, MailIsRight, MailsHaveMet, FileIsOfMet, SentIsAttached,
         NoStrayPDF, SentIsDone
  <2>4. QED
    BY <2>2, <2>3
<1>4. ASSUME ~(\E i \in Invoices : Make(i) \/ MakerFault(i)) PROVE UNCHANGED <<maker, mailing>>
  BY <1>4 DEF Next, Payment, Ask, SaveStatus, HandlerFault, Look, Deliver, vars
<1>5. QED
  BY <1>2, <1>3, <1>4

-----------------------------------------------------------------------------
(* The theorems. *)

LEMMA InvoicingInit == Init => InvoicingInv
<1> SUFFICES ASSUME Init PROVE InvoicingInv
  OBVIOUS
<1> USE DEF Init
<1>1. DOMAIN invoice = {}
  OBVIOUS
<1>2. TypeOK
  <2>1. (CHOOSE i \in Invoices : TRUE) \in Invoices
    BY InvoicingAssumption
  <2>2. /\ of \in [Handlers -> Invoices] /\ pc \in [Handlers -> {"idle", "looking", "found"}]
        /\ loaded \in [Handlers -> Said] /\ answer \in [Handlers -> Said]
    BY <2>1 DEF Status, Said
  <2>3. deliveries \in 0 .. MaxDeliveries
    BY InvoicingAssumption
  <2>4. QED
    BY <1>1, <2>2, <2>3 DEF TypeOK
<1>3. PayingInv
  BY <1>1 DEF PayingInv, InvoicesAreMade, Unlinked, ToldIsHad, StatusFromPayOS, InStep
<1>4. MailInv
  BY DEF MailInv, MailsHaveMet, FileIsOfMet, SentIsAttached, NoStrayPDF, SentIsDone, Mailing
<1>5. QED
  BY <1>2, <1>3, <1>4 DEF InvoicingInv, PayingInv, MailInv

\* The whole invariant: what is stored, what has been told and what PayOS has,
\* and whose invoice the one file is.
THEOREM InvoicingInductive == Spec => []InvoicingInv
<1>1. InvoicingInv /\ [Next]_vars => InvoicingInv'
  BY InvoicingTypeNext, PayingNext, MailNext DEF InvoicingInv, PayingInv, MailInv
<1>2. QED
  BY <1>1, InvoicingInit, PTL DEF Spec

\* A stored status is PENDING, one that PayOS gave the link, or one that a call
\* brought for this very invoice, though handlers overlap and calls come late or
\* twice.
THEOREM StatusStaysKnown == Spec => []StatusIsKnown
<1>1. InvoicingInv => StatusIsKnown
  BY DEF InvoicingInv, StatusIsKnown
<1>2. QED
  BY <1>1, InvoicingInductive, PTL

\* A mail that meets no other delivers its own invoice and comes to its end; one
\* that does delivers its own, one it met, or a torn one.
THEOREM MailStaysSound == Spec => []MailIsSound
<1>1. InvoicingInv => MailIsSound
  BY DEF InvoicingInv, MailIsSound
<1>2. QED
  BY <1>1, InvoicingInductive, PTL

\* While requests do not overlap and no redirect comes late, a status does not
\* leave a final one and does not go back to an earlier one.
THEOREM StatusMovesForward == Spec => StatusGoesForward
<1>1. InvoicingInv /\ [Next]_vars =>
        [~late' => \A i \in DOMAIN invoice :
           invoice'[i].status # invoice[i].status =>
             <<invoice[i].status, invoice'[i].status>> \in Moves]_vars
  <2> SUFFICES ASSUME InvoicingInv, Next, ~late', NEW i \in DOMAIN invoice,
                      invoice'[i].status # invoice[i].status
               PROVE  <<invoice[i].status, invoice'[i].status>> \in Moves
    OBVIOUS
  <2>1. PICK h \in Handlers : SaveStatus(h)
    <3>1. \A j \in Invoices : Insert(j) => j \notin DOMAIN invoice
      BY DEF Insert, Advance, InvoicingInv, InvoicesAreMade
    <3>2. \A j \in Invoices : Insert(j) \/ SaveUrl(j) => invoice'[i].status = invoice[i].status
      BY <3>1 DEF Insert, SaveUrl, InvoicingInv, TypeOK
    <3>3. QED
      BY <3>2 DEF Next, Make, CreateLink, WritePDF, FinishPDF, SendMail, Unlink, MakerFault,
         Payment, Ask, HandlerFault, Look, Deliver
  <2>2. i = of[h] /\ invoice'[i].status = answer[h]
    BY <2>1, StatusSaved
  <2>3. InStep /\ pc[h] = "found"
    BY <2>1 DEF SaveStatus, InvoicingInv
  <2>4. loaded[h] = invoice[i].status /\ Behind(loaded[h], answer[h])
    BY <2>2, <2>3 DEF InStep
  <2>5. QED
    BY <2>2, <2>4 DEF Behind
<1>2. QED
  BY <1>1, InvoicingInductive, PTL DEF Spec, StatusGoesForward
=============================================================================
