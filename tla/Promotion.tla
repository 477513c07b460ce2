----------------------------- MODULE Promotion -----------------------------
(***************************************************************************)
(* Promotions and their redemption: src/src/modules/promotion.             *)
(*                                                                         *)
(* Two MongoDB collections are shared by all requests: "promotions", whose *)
(* documents carry the number of uses left (amount), and "userPromotions", *)
(* one document per user with the list of promotions that user has used.   *)
(* The server is one Node process, so a handler runs without interruption  *)
(* between two awaits and any other handler may run at an await.  Each     *)
(* action below is one such stretch: an awaited database call together     *)
(* with the code around it.                                                *)
(*                                                                         *)
(* A request is identified by a member of Requests and is served once.     *)
(* It also identifies the list entry it pushes (the subdocument's _id).    *)
(*                                                                         *)
(* A promotion's id travels as text.  Mongoose's findById casts it, so     *)
(* that one id may be written in several ways (in capital letters, say),   *)
(* while what a user's list holds is compared as text with the request.    *)
(***************************************************************************)
EXTENDS Integers, FiniteSets

CONSTANTS
  Requests,  \* HTTP requests: uses of a promotion and deletions of one
  Users,     \* customers
  Promos,    \* ids that createPromotion may hand out
  Amounts,   \* the amounts an administrator may type in (whole numbers)
  Spellings, \* the ways a request may write an id that is cast to the same one
  Plain,     \* the one in which the server itself writes it
  Serial     \* TRUE: the environment sends a request after the last is answered

ASSUME RequestsFinite == IsFiniteSet(Requests)
ASSUME AmountsInt == Amounts \subseteq Int
ASSUME PlainIsSpelling == Plain \in Spellings
ASSUME SerialBool == Serial \in BOOLEAN

VARIABLES
  created,   \* history: the ids createPromotion has handed out
  stored,    \* promotions: the ids present in the collection
  amount,    \* promotions: the field amount
  born,      \* history: the amount a promotion was created with
  debited,   \* history: the requests whose promotion.save() reached a promotion
  records,   \* userPromotions: the users that have a document
  history,   \* userPromotions: the entries of a user's list, by promotion
  pc,        \* where a request stands
  user,      \* the user a request acts for, and
  promo,     \* the promotion it is about, as the request says,
  spelt,     \* and how the request spells the promotion's id
  seen,      \* the amount usePromotion read
  fresh      \* usePromotion found no document for the user and built a new one

db == <<created, stored, amount, born, debited, records, history>>
locals == <<user, promo, spelt, seen, fresh>>
vars == <<db, pc, locals>>

\* Requests whose handler is at an await.
InFlight == {"read", "checked", "saved", "pulling"}
\* "rejected": the handler threw before writing; "failed": a call it awaited
\* failed, or the process died there, and what it had written stays.
Answered == {"used", "deleted", "rejected", "failed"}

TypeOK ==
  /\ created \in SUBSET Promos
  /\ stored \in SUBSET created
  /\ amount \in [Promos -> Int]
  /\ born \in [Promos -> Int]
  /\ debited \in [Promos -> SUBSET Requests]
  /\ records \in SUBSET Users
  /\ history \in [Users -> [Promos -> SUBSET Requests]]
  /\ pc \in [Requests -> {"idle"} \cup InFlight \cup Answered]
  /\ user \in [Requests -> Users]
  /\ promo \in [Requests -> Promos]
  /\ spelt \in [Requests -> Spellings]
  /\ seen \in [Requests -> Int]
  /\ fresh \in [Requests -> BOOLEAN]

Init ==
  /\ created = {}
  /\ stored = {}
  /\ amount = [p \in Promos |-> 0]
  /\ born = [p \in Promos |-> 0]
  /\ debited = [p \in Promos |-> {}]
  /\ records = {}
  /\ history = [u \in Users |-> [p \in Promos |-> {}]]
  /\ pc = [r \in Requests |-> "idle"]
  /\ user \in [Requests -> Users]
  /\ promo \in [Requests -> Promos]
  /\ spelt \in [Requests -> Spellings]
  /\ seen = [r \in Requests |-> 0]
  /\ fresh = [r \in Requests |-> FALSE]

-----------------------------------------------------------------------------
(* The environment. *)

\* A request arrives; under Serial only when no other is being served.
Admit(r) ==
  /\ pc[r] = "idle"
  /\ Serial => \A q \in Requests : pc[q] \notin InFlight

\* The awaited call of r rejects, or the server goes down while r waits: the
\* handler does no more, and nothing undoes what it has written.
Abort(r) ==
  /\ pc[r] \in InFlight
  /\ pc' = [pc EXCEPT ![r] = "failed"]
  /\ UNCHANGED <<db, locals>>

-----------------------------------------------------------------------------
(* POST /promotions *)

\* createPromotion: one insert, under an id that was never used before.
CreatePromotion(p, n) ==
  /\ p \notin created
  /\ created' = created \cup {p}
  /\ stored' = stored \cup {p}
  /\ amount' = [amount EXCEPT ![p] = n]
  /\ born' = [born EXCEPT ![p] = n]
  /\ UNCHANGED <<debited, records, history, pc, locals>>

-----------------------------------------------------------------------------
(* usePromotion: two reads, then two saves, each behind an await. *)

\* Mutant: the test of amount lets a promotion with nothing left through.
ReadPromotionAtZero(r) ==
  /\ Admit(r)
  /\ promo[r] \in stored /\ amount[promo[r]] >= 0
  /\ pc' = [pc EXCEPT ![r] = "read"]
  /\ seen' = [seen EXCEPT ![r] = amount[promo[r]]]
  /\ UNCHANGED <<db, user, promo, spelt, fresh>>

\* findById(promotionId): no such promotion, or none left, and the handler
\* throws; otherwise it keeps the amount it read.
ReadPromotion(r) ==
  LET p == promo[r] IN
  /\ Admit(r)
  /\ \/ /\ p \in stored /\ amount[p] > 0
        /\ pc' = [pc EXCEPT ![r] = "read"]
        /\ seen' = [seen EXCEPT ![r] = amount[p]]
     \/ /\ ~(p \in stored /\ amount[p] > 0)
        /\ pc' = [pc EXCEPT ![r] = "rejected"]
        /\ UNCHANGED seen
  /\ UNCHANGED <<db, user, promo, spelt, fresh>>

\* Mutant: the user's list is not searched for the promotion.
ReadUserPromotionUnchecked(r) ==
  /\ pc[r] = "read"
  /\ pc' = [pc EXCEPT ![r] = "checked"]
  /\ fresh' = [fresh EXCEPT ![r] = user[r] \notin records]
  /\ UNCHANGED <<db, user, promo, spelt, seen>>

\* The list holds the text of the request's id: what was pushed is the id as
\* the server writes it, so one spelt otherwise is not found.
Listed(r) == spelt[r] = Plain /\ history[user[r]][promo[r]] # {}

\* findOne({ userId }): a document that lists the promotion and the handler
\* throws; no document and it builds an empty one in memory.
ReadUserPromotion(r) ==
  /\ pc[r] = "read"
  /\ \/ /\ ~Listed(r)
        /\ pc' = [pc EXCEPT ![r] = "checked"]
        /\ fresh' = [fresh EXCEPT ![r] = user[r] \notin records]
     \/ /\ Listed(r)
        /\ pc' = [pc EXCEPT ![r] = "rejected"]
        /\ UNCHANGED fresh
  /\ UNCHANGED <<db, user, promo, spelt, seen>>

\* promotion.save() with n taken off the amount that was read.
SavePromotionLess(r, n) ==
  /\ pc[r] = "checked" /\ promo[r] \in stored
  /\ amount' = [amount EXCEPT ![promo[r]] = seen[r] - n]
  /\ debited' = [debited EXCEPT ![promo[r]] = @ \cup {r}]
  /\ pc' = [pc EXCEPT ![r] = "saved"]
  /\ UNCHANGED <<created, stored, born, records, history, locals>>
\* Mutant: the decrement is forgotten.
SavePromotionUndebited(r) == SavePromotionLess(r, 0)
\* Mutant: the decrement is made twice.
SavePromotionTwice(r) == SavePromotionLess(r, 2)

\* promotion.save(): the field is set to what was read, less one, whatever it
\* is now.  The save of a document that was deleted meanwhile throws.
SavePromotion(r) ==
  LET p == promo[r] IN
  /\ pc[r] = "checked"
  /\ \/ /\ p \in stored
        /\ amount' = [amount EXCEPT ![p] = seen[r] - 1]
        /\ debited' = [debited EXCEPT ![p] = @ \cup {r}]
        /\ pc' = [pc EXCEPT ![r] = "saved"]
     \/ /\ p \notin stored
        /\ pc' = [pc EXCEPT ![r] = "failed"]
        /\ UNCHANGED <<amount, debited>>
  /\ UNCHANGED <<created, stored, born, records, history, locals>>

\* userPromotion.save() at one of the given positions, pushing entry e.
SaveUserPromotionAt(r, at, e) ==
  /\ pc[r] \in at
  /\ records' = records \cup {user[r]}
  /\ history' = [history EXCEPT ![user[r]][promo[r]] = @ \cup {e}]
  /\ pc' = [pc EXCEPT ![r] = "used"]
  /\ UNCHANGED <<created, stored, amount, born, debited, locals>>
\* Mutant: the user's list is saved without waiting for promotion.save().
SaveUserPromotionEarly(r) == SaveUserPromotionAt(r, {"checked", "saved"}, r)
\* Mutant: the promotion's id is pushed where an entry belongs.
SaveUserPromotionBareId(r) == SaveUserPromotionAt(r, {"saved"}, promo[r])

\* userPromotion.save(): the insert of a new document, which the unique index
\* on userId refuses if one was inserted meanwhile, or a $push on the old one.
SaveUserPromotion(r) ==
  LET u == user[r] IN
  /\ pc[r] = "saved"
  /\ \/ /\ ~fresh[r] \/ u \notin records
        /\ records' = records \cup {u}
        /\ history' = [history EXCEPT ![u][promo[r]] = @ \cup {r}]
        /\ pc' = [pc EXCEPT ![r] = "used"]
     \/ /\ fresh[r] /\ u \in records
        /\ pc' = [pc EXCEPT ![r] = "failed"]
        /\ UNCHANGED <<records, history>>
  /\ UNCHANGED <<created, stored, amount, born, debited, locals>>

-----------------------------------------------------------------------------
(* DELETE /promotions/:id *)

\* findByIdAndDelete, which throws if there is nothing to delete.
DeletePromotion(r) ==
  LET p == promo[r] IN
  /\ Admit(r)
  /\ stored' = stored \ {p}
  /\ pc' = [pc EXCEPT ![r] = IF p \in stored THEN "pulling" ELSE "rejected"]
  /\ UNCHANGED <<created, amount, born, debited, records, history, locals>>

\* updateMany({}, { $pull }): the promotion leaves every user's list, where it
\* stands as the server writes it.
PullPromotion(r) ==
  /\ pc[r] = "pulling"
  /\ history' = IF spelt[r] = Plain
                THEN [u \in Users |-> [history[u] EXCEPT ![promo[r]] = {}]]
                ELSE history
  /\ pc' = [pc EXCEPT ![r] = "deleted"]
  /\ UNCHANGED <<created, stored, amount, born, debited, records, locals>>

-----------------------------------------------------------------------------
UseStep(r) ==
  ReadPromotion(r) \/ ReadUserPromotion(r) \/ SavePromotion(r) \/ SaveUserPromotion(r)
DeleteStep(r) == DeletePromotion(r) \/ PullPromotion(r)

Next ==
  \/ \E p \in Promos, n \in Amounts : CreatePromotion(p, n)
  \/ \E r \in Requests : UseStep(r) \/ DeleteStep(r) \/ Abort(r)

Spec == Init /\ [][Next]_vars

-----------------------------------------------------------------------------
(* What the two collections promise. *)

Floor(n) == IF n < 0 THEN n ELSE 0
\* The entries, in all users' lists, for promotion p.
Entries(p) == UNION {history[u][p] : u \in Users}

\* However uses interleave, lost updates included, usePromotion (its test of
\* amount, and the absolute value it saves) keeps a promotion's amount between
\* nothing and what it was created with.
AmountBounds ==
  \A p \in created : Floor(born[p]) <= amount[p] /\ amount[p] <= born[p]

\* A promotion never loses more than one use per promotion.save(), whatever
\* stale amounts are written back: stock can be won by a race, never lost.
NoStockLost ==
  \A p \in created : amount[p] + Cardinality(debited[p]) >= born[p]

\* userPromotion.save() comes after promotion.save(): an entry in a user's
\* list stands for a debit that was made, and for that user and promotion.
EntryIsDebited ==
  \A u \in Users, p \in Promos : \A r \in history[u][p] :
    r \in debited[p] /\ user[r] = u /\ promo[r] = p

\* What usePromotion's search of the list gives of "User has already used this
\* promotion" (userPromotion.service.ts:76), one request at a time: of a user's
\* uses of a promotion one at most was asked for as the server writes the id,
\* however the others were spelt, before it or after.
OnePlainUsePerUser ==
  \A u \in Users, p \in Promos : \A r, q \in history[u][p] :
    spelt[r] = Plain /\ spelt[q] = Plain => r = q

\* "Promotion is no longer available" (userPromotion.service.ts:60): no more
\* uses are recorded than the promotion had.
NoOverRedemption ==
  \A p \in created : Cardinality(Entries(p)) <= born[p] - Floor(born[p])

\* One request at a time, the amount is exactly what is left: a use that was
\* debited is a use that is recorded, unless it failed between the two saves.
StockIsExact ==
  \A p \in created : amount[p] = born[p] - Cardinality(debited[p])

\* One request at a time, a user's use of a promotion by its plain id is recorded
\* once, uses stay within the stock, and each was debited.
RedemptionsAreExact == OnePlainUsePerUser /\ NoOverRedemption /\ StockIsExact

-----------------------------------------------------------------------------
(* The mapping to PromotionLedger.  A debit counts when the use is recorded *)
(* or has failed: until then the request that made it still owes the ledger *)
(* its step.                                                               *)

Owing(p) == \E r \in Requests : pc[r] = "saved" /\ promo[r] = p
LedgerStock == [p \in Promos |-> amount[p] + IF Owing(p) THEN 1 ELSE 0]
LedgerHolders ==
  [p \in Promos |-> {<<user[r], spelt[r]>> : r \in Entries(p)}]

Ledger == INSTANCE PromotionLedger
            WITH live <- stored, stock <- LedgerStock, holders <- LedgerHolders

\* One request at a time, usePromotion and deletePromotion are the atomic
\* operations of the ledger, also when a request fails between its two writes.
LedgerSpec == Ledger!Spec

=============================================================================
