--------------------------- MODULE AccountsProofs ---------------------------
(***************************************************************************)
(* Theorems about Accounts, for every set of requests, addresses and       *)
(* passwords.  The first part holds however requests interleave; the       *)
(* second is about what a reset and an administrator's update promise as   *)
(* long as no two requests have overlapped.                                *)
(***************************************************************************)
EXTENDS Accounts, FiniteSetTheorems, TLAPS

-----------------------------------------------------------------------------
(* The inductive invariant. *)

\* Where a request stands tells what it was asked.
StageTellsKind ==
  \A r \in Requests :
    /\ pc[r] = "hashing" => ask[r].kind \in {"register", "createUser", "google"}
    /\ pc[r] = "created" => ask[r].kind = "register"
    /\ pc[r] = "signed"  => ask[r].kind \in {"register", "sendVerify", "forgot"}
    /\ pc[r] = "known"   => ask[r].kind \in {"login", "google"}
    /\ pc[r] = "keyed"   => ask[r].kind = "forgot"
    /\ pc[r] = "matched" => ask[r].kind \in {"verify", "reset", "change", "update", "delete"}
    /\ pc[r] = "written" => ask[r].kind = "reset"
    /\ pc[r] = "unset"   => ask[r].kind = "update"

\* The unique index.
EmailsDiffer ==
  \A i, j \in DOMAIN users : users[i].email = users[j].email => i = j

\* An id is handed out once: no request works on an account that a later
\* insertion could bring back.
Inserted(i) == i = "seeded" \/ pc[i] \notin {"idle", "hashing"}
IdsAreOld ==
  /\ \A i \in DOMAIN users : Inserted(i)
  /\ \A r \in Requests : Inserted(account[r])

\* A salt is drawn once: no hash is stored, mailed or held that a request which
\* has yet to hash will produce.
Hashed(hash) == hash.salt = "seeded" \/ pc[hash.salt] \notin {"idle", "hashing", "matched"}
HashesAreOld ==
  /\ \A i \in DOMAIN users : Hashed(users[i].pw)
  /\ \A l \in mailed : Hashed(l.secret)
  /\ \A r \in Requests : Hashed(link[r].secret)

\* A registration works on the account it has made, until it sends its mail.
RegisteredOwn ==
  \A r \in Requests : pc[r] = "created" =>
    account[r] = r /\ (r \in DOMAIN users => users[r].email = ask[r].email)

\* A hash was made for the account it is stored with.
HashTellsAccount == \A i \in DOMAIN users : Owner(users[i].pw) = i

\* So was the one in a link that has been checked, while the account is there.
LinkTellsAccount ==
  \A r \in Requests :
    pc[r] = "matched" /\ ask[r].kind \in {"verify", "reset"} /\ account[r] \in DOMAIN users
      => Owner(link[r].secret) = account[r]

\* Who has signed in left a token, which nothing deletes.
SessionsAreKept ==
  \A r \in Requests : ask[r].kind \in {"login", "google"} /\ pc[r] = "done" =>
    \E t \in tokens : t.type = "refreshToken" /\ t.userId = account[r]

AccountsInv ==
  /\ TypeOK /\ StageTellsKind /\ EmailsDiffer /\ IdsAreOld /\ HashesAreOld
  /\ RegisteredOwn /\ HashTellsAccount /\ LinkTellsAccount
  /\ SessionsAreKept /\ TypeOnlyForStaff
OneAtATime == \A r, q \in Requests : pc[r] \in InFlight /\ pc[q] \in InFlight => r = q

\* A link that has been checked is still good when the password is written.
CheckStillHolds ==
  \A r \in Requests : pc[r] = "matched" /\ ask[r].kind = "reset" =>
    account[r] \in DOMAIN users /\ users[account[r]].pw = link[r].secret

\* The hash in a link that was used is nobody's any more.
LinksAreSpent ==
  \A r \in Resets : \A i \in DOMAIN users : users[i].pw # link[r].secret

\* Whose service type is about to be unset is no service staff.
UnsetOnlyOthers ==
  \A r \in Requests : pc[r] = "unset" /\ account[r] \in DOMAIN users =>
    users[account[r]].role # "service_staff"

Calm == OneAtATime /\ CheckStillHolds /\ LinksAreSpent /\ UnsetOnlyOthers
CalmInv == AccountsInv /\ ResetOnce /\ StaffHaveTypes /\ (~overlapped => Calm)

-----------------------------------------------------------------------------
(* Types. *)

LEMMA AsksTyped == Asks \subseteq AskType /\ (CHOOSE a \in Asks : TRUE) \in Asks
BY AccountsAssumption

LEMMA TypeInit == Init => TypeOK
<1> SUFFICES ASSUME Init PROVE TypeOK
  OBVIOUS
<1>1. PICK e \in Emails, p \in Passwords, v \in BOOLEAN :
        LET u == [email |-> e, pw |-> HashOf(p, 1, "seeded"), verified |-> v,
                  role |-> "user", typed |-> FALSE]
            To(kind) == [kind |-> kind, email |-> e, secret |-> u.pw]
        IN
        /\ \E there \in SUBSET {"seeded"} : users = [i \in there |-> u]
        /\ mailed \in {{}, {To("verify"), To("reset")}}
        /\ link = [r \in Requests |-> To("verify")]
  BY DEF Init
<1>2. HashOf(p, 1, "seeded") \in Hash
  BY DEF HashOf, Hash, Ids
<1>3. \A kind \in {"verify", "reset"} :
        [kind |-> kind, email |-> e, secret |-> HashOf(p, 1, "seeded")] \in Link
  BY <1>2 DEF Link
<1>4. DOMAIN users \subseteq Ids /\ users \in [DOMAIN users -> User]
  BY <1>1, <1>2 DEF User, Ids, Roles
<1>5. mailed \subseteq Link /\ link \in [Requests -> Link]
  BY <1>1, <1>3
<1>6. QED
  BY <1>4, <1>5, AsksTyped DEF Init, TypeOK, Ids

\* A document of a known id, replaced by one of its type.
LEMMA AlterTyped ==
  ASSUME TypeOK, NEW r \in Requests, NEW u,
         account[r] \in DOMAIN users => u \in User, Alter(r, u)
  PROVE  /\ DOMAIN users' = DOMAIN users
         /\ users' \in [DOMAIN users' -> User]
         /\ \A i \in DOMAIN users : i # account[r] => users'[i] = users[i]
         /\ account[r] \in DOMAIN users => users'[account[r]] = u
BY DEF TypeOK, Alter

LEMMA AddTyped ==
  ASSUME TypeOK, NEW r \in Requests, NEW u \in User, Add(r, u)
  PROVE  /\ DOMAIN users' = DOMAIN users \cup {r}
         /\ users' \in [DOMAIN users' -> User]
         /\ \A i \in DOMAIN users : i # r => users'[i] = users[i]
         /\ users'[r] = u
BY DEF TypeOK, Add

\* The link mailed to an account.
LEMMA LinkTyped ==
  ASSUME TypeOK, NEW i \in DOMAIN users, NEW kind \in {"verify", "reset"}
  PROVE  /\ i \in Ids /\ users[i] \in User /\ users[i].pw \in Hash /\ users[i].email \in Emails
         /\ [kind |-> kind, email |-> users[i].email, secret |-> users[i].pw] \in Link
BY DEF TypeOK, User, Link

LEMMA TypeNext == TypeOK /\ [Next]_vars => TypeOK'
<1> SUFFICES ASSUME TypeOK, [Next]_vars PROVE TypeOK'
  OBVIOUS
<1> USE DEF InFlight, Answered, Goto, At, Arrive
<1>1. ASSUME NEW r \in Requests, NEW a \in Asks, Register(r, a) PROVE TypeOK'
  BY <1>1 DEF Register, TypeOK
<1>2. ASSUME NEW r \in Requests, NEW a \in Asks, CreateByAdmin(r, a) PROVE TypeOK'
  BY <1>2 DEF CreateByAdmin, TypeOK
<1>3. ASSUME NEW r \in Requests, NEW a \in Asks, SendVerification(r, a) PROVE TypeOK'
  <2>1. CASE SignVerification(r)
    <3>1. PICK i \in DOMAIN users :
            /\ account' = [account EXCEPT ![r] = i]
            /\ link' = [link EXCEPT ![r] = [kind |-> "verify", email |-> users[i].email,
                                            secret |-> users[i].pw]]
            /\ pc' = [pc EXCEPT ![r] = "signed"]
      BY <2>1 DEF SignVerification, WithEmail
    <3>2. QED
      BY <1>3, <2>1, <3>1, LinkTyped DEF SendVerification, SignVerification, TypeOK
  <2>2. CASE ~SignVerification(r)
    BY <1>3, <2>2 DEF SendVerification, TypeOK
  <2>3. QED
    BY <2>1, <2>2
<1>4. ASSUME NEW r \in Requests, NEW a \in Asks, Forgot(r, a) PROVE TypeOK'
  <2>1. CASE WithEmail(a.email) = {}
    BY <1>4, <2>1 DEF Forgot, TypeOK
  <2>2. CASE WithEmail(a.email) # {}
    <3>1. PICK i \in DOMAIN users :
            /\ users[i].email = a.email
            /\ account' = [account EXCEPT ![r] = i]
            /\ link' = [link EXCEPT ![r] = [kind |-> "reset", email |-> a.email,
                                            secret |-> users[i].pw]]
            /\ pc' = [pc EXCEPT ![r] = "keyed"]
      BY <1>4, <2>2 DEF Forgot, WithEmail
    <3>2. QED
      BY <1>4, <3>1, LinkTyped DEF Forgot, TypeOK
  <2>3. QED
    BY <2>1, <2>2
<1>5. ASSUME NEW r \in Requests, NEW a \in Asks, UseLink(r, a) PROVE TypeOK'
  BY <1>5 DEF UseLink, TypeOK
<1>6. ASSUME NEW r \in Requests, NEW a \in Asks, ChangePassword(r, a) PROVE TypeOK'
  BY <1>6 DEF ChangePassword, TypeOK
<1>7. ASSUME NEW r \in Requests, NEW a \in Asks, Login(r, a) PROVE TypeOK'
  BY <1>7 DEF Login, WithEmail, TypeOK
<1>8. ASSUME NEW r \in Requests, NEW a \in Asks, LoginWithGoogle(r, a) PROVE TypeOK'
  BY <1>8 DEF LoginWithGoogle, WithEmail, TypeOK
<1>9. ASSUME NEW r \in Requests, NEW a \in Asks, LoadByAdmin(r, a) PROVE TypeOK'
  BY <1>9 DEF LoadByAdmin, TypeOK
<1>10. ASSUME NEW r \in Requests, CreateUser(r) PROVE TypeOK'
  <2> DEFINE kind == ask[r].kind
             role == IF kind = "createUser" /\ ask[r].role # "keep" THEN ask[r].role ELSE "user"
             hash == CASE kind = "register"   -> HashOf(ask[r].pw, 2, r)
                       [] kind = "google"     -> HashOf(GooglePassword, 2, r)
                       [] kind = "createUser" -> HashOf(ask[r].pw, 1, r)
             u == [email |-> ask[r].email, pw |-> hash, verified |-> FALSE,
                   role |-> role, typed |-> role = "service_staff"]
  <2>1. CASE WithEmail(ask[r].email) = {}
    <3>1. ask[r] \in AskType /\ kind \in {"register", "createUser", "google"}
      BY <1>10, AsksTyped DEF CreateUser, TypeOK
    <3>2. hash \in Hash
      BY <3>1, AccountsAssumption DEF Hash, HashOf, Ids, AskType
    <3>3. u \in User
      BY <3>1, <3>2, Zenon DEF User, AskType, Roles
    <3>4. /\ Add(r, u) /\ account' = [account EXCEPT ![r] = r]
          /\ pc' = [pc EXCEPT ![r] = CASE kind = "register" -> "created" [] kind = "google" -> "known"
                                       [] kind = "createUser" -> "done"]
          /\ UNCHANGED <<tokens, mailed, ask, link, overlapped>>
      BY <1>10, <2>1 DEF CreateUser
    <3> HIDE DEF u
    <3>5. QED
      BY <3>1, <3>3, <3>4, AddTyped DEF TypeOK, Ids
  <2>2. CASE WithEmail(ask[r].email) # {}
    BY <1>10, <2>2 DEF CreateUser, TypeOK
  <2>3. QED
    BY <2>1, <2>2
<1>11. ASSUME NEW r \in Requests, VerificationOfNew(r) PROVE TypeOK'
  BY <1>11 DEF VerificationOfNew, SignVerification, WithEmail, TypeOK, Link, User
<1>12. ASSUME NEW r \in Requests, StoreReset(r) PROVE TypeOK'
  BY <1>12 DEF StoreReset, TypeOK, Token
<1>13. ASSUME NEW r \in Requests, MailLink(r) PROVE TypeOK'
  BY <1>13 DEF MailLink, TypeOK
<1>14. ASSUME NEW r \in Requests, WriteVerified(r) PROVE TypeOK'
  <2> DEFINE u == [Mine(r) EXCEPT !.verified = TRUE]
  <2>1. account[r] \in DOMAIN users => u \in User
    BY <1>14, AsksTyped DEF WriteVerified, Mine, TypeOK, User
  <2>2. Alter(r, u)
    BY <1>14 DEF WriteVerified
  <2> HIDE DEF u
  <2>3. QED
    BY <1>14, <2>1, <2>2, AlterTyped DEF WriteVerified, TypeOK
<1>15. ASSUME NEW r \in Requests, WritePassword(r) PROVE TypeOK'
  <2> DEFINE u == [Mine(r) EXCEPT !.pw = HashOf(ask[r].new, 1, r)]
  <2>1. account[r] \in DOMAIN users => u \in User
    BY <1>15, AsksTyped DEF WritePassword, Mine, TypeOK, User, Hash, HashOf, AskType, Ids
  <2>2. Alter(r, u)
    BY <1>15 DEF WritePassword
  <2> HIDE DEF u
  <2>3. QED
    BY <1>15, <2>1, <2>2, AlterTyped DEF WritePassword, TypeOK
<1>16. ASSUME NEW r \in Requests, DropToken(r) PROVE TypeOK'
  BY <1>16 DEF DropToken, TypeOK
<1>17. ASSUME NEW r \in Requests, StoreRefresh(r) PROVE TypeOK'
  BY <1>17 DEF StoreRefresh, TypeOK, Token
<1>18. ASSUME NEW r \in Requests, WriteUser(r) PROVE TypeOK'
  <2> DEFINE dto == ask[r]
             role == IF dto.role = "keep" THEN Mine(r).role ELSE dto.role
             u == [Mine(r) EXCEPT !.role = role, !.typed = @ \/ dto.role = "service_staff",
                                  !.verified = IF dto.verified = "keep" THEN @ ELSE dto.verified = "yes"]
  <2>1. account[r] \in DOMAIN users => u \in User
    <3>1. SUFFICES ASSUME account[r] \in DOMAIN users PROVE u \in User
      OBVIOUS
    <3>2. Mine(r) \in User /\ dto \in AskType
      BY <3>1, AsksTyped DEF Mine, TypeOK
    <3>3. role \in Roles
      BY <3>2 DEF User, AskType
    <3>4. QED
      BY <3>2, <3>3 DEF User
  <2>2. Alter(r, u)
    BY <1>18 DEF WriteUser
  <2> HIDE DEF u, role
  <2>3. QED
    BY <1>18, <2>1, <2>2, AlterTyped DEF WriteUser, TypeOK
<1>19. ASSUME NEW r \in Requests, UnsetType(r) PROVE TypeOK'
  <2> DEFINE u == [Mine(r) EXCEPT !.typed = FALSE]
  <2>1. account[r] \in DOMAIN users => u \in User
    BY <1>19, AsksTyped DEF UnsetType, Mine, TypeOK, User
  <2>2. Alter(r, u)
    BY <1>19 DEF UnsetType
  <2> HIDE DEF u
  <2>3. QED
    BY <1>19, <2>1, <2>2, AlterTyped DEF UnsetType, TypeOK
<1>20. ASSUME NEW r \in Requests, DeleteUser(r) PROVE TypeOK'
  BY <1>20 DEF DeleteUser, TypeOK
<1>21. ASSUME NEW r \in Requests, Fault(r) PROVE TypeOK'
  BY <1>21 DEF Fault, TypeOK
<1>22. ASSUME NEW r \in Requests, Crash(r) PROVE TypeOK'
  BY <1>22 DEF Crash, TypeOK
<1>23. CASE UNCHANGED vars
  BY <1>23 DEF vars, TypeOK
<1>24. QED
  BY <1>1, <1>2, <1>3, <1>4, <1>5, <1>6, <1>7, <1>8, <1>9, <1>10, <1>11, <1>12, <1>13,
     <1>14, <1>15, <1>16, <1>17, <1>18, <1>19, <1>20, <1>21, <1>22, <1>23
  DEF Next, Serve, Continue

-----------------------------------------------------------------------------
(* What kinds of steps there are, and that each keeps the invariant. *)

\* A request arrives: nothing stored changes, and what the request holds from
\* now on was stored or mailed before.
Arrives(r) ==
  /\ users' = users /\ tokens' = tokens /\ mailed' = mailed
  /\ overlapped' = (overlapped \/ \E q \in Requests : pc[q] \in InFlight)
  /\ pc[r] = "idle" /\ pc'[r] \in {"hashing", "refused", "signed", "known", "keyed", "matched"}
  /\ \A q \in Requests \ {r} : /\ pc'[q] = pc[q] /\ ask'[q] = ask[q]
                               /\ account'[q] = account[q] /\ link'[q] = link[q]
  /\ pc'[r] = "hashing" => ask'[r].kind \in {"register", "createUser", "google"}
  /\ pc'[r] = "signed"  => ask'[r].kind = "sendVerify"
  /\ pc'[r] = "known"   => ask'[r].kind \in {"login", "google"}
  /\ pc'[r] = "keyed"   => ask'[r].kind = "forgot"
  /\ pc'[r] = "matched" => ask'[r].kind \in {"verify", "reset", "change", "update", "delete"}
  /\ account'[r] \in DOMAIN users \cup {account[r]}
  /\ \/ link'[r] = link[r] \/ link'[r] \in mailed
     \/ \E i \in DOMAIN users : link'[r].secret = users[i].pw
  /\ pc'[r] = "matched" /\ ask'[r].kind \in {"verify", "reset"} =>
       account'[r] \in DOMAIN users /\ link'[r].secret = users[account'[r]].pw

LEMMA ServeArrives ==
  ASSUME TypeOK, NEW r \in Requests, NEW a \in Asks, Serve(r, a)
  PROVE  Arrives(r)
<1> USE DEF Goto, Arrive, Arrives, WithEmail
<1>1. CASE Register(r, a)
  BY <1>1 DEF Register, TypeOK
<1>2. CASE CreateByAdmin(r, a)
  BY <1>2 DEF CreateByAdmin, TypeOK
<1>3. CASE SendVerification(r, a)
  BY <1>3 DEF SendVerification, SignVerification, TypeOK
<1>4. CASE Forgot(r, a)
  BY <1>4 DEF Forgot, TypeOK
<1>5. CASE UseLink(r, a)
  BY <1>5 DEF UseLink, Passes, TypeOK
<1>6. CASE ChangePassword(r, a)
  BY <1>6 DEF ChangePassword, TypeOK
<1>7. CASE Login(r, a)
  BY <1>7 DEF Login, TypeOK
<1>8. CASE LoginWithGoogle(r, a)
  BY <1>8 DEF LoginWithGoogle, TypeOK
<1>9. CASE LoadByAdmin(r, a)
  BY <1>9 DEF LoadByAdmin, TypeOK
<1>10. QED
  BY <1>1, <1>2, <1>3, <1>4, <1>5, <1>6, <1>7, <1>8, <1>9 DEF Serve

\* The owner of an old hash is not the arriving request's account.
LEMMA ArrivesInv ==
  ASSUME AccountsInv, TypeOK', NEW r \in Requests, Arrives(r)
  PROVE  AccountsInv'
<1> USE DEF Arrives
<1>1. StageTellsKind'
  BY DEF AccountsInv, StageTellsKind
<1>2. EmailsDiffer'
  BY DEF AccountsInv, EmailsDiffer
<1>3. IdsAreOld'
  BY DEF AccountsInv, IdsAreOld, Inserted, TypeOK, Ids
<1>4. \A h \in Hash : Hashed(h) => Hashed(h)' /\ Owner(h)' = Owner(h)
  BY DEF Hashed, Owner, Hash, Ids
<1>5. /\ \A i \in DOMAIN users : users[i].pw \in Hash
      /\ \A l \in mailed : l.secret \in Hash
      /\ \A q \in Requests : link[q].secret \in Hash
  BY DEF AccountsInv, TypeOK, User, Link
<1>6. HashesAreOld'
  <2>1. ASSUME NEW q \in Requests PROVE Hashed(link[q].secret)'
    <3>1. PICK h \in Hash : h = link'[q].secret /\ Hashed(h)
      BY <1>5 DEF AccountsInv, HashesAreOld
    <3>2. Hashed(h)'
      BY <1>4, <3>1
    <3>3. QED
      BY <3>1, <3>2 DEF Hashed
  <2>2. QED
    BY <2>1, <1>4, <1>5 DEF AccountsInv, HashesAreOld, Hashed
<1>7. RegisteredOwn'
  BY DEF AccountsInv, RegisteredOwn
<1>8. HashTellsAccount'
  BY <1>4, <1>5 DEF AccountsInv, HashTellsAccount, HashesAreOld, Owner
<1>9. LinkTellsAccount'
  <2> SUFFICES ASSUME NEW q \in Requests, pc'[q] = "matched", ask'[q].kind \in {"verify", "reset"},
                      account'[q] \in DOMAIN users
               PROVE  Owner(link[q].secret)' = account'[q]
    BY DEF LinkTellsAccount
  <2>1. CASE q = r
    BY <2>1, <1>8 DEF HashTellsAccount, Owner
  <2>2. CASE q # r
    BY <2>2, <1>4, <1>5 DEF AccountsInv, LinkTellsAccount, HashesAreOld, Owner
  <2>3. QED
    BY <2>1, <2>2
<1>10. SessionsAreKept'
  BY DEF AccountsInv, SessionsAreKept
<1>11. TypeOnlyForStaff'
  BY DEF AccountsInv, TypeOnlyForStaff
<1>12. QED
  BY <1>1, <1>2, <1>3, <1>6, <1>7, <1>8, <1>9, <1>10, <1>11 DEF AccountsInv

\* A request goes on, or fails, without a change to what is stored of users.
Proceeds(r) ==
  /\ users' = users /\ account' = account /\ ask' = ask /\ link' = link
  /\ overlapped' = overlapped
  /\ mailed' \subseteq mailed \cup {link[r]}
  /\ \A t \in tokens : t.type = "refreshToken" => t \in tokens'
  /\ \A q \in Requests \ {r} : pc'[q] = pc[q]
  /\ pc[r] \in InFlight
  /\ \/ pc'[r] = "failed"
     \/ pc'[r] = "signed" /\ pc[r] = "keyed"
     \/ pc'[r] = "done" /\ pc[r] \in {"signed", "written"}
     \/ /\ pc'[r] = "done" /\ pc[r] = "known"
        /\ \E t \in tokens' : t.type = "refreshToken" /\ t.userId = account[r]
  /\ pc[r] \in {"hashing", "matched"} => pc'[r] = "failed" /\ mailed' = mailed

LEMMA StepProceeds ==
  ASSUME TypeOK, NEW r \in Requests,
         StoreReset(r) \/ MailLink(r) \/ DropToken(r) \/ StoreRefresh(r) \/ Fault(r)
  PROVE  Proceeds(r)
<1> USE DEF Goto, At, Proceeds, InFlight
<1>1. CASE StoreReset(r)
  BY <1>1 DEF StoreReset, TypeOK
<1>2. CASE MailLink(r)
  BY <1>2 DEF MailLink, TypeOK
<1>3. CASE DropToken(r)
  BY <1>3 DEF DropToken, TypeOK
<1>4. CASE StoreRefresh(r)
  <2> DEFINE t == [type |-> "refreshToken", userId |-> account[r], by |-> r]
  <2>1. tokens' = tokens \cup {t} /\ t.type = "refreshToken" /\ t.userId = account[r]
    BY <1>4 DEF StoreRefresh
  <2> HIDE DEF t
  <2>2. QED
    BY <1>4, <2>1 DEF StoreRefresh, TypeOK
<1>5. CASE Fault(r)
  BY <1>5 DEF Fault, TypeOK
<1>6. QED
  BY <1>1, <1>2, <1>3, <1>4, <1>5

LEMMA ProceedsInv ==
  ASSUME AccountsInv, TypeOK', NEW r \in Requests, Proceeds(r)
  PROVE  AccountsInv'
<1> USE DEF Proceeds, InFlight
<1>1. StageTellsKind'
  BY DEF AccountsInv, StageTellsKind
<1>2. EmailsDiffer'
  BY DEF AccountsInv, EmailsDiffer
<1>3. IdsAreOld'
  BY DEF AccountsInv, IdsAreOld, Inserted, TypeOK, Ids
<1>4. \A h \in Hash : (Hashed(h) => Hashed(h)') /\ Owner(h)' = Owner(h)
  BY DEF Hashed, Owner, Hash, Ids
<1>5. /\ \A i \in DOMAIN users : users[i].pw \in Hash
      /\ \A l \in mailed : l.secret \in Hash
      /\ \A q \in Requests : link[q].secret \in Hash
  BY DEF AccountsInv, TypeOK, User, Link
<1>6. HashesAreOld'
  BY <1>4, <1>5 DEF AccountsInv, HashesAreOld, Hashed
<1>7. RegisteredOwn'
  BY DEF AccountsInv, RegisteredOwn
<1>8. HashTellsAccount'
  BY DEF AccountsInv, HashTellsAccount, Owner
<1>9. LinkTellsAccount'
  BY DEF AccountsInv, LinkTellsAccount, Owner
<1>10. SessionsAreKept'
  <2> SUFFICES ASSUME NEW q \in Requests, ask[q].kind \in {"login", "google"}, pc'[q] = "done"
               PROVE  \E t \in tokens' : t.type = "refreshToken" /\ t.userId = account[q]
    BY DEF SessionsAreKept
  <2>1. CASE pc[q] = "done"
    BY <2>1 DEF AccountsInv, SessionsAreKept
  <2>2. CASE pc[q] # "done"
    BY <2>2 DEF AccountsInv, StageTellsKind
  <2>3. QED
    BY <2>1, <2>2
<1>11. TypeOnlyForStaff'
  BY DEF AccountsInv, TypeOnlyForStaff, StageTellsKind
<1>12. QED
  BY <1>1, <1>2, <1>3, <1>6, <1>7, <1>8, <1>9, <1>10, <1>11 DEF AccountsInv

\* The account of a request is written to.
Writes(r) ==
  /\ DOMAIN users' = DOMAIN users
  /\ \A i \in DOMAIN users : i # account[r] => users'[i] = users[i]
  /\ account' = account /\ ask' = ask /\ link' = link /\ mailed' = mailed /\ tokens' = tokens
  /\ overlapped' = overlapped
  /\ \A q \in Requests \ {r} : pc'[q] = pc[q]
  /\ pc[r] \in {"matched", "unset"} /\ pc'[r] \in {"done", "failed", "written", "unset"}
  /\ pc'[r] = "written" => ask[r].kind = "reset"
  /\ pc'[r] = "unset" => ask[r].kind = "update"
  /\ account[r] \in DOMAIN users =>
       LET old == users[account[r]]
           new == users'[account[r]]
       IN
       /\ new.email = old.email
       /\ \/ new.pw = old.pw
          \/ new.pw.salt = r /\ pc[r] = "matched"
       /\ pc[r] = "matched" /\ ask[r].kind = "reset" => new.pw.salt = r
       /\ new.verified /\ ~old.verified =>
            pc[r] = "matched" /\ ask[r].kind \in {"verify", "update"}
       /\ new.role = "service_staff" =>
            \/ new.typed
            \/ old.role = "service_staff" /\ (old.typed => pc[r] = "unset")
       /\ pc'[r] = "unset" => new.role # "service_staff"
       /\ new.typed /\ new.role # "service_staff" =>
            \/ pc'[r] = "unset"
            \/ pc[r] # "unset" /\ old.typed /\ old.role # "service_staff"

LEMMA StepWrites ==
  ASSUME TypeOK, NEW r \in Requests,
         WriteVerified(r) \/ WritePassword(r) \/ WriteUser(r) \/ UnsetType(r)
  PROVE  Writes(r)
<1> USE DEF Goto, At, Mine, Writes
<1>1. account[r] \in DOMAIN users => users[account[r]] \in User
  BY DEF TypeOK
<1>2. CASE WriteVerified(r)
  BY <1>1, <1>2 DEF WriteVerified, TypeOK, Alter, User
<1>3. CASE WritePassword(r)
  BY <1>1, <1>3 DEF WritePassword, TypeOK, Alter, User, HashOf
<1>4. CASE WriteUser(r)
  BY <1>1, <1>4 DEF WriteUser, TypeOK, Alter, User
<1>5. CASE UnsetType(r)
  BY <1>1, <1>5 DEF UnsetType, TypeOK, Alter, User
<1>6. QED
  BY <1>2, <1>3, <1>4, <1>5

LEMMA WritesInv ==
  ASSUME AccountsInv, TypeOK', NEW r \in Requests, Writes(r)
  PROVE  AccountsInv'
<1> USE DEF Writes
<1>1. StageTellsKind'
  BY DEF AccountsInv, StageTellsKind
<1>2. EmailsDiffer'
  BY DEF AccountsInv, EmailsDiffer
<1>3. IdsAreOld'
  BY DEF AccountsInv, IdsAreOld, Inserted, TypeOK, Ids
<1>4. \A h \in Hash : (Hashed(h) => Hashed(h)') /\ Owner(h)' = Owner(h)
  BY DEF Hashed, Owner, Hash, Ids
<1>5. /\ \A i \in DOMAIN users : users[i].pw \in Hash /\ users'[i].pw \in Hash
      /\ \A l \in mailed : l.secret \in Hash
      /\ \A q \in Requests : link[q].secret \in Hash
  BY DEF AccountsInv, TypeOK, User, Link
<1>6. \A i \in DOMAIN users : users'[i].pw = users[i].pw \/ (users'[i].pw.salt = r /\ i = account[r])
  <2> TAKE i \in DOMAIN users
  <2>1. CASE i = account[r]
    BY <2>1
  <2>2. CASE i # account[r]
    BY <2>2
  <2>3. QED
    BY <2>1, <2>2
<1>7. HashesAreOld'
  BY <1>4, <1>5, <1>6 DEF AccountsInv, HashesAreOld, Hashed
<1>8. RegisteredOwn'
  BY DEF AccountsInv, RegisteredOwn
<1>9. HashTellsAccount'
  BY <1>6, AccountsAssumption DEF AccountsInv, HashTellsAccount, Owner
<1>10. LinkTellsAccount'
  BY DEF AccountsInv, LinkTellsAccount, Owner
<1>11. SessionsAreKept'
  BY DEF AccountsInv, SessionsAreKept, StageTellsKind
<1>12. TypeOnlyForStaff'
  <2> SUFFICES ASSUME NEW i \in DOMAIN users, users'[i].typed, users'[i].role # "service_staff"
               PROVE  \E q \in Requests : /\ ask[q].kind = "update" /\ account[q] = i
                                          /\ pc'[q] \in {"unset", "failed"}
    BY DEF TypeOnlyForStaff
  <2>1. CASE i = account[r] /\ pc'[r] = "unset"
    BY <2>1
  <2>2. CASE ~(i = account[r] /\ pc'[r] = "unset")
    <3>1. users[i].typed /\ users[i].role # "service_staff" /\ ~(i = account[r] /\ pc[r] = "unset")
      BY <2>2
    <3>2. PICK q \in Requests : /\ ask[q].kind = "update" /\ account[q] = i
                                /\ pc[q] \in {"unset", "failed"}
      BY <3>1 DEF AccountsInv, TypeOnlyForStaff
    <3>3. q # r
      BY <3>1, <3>2
    <3>4. QED
      BY <3>2, <3>3
  <2>3. QED
    BY <2>1, <2>2
<1>13. QED
  BY <1>1, <1>2, <1>3, <1>7, <1>8, <1>9, <1>10, <1>11, <1>12 DEF AccountsInv

\* A user is inserted, under an id that nothing refers to yet.
Inserts(r) ==
  /\ tokens' = tokens /\ mailed' = mailed /\ ask' = ask /\ link' = link
  /\ overlapped' = overlapped
  /\ pc[r] = "hashing" /\ pc'[r] \in {"created", "known", "done"}
  /\ \A q \in Requests \ {r} : pc'[q] = pc[q] /\ account'[q] = account[q] /\ account[q] # r
  /\ pc'[r] = "created" => ask[r].kind = "register"
  /\ pc'[r] = "known" => ask[r].kind = "google"
  /\ pc'[r] = "done" => ask[r].kind = "createUser"
  /\ account'[r] = r /\ account[r] # r
  /\ r # "seeded" /\ r \notin DOMAIN users /\ DOMAIN users' = DOMAIN users \cup {r}
  /\ \A i \in DOMAIN users : users'[i] = users[i] /\ users[i].email # ask[r].email
  /\ users'[r].email = ask[r].email /\ users'[r].pw.salt = r
  /\ users'[r].typed <=> users'[r].role = "service_staff"

LEMMA StepInserts ==
  ASSUME AccountsInv, NEW r \in Requests, CreateUser(r)
  PROVE  Inserts(r) \/ Proceeds(r)
<1>1. TypeOK /\ pc[r] = "hashing" /\ ask[r].kind \in {"register", "createUser", "google"}
  BY DEF AccountsInv, CreateUser, At
<1>2. CASE WithEmail(ask[r].email) # {}
  BY <1>1, <1>2 DEF CreateUser, Goto, Proceeds, InFlight, TypeOK
<1>3. CASE WithEmail(ask[r].email) = {}
  <2>1. PICK u : /\ Add(r, u) /\ u.email = ask[r].email /\ u.pw.salt = r
                 /\ u.typed <=> u.role = "service_staff"
    <3> DEFINE kind == ask[r].kind
               role == IF kind = "createUser" /\ ask[r].role # "keep" THEN ask[r].role ELSE "user"
               hash == CASE kind = "register"   -> HashOf(ask[r].pw, 2, r)
                         [] kind = "google"     -> HashOf(GooglePassword, 2, r)
                         [] kind = "createUser" -> HashOf(ask[r].pw, 1, r)
               u == [email |-> ask[r].email, pw |-> hash, verified |-> FALSE,
                     role |-> role, typed |-> role = "service_staff"]
    <3>1. Add(r, u)
      BY <1>3 DEF CreateUser
    <3>2. hash.salt = r
      BY <1>1 DEF HashOf
    <3>3. u.email = ask[r].email /\ u.pw = hash /\ (u.typed <=> u.role = "service_staff")
      BY Zenon
    <3> HIDE DEF u, hash
    <3>4. QED
      BY <3>1, <3>2, <3>3
  <2>2. /\ tokens' = tokens /\ mailed' = mailed /\ ask' = ask /\ link' = link
        /\ overlapped' = overlapped
        /\ account' = [account EXCEPT ![r] = r]
        /\ \A q \in Requests \ {r} : pc'[q] = pc[q]
        /\ pc'[r] \in {"created", "known", "done"}
        /\ pc'[r] = "created" => ask[r].kind = "register"
        /\ pc'[r] = "known" => ask[r].kind = "google"
        /\ pc'[r] = "done" => ask[r].kind = "createUser"
    BY <1>1, <1>3 DEF CreateUser, Goto, TypeOK
  <2>3. /\ r # "seeded" /\ r \notin DOMAIN users /\ \A q \in Requests : account[q] # r
    BY <1>1, AccountsAssumption DEF AccountsInv, IdsAreOld, Inserted
  <2>4. /\ DOMAIN users' = DOMAIN users \cup {r} /\ users'[r] = u
        /\ \A i \in DOMAIN users : users'[i] = users[i]
    BY <2>1, <2>3 DEF Add
  <2>5. /\ account'[r] = r /\ \A q \in Requests \ {r} : account'[q] = account[q]
    BY <1>1, <2>2 DEF TypeOK
  <2>6. \A i \in DOMAIN users : users[i].email # u.email
    BY <1>3, <2>1 DEF WithEmail
  <2>7. QED
    BY <1>1, <2>1, <2>2, <2>3, <2>4, <2>5, <2>6 DEF Inserts
<1>4. QED
  BY <1>2, <1>3

LEMMA InsertsInv ==
  ASSUME AccountsInv, TypeOK', NEW r \in Requests, Inserts(r)
  PROVE  AccountsInv'
<1> USE DEF Inserts
<1>1. TypeOK
  BY DEF AccountsInv
<1>2. StageTellsKind'
  BY DEF AccountsInv, StageTellsKind
<1>3. EmailsDiffer'
  BY DEF AccountsInv, EmailsDiffer
<1>4. IdsAreOld'
  BY <1>1 DEF AccountsInv, IdsAreOld, Inserted, TypeOK, Ids
<1>5. \A h \in Hash : Hashed(h) => Hashed(h)' /\ Owner(h)' = Owner(h)
  BY DEF Hashed, Owner, Hash, Ids
<1>6. /\ \A i \in DOMAIN users : users[i].pw \in Hash
      /\ \A l \in mailed : l.secret \in Hash
      /\ \A q \in Requests : link[q].secret \in Hash
  BY <1>1 DEF TypeOK, User, Link
<1>7. Hashed(users[r].pw)' /\ Owner(users[r].pw)' = r
  BY DEF Hashed, Owner
<1>8. HashesAreOld'
  BY <1>5, <1>6, <1>7 DEF AccountsInv, HashesAreOld, Hashed
<1>9. RegisteredOwn'
  BY DEF AccountsInv, RegisteredOwn
<1>10. HashTellsAccount'
  BY <1>5, <1>6, <1>7 DEF AccountsInv, HashTellsAccount, HashesAreOld, Owner
<1>11. LinkTellsAccount'
  BY <1>5, <1>6 DEF AccountsInv, LinkTellsAccount, HashesAreOld, Owner
<1>12. SessionsAreKept'
  BY DEF AccountsInv, SessionsAreKept
<1>13. TypeOnlyForStaff'
  <2> SUFFICES ASSUME NEW i \in DOMAIN users', users'[i].typed, users'[i].role # "service_staff"
               PROVE  \E q \in Requests : /\ ask[q].kind = "update" /\ account'[q] = i
                                          /\ pc'[q] \in {"unset", "failed"}
    BY DEF TypeOnlyForStaff
  <2>1. PICK q \in Requests : /\ ask[q].kind = "update" /\ account[q] = i
                              /\ pc[q] \in {"unset", "failed"}
    BY DEF AccountsInv, TypeOnlyForStaff
  <2>2. QED
    BY <2>1
<1>14. QED
  BY <1>2, <1>3, <1>4, <1>8, <1>9, <1>10, <1>11, <1>12, <1>13 DEF AccountsInv

\* The mail of a registration looks its account up by address, and may find
\* another's if that account is gone; then nobody's hash is of this request.
LEMMA VerificationOfNewInv ==
  ASSUME AccountsInv, TypeOK', NEW r \in Requests, VerificationOfNew(r)
  PROVE  AccountsInv'
<1>1. PICK i \in DOMAIN users :
        /\ users[i].email = ask[r].email
        /\ account' = [account EXCEPT ![r] = i]
        /\ link' = [link EXCEPT ![r] = [kind |-> "verify", email |-> users[i].email,
                                        secret |-> users[i].pw]]
        /\ pc' = [pc EXCEPT ![r] = "signed"]
  BY DEF VerificationOfNew, SignVerification, WithEmail, Goto
<1>2. /\ users' = users /\ tokens' = tokens /\ mailed' = mailed /\ ask' = ask
      /\ pc[r] = "created" /\ ask[r].kind = "register" /\ TypeOK
  BY DEF VerificationOfNew, SignVerification, At, AccountsInv
<1>3. /\ account'[r] = i /\ link'[r].secret = users[i].pw /\ pc'[r] = "signed"
      /\ \A q \in Requests \ {r} : /\ account'[q] = account[q] /\ link'[q] = link[q]
                                   /\ pc'[q] = pc[q]
  BY <1>1, <1>2 DEF TypeOK
<1>4. account[r] = r /\ (r \in DOMAIN users => i = r)
  BY <1>1, <1>2 DEF AccountsInv, RegisteredOwn, EmailsDiffer
<1>5. \A h \in Hash : (Hashed(h) => Hashed(h)')
                      /\ (Owner(h) \in DOMAIN users => Owner(h)' = Owner(h))
  BY <1>2, <1>3, <1>4 DEF Hashed, Owner, Hash, Ids
<1>6. /\ \A j \in DOMAIN users : users[j].pw \in Hash
      /\ \A l \in mailed : l.secret \in Hash
      /\ \A q \in Requests : link[q].secret \in Hash
  BY <1>2 DEF TypeOK, User, Link
<1>7. StageTellsKind'
  BY <1>2, <1>3 DEF AccountsInv, StageTellsKind
<1>8. EmailsDiffer'
  BY <1>2 DEF AccountsInv, EmailsDiffer
<1>9. IdsAreOld'
  BY <1>2, <1>3 DEF AccountsInv, IdsAreOld, Inserted, TypeOK, Ids
<1>10. HashesAreOld'
  BY <1>2, <1>3, <1>5, <1>6 DEF AccountsInv, HashesAreOld, Hashed
<1>11. RegisteredOwn'
  BY <1>2, <1>3 DEF AccountsInv, RegisteredOwn
<1>12. HashTellsAccount'
  BY <1>2, <1>5, <1>6 DEF AccountsInv, HashTellsAccount, Owner
<1>13. LinkTellsAccount'
  BY <1>2, <1>3, <1>5, <1>6 DEF AccountsInv, LinkTellsAccount, Owner
<1>14. SessionsAreKept'
  BY <1>2, <1>3 DEF AccountsInv, SessionsAreKept
<1>15. TypeOnlyForStaff'
  BY <1>2, <1>3 DEF AccountsInv, TypeOnlyForStaff
<1>16. QED
  BY <1>7, <1>8, <1>9, <1>10, <1>11, <1>12, <1>13, <1>14, <1>15 DEF AccountsInv

LEMMA DeleteUserInv ==
  ASSUME AccountsInv, TypeOK', NEW r \in Requests, DeleteUser(r)
  PROVE  AccountsInv'
<1>1. /\ users' = [i \in DOMAIN users \ {account[r]} |-> users[i]]
      /\ tokens' = tokens /\ mailed' = mailed /\ ask' = ask /\ account' = account /\ link' = link
      /\ pc[r] = "matched" /\ ask[r].kind = "delete" /\ TypeOK
      /\ pc'[r] = "done" /\ \A q \in Requests \ {r} : pc'[q] = pc[q]
  BY DEF DeleteUser, At, Goto, AccountsInv, TypeOK
<1>2. DOMAIN users' \subseteq DOMAIN users /\ \A i \in DOMAIN users' : users'[i] = users[i]
  BY <1>1
<1>3. \A h : (Hashed(h) /\ h \in Hash => Hashed(h)') /\ Owner(h)' = Owner(h)
  BY <1>1 DEF Hashed, Owner, Hash, Ids
<1>4. StageTellsKind'
  BY <1>1 DEF AccountsInv, StageTellsKind
<1>5. EmailsDiffer'
  BY <1>2 DEF AccountsInv, EmailsDiffer
<1>6. IdsAreOld'
  BY <1>1, <1>2 DEF AccountsInv, IdsAreOld, Inserted, TypeOK, Ids
<1>7. /\ \A i \in DOMAIN users : users[i].pw \in Hash
      /\ \A l \in mailed : l.secret \in Hash
      /\ \A q \in Requests : link[q].secret \in Hash
  BY <1>1 DEF TypeOK, User, Link
<1>8. HashesAreOld'
  BY <1>1, <1>2, <1>3, <1>7 DEF AccountsInv, HashesAreOld, Hashed
<1>9. RegisteredOwn'
  BY <1>1, <1>2 DEF AccountsInv, RegisteredOwn
<1>10. HashTellsAccount'
  BY <1>1, <1>2 DEF AccountsInv, HashTellsAccount, Owner
<1>11. LinkTellsAccount'
  BY <1>1, <1>2 DEF AccountsInv, LinkTellsAccount, Owner
<1>12. SessionsAreKept'
  BY <1>1 DEF AccountsInv, SessionsAreKept
<1>13. TypeOnlyForStaff'
  BY <1>1, <1>2 DEF AccountsInv, TypeOnlyForStaff
<1>14. QED
  BY <1>4, <1>5, <1>6, <1>8, <1>9, <1>10, <1>11, <1>12, <1>13 DEF AccountsInv

LEMMA CrashInv ==
  ASSUME AccountsInv, TypeOK', NEW r \in Requests, Crash(r)
  PROVE  AccountsInv'
<1>1. /\ users' = users /\ tokens' = tokens /\ mailed' = mailed /\ ask' = ask
      /\ account' = account /\ link' = link /\ TypeOK
  BY DEF Crash, AccountsInv
<1>2. \A q \in Requests : \/ pc'[q] = pc[q] /\ pc[q] \notin InFlight
                          \/ pc'[q] = "failed" /\ pc[q] \in InFlight
  BY DEF Crash
<1>3. \A h : (Hashed(h) /\ h \in Hash => Hashed(h)') /\ Owner(h)' = Owner(h)
  BY <1>1, <1>2 DEF Hashed, Owner, Hash, Ids
<1>4. /\ \A i \in DOMAIN users : users[i].pw \in Hash
      /\ \A l \in mailed : l.secret \in Hash
      /\ \A q \in Requests : link[q].secret \in Hash
  BY <1>1 DEF TypeOK, User, Link
<1>5. StageTellsKind' /\ RegisteredOwn' /\ LinkTellsAccount'
  BY <1>1, <1>2 DEF AccountsInv, StageTellsKind, RegisteredOwn, LinkTellsAccount, InFlight
<1>6. EmailsDiffer' /\ HashTellsAccount'
  BY <1>1 DEF AccountsInv, EmailsDiffer, HashTellsAccount, Owner
<1>7. IdsAreOld'
  BY <1>1, <1>2 DEF AccountsInv, IdsAreOld, Inserted, TypeOK, Ids
<1>8. HashesAreOld'
  BY <1>1, <1>3, <1>4 DEF AccountsInv, HashesAreOld, Hashed
<1>9. SessionsAreKept'
  BY <1>1, <1>2 DEF AccountsInv, SessionsAreKept
<1>10. TypeOnlyForStaff'
  BY <1>1, <1>2 DEF AccountsInv, TypeOnlyForStaff, InFlight
<1>11. QED
  BY <1>5, <1>6, <1>7, <1>8, <1>9, <1>10 DEF AccountsInv

-----------------------------------------------------------------------------
LEMMA AccountsInit == Init => AccountsInv
<1> SUFFICES ASSUME Init PROVE AccountsInv
  OBVIOUS
<1>1. TypeOK
  BY TypeInit
<1>2. /\ DOMAIN users \subseteq {"seeded"} /\ \A i \in DOMAIN users : users[i].pw.salt = "seeded"
      /\ \A i \in DOMAIN users : ~users[i].typed
      /\ \A l \in mailed : l.secret.salt = "seeded"
      /\ \A r \in Requests : link[r].secret.salt = "seeded"
      /\ \A r \in Requests : pc[r] = "idle" /\ account[r] = "seeded"
  <2>1. PICK e \in Emails, p \in Passwords, v \in BOOLEAN :
          LET u == [email |-> e, pw |-> HashOf(p, 1, "seeded"), verified |-> v,
                    role |-> "user", typed |-> FALSE]
              To(kind) == [kind |-> kind, email |-> e, secret |-> u.pw]
          IN
          /\ \E there \in SUBSET {"seeded"} : users = [i \in there |-> u]
          /\ mailed \in {{}, {To("verify"), To("reset")}}
          /\ link = [r \in Requests |-> To("verify")]
    BY DEF Init
  <2>2. HashOf(p, 1, "seeded").salt = "seeded"
    BY DEF HashOf
  <2>3. QED
    BY <2>1, <2>2 DEF Init
<1>3. StageTellsKind /\ RegisteredOwn /\ LinkTellsAccount /\ SessionsAreKept
  BY <1>2 DEF StageTellsKind, RegisteredOwn, LinkTellsAccount, SessionsAreKept
<1>4. EmailsDiffer /\ HashTellsAccount /\ TypeOnlyForStaff
  BY <1>2 DEF EmailsDiffer, HashTellsAccount, TypeOnlyForStaff, Owner
<1>5. IdsAreOld /\ HashesAreOld
  BY <1>2 DEF IdsAreOld, HashesAreOld, Inserted, Hashed
<1>6. QED
  BY <1>1, <1>3, <1>4, <1>5 DEF AccountsInv

LEMMA AccountsNext == AccountsInv /\ [Next]_vars => AccountsInv'
<1> SUFFICES ASSUME AccountsInv, [Next]_vars PROVE AccountsInv'
  OBVIOUS
<1>1. TypeOK /\ TypeOK'
  BY TypeNext DEF AccountsInv
<1>2. ASSUME NEW r \in Requests, NEW a \in Asks, Serve(r, a) PROVE AccountsInv'
  BY <1>1, <1>2, ServeArrives, ArrivesInv
<1>3. ASSUME NEW r \in Requests,
             StoreReset(r) \/ MailLink(r) \/ DropToken(r) \/ StoreRefresh(r) \/ Fault(r)
      PROVE  AccountsInv'
  BY <1>1, <1>3, StepProceeds, ProceedsInv
<1>4. ASSUME NEW r \in Requests,
             WriteVerified(r) \/ WritePassword(r) \/ WriteUser(r) \/ UnsetType(r)
      PROVE  AccountsInv'
  BY <1>1, <1>4, StepWrites, WritesInv
<1>5. ASSUME NEW r \in Requests, CreateUser(r) PROVE AccountsInv'
  BY <1>1, <1>5, StepInserts, InsertsInv, ProceedsInv
<1>6. ASSUME NEW r \in Requests, VerificationOfNew(r) PROVE AccountsInv'
  BY <1>1, <1>6, VerificationOfNewInv
<1>7. ASSUME NEW r \in Requests, DeleteUser(r) PROVE AccountsInv'
  BY <1>1, <1>7, DeleteUserInv
<1>8. ASSUME NEW r \in Requests, Crash(r) PROVE AccountsInv'
  BY <1>1, <1>8, CrashInv
<1>9. CASE UNCHANGED vars
  BY <1>1, <1>9 DEF vars, AccountsInv, StageTellsKind, EmailsDiffer, IdsAreOld, Inserted,
     HashesAreOld, Hashed, RegisteredOwn, HashTellsAccount, LinkTellsAccount, Owner,
     SessionsAreKept, TypeOnlyForStaff
<1>10. QED
  BY <1>2, <1>3, <1>4, <1>5, <1>6, <1>7, <1>8, <1>9 DEF Next, Continue

-----------------------------------------------------------------------------
(* However requests interleave. *)

\* The inductive invariant holds in every state.
THEOREM AccountsInductive == Spec => []AccountsInv
BY AccountsInit, AccountsNext, PTL DEF Spec

\* What is stored and mailed is of its type, and no address has two accounts.
THEOREM AccountsStaySound == Spec => []AccountsAreSound
<1>1. AccountsInv => AccountsAreSound
  <2> SUFFICES ASSUME AccountsInv PROVE OneAccountPerEmail
    BY DEF AccountsInv, AccountsAreSound
  <2>1. SUFFICES ASSUME NEW e \in Emails PROVE Cardinality(WithEmail(e)) <= 1
    BY DEF OneAccountPerEmail
  <2>2. CASE WithEmail(e) = {}
    BY <2>2, FS_EmptySet
  <2>3. CASE WithEmail(e) # {}
    <3>1. PICK i : WithEmail(e) = {i}
      BY <2>3 DEF WithEmail, AccountsInv, EmailsDiffer
    <3>2. QED
      BY <3>1, FS_Singleton
  <2>4. QED
    BY <2>2, <2>3
<1>2. QED
  BY <1>1, AccountsInductive, PTL

\* Who has signed in can go on refreshing until the account is deleted.
THEOREM SessionsDoLast == Spec => []SessionsLast
<1>1. AccountsInv => SessionsLast
  BY DEF AccountsInv, SessionsAreKept, SessionsLast, Refreshes
<1>2. QED
  BY <1>1, AccountsInductive, PTL

\* A mailed link changes only the account it was mailed for.
THEOREM LinksStayBound == Spec => LinksBindAccounts
<1> DEFINE Bound(i) ==
      /\ users'[i].pw # users[i].pw =>
           LET r == users'[i].pw.salt IN
           ask[r].kind = "reset" => Owner(link[r].secret) = i
      /\ users'[i].verified /\ ~users[i].verified =>
           \E r \in Requests :
             /\ pc[r] = "matched" /\ account[r] = i
             /\ \/ ask[r].kind = "update"
                \/ ask[r].kind = "verify" /\ Owner(link[r].secret) = i
<1>1. ASSUME AccountsInv, Next, NEW i \in DOMAIN users \cap DOMAIN users'
      PROVE  Bound(i)
  <2>1. TypeOK
    BY <1>1 DEF AccountsInv
  <2>2. ASSUME NEW r \in Requests, Writes(r) PROVE Bound(i)
    <3>1. CASE i # account[r]
      BY <2>2, <3>1 DEF Writes
    <3>2. CASE i = account[r]
      <4>1. users'[i].pw # users[i].pw => users'[i].pw.salt = r /\ pc[r] = "matched"
        BY <2>2, <3>2 DEF Writes
      <4>2. users'[i].verified /\ ~users[i].verified =>
              pc[r] = "matched" /\ ask[r].kind \in {"verify", "update"}
        BY <2>2, <3>2 DEF Writes
      <4>3. pc[r] = "matched" /\ ask[r].kind \in {"verify", "reset"} => Owner(link[r].secret) = i
        BY <1>1, <3>2 DEF AccountsInv, LinkTellsAccount
      <4>4. QED
        BY <3>2, <4>1, <4>2, <4>3
    <3>3. QED
      BY <3>1, <3>2
  <2>3. ASSUME NEW r \in Requests, CreateUser(r) PROVE users'[i] = users[i]
    BY <1>1, <2>3, StepInserts DEF Inserts, Proceeds
  <2>4. ASSUME NEW r \in Requests, DeleteUser(r) PROVE users'[i] = users[i]
    BY <1>1, <2>4 DEF DeleteUser
  <2>5. ASSUME NEW r \in Requests, VerificationOfNew(r) PROVE users' = users
    BY <2>5 DEF VerificationOfNew, SignVerification
  <2>6. ASSUME NEW r \in Requests, Crash(r) PROVE users' = users
    BY <2>6 DEF Crash
  <2>7. ASSUME NEW r \in Requests, Arrives(r) \/ Proceeds(r) PROVE users' = users
    BY <2>7 DEF Arrives, Proceeds
  <2> HIDE DEF Bound
  <2>8. users'[i] = users[i] => Bound(i)
    BY DEF Bound
  <2>9. QED
    BY <1>1, <2>1, <2>2, <2>3, <2>4, <2>5, <2>6, <2>7, <2>8, ServeArrives, StepProceeds, StepWrites
    DEF Next, Continue
<1>2. AccountsInv /\ [Next]_vars => [\A i \in DOMAIN users \cap DOMAIN users' : Bound(i)]_vars
  BY <1>1
<1>3. QED
  BY <1>2, AccountsInductive, PTL DEF Spec, LinksBindAccounts

-----------------------------------------------------------------------------
(* As long as no two requests have overlapped. *)

LEMMA CalmInit == Init => CalmInv
<1> SUFFICES ASSUME Init PROVE CalmInv
  OBVIOUS
<1>1. AccountsInv
  BY AccountsInit
<1>2. \A r \in Requests : pc[r] = "idle"
  BY DEF Init
<1>3. \A i \in DOMAIN users : users[i].role = "user"
  BY DEF Init
<1>4. QED
  BY <1>1, <1>2, <1>3 DEF CalmInv, ResetOnce, Resets, StaffHaveTypes, Calm, OneAtATime, InFlight,
     CheckStillHolds, LinksAreSpent, UnsetOnlyOthers

LEMMA ArrivesCalm ==
  ASSUME CalmInv, NEW r \in Requests, Arrives(r), ~overlapped'
  PROVE  ResetOnce' /\ StaffHaveTypes' /\ Calm'
<1> USE DEF Arrives
<1>1. ~overlapped /\ \A q \in Requests : pc[q] \notin InFlight
  OBVIOUS
<1>2. ResetOnce' /\ StaffHaveTypes'
  BY <1>1 DEF CalmInv, ResetOnce, Resets, StaffHaveTypes
<1>3. OneAtATime' /\ CheckStillHolds' /\ UnsetOnlyOthers'
  BY <1>1 DEF OneAtATime, CheckStillHolds, UnsetOnlyOthers, InFlight
<1>4. LinksAreSpent'
  BY <1>1 DEF CalmInv, Calm, LinksAreSpent, Resets
<1>5. QED
  BY <1>2, <1>3, <1>4 DEF Calm

LEMMA ProceedsCalm ==
  ASSUME CalmInv, NEW r \in Requests, Proceeds(r), ~overlapped'
  PROVE  ResetOnce' /\ StaffHaveTypes' /\ Calm'
<1> USE DEF Proceeds
<1>1. ~overlapped /\ Calm
  BY DEF CalmInv
<1>2. Resets' \subseteq Resets
  BY DEF CalmInv, AccountsInv, StageTellsKind, Resets
<1>3. ResetOnce' /\ StaffHaveTypes'
  BY <1>1, <1>2 DEF CalmInv, ResetOnce, StaffHaveTypes
<1>4. OneAtATime' /\ CheckStillHolds' /\ UnsetOnlyOthers'
  BY <1>1 DEF Calm, OneAtATime, CheckStillHolds, UnsetOnlyOthers, InFlight
<1>5. LinksAreSpent'
  BY <1>1, <1>2 DEF Calm, LinksAreSpent, Resets
<1>6. QED
  BY <1>3, <1>4, <1>5 DEF Calm

\* The password that is written has a salt of its own, so it is in no link.
LEMMA WritesCalm ==
  ASSUME CalmInv, NEW r \in Requests, Writes(r), ~overlapped'
  PROVE  ResetOnce' /\ StaffHaveTypes' /\ Calm'
<1> USE DEF Writes
<1>1. ~overlapped /\ Calm /\ AccountsInv /\ pc[r] \in InFlight
  BY DEF CalmInv, InFlight
<1>2. \A q \in Requests : q # r => pc[q] \notin InFlight /\ pc'[q] = pc[q]
  BY <1>1 DEF Calm, OneAtATime
<1>3. \A q \in Requests : pc[r] = "matched" => link[q].secret.salt # r
  BY <1>1, AccountsAssumption DEF AccountsInv, HashesAreOld, Hashed
<1>4. ASSUME ask[r].kind = "reset" PROVE ResetOnce' /\ LinksAreSpent'
  <2>1. pc[r] = "matched" /\ account[r] \in DOMAIN users /\ users[account[r]].pw = link[r].secret
    BY <1>1, <1>4 DEF AccountsInv, StageTellsKind, Calm, CheckStillHolds
  <2>2. users'[account[r]].pw.salt = r
    BY <1>4, <2>1
  <2>3. \A i \in DOMAIN users : users'[i].pw # link[r].secret
    BY <1>1, <1>3, <2>1, <2>2 DEF AccountsInv, HashTellsAccount
  <2>4. \A q \in Resets' \ {r} : link[q].secret # link[r].secret
    BY <1>1, <1>2, <2>1 DEF Calm, LinksAreSpent, Resets
  <2>5. \A q \in Resets' \ {r} : \A i \in DOMAIN users : users'[i].pw # link[q].secret
    BY <1>1, <1>2, <1>3, <2>1, <2>2 DEF Calm, LinksAreSpent, Resets
  <2>6. ResetOnce'
    BY <1>1, <1>2, <2>4 DEF CalmInv, ResetOnce, Resets
  <2>7. LinksAreSpent'
    BY <2>3, <2>5 DEF LinksAreSpent, Resets
  <2>8. QED
    BY <2>6, <2>7
<1>5. ASSUME ask[r].kind # "reset" PROVE ResetOnce' /\ LinksAreSpent'
  <2>1. ResetOnce'
    BY <1>1, <1>2, <1>5 DEF CalmInv, ResetOnce, Resets
  <2>2. LinksAreSpent'
    <3> SUFFICES ASSUME NEW q \in Resets,
                        NEW i \in DOMAIN users
                 PROVE  users'[i].pw # link[q].secret
      BY <1>2, <1>5 DEF LinksAreSpent, Resets
    <3>1. users[i].pw # link[q].secret
      BY <1>1 DEF Calm, LinksAreSpent, Resets
    <3>2. users'[i].pw = users[i].pw \/ (users'[i].pw.salt = r /\ pc[r] = "matched")
      OBVIOUS
    <3>3. QED
      BY <1>3, <3>1, <3>2 DEF Resets
  <2>3. QED
    BY <2>1, <2>2
<1>6. StaffHaveTypes'
  <2> SUFFICES ASSUME NEW i \in DOMAIN users, users'[i].role = "service_staff"
               PROVE  users'[i].typed
    BY DEF StaffHaveTypes
  <2>1. users[i].role = "service_staff" => users[i].typed
    BY <1>1 DEF CalmInv, StaffHaveTypes
  <2>2. CASE i # account[r]
    BY <2>1, <2>2
  <2>3. CASE i = account[r]
    BY <1>1, <2>1, <2>3 DEF Calm, UnsetOnlyOthers
  <2>4. QED
    BY <2>2, <2>3
<1>7. OneAtATime' /\ CheckStillHolds'
  BY <1>1, <1>2 DEF OneAtATime, CheckStillHolds, InFlight
<1>8. UnsetOnlyOthers'
  BY <1>2 DEF UnsetOnlyOthers, InFlight
<1>9. QED
  BY <1>4, <1>5, <1>6, <1>7, <1>8 DEF Calm

LEMMA InsertsCalm ==
  ASSUME CalmInv, NEW r \in Requests, Inserts(r), ~overlapped'
  PROVE  ResetOnce' /\ StaffHaveTypes' /\ Calm'
<1> USE DEF Inserts
<1>1. ~overlapped /\ Calm /\ AccountsInv /\ pc[r] \in InFlight
  BY DEF CalmInv, InFlight
<1>2. \A q \in Requests : q # r => pc[q] \notin InFlight /\ pc'[q] = pc[q]
  BY <1>1 DEF Calm, OneAtATime
<1>3. \A q \in Requests : link[q].secret.salt # r
  BY <1>1 DEF AccountsInv, HashesAreOld, Hashed
<1>4. Resets' = Resets
  BY DEF Resets
<1>5. ResetOnce' /\ StaffHaveTypes'
  BY <1>1, <1>4 DEF CalmInv, ResetOnce, StaffHaveTypes
<1>6. LinksAreSpent'
  BY <1>1, <1>3, <1>4 DEF Calm, LinksAreSpent, Resets
<1>7. OneAtATime' /\ CheckStillHolds' /\ UnsetOnlyOthers'
  BY <1>2 DEF OneAtATime, CheckStillHolds, UnsetOnlyOthers, InFlight
<1>8. QED
  BY <1>5, <1>6, <1>7 DEF Calm

\* The other steps of one request, and the end of them all.
LEMMA OthersCalm ==
  ASSUME CalmInv, NEW r \in Requests,
         VerificationOfNew(r) \/ DeleteUser(r) \/ Crash(r), ~overlapped'
  PROVE  ResetOnce' /\ StaffHaveTypes' /\ Calm'
<1>1. Calm /\ TypeOK /\ ~overlapped
  BY DEF CalmInv, AccountsInv, VerificationOfNew, DeleteUser, Crash
<1>2. /\ DOMAIN users' \subseteq DOMAIN users /\ \A i \in DOMAIN users' : users'[i] = users[i]
      /\ \A q \in Requests : /\ ask'[q].kind = "reset" => link'[q] = link[q]
                            /\ ask'[q] = ask[q]
                            /\ \/ pc'[q] = pc[q] \/ pc'[q] = "failed"
                               \/ pc'[q] = "signed" /\ ask[q].kind = "register" /\ pc[q] \in InFlight
                               \/ pc'[q] = "done" /\ ask[q].kind = "delete"
  BY <1>1 DEF VerificationOfNew, SignVerification, DeleteUser, Crash, Goto, At, TypeOK, InFlight
<1>3. Resets' \subseteq Resets
  BY <1>2 DEF Resets
<1>4. ResetOnce' /\ StaffHaveTypes'
  BY <1>1, <1>2, <1>3 DEF CalmInv, ResetOnce, Resets, StaffHaveTypes
<1>5. LinksAreSpent'
  BY <1>1, <1>2, <1>3 DEF Calm, LinksAreSpent, Resets
<1>6. OneAtATime'
  BY <1>1, <1>2 DEF Calm, OneAtATime, InFlight
<1>7. CheckStillHolds' /\ UnsetOnlyOthers'
  <2>1. CASE VerificationOfNew(r)
    BY <1>1, <2>1 DEF VerificationOfNew, SignVerification, At, Goto, TypeOK, Calm,
       CheckStillHolds, UnsetOnlyOthers
  <2>2. CASE DeleteUser(r)
    <3>1. \A q \in Requests : pc'[q] \notin {"matched", "unset"}
      BY <1>1, <2>2 DEF DeleteUser, At, Goto, TypeOK, Calm, OneAtATime, InFlight
    <3>2. QED
      BY <3>1 DEF CheckStillHolds, UnsetOnlyOthers
  <2>3. CASE Crash(r)
    BY <2>3 DEF Crash, InFlight, CheckStillHolds, UnsetOnlyOthers
  <2>4. QED
    BY <2>1, <2>2, <2>3
<1>8. QED
  BY <1>4, <1>5, <1>6, <1>7 DEF Calm

LEMMA CalmNext == CalmInv /\ [Next]_vars => CalmInv'
<1> SUFFICES ASSUME CalmInv, [Next]_vars PROVE CalmInv'
  OBVIOUS
<1> DEFINE Kept == ResetOnce' /\ StaffHaveTypes' /\ Calm'
<1>1. AccountsInv /\ TypeOK /\ AccountsInv'
  BY AccountsNext DEF CalmInv, AccountsInv
<1>2. ASSUME overlapped' PROVE CalmInv'
  BY <1>1, <1>2 DEF CalmInv, ResetOnce, StaffHaveTypes
<1>3. ASSUME ~overlapped', Next PROVE Kept
  <2>1. ASSUME NEW r \in Requests, Arrives(r) PROVE Kept
    BY <1>3, <2>1, ArrivesCalm
  <2>2. ASSUME NEW r \in Requests, Proceeds(r) PROVE Kept
    BY <1>3, <2>2, ProceedsCalm
  <2>3. ASSUME NEW r \in Requests, Writes(r) PROVE Kept
    BY <1>3, <2>3, WritesCalm
  <2>4. ASSUME NEW r \in Requests, Inserts(r) PROVE Kept
    BY <1>3, <2>4, InsertsCalm
  <2>5. ASSUME NEW r \in Requests, VerificationOfNew(r) \/ DeleteUser(r) \/ Crash(r) PROVE Kept
    BY <1>3, <2>5, OthersCalm
  <2> HIDE DEF Kept
  <2>6. QED
    BY <1>1, <1>3, <2>1, <2>2, <2>3, <2>4, <2>5, ServeArrives, StepProceeds, StepWrites,
       StepInserts DEF Next, Continue
<1>4. ASSUME ~overlapped', UNCHANGED vars PROVE Kept
  BY <1>4 DEF vars, CalmInv, ResetOnce, Resets, StaffHaveTypes, Calm, OneAtATime,
     CheckStillHolds, LinksAreSpent, UnsetOnlyOthers
<1>5. QED
  BY <1>1, <1>2, <1>3, <1>4 DEF CalmInv

\* What holds as long as no two requests have overlapped is inductive with what
\* holds in any case.
THEOREM CalmInductive == Spec => []CalmInv
BY CalmInit, CalmNext, PTL DEF Spec

\* No two resets use links made from the same password: whatever link was
\* mailed before a reset is void after it.
THEOREM ResetsAreOnce == Spec => []ResetOnce
<1>1. CalmInv => ResetOnce
  BY DEF CalmInv
<1>2. QED
  BY <1>1, CalmInductive, PTL

\* Only service staff have a service type, but for updates under way or failed,
\* and as long as no requests have overlapped all of them have one.
THEOREM StaffAreTyped == Spec => []StaffTypes
<1>1. CalmInv => StaffTypes
  BY DEF CalmInv, AccountsInv, StaffTypes
<1>2. QED
  BY <1>1, CalmInductive, PTL
=============================================================================
