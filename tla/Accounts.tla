------------------------------ MODULE Accounts ------------------------------
(***************************************************************************)
(* Users, their passwords and the links mailed to them: AuthService,       *)
(* TokenService, UserService and UserManagerService over the collections   *)
(* users and tokens.                                                       *)
(*                                                                         *)
(* bcrypt is a term: a hash names what was hashed, how often, and by whom, *)
(* the salt being fresh.  A link is a JWT with the e-mail address as its   *)
(* payload; its secret is the password hash the account had when the link  *)
(* was made, so it is good for as long as that hash is stored.             *)
(***************************************************************************)
EXTENDS Naturals, FiniteSets, Functions, TLC

CONSTANTS
  Requests,        \* each is served once
  Emails,
  Passwords,       \* in plain
  GooglePassword,  \* the one loginWithGoogle makes up
  Asks             \* what a request may ask for, see AskType

Roles == {"user", "receptionist", "service_staff"}
Kinds == {"register", "createUser", "login", "google", "sendVerify", "verify", "forgot",
          "reset", "change", "update", "delete"}
\* The body of a request.  role and verified are those of an administrator's
\* dto, "keep" where they are left out.
AskType == [kind : Kinds, email : Emails, pw : Passwords, new : Passwords,
            role : Roles \cup {"keep"}, verified : {"keep", "yes", "no"}]

ASSUME AccountsAssumption ==
  /\ IsFiniteSet(Requests) /\ "seeded" \notin Requests
  /\ GooglePassword \in Passwords
  /\ Asks \subseteq AskType /\ Asks # {}

VARIABLES
  users,      \* the stored users by id; the id is the request that inserted it
  tokens,     \* the stored tokens
  mailed,     \* the links in somebody's mailbox
  pc, ask,    \* where a request stands, what it asks for
  account,    \* the id it works on
  link,       \* the link it made or was given
  overlapped  \* history: requests have overlapped

vars == <<users, tokens, mailed, pc, ask, account, link, overlapped>>

Ids == Requests \cup {"seeded"}
Hash == [of : Passwords, layers : {1, 2}, salt : Ids]
User == [email : Emails, pw : Hash, verified : BOOLEAN, role : Roles, typed : BOOLEAN]
Token == [type : {"refreshToken", "resetPassword"}, userId : Ids, by : Requests]
Link == [kind : {"verify", "reset"}, email : Emails, secret : Hash]

\* "created": a registration that is answered while its mail is still to be sent.
InFlight == {"hashing", "created", "signed", "known", "keyed", "matched", "written", "unset"}
Answered == {"done", "refused", "failed"}

TypeOK ==
  /\ DOMAIN users \subseteq Ids /\ users \in [DOMAIN users -> User]
  /\ tokens \subseteq Token
  /\ mailed \subseteq Link
  /\ pc \in [Requests -> {"idle"} \cup InFlight \cup Answered]
  /\ ask \in [Requests -> Asks]
  /\ account \in [Requests -> Ids]
  /\ link \in [Requests -> Link]
  /\ overlapped \in BOOLEAN

HashOf(p, layers, r) == [of |-> p, layers |-> layers, salt |-> r]
\* bcrypt.compare
Compare(p, hash) == hash.layers = 1 /\ hash.of = p
WithEmail(e) == {i \in DOMAIN users : users[i].email = e}
Passes(l, u) == l.email = u.email /\ l.secret = u.pw

\* A user from before, created by the seed script or an administrator, so that
\* the password was hashed once, and who may have been deleted since; links
\* mailed to them may still be in the mailbox.
Init ==
  /\ \E e \in Emails, p \in Passwords, v \in BOOLEAN :
       LET u == [email |-> e, pw |-> HashOf(p, 1, "seeded"), verified |-> v,
                 role |-> "user", typed |-> FALSE]
           To(kind) == [kind |-> kind, email |-> e, secret |-> u.pw]
       IN
       /\ \E there \in SUBSET {"seeded"} : users = [i \in there |-> u]
       /\ mailed \in {{}, {To("verify"), To("reset")}}
       /\ link = [r \in Requests |-> To("verify")]
  /\ tokens = {}
  /\ pc = [r \in Requests |-> "idle"]
  /\ ask = [r \in Requests |-> CHOOSE a \in Asks : TRUE]
  /\ account = [r \in Requests |-> "seeded"]
  /\ overlapped = FALSE

-----------------------------------------------------------------------------
Goto(r, where) == pc' = [pc EXCEPT ![r] = where]
At(r, kinds, where) == pc[r] = where /\ ask[r].kind \in kinds

\* The first step of a handler: request r arrives and asks for a.
Arrive(r, a, kinds) ==
  /\ pc[r] = "idle" /\ a.kind \in kinds
  /\ ask' = [ask EXCEPT ![r] = a]
  /\ overlapped' = (overlapped \/ \E q \in Requests : pc[q] \in InFlight)

\* save() of a new document; the request's name is its id.
Add(r, user) ==
  users' = [i \in DOMAIN users \cup {r} |-> IF i = r THEN user ELSE users[i]]

\* The account a request works on, and findOneAndUpdate or updateOne of it by
\* id: nothing happens if it is gone.
Mine(r) == users[account[r]]
Alter(r, user) ==
  users' = [i \in DOMAIN users |-> IF i = account[r] THEN user ELSE users[i]]

-----------------------------------------------------------------------------
(* Inserting users. *)

\* register, up to its lookup by e-mail.
Register(r, a) ==
  /\ Arrive(r, a, {"register"})
  /\ Goto(r, IF WithEmail(a.email) = {} THEN "hashing" ELSE "refused")
  /\ UNCHANGED <<users, tokens, mailed, account, link>>

\* POST /users looks nothing up.
CreateByAdmin(r, a) ==
  /\ Arrive(r, a, {"createUser"})
  /\ Goto(r, "hashing")
  /\ UNCHANGED <<users, tokens, mailed, account, link>>

\* Mutant: e-mail has no unique index.
CreateUserAnyway(r) ==
  /\ At(r, {"register", "createUser", "google"}, "hashing")
  /\ Add(r, [email |-> ask[r].email, pw |-> HashOf(ask[r].pw, 1, r), verified |-> FALSE,
             role |-> "user", typed |-> FALSE])
  /\ Goto(r, "done")
  /\ UNCHANGED <<tokens, mailed, ask, account, link, overlapped>>

\* UserService.create hashes what it is given; register and loginWithGoogle
\* give it a hash.  Only an administrator names a role, and a service_staff
\* must come with a service type.  The unique index on email may refuse.
CreateUser(r) ==
  LET kind == ask[r].kind
      role == IF kind = "createUser" /\ ask[r].role # "keep" THEN ask[r].role ELSE "user"
      hash == CASE kind = "register"   -> HashOf(ask[r].pw, 2, r)
                [] kind = "google"     -> HashOf(GooglePassword, 2, r)
                [] kind = "createUser" -> HashOf(ask[r].pw, 1, r)
  IN
  /\ At(r, {"register", "createUser", "google"}, "hashing")
  /\ \/ /\ WithEmail(ask[r].email) = {}
        /\ Add(r, [email |-> ask[r].email, pw |-> hash, verified |-> FALSE,
                   role |-> role, typed |-> role = "service_staff"])
        /\ account' = [account EXCEPT ![r] = r]
        /\ Goto(r, CASE kind = "register" -> "created" [] kind = "google" -> "known"
                     [] kind = "createUser" -> "done")
     \/ /\ WithEmail(ask[r].email) # {}   \* duplicate key
        /\ Goto(r, "failed")
        /\ UNCHANGED <<users, account>>
  /\ UNCHANGED <<tokens, mailed, ask, link, overlapped>>

-----------------------------------------------------------------------------
(* Links. *)

\* sendVerificationEmail: getUser, and the link is signed.
SignVerification(r) ==
  /\ \E i \in WithEmail(ask'[r].email) :
       /\ ~users[i].verified
       /\ account' = [account EXCEPT ![r] = i]
       /\ link' = [link EXCEPT ![r] = [kind |-> "verify", email |-> users[i].email,
                                       secret |-> users[i].pw]]
       /\ Goto(r, "signed")
  /\ UNCHANGED <<users, tokens, mailed>>

Unverified(e) == {i \in WithEmail(e) : ~users[i].verified}

SendVerification(r, a) ==
  /\ Arrive(r, a, {"sendVerify"})
  /\ \/ SignVerification(r)
     \/ /\ Unverified(a.email) = {}
        /\ Goto(r, "refused")
        /\ UNCHANGED <<users, tokens, mailed, account, link>>

\* register does not await it.
VerificationOfNew(r) ==
  /\ At(r, {"register"}, "created")
  /\ UNCHANGED <<ask, overlapped>>
  /\ SignVerification(r)

\* forgotPassword: getUser, sign, store the token, mail the link.
Forgot(r, a) ==
  /\ Arrive(r, a, {"forgot"})
  /\ \/ \E i \in WithEmail(a.email) :
          /\ account' = [account EXCEPT ![r] = i]
          /\ link' = [link EXCEPT ![r] = [kind |-> "reset", email |-> a.email,
                                          secret |-> users[i].pw]]
          /\ Goto(r, "keyed")
     \/ /\ WithEmail(a.email) = {}
        /\ Goto(r, "refused")
        /\ UNCHANGED <<account, link>>
  /\ UNCHANGED <<users, tokens, mailed>>

StoreReset(r) ==
  /\ pc[r] = "keyed"
  /\ tokens' = tokens \cup {[type |-> "resetPassword", userId |-> account[r], by |-> r]}
  /\ Goto(r, "signed")
  /\ UNCHANGED <<users, mailed, ask, account, link, overlapped>>

MailLink(r) ==
  /\ pc[r] = "signed"
  /\ mailed' = mailed \cup {link[r]}
  /\ Goto(r, "done")
  /\ UNCHANGED <<users, tokens, ask, account, link, overlapped>>

\* Mutant: the link is only decoded.
UseLinkUnchecked(r, a) ==
  /\ Arrive(r, a, {"verify", "reset"})
  /\ \E l \in mailed, i \in Ids :
       /\ l.kind = a.kind /\ i \in WithEmail(l.email)
       /\ link' = [link EXCEPT ![r] = l]
       /\ account' = [account EXCEPT ![r] = i]
       /\ Goto(r, "matched")
  /\ UNCHANGED <<users, tokens, mailed>>

\* verifyAccount and resetPassword: the user is found by the address in the
\* link, and the link checked with that user's present hash as the secret.
UseLink(r, a) ==
  /\ Arrive(r, a, {"verify", "reset"})
  /\ \E l \in mailed :
       LET good == {i \in DOMAIN users : Passes(l, users[i])
                                         /\ (a.kind = "verify" => ~users[i].verified)} IN
       /\ l.kind = a.kind
       /\ link' = [link EXCEPT ![r] = l]
       /\ \/ \E i \in good : account' = [account EXCEPT ![r] = i] /\ Goto(r, "matched")
          \/ good = {} /\ Goto(r, "refused") /\ UNCHANGED account
  /\ UNCHANGED <<users, tokens, mailed>>

\* verifyAccount, the update.
WriteVerified(r) ==
  /\ At(r, {"verify"}, "matched")
  /\ Alter(r, [Mine(r) EXCEPT !.verified = TRUE])
  /\ Goto(r, "done")
  /\ UNCHANGED <<tokens, mailed, ask, account, link, overlapped>>

-----------------------------------------------------------------------------
(* Passwords. *)

\* changePassword: getUser by id, compare.
ChangePassword(r, a) ==
  /\ Arrive(r, a, {"change"})
  /\ \E i \in DOMAIN users :
       /\ account' = [account EXCEPT ![r] = i]
       /\ Goto(r, IF Compare(a.pw, users[i].pw) THEN "matched" ELSE "refused")
  /\ UNCHANGED <<users, tokens, mailed, link>>

\* Mutant: a password that is not new is not written again.
WritePasswordIfNew(r) ==
  /\ At(r, {"change", "reset"}, "matched")
  /\ IF account[r] \in DOMAIN users /\ Mine(r).pw.of = ask[r].new THEN UNCHANGED users
     ELSE Alter(r, [Mine(r) EXCEPT !.pw = HashOf(ask[r].new, 1, r)])
  /\ Goto(r, "done")
  /\ UNCHANGED <<tokens, mailed, ask, account, link, overlapped>>

\* changePassword, resetPassword: the new password is hashed and written,
\* whatever is stored by now.
WritePassword(r) ==
  /\ At(r, {"change", "reset"}, "matched")
  /\ Alter(r, [Mine(r) EXCEPT !.pw = HashOf(ask[r].new, 1, r)])
  /\ Goto(r, IF ask[r].kind = "reset" THEN "written" ELSE "done")
  /\ UNCHANGED <<tokens, mailed, ask, account, link, overlapped>>

\* Mutant: a reset signs the user out.
DropAllTokens(r) ==
  /\ pc[r] = "written"
  /\ tokens' = {t \in tokens : t.userId # account[r]}
  /\ Goto(r, "done")
  /\ UNCHANGED <<users, mailed, ask, account, link, overlapped>>

\* resetPassword, deleteToken: one of the user's reset tokens, if there is one.
DropToken(r) ==
  LET mine == {t \in tokens : t.type = "resetPassword" /\ t.userId = account[r]} IN
  /\ pc[r] = "written"
  /\ \/ \E t \in mine : tokens' = tokens \ {t}
     \/ mine = {} /\ UNCHANGED tokens
  /\ Goto(r, "done")
  /\ UNCHANGED <<users, mailed, ask, account, link, overlapped>>

-----------------------------------------------------------------------------
(* Signing in. *)

\* LocalStrategy: getAuthenticatedUser.
Login(r, a) ==
  /\ Arrive(r, a, {"login"})
  /\ \/ \E i \in WithEmail(a.email) :
          /\ account' = [account EXCEPT ![r] = i]
          /\ Goto(r, IF Compare(a.pw, users[i].pw) THEN "known" ELSE "refused")
     \/ /\ WithEmail(a.email) = {}
        /\ Goto(r, "refused")
        /\ UNCHANGED account
  /\ UNCHANGED <<users, tokens, mailed, link>>

LoginWithGoogle(r, a) ==
  /\ Arrive(r, a, {"google"})
  /\ \/ \E i \in WithEmail(a.email) : account' = [account EXCEPT ![r] = i] /\ Goto(r, "known")
     \/ /\ WithEmail(a.email) = {}
        /\ Goto(r, "hashing")
        /\ UNCHANGED account
  /\ UNCHANGED <<users, tokens, mailed, link>>

\* login, loginWithGoogle: storeRefreshToken adds to those there are.
StoreRefresh(r) ==
  /\ pc[r] = "known"
  /\ tokens' = tokens \cup {[type |-> "refreshToken", userId |-> account[r], by |-> r]}
  /\ Goto(r, "done")
  /\ UNCHANGED <<users, mailed, ask, account, link, overlapped>>

\* getUserIfRefreshTokenMatched: one token of the user is found and compared.
\* bcrypt looks at 72 bytes, in which the tokens of a user do not differ.
Refreshes(i) ==
  i \in DOMAIN users /\ \E t \in tokens : t.type = "refreshToken" /\ t.userId = i

-----------------------------------------------------------------------------
(* An administrator's changes. *)

\* updateUser, deleteUser: getUser by id.
LoadByAdmin(r, a) ==
  /\ Arrive(r, a, {"update", "delete"})
  /\ \E i \in DOMAIN users : account' = [account EXCEPT ![r] = i]
  /\ Goto(r, "matched")
  /\ UNCHANGED <<users, tokens, mailed, link>>

\* Mutant: the service type is only there to be unset later.
WriteUserRoleOnly(r) ==
  /\ At(r, {"update"}, "matched")
  /\ Alter(r, [Mine(r) EXCEPT !.role = IF ask[r].role = "keep" THEN @ ELSE ask[r].role])
  /\ Goto(r, "done")
  /\ UNCHANGED <<tokens, mailed, ask, account, link, overlapped>>

\* updateUser, first update: what the dto leaves out stays; the service type is
\* set when the role is given as service_staff, and left alone otherwise.
WriteUser(r) ==
  LET dto == ask[r]
      role == IF dto.role = "keep" THEN Mine(r).role ELSE dto.role
  IN
  /\ At(r, {"update"}, "matched")
  /\ Alter(r, [Mine(r) EXCEPT !.role = role, !.typed = @ \/ dto.role = "service_staff",
                              !.verified = IF dto.verified = "keep" THEN @ ELSE dto.verified = "yes"])
  /\ Goto(r, CASE account[r] \notin DOMAIN users -> "failed"   \* updatedUser is null
               [] account[r] \in DOMAIN users /\ role = "service_staff" -> "done"
               [] account[r] \in DOMAIN users /\ role # "service_staff" -> "unset")
  /\ UNCHANGED <<tokens, mailed, ask, account, link, overlapped>>

\* updateUser, second update.
UnsetType(r) ==
  /\ pc[r] = "unset"
  /\ Alter(r, [Mine(r) EXCEPT !.typed = FALSE])
  /\ Goto(r, "done")
  /\ UNCHANGED <<tokens, mailed, ask, account, link, overlapped>>

\* deleteUser: tokens, bookings and ratings stay.
DeleteUser(r) ==
  /\ At(r, {"delete"}, "matched")
  /\ users' = [i \in DOMAIN users \ {account[r]} |-> users[i]]
  /\ Goto(r, "done")
  /\ UNCHANGED <<tokens, mailed, ask, account, link, overlapped>>

-----------------------------------------------------------------------------
\* The awaited call fails.
Fault(r) ==
  /\ pc[r] \in InFlight \ {"created"}
  /\ ~(ask[r].kind = "register" /\ pc[r] = "signed")
  /\ Goto(r, "failed")
  /\ UNCHANGED <<users, tokens, mailed, ask, account, link, overlapped>>

\* Nobody awaits the mail of a registration: what goes wrong with it (the user
\* is gone or verified, the mail server refuses) is an unhandled rejection,
\* and ends the process with every request in it.
Crash(r) ==
  /\ ask[r].kind = "register" /\ pc[r] \in {"created", "signed"}
  /\ pc' = [q \in Requests |-> IF pc[q] \in InFlight THEN "failed" ELSE pc[q]]
  /\ UNCHANGED <<users, tokens, mailed, ask, account, link, overlapped>>

Serve(r, a) ==
  \/ Register(r, a) \/ CreateByAdmin(r, a) \/ SendVerification(r, a) \/ Forgot(r, a)
  \/ UseLink(r, a) \/ ChangePassword(r, a) \/ Login(r, a) \/ LoginWithGoogle(r, a)
  \/ LoadByAdmin(r, a)

Continue(r) ==
  \/ CreateUser(r) \/ VerificationOfNew(r) \/ StoreReset(r) \/ MailLink(r)
  \/ WriteVerified(r) \/ WritePassword(r) \/ DropToken(r) \/ StoreRefresh(r)
  \/ WriteUser(r) \/ UnsetType(r) \/ DeleteUser(r)

Next == \E r \in Requests :
  \/ \E a \in Asks : Serve(r, a)
  \/ Continue(r) \/ Fault(r) \/ Crash(r)

Spec == Init /\ [][Next]_vars

-----------------------------------------------------------------------------
(* Under any interleaving. *)

\* Two registrations, or a registration and a Google login, that both found the
\* address free leave one account behind.
OneAccountPerEmail == \A e \in Emails : Cardinality(WithEmail(e)) <= 1

\* What is stored and mailed is of its type, and no address has two accounts.
AccountsAreSound == TypeOK /\ OneAccountPerEmail

\* Whose hash it is: its salt tells who made it, and that request for whom.
Owner(hash) == IF hash.salt = "seeded" THEN "seeded" ELSE account[hash.salt]

\* A mailed link changes only the account it was mailed for: not one that was
\* registered with the same address after that was deleted, even if the
\* deletion comes between the check of the link and the update.
LinksBindAccounts ==
  [][\A i \in DOMAIN users \cap DOMAIN users' :
       /\ users'[i].pw # users[i].pw =>
            LET r == users'[i].pw.salt IN
            ask[r].kind = "reset" => Owner(link[r].secret) = i
       /\ users'[i].verified /\ ~users[i].verified =>
            \E r \in Requests :
              /\ pc[r] = "matched" /\ account[r] = i
              /\ \/ ask[r].kind = "update"
                 \/ ask[r].kind = "verify" /\ Owner(link[r].secret) = i]_vars

\* A user who has signed in can go on refreshing, however often the password
\* is reset and whoever signs in besides, until the account is deleted.
SessionsLast ==
  \A r \in Requests :
    ask[r].kind \in {"login", "google"} /\ pc[r] = "done" /\ account[r] \in DOMAIN users
      => Refreshes(account[r])

\* Who is not service staff has no service type, except while the request that
\* took the role away has yet to unset it, or failed to.
TypeOnlyForStaff ==
  \A i \in DOMAIN users : users[i].typed /\ users[i].role # "service_staff" =>
    \E r \in Requests : ask[r].kind = "update" /\ account[r] = i /\ pc[r] \in {"unset", "failed"}

-----------------------------------------------------------------------------
(* As long as no two requests have overlapped. *)

\* A password that a link has changed is changed by that link no more, nor by
\* another that was mailed before: every reset writes a hash of its own.
Resets == {r \in Requests : ask[r].kind = "reset" /\ pc[r] \in {"written", "done"}}
ResetOnce ==
  ~overlapped => \A r, q \in Resets : r # q => link[r].secret # link[q].secret

\* "ServiceTypeId is required for service_staff role" (userManager.service.ts:40)
StaffHaveTypes ==
  ~overlapped => \A i \in DOMAIN users : users[i].role = "service_staff" => users[i].typed

\* Who has a service type is staff, and service staff have one.
StaffTypes == TypeOnlyForStaff /\ StaffHaveTypes

\* "Password is incorrect" (auth.service.ts:104) is the answer to a password
\* other than the one that was chosen for the account.
IncorrectIsWrong ==
  [][\A r \in Requests :
       pc[r] = "idle" /\ pc'[r] = "refused" /\ ask'[r].kind = "login" =>
         \A i \in WithEmail(ask'[r].email) : users[i].pw.of # ask'[r].pw]_vars

=============================================================================
