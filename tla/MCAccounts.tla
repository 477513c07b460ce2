----------------------------- MODULE MCAccounts -----------------------------
(* Instances of Accounts for TLC: one address, two passwords.              *)
EXTENDS Accounts

CONSTANTS ann, own, google

Body(kind) == [kind |-> kind, email |-> ann, pw |-> own, new |-> own,
               role |-> "keep", verified |-> "keep"]
Plain == {Body(k) : k \in Kinds \ {"createUser", "update"}}
ByAdmin == {[Body("update") EXCEPT !.role = role] : role \in {"keep", "receptionist", "service_staff"}}
           \cup {[Body("update") EXCEPT !.verified = "no"], [Body("createUser") EXCEPT !.role = "service_staff"]}
AllAsks == Plain \cup ByAdmin
LoginAsks == {Body(k) : k \in {"register", "login", "forgot", "reset"}}
Symmetry == Permutations(Requests)
=============================================================================
