---------------------------- MODULE MCPromotion ----------------------------
(* Instances of Promotion for TLC: three requests, two users, two          *)
(* promotions, and two ways to write an id.  Three requests are the least  *)
(* that can read one amount and write it back over another's debit, and    *)
(* then use the promotion again.                                           *)
EXTENDS Promotion, TLC

\* An administrator may type 0 or a negative number: the DTO only asks for one.
MCAmounts == {-1, 0, 1, 2}
\* Users and requests are interchangeable.
Symmetry == Permutations(Requests) \cup Permutations(Users) \cup Permutations(Promos)
=============================================================================
