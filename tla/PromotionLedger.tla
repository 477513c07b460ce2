-------------------------- MODULE PromotionLedger --------------------------
(***************************************************************************)
(* What a promotion promises, with every use one step: a promotion has a   *)
(* stock of uses, and a use takes one from the stock and enters the user   *)
(* among the holders together, with the id as the user spelt it.  Who asks *)
(* with the plain id is served only if he holds the promotion in no        *)
(* spelling.  Promotion implements this when requests come one at a time,  *)
(* and only then.                                                          *)
(***************************************************************************)
EXTENDS Integers

CONSTANTS Users, Promos, Amounts, Spellings, Plain

VARIABLES
  live,      \* the promotions on offer
  stock,     \* how many uses each has left
  holders    \* the users who have used each, and by which spelling of its id

vars == <<live, stock, holders>>

Init ==
  /\ live = {}
  /\ stock = [p \in Promos |-> 0]
  /\ holders = [p \in Promos |-> {}]

\* A promotion is offered for the first time.
Offer(p, n) ==
  /\ p \notin live /\ holders[p] = {}
  /\ live' = live \cup {p}
  /\ stock' = [stock EXCEPT ![p] = n]
  /\ UNCHANGED holders

\* u uses p by spelling c of its id.
Use(u, p, c) ==
  /\ p \in live /\ stock[p] > 0
  /\ c = Plain => \A d \in Spellings : <<u, d>> \notin holders[p]
  /\ stock' = [stock EXCEPT ![p] = @ - 1]
  /\ holders' = [holders EXCEPT ![p] = @ \cup {<<u, c>>}]
  /\ UNCHANGED live

\* A use that fails half way costs the promotion one use and nobody holds it.
Waste(p) ==
  /\ p \in live /\ stock[p] > 0
  /\ stock' = [stock EXCEPT ![p] = @ - 1]
  /\ UNCHANGED <<live, holders>>

Withdraw(p) ==
  /\ p \in live
  /\ live' = live \ {p}
  /\ UNCHANGED <<stock, holders>>

\* A promotion no longer on offer is forgotten by all who used it.
Forget(p) ==
  /\ p \notin live
  /\ holders' = [holders EXCEPT ![p] = {}]
  /\ UNCHANGED <<live, stock>>

Next ==
  \E p \in Promos :
    \/ \E n \in Amounts : Offer(p, n)
    \/ \E u \in Users, c \in Spellings : Use(u, p, c)
    \/ Waste(p) \/ Withdraw(p) \/ Forget(p)

Spec == Init /\ [][Next]_vars
=============================================================================
