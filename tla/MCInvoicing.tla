---------------------------- MODULE MCInvoicing ----------------------------
(* Instances of Invoicing for TLC: one invoice that is paid and asked for, *)
(* or three that are made and mailed.                                      *)
EXTENDS Invoicing

CONSTANTS a, b, c
Either == { [made |-> {a}, asked |-> {a}], [made |-> {a, b, c}, asked |-> {}] }
=============================================================================
