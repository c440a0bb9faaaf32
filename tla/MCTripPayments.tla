---- MODULE MCTripPayments ----
(* TripPayments on small instances. *)
EXTENDS TripPayments, TLC
CONSTANTS Asha, Ravi

FirstRowOnly == {<<Asha, 1>>}
====
