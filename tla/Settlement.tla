---- MODULE Settlement ----
(***************************************************************************)
(* What the platform promises about the agency's money, with nothing of    *)
(* how: a payment is settled only once its traveller was charged, never    *)
(* while it is frozen, and what the agency got for it never goes back or   *)
(* exceeds one price. TripPayments refines it.                             *)
(***************************************************************************)
EXTENDS Integers

CONSTANTS
    Payments,  \* the payments of a group
    Shares     \* the amounts a payment may owe the agency

VARIABLES
    charged,   \* payments whose traveller was charged
    frozen,    \* payments whose payout is on hold
    settled    \* what the agency received for each payment

settlementVars == <<charged, frozen, settled>>

Init ==
    /\ charged = {}
    /\ frozen = {}
    /\ settled = [p \in Payments |-> 0]

(* One step may settle several payments (a trip that confirms pays for all *)
(* of its travellers), and may charge what it settles.                     *)
Settles(p) ==
    /\ p \in charged'
    /\ p \notin frozen
    /\ settled'[p] \in Shares
    /\ settled[p] < settled'[p]

Next ==
    /\ charged \subseteq charged'
    /\ charged' \subseteq Payments
    /\ frozen' \subseteq Payments
    /\ settled' \in [Payments -> Shares \cup {0}]
    /\ \A p \in Payments : settled'[p] = settled[p] \/ Settles(p)

Spec == Init /\ [][Next]_settlementVars
====
