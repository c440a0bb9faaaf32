---- MODULE TripPayments ----
(***************************************************************************)
(* The payments of one travel group: checkout orders, the gateway's        *)
(* webhooks and callbacks, confirmation of the trip, the agency's payout,  *)
(* refunds, chargebacks and support disputes.                              *)
(*                                                                         *)
(* Source: src/app/services/payments.py, composed with the membership      *)
(* handlers of GroupMembers. Each handler is one database transaction and  *)
(* one step here, but for the three that decide on a status they read      *)
(* without a lock and write another over it: checkout, and the failed and  *)
(* authorized events, read in one step and write in a later one.           *)
(* SettlementTx opens the transactions of finalizations, payouts and       *)
(* refunds. Discounts (promo, wallet, points), the invoice and the         *)
(* notifications do not decide anything here.                              *)
(*                                                                         *)
(* The gateway (Razorpay) is external: `gw` is its own record of every     *)
(* order. It may deliver any event it has cause to send, at any time after *)
(* the cause, in any order and any number of times, which is what its      *)
(* at-least-once webhooks amount to; so events need no message bag.        *)
(***************************************************************************)
EXTENDS GroupMembers

CONSTANTS
    MaxRows,      \* bound: payment rows one traveller may have for the group
    MaxOrders,    \* bound: orders the gateway opens
    Prices,       \* what a payment owes the agency (trip minus commission)
    SizeMin,      \* group_size_min of the plan and of the package
    KeysSet,      \* razorpay_key_id and razorpay_key_secret are configured
    AgencyLinked, \* the agency has a bank account with a linked Route account
    Refundable,   \* orders the platform may refund from the gateway's dashboard
    Chargeable,   \* orders whose bank may open a chargeback
    BankReports,  \* dispute events those banks raise
    Complaints,   \* rows a support dispute may be opened on
    Outages,      \* the gateway may fail to open an order
    Slow          \* bound: rows on which others may write between a request's read and
                  \* its write (for one request at a time)

ASSUME PaymentAssumption ==
    /\ MaxRows \in Nat \ {0}
    /\ MaxOrders \in Nat
    /\ Prices \subseteq Nat \ {0}
    /\ SizeMin \in Nat
    /\ KeysSet \in BOOLEAN
    /\ AgencyLinked \in BOOLEAN
    /\ Refundable \subseteq 1..MaxOrders
    /\ Chargeable \subseteq 1..MaxOrders
    /\ BankReports \subseteq
         {"OPEN", "UNDER_REVIEW", "ACTION_REQUIRED", "WON", "CLOSED", "LOST"}
    /\ Complaints \subseteq Travellers \X (1..MaxRows)
    /\ Outages \in BOOLEAN
    /\ Slow \subseteq Travellers \X (1..MaxRows)

VARIABLES
    pay,      \* the payments table: Rows -> PaymentRow
    told,     \* the checkout mode the last order response told the traveller
    ticket,   \* status of the support dispute (source CUSTOMER) on a row
    chargeback, \* status of the chargeback row (source RAZORPAY_CHARGEBACK) of an order
    gw,       \* external: the gateway's orders
    open      \* per row, the request that has read it and not written yet

payVars == <<pay, told, ticket, chargeback, gw, open>>
vars == <<groupVars, payVars>>

Orders == 1..MaxOrders
NoOrder == 0
MockOrder == MaxOrders + 1   \* order_mock_..., and the pay_mock_... of its capture

(* The n-th payment row created for a traveller is <<traveller, n>>.       *)
Rows == Travellers \X (1..MaxRows)

PaymentRow ==
    [status : {"NONE", "PENDING", "AUTHORIZED", "CAPTURED", "REFUNDED", "FAILED"},
     net : Prices \cup {0},              \* trip_amount - commission_amount
     paid : Prices \cup {0},             \* payout_amount_paise
     released : BOOLEAN,                 \* payout_released
     frozen : BOOLEAN,                   \* payout_frozen
     escrow : {"HELD", "RELEASED", "REFUNDED"},
     transfer : {"QUEUED", "SETTLED", "MANUAL", "FAILED"},
     order : Orders \cup {NoOrder, MockOrder},   \* razorpay_order_id
     charge : Orders \cup {NoOrder, MockOrder}]  \* razorpay_payment_id, named by its order

NoRow == [status |-> "NONE", net |-> 0, paid |-> 0, released |-> FALSE, frozen |-> FALSE,
          escrow |-> "HELD", transfer |-> "QUEUED", order |-> NoOrder, charge |-> NoOrder]

(* DISPUTE_EVENT_STATUS: the status each payment.dispute.* event carries.  *)
FreezingStatus == {"OPEN", "UNDER_REVIEW", "ACTION_REQUIRED"}
UnfreezingStatus == {"WON", "CLOSED"}
DisputeEvents == FreezingStatus \cup UnfreezingStatus \cup {"LOST"}

GatewayOrder ==
    [state : {"none", "created", "authorized", "captured", "refunded"},
     row : Rows \cup {<<>>},             \* notes.paymentId
     declined : BOOLEAN,                 \* an attempt on the order failed
     disputes : SUBSET DisputeEvents]    \* dispute events raised so far

NoGatewayOrder == [state |-> "none", row |-> <<>>, declined |-> FALSE, disputes |-> {}]

(* What a request in flight will write: the order an event names, and the  *)
(* columns that get another value than it read.                            *)
OpenRequest ==
    [by : {"nobody", "failed", "authorized", "checkout"},
     order : Orders \cup {NoOrder},
     columns : SUBSET {"status", "order", "charge"}]

Nobody == [by |-> "nobody", order |-> NoOrder, columns |-> {}]

PayTypeOK ==
    /\ pay \in [Rows -> PaymentRow]
    /\ told \in [Rows -> {"none", "razorpay", "mock"}]
    /\ ticket \in [Rows -> {"none", "OPEN", "RESOLVED"}]
    /\ chargeback \in [Orders -> DisputeEvents \cup {"none", "RESOLVED"}]
    /\ gw \in [Orders -> GatewayOrder]
    /\ open \in [Rows -> OpenRequest]

TypeOK == GroupTypeOK /\ PayTypeOK

PayInit ==
    /\ pay = [r \in Rows |-> NoRow]
    /\ told = [r \in Rows |-> "none"]
    /\ ticket = [r \in Rows |-> "none"]
    /\ chargeback = [o \in Orders |-> "none"]
    /\ gw = [o \in Orders |-> NoGatewayOrder]
    /\ open = [r \in Rows |-> Nobody]

----------------------------------------------------------------------------
(* What the gateway has cause to tell the platform about an order.         *)
HasSignature(o) == gw[o].state \in {"authorized", "captured", "refunded"}
SendsCaptured(o) == gw[o].state \in {"captured", "refunded"}
SendsRefunded(o) == gw[o].state = "refunded"

(* Payment.razorpay_order_id == order_id: an order whose row has since     *)
(* been given another order is unknown.                                    *)
Finds(r, o) == pay[r].order = o

Exists(r) == pay[r].status # "NONE"
RowsOf(u) == {r \in Rows : r[1] = u /\ Exists(r)}

----------------------------------------------------------------------------
(* Confirmation of the trip and payout of the agency.                      *)

ActiveIn(members) == {u \in Travellers : members[u] \in PayingMember}

(* The COUNT over the group's payments: it counts rows, not travellers.    *)
CapturedIn(rows, users) == {r \in Rows : r[1] \in users /\ rows[r].status = "CAPTURED"}

MinRequired == IF SizeMin > 1 THEN SizeMin ELSE 1

Quorum(rows, members) ==
    LET users == ActiveIn(members)
        captured == Cardinality(CapturedIn(rows, users))
    IN  users # {} /\ captured >= MinRequired /\ captured = Cardinality(users)

Confirms(rows, members) == Quorum(rows, members) /\ \E k \in Kinds : trip[k] # "CONFIRMED"

TripAfterCheck(rows, members) ==
    [k \in Kinds |->
        IF Quorum(rows, members) THEN "CONFIRMED"
        ELSE IF trip[k] = "OPEN" /\ ActiveIn(members) # {} THEN "CONFIRMING"
        ELSE trip[k]]

(* Only a real charge to a linked account goes through a Route transfer;   *)
(* any other payout is recorded as manual and cannot fail.                 *)
ByRoute(row) == KeysSet /\ AgencyLinked /\ row.charge \in Orders

(* Mutant: the payout does not look at the freeze.                         *)
PayableWhileFrozen(row) == row.status = "CAPTURED" /\ row.paid < row.net

Payable(row) == ~row.frozen /\ row.status = "CAPTURED" /\ row.paid < row.net

Settled(row) ==
    [row EXCEPT !.paid = row.net, !.released = TRUE, !.escrow = "RELEASED",
                !.transfer = IF ByRoute(row) THEN "SETTLED" ELSE "MANUAL"]

(* execute_agency_payout as its two callers in this file run it: whatever  *)
(* it raises is caught, and what it wrote before raising is committed.     *)
AfterPayout(row, rejected) ==
    IF ~Payable(row) THEN row
    ELSE IF rejected /\ ByRoute(row) THEN [row EXCEPT !.transfer = "FAILED"]
    ELSE Settled(row)

(* rejected: the rows whose transfer the gateway refuses.                  *)
PayOut(rows, due) ==
    \E rejected \in SUBSET due :
        pay' = [r \in Rows |-> IF r \in due THEN AfterPayout(rows[r], r \in rejected) ELSE rows[r]]

(* Mutant: the trip is confirmed and the payout left to somebody else.     *)
ConfirmWithoutPayout(rows, members) ==
    /\ trip' = TripAfterCheck(rows, members)
    /\ pay' = rows

(* check_and_confirm_group, given the payment rows and the member rows as  *)
(* its transaction sees them.                                              *)
CheckAndConfirm(rows, members) ==
    /\ trip' = TripAfterCheck(rows, members)
    /\ IF Confirms(rows, members)
       THEN PayOut(rows, {r \in CapturedIn(rows, ActiveIn(members)) : ~rows[r].released})
       ELSE pay' = rows

(* _finalize_capture: `row` is row r as its caller left it.                *)
FinalizeCapture(r, row) ==
    LET rows == [pay EXCEPT ![r] = [row EXCEPT !.status = "CAPTURED"]]
        members == [member EXCEPT ![r[1]] = IF @ = "NONE" THEN @ ELSE "COMMITTED"]
    IN  /\ member' = members
        /\ CheckAndConfirm(rows, members)
        /\ UNCHANGED <<role, size>>

----------------------------------------------------------------------------
(* Checkout.                                                               *)

(* The columns a request writes: those that get another value than it read.*)
Dirty(r, new) == {c \in DOMAIN new : new[c] # pay[r][c]}
Column(r, q, c, new) == IF c \in q.columns THEN new ELSE pay[r][c]

(* What checkout writes, the order apart.                                  *)
Priced(r, q, net) == [pay[r] EXCEPT !.status = Column(r, q, "status", "PENDING"), !.net = net]

NextOrder(o) == gw[o].state = "none" /\ \A p \in Orders : gw[p].state = "none" => o <= p

OpenOrder(r, q, net) ==
    /\ KeysSet
    /\ \E o \in Orders :
        /\ NextOrder(o)
        /\ pay' = [pay EXCEPT ![r] = [Priced(r, q, net) EXCEPT !.order = o]]
        /\ gw' = [gw EXCEPT ![o] = [NoGatewayOrder EXCEPT !.state = "created", !.row = r]]
    /\ told' = [told EXCEPT ![r] = "razorpay"]

(* No keys, or the gateway refused to open an order: the row keeps the     *)
(* order it has, or gets a mock one.                                       *)
MockOrderFor(r, q, net) ==
    /\ KeysSet => Outages
    /\ pay' = [pay EXCEPT ![r] = [Priced(r, q, net) EXCEPT !.order = Column(r, q, "order", MockOrder)]]
    /\ told' = [told EXCEPT ![r] = "mock"]
    /\ UNCHANGED gw

CheckoutWrites(r, q) ==
    /\ q.by = "checkout"
    /\ \E net \in Prices : OpenOrder(r, q, net) \/ MockOrderFor(r, q, net)

FailedWrites(r, q) ==
    /\ q.by = "failed"
    /\ pay' = [pay EXCEPT ![r].status = Column(r, q, "status", "FAILED")]
    /\ UNCHANGED <<told, gw>>

(* The handler then asks for the capture itself; the gateway may refuse    *)
(* (the payment was captured meanwhile, or an error).                      *)
AuthorizedWrites(r, q) ==
    /\ q.by = "authorized"
    /\ pay' = [pay EXCEPT ![r].status = Column(r, q, "status", "AUTHORIZED"),
                          ![r].charge = Column(r, q, "charge", q.order)]
    /\ \/ UNCHANGED gw
       \/ /\ gw[q.order].state = "authorized"
          /\ gw' = [gw EXCEPT ![q.order].state = "captured"]
    /\ UNCHANGED told

Writes(r, q) ==
    /\ CheckoutWrites(r, q) \/ FailedWrites(r, q) \/ AuthorizedWrites(r, q)
    /\ UNCHANGED <<groupVars, ticket, chargeback>>

(* A request that read row r and decided on q writes at once, or later (the*)
(* insert of a new row, and a webhook with no column to write, overwrite   *)
(* nothing later that they would not at once).                             *)
Handle(r, q) ==
    \/ Writes(r, q) /\ UNCHANGED open
    \/ /\ r \in Slow /\ Exists(r) /\ open[r] = Nobody
       /\ q.by = "checkout" \/ q.columns # {}
       /\ open' = [open EXCEPT ![r] = q]
       /\ UNCHANGED <<groupVars, pay, told, ticket, chargeback, gw>>

LateWrite(r) ==
    /\ open[r] # Nobody
    /\ Writes(r, open[r])
    /\ open' = [open EXCEPT ![r] = Nobody]

(* The row create_payment_order works on: the traveller's latest one while *)
(* it is PENDING or FAILED, a new one if there is none or it is AUTHORIZED *)
(* or REFUNDED. A CAPTURED one is returned as it is.                       *)
CheckoutRow(u, r) ==
    LET n == Cardinality(RowsOf(u))
    IN  /\ r[1] = u
        /\ \/ r[2] = n /\ pay[r].status \in {"PENDING", "FAILED"}
           \/ r[2] = n + 1 /\ \A q \in RowsOf(u) :
                q[2] = n => pay[q].status \in {"AUTHORIZED", "REFUNDED"}

CreatePaymentOrder(u) ==
    /\ member[u] \in ActiveMember
    /\ \E r \in Rows :
        /\ CheckoutRow(u, r)
        /\ LET order == IF pay[r].order = NoOrder THEN MockOrder ELSE pay[r].order
               columns == Dirty(r, [status |-> "PENDING", order |-> order])
           IN  Handle(r, [by |-> "checkout", order |-> NoOrder, columns |-> columns])

(* Mutant: the signature is not verified.                                  *)
VerifyUnsigned(r, o) ==
    /\ KeysSet
    /\ pay[r].status \notin {"NONE", "CAPTURED"}
    /\ gw[o].row = r
    /\ FinalizeCapture(r, [pay[r] EXCEPT !.order = o, !.charge = o])
    /\ UNCHANGED <<told, ticket, chargeback, gw, open>>

(* The browser posts the row and the signature its checkout got, possibly  *)
(* of an earlier order, possibly again. That the order is one of this row  *)
(* is the client's doing: the handler verifies the signature alone and     *)
(* writes the order it was given.                                          *)
VerifyPayment(r, o) ==
    /\ KeysSet
    /\ pay[r].status \notin {"NONE", "CAPTURED"}
    /\ gw[o].row = r /\ HasSignature(o)
    /\ FinalizeCapture(r, [pay[r] EXCEPT !.order = o, !.charge = o])
    /\ UNCHANGED <<told, ticket, chargeback, gw, open>>

(* An error inside the finalization is rolled back and answered as a       *)
(* success: a step that changes nothing.                                   *)
HostedCheckoutCallback(r, o) ==
    /\ Finds(r, o) /\ HasSignature(o)
    /\ pay[r].status # "CAPTURED"
    /\ FinalizeCapture(r, [pay[r] EXCEPT !.charge = o])
    /\ UNCHANGED <<told, ticket, chargeback, gw, open>>

(* The client calls it when the order response said "mock".                *)
MockCapture(r) ==
    /\ told[r] = "mock"
    /\ pay[r].status # "CAPTURED"
    /\ FinalizeCapture(r, [pay[r] EXCEPT !.charge = IF @ = NoOrder THEN MockOrder ELSE @])
    /\ UNCHANGED <<told, ticket, chargeback, gw, open>>

----------------------------------------------------------------------------
(* Webhooks. An event for an order no row has is ignored.                  *)

(* Mutant: a captured event is ignored after a failed attempt.             *)
CapturedUnlessFailed(r, o) ==
    /\ Finds(r, o) /\ SendsCaptured(o)
    /\ pay[r].status \notin {"CAPTURED", "FAILED"}
    /\ FinalizeCapture(r, [pay[r] EXCEPT !.charge = o])
    /\ UNCHANGED <<told, ticket, chargeback, gw, open>>

(* payment.captured and order.paid.                                        *)
PaymentCaptured(r, o) ==
    /\ Finds(r, o) /\ SendsCaptured(o)
    /\ pay[r].status # "CAPTURED"
    /\ FinalizeCapture(r, [pay[r] EXCEPT !.charge = o])
    /\ UNCHANGED <<told, ticket, chargeback, gw, open>>

(* A failed attempt is believed unless the row is read as CAPTURED.        *)
PaymentFailed(r, o) ==
    /\ Finds(r, o) /\ gw[o].declined
    /\ pay[r].status # "CAPTURED"
    /\ Handle(r, [by |-> "failed", order |-> o, columns |-> Dirty(r, [status |-> "FAILED"])])

PaymentAuthorized(r, o) ==
    /\ Finds(r, o) /\ HasSignature(o)
    /\ pay[r].status # "CAPTURED"
    /\ LET columns == Dirty(r, [status |-> "AUTHORIZED", charge |-> o])
       IN  Handle(r, [by |-> "authorized", order |-> o, columns |-> columns])

(* Mutant: a refund of a payment whose payout is out does not freeze it.   *)
RefundedUnfrozen(r, o) ==
    /\ pay[r].charge = o /\ SendsRefunded(o)
    /\ pay[r].status # "REFUNDED"
    /\ pay' = [pay EXCEPT ![r].status = "REFUNDED", ![r].escrow = "REFUNDED",
                          ![r].frozen = @ \/ ~pay[r].released]
    /\ UNCHANGED <<groupVars, told, ticket, chargeback, gw, open>>

(* Found by razorpay_payment_id, not by order.                             *)
PaymentRefunded(r, o) ==
    /\ pay[r].charge = o /\ SendsRefunded(o)
    /\ pay[r].status # "REFUNDED"
    /\ pay' = [pay EXCEPT ![r].status = "REFUNDED", ![r].escrow = "REFUNDED", ![r].frozen = TRUE]
    /\ UNCHANGED <<groupVars, told, ticket, chargeback, gw, open>>

FreezeAfter(status, frozen) ==
    IF status \in FreezingStatus THEN TRUE
    ELSE IF status \in UnfreezingStatus THEN FALSE
    ELSE frozen

PaymentDispute(r, o) ==
    /\ Finds(r, o)
    /\ \E status \in gw[o].disputes :
        /\ chargeback' = [chargeback EXCEPT ![o] = status]
        /\ pay' = [pay EXCEPT ![r].frozen = FreezeAfter(status, @)]
    /\ UNCHANGED <<groupVars, told, ticket, gw, open>>

----------------------------------------------------------------------------
(* Requests of travellers and administrators.                              *)

CreateDispute(r) ==
    /\ Exists(r) /\ r \in Complaints
    /\ ticket[r] = "none"
    /\ ticket' = [ticket EXCEPT ![r] = "OPEN"]
    /\ UNCHANGED <<groupVars, pay, told, chargeback, gw, open>>

(* resolve_dispute, for a support dispute and for a chargeback: whatever   *)
(* its status, it becomes RESOLVED and the payment is unfrozen.            *)
ResolveTicket(r) ==
    /\ ticket[r] # "none"
    /\ ticket' = [ticket EXCEPT ![r] = "RESOLVED"]
    /\ pay' = [pay EXCEPT ![r].frozen = FALSE]
    /\ UNCHANGED <<groupVars, told, chargeback, gw, open>>

ResolveChargeback(o) ==
    /\ chargeback[o] # "none"
    /\ chargeback' = [chargeback EXCEPT ![o] = "RESOLVED"]
    /\ pay' = [pay EXCEPT ![gw[o].row].frozen = FALSE]
    /\ UNCHANGED <<groupVars, told, ticket, gw, open>>

(* execute_agency_payout behind the admin endpoint: an error leaves the    *)
(* handler, so its transaction is rolled back and nothing changes.         *)
AgencyPayout(r) ==
    /\ Payable(pay[r])
    /\ pay' = [pay EXCEPT ![r] = Settled(@)]
    /\ UNCHANGED <<groupVars, told, ticket, chargeback, gw, open>>

ResolveConfirmingWindow ==
    /\ trip' = [k \in Kinds |-> IF trip[k] = "CONFIRMING" THEN "CONFIRMED" ELSE trip[k]]
    /\ UNCHANGED <<member, role, size, payVars>>

(* Mutant: completion settles the payments of its active members only.     *)
CompleteForActive ==
    /\ GroupExists
    /\ trip' = [k \in Kinds |-> "COMPLETED"]
    /\ PayOut(pay, {r \in CapturedIn(pay, ActiveIn(member)) : ~pay[r].released})
    /\ UNCHANGED <<member, role, size, told, ticket, chargeback, gw, open>>

(* complete_trip, from any status of the trip.                             *)
CompleteTrip ==
    /\ GroupExists
    /\ trip' = [k \in Kinds |-> "COMPLETED"]
    /\ PayOut(pay, {r \in Rows : pay[r].status = "CAPTURED" /\ ~pay[r].released})
    /\ UNCHANGED <<member, role, size, told, ticket, chargeback, gw, open>>

----------------------------------------------------------------------------
(* The beats of workers/tasks.py.                                          *)

(* The end date of the trip may have passed whenever the beat looks.       *)
CheckCompletedTrips ==
    /\ \E k \in Kinds : trip[k] = "CONFIRMED"
    /\ CompleteTrip

(* Mutant: the beat looks at plans only.                                   *)
ReconcilePlans ==
    /\ HasPlan
    /\ trip["plan"] = "CONFIRMING"
    /\ CheckAndConfirm(pay, member)
    /\ UNCHANGED <<member, role, size, told, ticket, chargeback, gw, open>>

ReconcileStuckGroupConfirmations ==
    /\ GroupExists
    /\ \E k \in Kinds : trip[k] = "CONFIRMING"
    /\ CheckAndConfirm(pay, member)
    /\ UNCHANGED <<member, role, size, told, ticket, chargeback, gw, open>>

----------------------------------------------------------------------------
(* External: the traveller at the gateway, the platform's dashboard there, *)
(* the traveller's bank.                                                   *)

GatewayMoves(o) ==
    /\ \/ /\ gw[o].state = "created" /\ ~gw[o].declined
          /\ gw' = [gw EXCEPT ![o].declined = TRUE]
       \/ /\ gw[o].state = "created"
          /\ gw' = [gw EXCEPT ![o].state = "authorized"]
       \/ /\ gw[o].state = "authorized"
          /\ gw' = [gw EXCEPT ![o].state = "captured"]
       \/ /\ gw[o].state = "captured" /\ o \in Refundable
          /\ gw' = [gw EXCEPT ![o].state = "refunded"]
    /\ UNCHANGED <<groupVars, pay, told, ticket, chargeback, open>>

(* The bank opens a chargeback, may report progress, and closes it once.   *)
BankDisputes(o) ==
    /\ o \in Chargeable
    /\ gw[o].state \in {"captured", "refunded"}
    /\ gw[o].disputes \subseteq FreezingStatus
    /\ \E e \in BankReports \ gw[o].disputes :
        /\ e # "OPEN" => "OPEN" \in gw[o].disputes
        /\ gw' = [gw EXCEPT ![o].disputes = @ \cup {e}]
    /\ UNCHANGED <<groupVars, pay, told, ticket, chargeback, open>>

----------------------------------------------------------------------------
Init == GroupInit /\ PayInit

Webhook ==
    \E r \in Rows, o \in Orders :
        \/ PaymentCaptured(r, o)
        \/ PaymentFailed(r, o)
        \/ PaymentAuthorized(r, o)
        \/ PaymentRefunded(r, o)
        \/ PaymentDispute(r, o)

Request ==
    \/ \E u \in Travellers : CreatePaymentOrder(u)
    \/ \E r \in Rows :
        \/ MockCapture(r)
        \/ CreateDispute(r)
        \/ ResolveTicket(r)
        \/ AgencyPayout(r)
        \/ \E o \in Orders : VerifyPayment(r, o) \/ HostedCheckoutCallback(r, o)
    \/ \E o \in Orders : ResolveChargeback(o)
    \/ ResolveConfirmingWindow
    \/ CompleteTrip

Beat == CheckCompletedTrips \/ ReconcileStuckGroupConfirmations

Environment == \E o \in Orders : GatewayMoves(o) \/ BankDisputes(o)

Next ==
    \/ MembershipStep /\ UNCHANGED payVars
    \/ Webhook
    \/ Request
    \/ \E r \in Rows : LateWrite(r)
    \/ Beat
    \/ Environment

Spec == Init /\ [][Next]_vars

(* The beat runs every 15 minutes (celery_app.py:47-50), and the gateway   *)
(* repeats a webhook until it is answered with a success.                  *)
Fairness ==
    /\ WF_vars(ReconcileStuckGroupConfirmations)
    /\ \A r \in Rows, o \in Orders : WF_vars(PaymentCaptured(r, o))

FairSpec == Spec /\ Fairness

----------------------------------------------------------------------------
(* Behind a captured payment there is money: the traveller paid the order  *)
(* the charge names, and that order was opened for this very row; a mock   *)
(* charge was only ever made where the traveller was told to use it.       *)
(* Verify, callback and webhooks write order and charge in their own ways. *)
MoneyBehindCapture ==
    \A r \in Rows : pay[r].status = "CAPTURED" =>
        \/ pay[r].charge \in Orders /\ gw[pay[r].charge].row = r /\ HasSignature(pay[r].charge)
        \/ pay[r].charge = MockOrder /\ told[r] # "none"

(* payments.py:1132-1134: a failed event that arrives after the capture    *)
(* "must never downgrade a successfully captured payment back to FAILED".  *)
CapturedNeverFails ==
    [][\A r \in Rows : pay[r].status = "CAPTURED" => pay'[r].status # "FAILED"]_vars

(* A refund freezes the payout (payments.py:1203-1206) and the freeze      *)
(* survives everything but the outcome of a dispute: no late capture, new  *)
(* order, failed attempt or payout run lifts it.                           *)
Disputed(r) == ticket[r] # "none" \/ \E o \in Orders : gw[o].row = r /\ chargeback[o] # "none"

RefundStopsPayout ==
    \A r \in Rows : pay[r].escrow = "REFUNDED" /\ ~Disputed(r) => pay[r].frozen

(* The step by which a capture or the reconciliation beat confirms the     *)
(* trip leaves no share of a paying traveller in limbo: it is paid out,    *)
(* frozen, or its refused transfer is on record (payments.py:415-425).     *)
InLimbo(row) ==
    row.status = "CAPTURED" /\ ~row.released /\ ~row.frozen /\ row.transfer # "FAILED"

ConfirmationPaysAgency ==
    [][\A k \in Kinds :
        trip[k] # "CONFIRMED" /\ trip'[k] = "CONFIRMED" /\ ~ResolveConfirmingWindow =>
            \A r \in Rows : r[1] \in ActiveIn(member') => ~InLimbo(pay'[r])]_vars

(* Completing the trip is the safety net (payments.py:1547-1552): after it *)
(* no captured share is in limbo, whoever its traveller is by then.        *)
CompletionSettles ==
    [][(\E k \in Kinds : trip[k] # "COMPLETED" /\ trip'[k] = "COMPLETED") =>
            \A r \in Rows : ~InLimbo(pay'[r])]_vars

(* The agency's money moves as Settlement.tla promises.                    *)
Charged == {r \in Rows : \/ \E o \in Orders : gw[o].row = r /\ HasSignature(o)
                         \/ pay[r].charge = MockOrder}
Frozen == {r \in Rows : pay[r].frozen}
Received == [r \in Rows |-> pay[r].paid]

Ledger == INSTANCE Settlement WITH
    Payments <- Rows, Shares <- Prices,
    charged <- Charged, frozen <- Frozen, settled <- Received

SettlesLikeLedger == Ledger!Spec

(* tasks.py:212-220: a trip that is confirming while every active traveller*)
(* has paid does not stay so, even where no capture follows to notice it   *)
(* (the last traveller who had not paid left, say).                        *)
StuckTripIsConfirmed ==
    (trip["package"] = "CONFIRMING" /\ Quorum(pay, member))
        ~> (trip["package"] # "CONFIRMING" \/ ~Quorum(pay, member))

(* Money the gateway took for the order a row has ends up on that row,     *)
(* whatever failed or authorized events arrive around the captured one,    *)
(* unless the traveller's next checkout replaces the order first.          *)
CapturedMoneyIsBooked ==
    \A r \in Rows, o \in Orders :
        (Finds(r, o) /\ SendsCaptured(o))
            ~> (pay[r].status \in {"CAPTURED", "REFUNDED"} \/ ~Finds(r, o))

(* payments.py:353-365: the trip confirms "once every required traveler has*)
(* a captured payment".                                                    *)
ConfirmedMeansEveryonePaid ==
    [][\A k \in Kinds :
        trip[k] # "CONFIRMED" /\ trip'[k] = "CONFIRMED" /\ ~ResolveConfirmingWindow =>
            \A u \in ActiveIn(member') : CapturedIn(pay', {u}) # {}]_vars

(* payments.py:1407-1410, "an open Razorpay chargeback -- payouts are      *)
(* frozen until it's resolved", and 1244-1249, "LOST stays frozen".           *)
HeldWhileDisputed ==
    \A o \in Orders : chargeback[o] \in FreezingStatus \cup {"LOST"} => pay[gw[o].row].frozen
====
