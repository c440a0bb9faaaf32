---- MODULE TripPaymentsProofs ----
(***************************************************************************)
(* What holds of the payments of one group for any set of travellers, any  *)
(* number of rows and orders, and any prices: see Inv for the invariant,   *)
(* and the theorems at the end for what follows from it.                   *)
(***************************************************************************)
EXTENDS TripPayments, GroupMembersProofs

(* An order a row names was opened at the gateway, for that row.           *)
OrdersBelong ==
    \A r \in Rows : pay[r].order \in Orders =>
        Exists(r) /\ gw[pay[r].order].state # "none" /\ gw[pay[r].order].row = r

(* A charge a row names was made: on an order of that row, or as a mock    *)
(* one the traveller was told to make.                                     *)
Backed(r, charge) ==
    \/ charge \in Orders /\ gw[charge].row = r /\ HasSignature(charge)
    \/ charge = MockOrder /\ told[r] # "none"

ChargesBacked ==
    \A r \in Rows : pay[r].charge # NoOrder => Exists(r) /\ Backed(r, pay[r].charge)

CapturedIsCharged == \A r \in Rows : pay[r].status = "CAPTURED" => pay[r].charge # NoOrder

ToldRowsExist == \A r \in Rows : told[r] # "none" => Exists(r)

(* The rows of a traveller are numbered without a gap.                     *)
RowsInOrder ==
    \A r \in Rows : Exists(r) => \A m \in 1..r[2] : Exists(<<r[1], m>>)

DisputedOrdersExist ==
    \A o \in Orders : chargeback[o] # "none" => gw[o].state # "none" /\ gw[o].row \in Rows

(* What a request that has read row r may go on to write: the charge of an *)
(* authorized order was made for the row, and only a checkout inserts a    *)
(* row, the next one of its traveller.                                     *)
RequestFits(r, q) ==
    /\ q \in OpenRequest
    /\ q.by = "authorized" => q.order \in Orders /\ Backed(r, q.order)
    /\ \/ Exists(r)
       \/ /\ q.by = "checkout" /\ "status" \in q.columns
          /\ \A m \in 1..(r[2] - 1) : Exists(<<r[1], m>>)

OpenFits == \A r \in Rows : open[r] # Nobody => Exists(r) /\ RequestFits(r, open[r])

Books ==
    /\ OrdersBelong
    /\ ChargesBacked
    /\ CapturedIsCharged
    /\ ToldRowsExist
    /\ RowsInOrder
    /\ DisputedOrdersExist
    /\ RefundStopsPayout
    /\ OpenFits

Inv == GroupInv /\ PayTypeOK /\ Books

----------------------------------------------------------------------------
(* The special order numbers are no gateway orders.                        *)
LEMMA SpecialOrders ==
    /\ MockOrder \notin Orders
    /\ NoOrder \notin Orders
    /\ MockOrder # NoOrder
    BY PaymentAssumption DEF MockOrder, NoOrder, Orders

(* What a payout may do to a row, whether or not its transfer is refused.  *)
OnlySettled(row, new) ==
    /\ new \in PaymentRow
    /\ new.status = row.status
    /\ new.order = row.order
    /\ new.charge = row.charge
    /\ new.frozen = row.frozen
    /\ new.paid = row.paid \/ (Payable(row) /\ new.paid = row.net)
    /\ new.escrow = row.escrow \/ (Payable(row) /\ new.escrow = "RELEASED")

(* A row a payout run does not touch.                                      *)
LEMMA UntouchedIsSettled ==
    ASSUME NEW row \in PaymentRow
    PROVE  OnlySettled(row, row)
    BY DEF OnlySettled

(* A row that is paid out.                                                 *)
LEMMA SettledIsSettled ==
    ASSUME NEW row \in PaymentRow, Payable(row)
    PROVE  OnlySettled(row, Settled(row))
    BY DEF OnlySettled, Settled, Payable, PaymentRow

(* execute_agency_payout under its two callers, refused or not.            *)
LEMMA AfterPayoutIsSettled ==
    ASSUME NEW row \in PaymentRow, NEW rejected \in BOOLEAN
    PROVE  OnlySettled(row, AfterPayout(row, rejected))
<1>1. CASE ~Payable(row)
    BY <1>1, UntouchedIsSettled DEF AfterPayout
<1>2. CASE Payable(row) /\ rejected /\ ByRoute(row)
    BY <1>2 DEF AfterPayout, OnlySettled, PaymentRow
<1>3. CASE Payable(row) /\ ~(rejected /\ ByRoute(row))
    BY <1>3, SettledIsSettled DEF AfterPayout
<1> QED
    BY <1>1, <1>2, <1>3

(* A payout run touches the rows it is given, and each only as above.      *)
LEMMA PayOutSettles ==
    ASSUME NEW rows \in [Rows -> PaymentRow], NEW due, PayOut(rows, due)
    PROVE  /\ pay' \in [Rows -> PaymentRow]
           /\ \A r \in Rows : OnlySettled(rows[r], pay'[r])
<1>1. PICK rejected \in SUBSET due :
        pay' = [r \in Rows |-> IF r \in due THEN AfterPayout(rows[r], r \in rejected) ELSE rows[r]]
    BY DEF PayOut
<1>2. ASSUME NEW r \in Rows
      PROVE  OnlySettled(rows[r], pay'[r])
    <2>1. CASE r \in due
        <3>1. pay'[r] = AfterPayout(rows[r], r \in rejected)
            BY <1>1, <2>1
        <3>2. (r \in rejected) \in BOOLEAN /\ rows[r] \in PaymentRow
            OBVIOUS
        <3>3. OnlySettled(rows[r], AfterPayout(rows[r], r \in rejected))
            BY <3>2, AfterPayoutIsSettled, Zenon
        <3> QED
            BY <3>1, <3>3
    <2>2. CASE r \notin due
        BY <1>1, <2>2, UntouchedIsSettled
    <2> QED
        BY <2>1, <2>2
<1>3. \A r \in Rows : pay'[r] \in PaymentRow
    BY <1>2 DEF OnlySettled
<1> QED
    BY <1>1, <1>2, <1>3

(* check_and_confirm_group keeps the trip's type and only settles rows.    *)
LEMMA CheckAndConfirmSettles ==
    ASSUME NEW rows \in [Rows -> PaymentRow], NEW members,
           trip \in [Kinds -> TripStatus], CheckAndConfirm(rows, members)
    PROVE  /\ trip' \in [Kinds -> TripStatus]
           /\ pay' \in [Rows -> PaymentRow]
           /\ \A r \in Rows : OnlySettled(rows[r], pay'[r])
<1>1. trip' \in [Kinds -> TripStatus]
    BY DEF CheckAndConfirm, TripAfterCheck, TripStatus
<1>2. CASE Confirms(rows, members)
    BY <1>1, <1>2, PayOutSettles DEF CheckAndConfirm
<1>3. CASE ~Confirms(rows, members)
    BY <1>1, <1>3, UntouchedIsSettled DEF CheckAndConfirm
<1> QED
    BY <1>2, <1>3

----------------------------------------------------------------------------
(* Nothing is booked at first.                                             *)
LEMMA InvInit == Init => Inv
<1> SUFFICES ASSUME Init
             PROVE  Inv
    OBVIOUS
<1>1. GroupInv
    BY GroupInvInit DEF Init
<1>2. PayTypeOK
    BY PaymentAssumption DEF Init, PayInit, PayTypeOK, NoRow, PaymentRow, NoGatewayOrder,
       GatewayOrder, NoOrder, MockOrder, Orders, OpenRequest, Nobody
<1>3. Books
    BY SpecialOrders DEF Init, PayInit, Books, OrdersBelong, ChargesBacked, CapturedIsCharged,
       ToldRowsExist, RowsInOrder, DisputedOrdersExist, RefundStopsPayout, OpenFits,
       NoRow, Exists
<1> QED
    BY <1>1, <1>2, <1>3 DEF Inv

(* The gateway never forgets an order, and never takes a signature back.   *)
GatewayAdvances ==
    \A o \in Orders : gw[o].state # "none" =>
        /\ gw'[o].state # "none"
        /\ gw'[o].row = gw[o].row
        /\ HasSignature(o) => HasSignature(o)'

(* A gateway that does not move advances.                                  *)
LEMMA StillGatewayAdvances ==
    ASSUME gw' = gw
    PROVE  GatewayAdvances
    BY DEF GatewayAdvances, HasSignature

(* What a request in flight is to write stays fit while rows and orders    *)
(* stay.                                                                   *)
LEMMA OpenFitsOn ==
    ASSUME OpenFits, GatewayAdvances, open' = open, \A q \in Rows : Exists(q) => Exists(q)'
    PROVE  OpenFits'
<1>1. ASSUME NEW r \in Rows, NEW o \in Orders, Backed(r, o)
      PROVE  Backed(r, o)'
    BY <1>1, SpecialOrders DEF Backed, GatewayAdvances, HasSignature
<1> QED
    BY <1>1 DEF OpenFits, RequestFits

(* verify_payment, the callback, mock_capture and the captured webhook: a  *)
(* row that is not captured becomes so, on a charge that was made for it.  *)
LEMMA CaptureKeepsInv ==
    ASSUME Inv, NEW r \in Rows, NEW row \in PaymentRow, FinalizeCapture(r, row),
           UNCHANGED <<told, ticket, chargeback, gw, open>>,
           Exists(r),
           row.order \in Orders => gw[row.order].state # "none" /\ gw[row.order].row = r,
           row.charge # NoOrder, Backed(r, row.charge),
           row.frozen = pay[r].frozen, row.escrow = pay[r].escrow
    PROVE  Inv'
<1> DEFINE captured == [row EXCEPT !.status = "CAPTURED"]
           rows == [pay EXCEPT ![r] = captured]
           members == [member EXCEPT ![r[1]] = IF @ = "NONE" THEN @ ELSE "COMMITTED"]
<1>1. /\ rows \in [Rows -> PaymentRow]
      /\ rows[r] = captured
      /\ \A q \in Rows \ {r} : rows[q] = pay[q]
    BY DEF Inv, PayTypeOK, PaymentRow
<1>2. /\ member' = members
      /\ CheckAndConfirm(rows, members)
      /\ role' = role /\ size' = size
    BY DEF FinalizeCapture
<1>3. /\ trip' \in [Kinds -> TripStatus]
      /\ pay' \in [Rows -> PaymentRow]
      /\ \A q \in Rows : OnlySettled(rows[q], pay'[q])
    <2> HIDE DEF rows, members
    <2> QED
        BY <1>1, <1>2, CheckAndConfirmSettles DEF Inv, GroupInv, GroupTypeOK
<1>4. GroupInv'
    <2>1. r[1] \in Travellers
        BY DEF Rows
    <2>2. CASE member[r[1]] = "NONE"
        <3>1. member' = [member EXCEPT ![r[1]] = member[r[1]]]
            BY <1>2, <2>2
        <3> QED
            BY <1>2, <1>3, <2>1, <3>1, ActivatingKeepsGroupInv DEF Inv
    <2>3. CASE member[r[1]] # "NONE"
        <3>1. member' = [member EXCEPT ![r[1]] = "COMMITTED"]
            BY <1>2, <2>3
        <3> QED
            BY <1>2, <1>3, <2>1, <2>3, <3>1, ActivatingKeepsGroupInv DEF Inv
    <2> QED
        BY <2>2, <2>3
<1>5. PayTypeOK'
    BY <1>3 DEF Inv, PayTypeOK
<1>6. /\ pay'[r].status = "CAPTURED"
      /\ pay'[r].order = row.order
      /\ pay'[r].charge = row.charge
      /\ pay'[r].frozen = pay[r].frozen
      /\ pay'[r].escrow = pay[r].escrow \/ pay'[r].escrow = "RELEASED"
    <2>1. OnlySettled(captured, pay'[r])
        BY <1>1, <1>3
    <2> QED
        BY <2>1 DEF OnlySettled, PaymentRow
<1>7. \A q \in Rows \ {r} :
        /\ pay'[q].status = pay[q].status
        /\ pay'[q].order = pay[q].order
        /\ pay'[q].charge = pay[q].charge
        /\ pay'[q].frozen = pay[q].frozen
        /\ pay'[q].escrow = pay[q].escrow \/ pay'[q].escrow = "RELEASED"
    <2>1. ASSUME NEW q \in Rows \ {r}
          PROVE  OnlySettled(pay[q], pay'[q])
        BY <1>1, <1>3
    <2> QED
        BY <2>1 DEF OnlySettled
<1>8. \A q \in Rows : Exists(q)' <=> Exists(q)
    BY <1>6, <1>7 DEF Exists
<1> HIDE DEF captured, rows, members
<1>9. OrdersBelong'
    BY <1>6, <1>7, <1>8 DEF Inv, Books, OrdersBelong, Exists
<1>10. ChargesBacked'
    BY <1>6, <1>7, <1>8 DEF Inv, Books, ChargesBacked, Backed, HasSignature
<1>11. CapturedIsCharged'
    BY <1>6, <1>7 DEF Inv, Books, CapturedIsCharged
<1>12. OpenFits'
    BY <1>8, StillGatewayAdvances, OpenFitsOn DEF Inv, Books
<1>13. ToldRowsExist'
    BY <1>8 DEF Inv, Books, ToldRowsExist, Exists
<1>14. RowsInOrder'
    <2>1. \A q \in Rows : \A m \in 1..q[2] : <<q[1], m>> \in Rows
        BY PaymentAssumption DEF Rows
    <2> QED
        BY <1>8, <2>1 DEF Inv, Books, RowsInOrder
<1>15. DisputedOrdersExist'
    BY DEF Inv, Books, DisputedOrdersExist
<1>16. RefundStopsPayout'
    BY <1>6, <1>7 DEF Inv, Books, RefundStopsPayout, Disputed
<1> QED
    BY <1>4, <1>5, <1>9, <1>10, <1>11, <1>12, <1>13, <1>14, <1>15, <1>16 DEF Inv, Books

----------------------------------------------------------------------------
(* What a handler that neither opens an order nor captures may do to a row.*)
RowKept(q) ==
    /\ Exists(q) <=> Exists(q)'
    /\ pay'[q].order = pay[q].order
    /\ pay'[q].charge # pay[q].charge =>
         Exists(q) /\ pay'[q].charge # NoOrder /\ Backed(q, pay[q].charge)'
    /\ pay'[q].status = "CAPTURED" => pay'[q].charge # NoOrder
    /\ pay'[q].escrow = "REFUNDED" /\ ~Disputed(q)' => pay'[q].frozen

(* If every row is kept, so is the invariant.                              *)
LEMMA KeptRowsKeepInv ==
    ASSUME Inv, GroupInv', PayTypeOK', told' = told, open' = open, GatewayAdvances,
           DisputedOrdersExist', \A q \in Rows : RowKept(q)
    PROVE  Inv'
<1>1. OrdersBelong'
    BY DEF Inv, Books, OrdersBelong, RowKept, Exists, GatewayAdvances
<1>2. ChargesBacked'
    <2>1. ASSUME NEW q \in Rows, pay'[q].charge # NoOrder
          PROVE  Exists(q)' /\ Backed(q, pay[q].charge)'
        <3>1. CASE pay'[q].charge = pay[q].charge
            <4>1. Exists(q) /\ Backed(q, pay[q].charge)
                BY <2>1, <3>1 DEF Inv, Books, ChargesBacked
            <4> QED
                BY <3>1, <4>1 DEF Backed, GatewayAdvances, HasSignature, RowKept
        <3>2. CASE pay'[q].charge # pay[q].charge
            BY <3>2 DEF RowKept
        <3> QED
            BY <3>1, <3>2
    <2> QED
        BY <2>1 DEF ChargesBacked
<1>3. CapturedIsCharged' /\ RefundStopsPayout'
    BY DEF CapturedIsCharged, RefundStopsPayout, RowKept
<1>4. ToldRowsExist'
    BY DEF Inv, Books, ToldRowsExist, RowKept
<1>5. RowsInOrder'
    <2>1. \A q \in Rows : \A m \in 1..q[2] : <<q[1], m>> \in Rows
        BY PaymentAssumption DEF Rows
    <2> QED
        BY <2>1 DEF Inv, Books, RowsInOrder, RowKept
<1>6. OpenFits'
    BY OpenFitsOn DEF Inv, Books, RowKept
<1> QED
    BY <1>1, <1>2, <1>3, <1>4, <1>5, <1>6 DEF Inv, Books

(* A payout run, or nothing at all, keeps a row.                           *)
LEMMA SettledRowIsKept ==
    ASSUME Inv, NEW q \in Rows, OnlySettled(pay[q], pay'[q]), Disputed(q) => Disputed(q)'
    PROVE  RowKept(q)
<1>1. /\ pay[q].status = "CAPTURED" => pay[q].charge # NoOrder
      /\ pay[q].escrow = "REFUNDED" /\ ~Disputed(q) => pay[q].frozen
    BY DEF Inv, Books, CapturedIsCharged, RefundStopsPayout
<1> QED
    BY <1>1 DEF RowKept, OnlySettled, Exists

(* A row no handler touches is kept.                                       *)
LEMMA UntouchedRowIsKept ==
    ASSUME Inv, NEW q \in Rows, pay'[q] = pay[q], Disputed(q) => Disputed(q)'
    PROVE  RowKept(q)
<1>1. pay[q] \in PaymentRow
    BY DEF Inv, PayTypeOK
<1> QED
    BY <1>1, UntouchedIsSettled, SettledRowIsKept

(* Payout runs by themselves: completion, the beat, an administrator.      *)
LEMMA PayoutRunKeepsInv ==
    ASSUME Inv, GroupInv', UNCHANGED <<told, ticket, chargeback, gw, open>>,
           pay' \in [Rows -> PaymentRow],
           \A q \in Rows : OnlySettled(pay[q], pay'[q])
    PROVE  Inv'
<1>1. PayTypeOK'
    BY DEF Inv, PayTypeOK
<1>2. \A q \in Rows : Disputed(q) => Disputed(q)'
    BY DEF Disputed
<1>3. \A q \in Rows : RowKept(q)
    BY <1>2, SettledRowIsKept
<1>4. DisputedOrdersExist'
    BY DEF Inv, Books, DisputedOrdersExist
<1> QED
    BY <1>1, <1>3, <1>4, StillGatewayAdvances, KeptRowsKeepInv

----------------------------------------------------------------------------
(* The numbers of a traveller's rows are 1, 2, ... without a gap, so their *)
(* count is the number of the latest one.                                  *)
LEMMA CheckoutRowFits ==
    ASSUME Inv, NEW u \in Travellers, NEW r \in Rows, CheckoutRow(u, r)
    PROVE  /\ pay[r].status \in {"NONE", "PENDING", "FAILED"}
           /\ r[1] = u
           /\ \A m \in 1..(r[2] - 1) : Exists(<<u, m>>)
<1> DEFINE numbers == {n \in 1..MaxRows : Exists(<<u, n>>)}
           k == Cardinality(numbers)
<1>1. \A n \in 1..MaxRows : <<u, n>> \in Rows
    BY DEF Rows
<1>2. numbers \in SUBSET (1..MaxRows) /\ IsFiniteSet(numbers) /\ k \in Nat
    <2>1. IsFiniteSet(1..MaxRows)
        BY PaymentAssumption, FS_Interval
    <2>2. numbers \in SUBSET (1..MaxRows)
        OBVIOUS
    <2>3. IsFiniteSet(numbers)
        BY <2>1, <2>2, FS_Subset
    <2> QED
        BY <2>2, <2>3, FS_CardinalityType
<1>3. Cardinality(RowsOf(u)) = k
    <2> DEFINE f == [n \in numbers |-> <<u, n>>]
    <2>1. f \in Bijection(numbers, RowsOf(u))
        <3>1. f \in [numbers -> RowsOf(u)]
            BY <1>1 DEF RowsOf
        <3>2. \A a, b \in numbers : f[a] = f[b] => a = b
            OBVIOUS
        <3>3. \A q \in RowsOf(u) : \E n \in numbers : f[n] = q
            BY DEF RowsOf, Rows
        <3> QED
            BY <3>1, <3>2, <3>3 DEF Bijection, Injection, Surjection, IsInjective
    <2>2. ExistsBijection(numbers, RowsOf(u))
        BY <2>1 DEF ExistsBijection
    <2> QED
        BY <1>2, <2>2, FS_Bijection
<1>4. ASSUME NEW n \in numbers
      PROVE  1..n \subseteq numbers /\ n <= k
    <2>1. \A m \in 1..n : Exists(<<u, m>>)
        <3>1. <<u, n>> \in Rows /\ Exists(<<u, n>>)
            BY <1>1
        <3> QED
            BY <3>1 DEF Inv, Books, RowsInOrder
    <2>2. 1..n \in SUBSET numbers
        BY <2>1, PaymentAssumption
    <2>3. Cardinality(1..n) <= k
        BY <1>2, <2>2, FS_Subset
    <2>4. Cardinality(1..n) = n
        BY FS_Interval
    <2> QED
        BY <2>2, <2>3, <2>4
<1>5. numbers = 1..k
    <2>1. numbers \in SUBSET (1..k)
        BY <1>2, <1>4
    <2>2. IsFiniteSet(1..k) /\ Cardinality(1..k) = k
        BY <1>2, FS_Interval
    <2> QED
        BY <2>1, <2>2, FS_Subset
<1>6. r[1] = u /\ r = <<u, r[2]>> /\ r[2] \in 1..MaxRows
    BY DEF CheckoutRow, Rows
<1>. HIDE DEF k
<1>7. CASE r[2] = k /\ pay[r].status \in {"PENDING", "FAILED"}
    <2>1. \A m \in 1..(r[2] - 1) : m \in numbers
        BY <1>2, <1>5, <1>7
    <2> QED
        BY <1>6, <1>7, <2>1
<1>8. CASE r[2] = k + 1
    <2>1. r[2] \notin 1..k
        BY <1>2, <1>8
    <2>2. ~Exists(r)
        BY <1>5, <1>6, <2>1
    <2>3. \A m \in 1..(r[2] - 1) : m \in numbers
        BY <1>2, <1>5, <1>8
    <2> QED
        BY <1>6, <2>2, <2>3 DEF Exists
<1> QED
    BY <1>3, <1>7, <1>8 DEF CheckoutRow

----------------------------------------------------------------------------
(* A signature or a charge the gateway makes is for an order that exists.  *)
LEMMA SignedOrderExists ==
    ASSUME NEW o \in Orders, HasSignature(o)
    PROVE  gw[o].state # "none"
    BY DEF HasSignature

(* An event finds the row its order was opened for.                        *)
LEMMA FoundRowIsBacked ==
    ASSUME Inv, NEW r \in Rows, NEW o \in Orders, Finds(r, o)
    PROVE  /\ Exists(r) /\ gw[o].state # "none" /\ gw[o].row = r
           /\ HasSignature(o) => Backed(r, o)
    BY DEF Inv, Books, OrdersBelong, Finds, Backed

(* A captured event comes of a payment that has a signature.               *)
LEMMA SendsCapturedIsSigned ==
    ASSUME NEW o, SendsCaptured(o)
    PROVE  HasSignature(o)
    BY DEF SendsCaptured, HasSignature

(* verify_payment: the signature is for an order of the very row.          *)
LEMMA VerifyPaymentKeepsInv ==
    ASSUME Inv, NEW r \in Rows, NEW o \in Orders, VerifyPayment(r, o)
    PROVE  Inv'
<1> DEFINE row == [pay[r] EXCEPT !.order = o, !.charge = o]
<1>1. pay[r] \in PaymentRow
    BY DEF Inv, PayTypeOK
<1>2. /\ row \in PaymentRow
      /\ row.order = o /\ row.charge = o
      /\ row.frozen = pay[r].frozen /\ row.escrow = pay[r].escrow
    BY <1>1 DEF PaymentRow
<1>3. /\ Exists(r) /\ HasSignature(o) /\ gw[o].row = r
      /\ FinalizeCapture(r, row) /\ UNCHANGED <<told, ticket, chargeback, gw, open>>
    BY DEF VerifyPayment, Exists
<1>4. Backed(r, o) /\ gw[o].state # "none" /\ o # NoOrder
    BY <1>3, SignedOrderExists, SpecialOrders DEF Backed
<1> HIDE DEF row
<1> QED
    BY <1>2, <1>3, <1>4, CaptureKeepsInv

(* The callback and the captured webhook: found by the order of the row.   *)
LEMMA FoundCaptureKeepsInv ==
    ASSUME Inv, NEW r \in Rows, NEW o \in Orders, Finds(r, o), HasSignature(o),
           FinalizeCapture(r, [pay[r] EXCEPT !.charge = o]),
           UNCHANGED <<told, ticket, chargeback, gw, open>>
    PROVE  Inv'
<1> DEFINE row == [pay[r] EXCEPT !.charge = o]
<1>1. pay[r] \in PaymentRow
    BY DEF Inv, PayTypeOK
<1>2. /\ row \in PaymentRow
      /\ row.order = o /\ row.charge = o
      /\ row.frozen = pay[r].frozen /\ row.escrow = pay[r].escrow
    BY <1>1 DEF PaymentRow, Finds
<1>3. Exists(r) /\ gw[o].state # "none" /\ gw[o].row = r /\ Backed(r, o) /\ o # NoOrder
    BY FoundRowIsBacked, SpecialOrders
<1>4. FinalizeCapture(r, row)
    OBVIOUS
<1> HIDE DEF row
<1> QED
    BY <1>2, <1>3, <1>4, CaptureKeepsInv

(* mock_capture: only where the traveller was told to.                     *)
LEMMA MockCaptureKeepsInv ==
    ASSUME Inv, NEW r \in Rows, MockCapture(r)
    PROVE  Inv'
<1> DEFINE charge == IF pay[r].charge = NoOrder THEN MockOrder ELSE pay[r].charge
           row == [pay[r] EXCEPT !.charge = charge]
<1>1. pay[r] \in PaymentRow
    BY DEF Inv, PayTypeOK
<1>2. /\ row \in PaymentRow
      /\ row.order = pay[r].order /\ row.charge = charge
      /\ row.frozen = pay[r].frozen /\ row.escrow = pay[r].escrow
    BY <1>1 DEF PaymentRow
<1>3. FinalizeCapture(r, row) /\ UNCHANGED <<told, ticket, chargeback, gw, open>> /\ told[r] # "none"
    BY DEF MockCapture
<1>4. Exists(r)
    BY <1>3 DEF Inv, Books, ToldRowsExist
<1>5. charge # NoOrder /\ Backed(r, charge)
    BY <1>3, SpecialOrders DEF Inv, Books, ChargesBacked, Backed
<1>6. pay[r].order \in Orders => gw[pay[r].order].state # "none" /\ gw[pay[r].order].row = r
    BY DEF Inv, Books, OrdersBelong
<1> HIDE DEF row, charge
<1> QED
    BY <1>2, <1>3, <1>4, <1>5, <1>6, CaptureKeepsInv

(* A handler that rewrites row r alone, neither its order nor a captured   *)
(* status, while the gateway may move on.                                  *)
LEMMA RowUpdateKeepsInv ==
    ASSUME Inv, NEW r \in Rows, NEW row \in PaymentRow, pay' = [pay EXCEPT ![r] = row],
           UNCHANGED <<groupVars, told, open>>, GatewayAdvances, gw' \in [Orders -> GatewayOrder],
           ticket' \in [Rows -> {"none", "OPEN", "RESOLVED"}],
           chargeback' \in [Orders -> DisputeEvents \cup {"none", "RESOLVED"}],
           DisputedOrdersExist', \A q \in Rows : Disputed(q) => Disputed(q)',
           row.status = "NONE" <=> pay[r].status = "NONE", row.order = pay[r].order,
           row.charge # pay[r].charge =>
               pay[r].status # "NONE" /\ row.charge # NoOrder /\ Backed(r, pay[r].charge)',
           row.status = "CAPTURED" => row.charge # NoOrder,
           row.escrow = "REFUNDED" /\ ~Disputed(r)' => row.frozen
    PROVE  Inv'
<1>1. /\ pay'[r] = row
      /\ \A q \in Rows \ {r} : pay'[q] = pay[q]
      /\ pay' \in [Rows -> PaymentRow]
    BY DEF Inv, PayTypeOK
<1>2. PayTypeOK'
    BY <1>1 DEF Inv, PayTypeOK
<1>3. GroupInv'
    BY TripKeepsGroupInv DEF groupVars, Inv, GroupInv, GroupTypeOK
<1>4. RowKept(r)
    BY <1>1 DEF RowKept, Exists
<1>5. \A q \in Rows \ {r} : RowKept(q)
    BY <1>1, UntouchedRowIsKept
<1> QED
    BY <1>2, <1>3, <1>4, <1>5, KeptRowsKeepInv

(* A handler that leaves gateway, ticket and chargeback alone.             *)
LEMMA StillWorld ==
    ASSUME Inv, UNCHANGED <<told, ticket, chargeback, gw, open>>
    PROVE  /\ GatewayAdvances /\ gw' \in [Orders -> GatewayOrder]
           /\ ticket' \in [Rows -> {"none", "OPEN", "RESOLVED"}]
           /\ chargeback' \in [Orders -> DisputeEvents \cup {"none", "RESOLVED"}]
           /\ DisputedOrdersExist'
           /\ \A q \in Rows : Disputed(q) <=> Disputed(q)'
<1>1. GatewayAdvances
    BY StillGatewayAdvances
<1>2. DisputedOrdersExist' /\ \A q \in Rows : Disputed(q) <=> Disputed(q)'
    BY DEF Inv, Books, DisputedOrdersExist, Disputed
<1> QED
    BY <1>1, <1>2 DEF Inv, PayTypeOK

(* What the invariant says of one row.                                     *)
LEMMA RowFacts ==
    ASSUME Inv, NEW r \in Rows
    PROVE  /\ pay[r] \in PaymentRow
           /\ pay[r].status = "CAPTURED" => pay[r].charge # NoOrder
           /\ pay[r].escrow = "REFUNDED" /\ ~Disputed(r) => pay[r].frozen
           /\ pay[r].charge # NoOrder => Exists(r) /\ Backed(r, pay[r].charge)
    BY DEF Inv, PayTypeOK, Books, CapturedIsCharged, RefundStopsPayout, ChargesBacked

(* An order whose state moves on, as the gateway or a capture request does.*)
LEMMA CapturingAdvances ==
    ASSUME Inv, NEW o \in Orders, gw[o].state = "authorized",
           gw' = [gw EXCEPT ![o].state = "captured"]
    PROVE  GatewayAdvances /\ gw' \in [Orders -> GatewayOrder]
<1>1. gw \in [Orders -> GatewayOrder]
    BY DEF Inv, PayTypeOK
<1>2. /\ gw'[o].state = "captured" /\ gw'[o].row = gw[o].row
      /\ \A q \in Orders \ {o} : gw'[q] = gw[q]
      /\ gw' \in [Orders -> GatewayOrder]
    BY <1>1 DEF GatewayOrder
<1> QED
    BY <1>2 DEF GatewayAdvances, HasSignature

(* What handlers that neither capture, refund nor pay out leave of a row.  *)
SameMoney(row, old) ==
    /\ row.paid = old.paid /\ row.released = old.released
    /\ row.frozen = old.frozen /\ row.escrow = old.escrow

(* Checkout, the failed and the authorized event write one row, at once or *)
(* late: an order of the row's own, a price, the charge of an order that   *)
(* was authorized for the row.                                             *)
LEMMA WritesOneRow ==
    ASSUME Inv, NEW r \in Rows, NEW q, RequestFits(r, q), Writes(r, q)
    PROVE  \E row \in PaymentRow :
             /\ pay' = [pay EXCEPT ![r] = row]
             /\ SameMoney(row, pay[r])
             /\ row.status # "NONE"
             /\ row.status = "CAPTURED" => pay[r].status = "CAPTURED"
             /\ row.charge = pay[r].charge \/ (row.charge \in Orders /\ Backed(r, row.charge))
             /\ pay[r].charge # NoOrder => row.charge # NoOrder
             /\ row.net \in Prices \/ (Exists(r) /\ row.net = pay[r].net)
             /\ row.order \in Orders =>
                  row.order = pay[r].order \/ (gw'[row.order].state # "none" /\ gw'[row.order].row = r)
<1>1. pay[r] \in PaymentRow /\ q \in OpenRequest
    BY DEF Inv, PayTypeOK, RequestFits
<1>2. pay[r].status = "NONE" => q.by = "checkout" /\ "status" \in q.columns
    BY DEF RequestFits, Exists
<1>3. CASE CheckoutWrites(r, q)
    <2>1. PICK net \in Prices : OpenOrder(r, q, net) \/ MockOrderFor(r, q, net)
        BY <1>3 DEF CheckoutWrites
    <2> DEFINE status == Column(r, q, "status", "PENDING")
               priced == [pay[r] EXCEPT !.status = status, !.net = net]
    <2>2. PICK order \in Orders \cup {pay[r].order, MockOrder} :
            /\ pay' = [pay EXCEPT ![r] = [priced EXCEPT !.order = order]]
            /\ order \in Orders => order = pay[r].order \/ (gw'[order].state # "none" /\ gw'[order].row = r)
        <3>1. CASE OpenOrder(r, q, net)
            <4>1. PICK o \in Orders :
                    /\ pay' = [pay EXCEPT ![r] = [priced EXCEPT !.order = o]]
                    /\ gw' = [gw EXCEPT ![o] = [NoGatewayOrder EXCEPT !.state = "created", !.row = r]]
                BY <3>1 DEF OpenOrder, Priced
            <4>2. gw'[o].state # "none" /\ gw'[o].row = r
                BY <4>1 DEF Inv, PayTypeOK, NoGatewayOrder
            <4> QED
                BY <4>1, <4>2
        <3>2. CASE MockOrderFor(r, q, net)
            <4> DEFINE order == Column(r, q, "order", MockOrder)
            <4>1. pay' = [pay EXCEPT ![r] = [priced EXCEPT !.order = order]]
                BY <3>2 DEF MockOrderFor, Priced
            <4>2. order \in {pay[r].order, MockOrder} /\ (order \in Orders => order = pay[r].order)
                BY SpecialOrders DEF Column
            <4> HIDE DEF order, priced
            <4> QED
                BY <4>1, <4>2
        <3> QED
            BY <2>1, <3>1, <3>2
    <2>3. /\ status \in {pay[r].status, "PENDING"}
          /\ status # "NONE"
        BY <1>2 DEF Column
    <2> HIDE DEF status
    <2> DEFINE row == [priced EXCEPT !.order = order]
    <2>4. /\ row \in PaymentRow /\ SameMoney(row, pay[r])
          /\ row.status = status /\ row.charge = pay[r].charge /\ row.net = net /\ row.order = order
        BY <1>1, <2>3 DEF PaymentRow, SameMoney
    <2>5. pay' = [pay EXCEPT ![r] = row]
        BY <2>2
    <2> HIDE DEF row
    <2> QED
        BY <2>2, <2>3, <2>4, <2>5
<1>4. CASE FailedWrites(r, q)
    <2> DEFINE status == Column(r, q, "status", "FAILED")
               row == [pay[r] EXCEPT !.status = status]
    <2>1. Exists(r) /\ status \in {pay[r].status, "FAILED"}
        BY <1>4 DEF FailedWrites, RequestFits, Column
    <2>2. pay' = [pay EXCEPT ![r] = row]
        BY <1>1, <1>4 DEF FailedWrites, Inv, PayTypeOK, PaymentRow
    <2> HIDE DEF status
    <2>3. /\ row \in PaymentRow /\ SameMoney(row, pay[r]) /\ row.status = status
          /\ row.charge = pay[r].charge /\ row.net = pay[r].net /\ row.order = pay[r].order
        BY <1>1, <2>1 DEF PaymentRow, SameMoney
    <2> HIDE DEF row
    <2> QED
        BY <2>1, <2>2, <2>3 DEF Exists
<1>5. CASE AuthorizedWrites(r, q)
    <2> DEFINE status == Column(r, q, "status", "AUTHORIZED")
               charge == Column(r, q, "charge", q.order)
               row == [pay[r] EXCEPT !.status = status, !.charge = charge]
    <2>1. /\ Exists(r) /\ q.order \in Orders /\ Backed(r, q.order)
          /\ status \in {pay[r].status, "AUTHORIZED"} /\ charge \in {pay[r].charge, q.order}
        BY <1>5 DEF AuthorizedWrites, RequestFits, Column
    <2>2. pay' = [pay EXCEPT ![r] = row]
        BY <1>1, <1>5 DEF AuthorizedWrites, Inv, PayTypeOK, PaymentRow
    <2> HIDE DEF status, charge
    <2>3. /\ row \in PaymentRow /\ SameMoney(row, pay[r]) /\ row.status = status
          /\ row.charge = charge /\ row.net = pay[r].net /\ row.order = pay[r].order
        BY <1>1, <2>1 DEF PaymentRow, SameMoney
    <2> HIDE DEF row
    <2> QED
        BY <2>1, <2>2, <2>3, SpecialOrders DEF Exists
<1> QED
    BY <1>3, <1>4, <1>5 DEF Writes

(* They leave the gateway alone, open an order there or have one captured. *)
LEMMA WritesAdvance ==
    ASSUME Inv, NEW r \in Rows, NEW q, RequestFits(r, q), Writes(r, q)
    PROVE  GatewayAdvances /\ gw' \in [Orders -> GatewayOrder]
<1>1. CASE gw' = gw
    BY <1>1, StillGatewayAdvances DEF Inv, PayTypeOK
<1>2. ASSUME NEW net, OpenOrder(r, q, net)
      PROVE  GatewayAdvances /\ gw' \in [Orders -> GatewayOrder]
    <2>1. PICK o \in Orders :
            /\ gw[o].state = "none"
            /\ gw' = [gw EXCEPT ![o] = [NoGatewayOrder EXCEPT !.state = "created", !.row = r]]
        BY <1>2 DEF OpenOrder, NextOrder
    <2>2. [NoGatewayOrder EXCEPT !.state = "created", !.row = r] \in GatewayOrder
        BY DEF NoGatewayOrder, GatewayOrder
    <2>3. gw' \in [Orders -> GatewayOrder] /\ \A p \in Orders \ {o} : gw'[p] = gw[p]
        BY <2>1, <2>2 DEF Inv, PayTypeOK
    <2> QED
        BY <2>1, <2>3 DEF GatewayAdvances, HasSignature
<1>3. CASE q.order \in Orders /\ gw[q.order].state = "authorized"
           /\ gw' = [gw EXCEPT ![q.order].state = "captured"]
    BY <1>3, CapturingAdvances
<1> QED
    BY <1>1, <1>2, <1>3
    DEF Writes, CheckoutWrites, MockOrderFor, FailedWrites, AuthorizedWrites, RequestFits

(* So they keep the invariant, while their own request ends or another one *)
(* stays open.                                                             *)
LEMMA WritesKeepInv ==
    ASSUME Inv, NEW r \in Rows, NEW q, RequestFits(r, q), Writes(r, q),
           open' \in [Rows -> OpenRequest], \A p \in Rows : open'[p] \in {open[p], Nobody}
    PROVE  Inv'
<1>1. UNCHANGED <<groupVars, ticket, chargeback>>
    BY DEF Writes
<1>2. PICK row \in PaymentRow :
        /\ pay' = [pay EXCEPT ![r] = row]
        /\ SameMoney(row, pay[r])
        /\ row.status # "NONE"
        /\ row.status = "CAPTURED" => pay[r].status = "CAPTURED"
        /\ row.charge = pay[r].charge \/ (row.charge \in Orders /\ Backed(r, row.charge))
        /\ pay[r].charge # NoOrder => row.charge # NoOrder
        /\ row.order \in Orders =>
             row.order = pay[r].order \/ (gw'[row.order].state # "none" /\ gw'[row.order].row = r)
    BY WritesOneRow
<1>3. GatewayAdvances /\ gw' \in [Orders -> GatewayOrder]
    BY WritesAdvance
<1>4. told' \in [Rows -> {"none", "razorpay", "mock"}]
      /\ \A p \in Rows : /\ told[p] # "none" => told'[p] # "none"
                         /\ told'[p] # "none" => told[p] # "none" \/ p = r
    BY DEF Writes, CheckoutWrites, OpenOrder, MockOrderFor, FailedWrites, AuthorizedWrites,
           Inv, PayTypeOK
<1>5. /\ pay'[r] = row /\ \A p \in Rows \ {r} : pay'[p] = pay[p]
      /\ pay' \in [Rows -> PaymentRow]
    BY <1>2 DEF Inv, PayTypeOK
<1>6. PayTypeOK'
    BY <1>1, <1>3, <1>4, <1>5 DEF PayTypeOK, Inv
<1>7. GroupInv'
    BY <1>1, TripKeepsGroupInv DEF groupVars, Inv, GroupInv, GroupTypeOK
<1>8. \A p \in Rows : Exists(p)' <=> Exists(p) \/ p = r
    BY <1>2, <1>5 DEF Exists
<1>9. OrdersBelong'
    BY <1>2, <1>3, <1>5, <1>8 DEF Inv, Books, OrdersBelong, Exists, GatewayAdvances
<1>10. ChargesBacked'
    <2>1. ASSUME NEW p \in Rows, NEW charge, Backed(p, charge)
          PROVE  Backed(p, charge)'
        BY <1>3, <1>4, <2>1 DEF Backed, GatewayAdvances, HasSignature
    <2>2. \A p \in Rows : pay'[p].charge # NoOrder => Backed(p, pay'[p].charge)
        BY <1>2, <1>5 DEF Inv, Books, ChargesBacked
    <2>3. \A p \in Rows : pay'[p].charge # NoOrder => Exists(p)'
        BY <1>2, <1>5, <1>8 DEF Inv, Books, ChargesBacked
    <2>4. \A p \in Rows : pay'[p].charge # NoOrder => Backed(p, pay[p].charge)'
        <3>1. ASSUME NEW p \in Rows, pay'[p].charge # NoOrder
              PROVE  Backed(p, pay[p].charge)'
            <4>1. PICK charge : charge = pay'[p].charge
                OBVIOUS
            <4>2. Backed(p, charge)'
                BY <2>1, <2>2, <3>1, <4>1
            <4> QED
                BY <4>1, <4>2 DEF Backed
        <3> QED
            BY <3>1
    <2> QED
        BY <2>3, <2>4 DEF ChargesBacked
<1>11. CapturedIsCharged'
    BY <1>2, <1>5 DEF Inv, Books, CapturedIsCharged
<1>12. ToldRowsExist'
    BY <1>4, <1>8 DEF Inv, Books, ToldRowsExist, Exists
<1>13. RowsInOrder'
    <2>1. \A p \in Rows : \A m \in 1..p[2] : <<p[1], m>> \in Rows
        BY PaymentAssumption DEF Rows
    <2>2. r = <<r[1], r[2]>> /\ r[2] \in Nat
        BY PaymentAssumption DEF Rows
    <2>3. \A m \in 1..r[2] : m = r[2] \/ m \in 1..(r[2] - 1)
        BY <2>2
    <2>4. Exists(r) \/ \A m \in 1..(r[2] - 1) : Exists(<<r[1], m>>)
        BY DEF RequestFits
    <2>5. \A m \in 1..r[2] : Exists(<<r[1], m>>)'
        BY <1>8, <2>1, <2>2, <2>3, <2>4 DEF Inv, Books, RowsInOrder
    <2> QED
        BY <1>8, <2>1, <2>5 DEF Inv, Books, RowsInOrder
<1>14. DisputedOrdersExist'
    BY <1>1, <1>3 DEF Inv, Books, DisputedOrdersExist, GatewayAdvances
<1>15. RefundStopsPayout'
    <2>1. \A p \in Rows : Disputed(p) => Disputed(p)'
        BY <1>1, <1>3 DEF Inv, Books, DisputedOrdersExist, Disputed, GatewayAdvances
    <2> QED
        BY <1>2, <1>5, <2>1 DEF Inv, Books, RefundStopsPayout, SameMoney
<1>16. OpenFits'
    <2>1. ASSUME NEW p \in Rows, NEW o \in Orders, Backed(p, o)
          PROVE  Backed(p, o)'
        BY <1>3, <1>4, <2>1 DEF Backed, GatewayAdvances, HasSignature
    <2> QED
        BY <1>8, <2>1 DEF Inv, Books, OpenFits, RequestFits
<1> QED
    BY <1>6, <1>7, <1>9, <1>10, <1>11, <1>12, <1>13, <1>14, <1>15, <1>16 DEF Inv, Books

(* A request writes at once, or stays open with what it is to write.       *)
LEMMA HandleKeepsInv ==
    ASSUME Inv, NEW r \in Rows, NEW q, RequestFits(r, q), Handle(r, q)
    PROVE  Inv'
<1>1. open \in [Rows -> OpenRequest] /\ q \in OpenRequest
    BY DEF Inv, PayTypeOK, RequestFits
<1>2. CASE Writes(r, q) /\ UNCHANGED open
    BY <1>1, <1>2, WritesKeepInv
<1>3. CASE /\ Exists(r) /\ open' = [open EXCEPT ![r] = q]
           /\ UNCHANGED <<groupVars, pay, told, ticket, chargeback, gw>>
    <2>1. GroupInv'
        BY <1>3, TripKeepsGroupInv DEF groupVars, Inv, GroupInv, GroupTypeOK
    <2>2. PayTypeOK'
        BY <1>1, <1>3 DEF Inv, PayTypeOK
    <2>3. OpenFits'
        <3>1. ASSUME NEW p \in Rows, NEW new, RequestFits(p, new)
              PROVE  RequestFits(p, new)'
            BY <1>3, <3>1 DEF RequestFits, Exists, Backed, HasSignature
        <3>2. \A p \in Rows : open'[p] = IF p = r THEN q ELSE open[p]
            BY <1>1, <1>3
        <3>3. ASSUME NEW p \in Rows, open'[p] # Nobody
              PROVE  Exists(p)' /\ RequestFits(p, open[p])'
            <4>1. PICK new : new = open'[p]
                OBVIOUS
            <4>2. Exists(p) /\ RequestFits(p, new)
                BY <1>3, <3>2, <3>3, <4>1 DEF Inv, Books, OpenFits
            <4>3. RequestFits(p, new)'
                BY <3>1, <4>2
            <4> QED
                BY <1>3, <4>1, <4>2, <4>3 DEF RequestFits, Exists
        <3> QED
            BY <3>3 DEF OpenFits
    <2>4. /\ OrdersBelong' /\ ChargesBacked' /\ CapturedIsCharged' /\ ToldRowsExist'
          /\ RowsInOrder' /\ DisputedOrdersExist' /\ RefundStopsPayout'
        BY <1>3 DEF Inv, Books, OrdersBelong, ChargesBacked, CapturedIsCharged, ToldRowsExist,
            RowsInOrder, DisputedOrdersExist, RefundStopsPayout, Exists, Backed, HasSignature, Disputed
    <2> QED
        BY <2>1, <2>2, <2>3, <2>4 DEF Inv, Books
<1> QED
    BY <1>2, <1>3 DEF Handle

(* A request that was open writes what it decided on.                      *)
LEMMA LateWriteKeepsInv ==
    ASSUME Inv, NEW r \in Rows, LateWrite(r)
    PROVE  Inv'
<1>1. RequestFits(r, open[r])
    BY DEF LateWrite, Inv, Books, OpenFits
<1>2. Nobody \in OpenRequest
    BY DEF Nobody, OpenRequest
<1>3. /\ open' \in [Rows -> OpenRequest]
      /\ \A p \in Rows : open'[p] \in {open[p], Nobody}
    BY <1>2 DEF LateWrite, Inv, PayTypeOK
<1> QED
    BY <1>1, <1>3, WritesKeepInv DEF LateWrite

(* create_payment_order works on a row that is no captured one, the next   *)
(* one of the traveller if it is new.                                      *)
LEMMA CheckoutHandles ==
    ASSUME Inv, NEW u \in Travellers, CreatePaymentOrder(u)
    PROVE  \E r \in Rows : \E q : RequestFits(r, q) /\ Handle(r, q)
<1>1. PICK r \in Rows : \E columns \in SUBSET {"status", "order"} :
        /\ CheckoutRow(u, r)
        /\ pay[r].status # "PENDING" => "status" \in columns
        /\ Handle(r, [by |-> "checkout", order |-> NoOrder, columns |-> columns])
    BY DEF CreatePaymentOrder, Dirty
<1>2. PICK columns \in SUBSET {"status", "order"} :
        /\ CheckoutRow(u, r)
        /\ pay[r].status # "PENDING" => "status" \in columns
        /\ Handle(r, [by |-> "checkout", order |-> NoOrder, columns |-> columns])
    BY <1>1
<1> DEFINE q == [by |-> "checkout", order |-> NoOrder, columns |-> columns]
<1>3. q \in OpenRequest /\ q.by = "checkout" /\ q.columns = columns
    BY DEF OpenRequest
<1>4. RequestFits(r, q)
    BY <1>2, <1>3, CheckoutRowFits DEF RequestFits, Exists
<1> QED
    BY <1>2, <1>4

(* The failed and the authorized event work on a row that exists.          *)
LEMMA EventHandles ==
    ASSUME Inv, NEW r \in Rows, NEW o \in Orders, PaymentFailed(r, o) \/ PaymentAuthorized(r, o)
    PROVE  \E q : RequestFits(r, q) /\ Handle(r, q)
<1>1. Exists(r) /\ (HasSignature(o) => Backed(r, o))
    BY FoundRowIsBacked DEF PaymentFailed, PaymentAuthorized
<1>2. CASE PaymentFailed(r, o)
    <2>1. PICK columns \in SUBSET {"status"} :
            Handle(r, [by |-> "failed", order |-> o, columns |-> columns])
        BY <1>2 DEF PaymentFailed, Dirty
    <2> DEFINE q == [by |-> "failed", order |-> o, columns |-> columns]
    <2>2. q \in OpenRequest /\ q.by = "failed"
        BY DEF OpenRequest
    <2> QED
        BY <1>1, <2>1, <2>2 DEF RequestFits
<1>3. CASE PaymentAuthorized(r, o)
    <2>1. PICK columns \in SUBSET {"status", "charge"} :
            Handle(r, [by |-> "authorized", order |-> o, columns |-> columns])
        BY <1>3 DEF PaymentAuthorized, Dirty
    <2> DEFINE q == [by |-> "authorized", order |-> o, columns |-> columns]
    <2>2. q \in OpenRequest /\ q.order = o
        BY DEF OpenRequest
    <2>3. HasSignature(o)
        BY <1>3 DEF PaymentAuthorized
    <2> QED
        BY <1>1, <2>1, <2>2, <2>3 DEF RequestFits
<1> QED
    BY <1>2, <1>3

(* The refunded webhook freezes what it refunds.                           *)
LEMMA PaymentRefundedKeepsInv ==
    ASSUME Inv, NEW r \in Rows, NEW o \in Orders, PaymentRefunded(r, o)
    PROVE  Inv'
<1> DEFINE row == [pay[r] EXCEPT !.status = "REFUNDED", !.escrow = "REFUNDED", !.frozen = TRUE]
<1>1. pay' = [pay EXCEPT ![r] = row] /\ UNCHANGED <<groupVars, told, ticket, chargeback, gw, open>>
    BY DEF PaymentRefunded, Inv, PayTypeOK, PaymentRow
<1>2. /\ row \in PaymentRow /\ row.status = "REFUNDED" /\ row.order = pay[r].order
      /\ row.charge = pay[r].charge /\ row.frozen = TRUE
    BY RowFacts DEF PaymentRow
<1>3. pay[r].charge # NoOrder
    BY SpecialOrders DEF PaymentRefunded
<1>4. Exists(r)
    BY <1>3, RowFacts
<1> HIDE DEF row
<1> QED
    BY <1>1, <1>2, <1>3, <1>4, StillWorld, RowFacts, RowUpdateKeepsInv DEF Exists

(* A payment.dispute.* event, in whatever order they come.                 *)
LEMMA PaymentDisputeKeepsInv ==
    ASSUME Inv, NEW r \in Rows, NEW o \in Orders, PaymentDispute(r, o)
    PROVE  Inv'
<1>1. PICK status \in gw[o].disputes :
        /\ chargeback' = [chargeback EXCEPT ![o] = status]
        /\ pay' = [pay EXCEPT ![r].frozen = FreezeAfter(status, @)]
    BY DEF PaymentDispute
<1>2. UNCHANGED <<groupVars, told, ticket, gw, open>>
    BY DEF PaymentDispute
<1>3. status \in DisputeEvents /\ status # "none"
    BY DEF Inv, PayTypeOK, GatewayOrder, DisputeEvents, FreezingStatus, UnfreezingStatus
<1>4. Exists(r) /\ gw[o].state # "none" /\ gw[o].row = r
    BY FoundRowIsBacked DEF PaymentDispute
<1>5. /\ chargeback' \in [Orders -> DisputeEvents \cup {"none", "RESOLVED"}]
      /\ chargeback'[o] # "none"
      /\ \A q \in Orders \ {o} : chargeback'[q] = chargeback[q]
    BY <1>1, <1>3 DEF Inv, PayTypeOK
<1>6. DisputedOrdersExist' /\ Disputed(r)' /\ \A q \in Rows : Disputed(q) => Disputed(q)'
    BY <1>2, <1>4, <1>5 DEF Inv, Books, DisputedOrdersExist, Disputed
<1> DEFINE frozen == FreezeAfter(status, pay[r].frozen)
           row == [pay[r] EXCEPT !.frozen = frozen]
<1>7. pay' = [pay EXCEPT ![r] = row]
    BY <1>1 DEF Inv, PayTypeOK, PaymentRow
<1>8. frozen \in BOOLEAN
    BY RowFacts DEF FreezeAfter, PaymentRow
<1> HIDE DEF frozen
<1>9. /\ row \in PaymentRow /\ row.status = pay[r].status /\ row.order = pay[r].order
      /\ row.charge = pay[r].charge
    BY <1>8, RowFacts DEF PaymentRow
<1>10. /\ ticket' \in [Rows -> {"none", "OPEN", "RESOLVED"}]
       /\ gw' \in [Orders -> GatewayOrder]
       /\ GatewayAdvances
    BY <1>2, StillGatewayAdvances DEF Inv, PayTypeOK
<1>11. pay[r].status = "CAPTURED" => pay[r].charge # NoOrder
    BY RowFacts
<1> HIDE DEF row
<1> QED
    BY <1>2, <1>5, <1>6, <1>7, <1>9, <1>10, <1>11, RowUpdateKeepsInv

(* resolve_dispute unfreezes a row that has a dispute.                     *)
LEMMA UnfreezeKeepsInv ==
    ASSUME Inv, NEW r \in Rows, pay' = [pay EXCEPT ![r].frozen = FALSE],
           UNCHANGED <<groupVars, told, gw, open>>,
           ticket' \in [Rows -> {"none", "OPEN", "RESOLVED"}],
           chargeback' \in [Orders -> DisputeEvents \cup {"none", "RESOLVED"}],
           DisputedOrdersExist', Disputed(r)', \A q \in Rows : Disputed(q) => Disputed(q)'
    PROVE  Inv'
<1> DEFINE row == [pay[r] EXCEPT !.frozen = FALSE]
<1>1. pay' = [pay EXCEPT ![r] = row]
    BY DEF Inv, PayTypeOK, PaymentRow
<1>2. /\ row \in PaymentRow /\ row.status = pay[r].status /\ row.order = pay[r].order
      /\ row.charge = pay[r].charge
    BY RowFacts DEF PaymentRow
<1>3. GatewayAdvances /\ gw' \in [Orders -> GatewayOrder]
    BY StillGatewayAdvances DEF Inv, PayTypeOK
<1>4. /\ row.status = "CAPTURED" => row.charge # NoOrder
      /\ row.status = "NONE" <=> pay[r].status = "NONE"
    BY <1>2, RowFacts
<1>5. /\ row.charge # pay[r].charge =>
           pay[r].status # "NONE" /\ row.charge # NoOrder /\ Backed(r, pay[r].charge)'
      /\ row.escrow = "REFUNDED" /\ ~Disputed(r)' => row.frozen
    BY <1>2
<1>6. /\ row \in PaymentRow /\ row.order = pay[r].order
    BY <1>2
<1> HIDE DEF row
<1> QED
    BY <1>1, <1>3, <1>4, <1>5, <1>6, RowUpdateKeepsInv

(* Resolving a support dispute.                                            *)
LEMMA ResolveTicketKeepsInv ==
    ASSUME Inv, NEW r \in Rows, ResolveTicket(r)
    PROVE  Inv'
<1>1. /\ pay' = [pay EXCEPT ![r].frozen = FALSE]
      /\ UNCHANGED <<groupVars, told, chargeback, gw, open>>
      /\ ticket' = [ticket EXCEPT ![r] = "RESOLVED"]
    BY DEF ResolveTicket
<1>2. /\ ticket' \in [Rows -> {"none", "OPEN", "RESOLVED"}]
      /\ ticket'[r] # "none"
      /\ \A q \in Rows : ticket[q] # "none" => ticket'[q] # "none"
    BY <1>1 DEF Inv, PayTypeOK
<1>3. /\ chargeback' \in [Orders -> DisputeEvents \cup {"none", "RESOLVED"}]
      /\ DisputedOrdersExist'
    BY <1>1 DEF Inv, PayTypeOK, Books, DisputedOrdersExist
<1>4. Disputed(r)' /\ \A q \in Rows : Disputed(q) => Disputed(q)'
    BY <1>1, <1>2 DEF Disputed
<1> QED
    BY <1>1, <1>2, <1>3, <1>4, UnfreezeKeepsInv

(* Resolving a chargeback.                                                 *)
LEMMA ResolveChargebackKeepsInv ==
    ASSUME Inv, NEW o \in Orders, ResolveChargeback(o)
    PROVE  Inv'
<1>1. PICK r \in Rows : gw[o].row = r /\ gw[o].state # "none"
    BY DEF ResolveChargeback, Inv, Books, DisputedOrdersExist
<1>2. /\ pay' = [pay EXCEPT ![r].frozen = FALSE]
      /\ UNCHANGED <<groupVars, told, ticket, gw, open>>
      /\ chargeback' = [chargeback EXCEPT ![o] = "RESOLVED"]
    BY <1>1 DEF ResolveChargeback
<1>3. /\ chargeback' \in [Orders -> DisputeEvents \cup {"none", "RESOLVED"}]
      /\ chargeback'[o] # "none"
      /\ \A p \in Orders \ {o} : chargeback'[p] = chargeback[p]
    BY <1>2 DEF Inv, PayTypeOK
<1>4. ticket' \in [Rows -> {"none", "OPEN", "RESOLVED"}]
    BY <1>2 DEF Inv, PayTypeOK
<1>5. /\ DisputedOrdersExist'
      /\ Disputed(r)' /\ \A q \in Rows : Disputed(q) => Disputed(q)'
    BY <1>1, <1>2, <1>3 DEF Inv, Books, DisputedOrdersExist, Disputed
<1> QED
    BY <1>1, <1>2, <1>3, <1>4, <1>5, UnfreezeKeepsInv

----------------------------------------------------------------------------
(* Payout runs: an administrator's, and that of a completed trip.          *)
LEMMA AgencyPayoutKeepsInv ==
    ASSUME Inv, NEW r \in Rows, AgencyPayout(r)
    PROVE  Inv'
<1>1. pay[r] \in PaymentRow /\ Payable(pay[r])
    BY DEF AgencyPayout, Inv, PayTypeOK
<1>2. OnlySettled(pay[r], Settled(pay[r]))
    BY <1>1, SettledIsSettled
<1>3. /\ pay' = [pay EXCEPT ![r] = Settled(pay[r])]
      /\ UNCHANGED <<groupVars, told, ticket, chargeback, gw, open>>
    BY DEF AgencyPayout
<1>4. pay'[r] = Settled(pay[r]) /\ \A q \in Rows \ {r} : pay'[q] = pay[q]
    BY <1>3 DEF Inv, PayTypeOK
<1>5. \A q \in Rows : pay[q] \in PaymentRow
    BY DEF Inv, PayTypeOK
<1>6. \A q \in Rows : OnlySettled(pay[q], pay'[q])
    BY <1>2, <1>4, <1>5, UntouchedIsSettled
<1>7. pay' \in [Rows -> PaymentRow]
    BY <1>2, <1>3 DEF OnlySettled, Inv, PayTypeOK
<1>8. GroupInv'
    BY <1>3, TripKeepsGroupInv DEF groupVars, Inv, GroupInv, GroupTypeOK
<1> QED
    BY <1>3, <1>6, <1>7, <1>8, PayoutRunKeepsInv

(* The trip moves and captured rows are paid out.                          *)
LEMMA TripRunKeepsInv ==
    ASSUME Inv, trip' \in [Kinds -> TripStatus],
           UNCHANGED <<member, role, size, told, ticket, chargeback, gw, open>>,
           pay' \in [Rows -> PaymentRow],
           \A q \in Rows : OnlySettled(pay[q], pay'[q])
    PROVE  Inv'
<1>1. GroupInv'
    BY TripKeepsGroupInv DEF Inv
<1> QED
    BY <1>1, PayoutRunKeepsInv

(* complete_trip, by request or by the beat.                               *)
LEMMA CompleteTripKeepsInv ==
    ASSUME Inv, CompleteTrip
    PROVE  Inv'
<1>1. trip' \in [Kinds -> TripStatus]
    BY DEF CompleteTrip, TripStatus
<1>2. pay \in [Rows -> PaymentRow]
    BY DEF Inv, PayTypeOK
<1>3. /\ pay' \in [Rows -> PaymentRow]
      /\ \A q \in Rows : OnlySettled(pay[q], pay'[q])
    BY <1>2, PayOutSettles DEF CompleteTrip
<1> QED
    BY <1>1, <1>3, TripRunKeepsInv DEF CompleteTrip

(* The reconciliation beat.                                                *)
LEMMA ReconcileKeepsInv ==
    ASSUME Inv, ReconcileStuckGroupConfirmations
    PROVE  Inv'
<1>1. pay \in [Rows -> PaymentRow] /\ trip \in [Kinds -> TripStatus]
    BY DEF Inv, PayTypeOK, GroupInv, GroupTypeOK
<1>2. /\ trip' \in [Kinds -> TripStatus]
      /\ pay' \in [Rows -> PaymentRow]
      /\ \A q \in Rows : OnlySettled(pay[q], pay'[q])
    BY <1>1, CheckAndConfirmSettles DEF ReconcileStuckGroupConfirmations
<1> QED
    BY <1>2, TripRunKeepsInv DEF ReconcileStuckGroupConfirmations

(* The agency or an administrator ends the confirming window.              *)
LEMMA ResolveConfirmingWindowKeepsInv ==
    ASSUME Inv, ResolveConfirmingWindow
    PROVE  Inv'
<1>1. trip' \in [Kinds -> TripStatus]
    BY DEF ResolveConfirmingWindow, TripStatus, Inv, GroupInv, GroupTypeOK
<1>2. pay' = pay /\ pay \in [Rows -> PaymentRow]
    BY DEF ResolveConfirmingWindow, payVars, Inv, PayTypeOK
<1>3. \A q \in Rows : OnlySettled(pay[q], pay'[q])
    BY <1>2, UntouchedIsSettled
<1> QED
    BY <1>1, <1>2, <1>3, TripRunKeepsInv DEF ResolveConfirmingWindow, payVars

----------------------------------------------------------------------------
(* A step that leaves the payment rows alone, adds disputes or moves the   *)
(* gateway on.                                                             *)
LEMMA StillRowsKeepInv ==
    ASSUME Inv, GroupInv', UNCHANGED <<pay, told, chargeback, open>>, GatewayAdvances,
           gw' \in [Orders -> GatewayOrder],
           ticket' \in [Rows -> {"none", "OPEN", "RESOLVED"}],
           \A q \in Rows : ticket[q] # "none" => ticket'[q] # "none"
    PROVE  Inv'
<1>1. PayTypeOK'
    BY DEF Inv, PayTypeOK
<1>2. DisputedOrdersExist' /\ \A q \in Rows : Disputed(q) => Disputed(q)'
    BY DEF Inv, Books, DisputedOrdersExist, Disputed, GatewayAdvances
<1>3. \A q \in Rows : RowKept(q)
    BY <1>2, UntouchedRowIsKept
<1> QED
    BY <1>1, <1>2, <1>3, KeptRowsKeepInv

(* A traveller opens a support dispute.                                    *)
LEMMA CreateDisputeKeepsInv ==
    ASSUME Inv, NEW r \in Rows, CreateDispute(r)
    PROVE  Inv'
<1>1. /\ ticket' \in [Rows -> {"none", "OPEN", "RESOLVED"}]
      /\ \A q \in Rows : ticket[q] # "none" => ticket'[q] # "none"
    BY DEF CreateDispute, Inv, PayTypeOK
<1>2. GatewayAdvances /\ gw' \in [Orders -> GatewayOrder]
    BY StillGatewayAdvances DEF CreateDispute, Inv, PayTypeOK
<1>3. GroupInv'
    BY TripKeepsGroupInv DEF CreateDispute, groupVars, Inv, GroupInv, GroupTypeOK
<1> QED
    BY <1>1, <1>2, <1>3, StillRowsKeepInv DEF CreateDispute

(* The gateway or the bank moves one order on.                             *)
LEMMA EnvironmentKeepsInv ==
    ASSUME Inv, NEW o \in Orders, GatewayMoves(o) \/ BankDisputes(o)
    PROVE  Inv' /\ GatewayAdvances
<1>1. gw \in [Orders -> GatewayOrder] /\ gw[o] \in GatewayOrder
    BY DEF Inv, PayTypeOK
<1>2. PICK order \in GatewayOrder :
        /\ gw' = [gw EXCEPT ![o] = order]
        /\ order.row = gw[o].row
        /\ gw[o].state # "none" => order.state # "none"
        /\ HasSignature(o) => order.state \in {"authorized", "captured", "refunded"}
    <2>1. CASE GatewayMoves(o)
        <3>1. PICK declined \in BOOLEAN, state \in {"created", "authorized", "captured", "refunded"} :
                /\ gw' = [gw EXCEPT ![o] = [gw[o] EXCEPT !.declined = declined, !.state = state]]
                /\ HasSignature(o) => state # "created"
            <4>1. CASE gw[o].state = "created" /\ gw' = [gw EXCEPT ![o].declined = TRUE]
                <5>1. gw' = [gw EXCEPT ![o] = [gw[o] EXCEPT !.declined = TRUE, !.state = "created"]]
                    BY <1>1, <4>1 DEF GatewayOrder
                <5> QED
                    BY <4>1, <5>1 DEF HasSignature
            <4>2. CASE gw[o].state = "created" /\ gw' = [gw EXCEPT ![o].state = "authorized"]
                <5>1. gw' = [gw EXCEPT ![o] = [gw[o] EXCEPT !.declined = gw[o].declined, !.state = "authorized"]]
                    BY <1>1, <4>2 DEF GatewayOrder
                <5> QED
                    BY <1>1, <5>1 DEF GatewayOrder
            <4>3. CASE gw[o].state = "authorized" /\ gw' = [gw EXCEPT ![o].state = "captured"]
                <5>1. gw' = [gw EXCEPT ![o] = [gw[o] EXCEPT !.declined = gw[o].declined, !.state = "captured"]]
                    BY <1>1, <4>3 DEF GatewayOrder
                <5> QED
                    BY <1>1, <5>1 DEF GatewayOrder
            <4>4. CASE gw[o].state = "captured" /\ gw' = [gw EXCEPT ![o].state = "refunded"]
                <5>1. gw' = [gw EXCEPT ![o] = [gw[o] EXCEPT !.declined = gw[o].declined, !.state = "refunded"]]
                    BY <1>1, <4>4 DEF GatewayOrder
                <5> QED
                    BY <1>1, <5>1 DEF GatewayOrder
            <4> QED
                BY <2>1, <4>1, <4>2, <4>3, <4>4 DEF GatewayMoves
        <3>2. [gw[o] EXCEPT !.declined = declined, !.state = state] \in GatewayOrder
            BY <1>1 DEF GatewayOrder
        <3> QED
            BY <1>1, <3>1, <3>2 DEF GatewayOrder
    <2>2. CASE BankDisputes(o)
        <3>1. PICK e \in BankReports : gw' = [gw EXCEPT ![o].disputes = @ \cup {e}]
            BY <2>2 DEF BankDisputes
        <3>2. e \in DisputeEvents
            BY <3>1, PaymentAssumption DEF DisputeEvents, FreezingStatus, UnfreezingStatus
        <3> DEFINE disputes == gw[o].disputes \cup {e}
        <3>3. disputes \in SUBSET DisputeEvents
            BY <1>1, <3>2 DEF GatewayOrder
        <3>4. gw' = [gw EXCEPT ![o] = [gw[o] EXCEPT !.disputes = disputes]]
            BY <3>1
        <3> HIDE DEF disputes
        <3>5. [gw[o] EXCEPT !.disputes = disputes] \in GatewayOrder
            BY <1>1, <3>3 DEF GatewayOrder
        <3> QED
            BY <1>1, <3>4, <3>5 DEF GatewayOrder, HasSignature
    <2> QED
        BY <2>1, <2>2
<1>3. gw' \in [Orders -> GatewayOrder] /\ GatewayAdvances
    BY <1>1, <1>2 DEF GatewayAdvances, HasSignature
<1>4. UNCHANGED <<groupVars, pay, told, ticket, chargeback, open>>
    BY DEF GatewayMoves, BankDisputes
<1>5. GroupInv'
    BY <1>4, TripKeepsGroupInv DEF groupVars, Inv, GroupInv, GroupTypeOK
<1>6. ticket' \in [Rows -> {"none", "OPEN", "RESOLVED"}]
    BY <1>4 DEF Inv, PayTypeOK
<1> QED
    BY <1>3, <1>4, <1>5, <1>6, StillRowsKeepInv

----------------------------------------------------------------------------
(* Every action keeps the invariant.                                       *)
LEMMA NextKeepsInv ==
    ASSUME Inv, [Next]_vars
    PROVE  Inv'
<1>1. CASE MembershipStep /\ UNCHANGED payVars
    <2>1. GroupInv'
        BY <1>1, MembershipKeepsGroupInv DEF Inv
    <2>2. GatewayAdvances /\ gw' \in [Orders -> GatewayOrder]
        BY <1>1, StillGatewayAdvances DEF payVars, Inv, PayTypeOK
    <2>3. ticket' \in [Rows -> {"none", "OPEN", "RESOLVED"}]
        BY <1>1 DEF payVars, Inv, PayTypeOK
    <2> QED
        BY <1>1, <2>1, <2>2, <2>3, StillRowsKeepInv DEF payVars
<1>2. ASSUME NEW r \in Rows, NEW o \in Orders, PaymentCaptured(r, o)
      PROVE  Inv'
    BY <1>2, FoundCaptureKeepsInv, SendsCapturedIsSigned DEF PaymentCaptured
<1>3. ASSUME NEW r \in Rows, NEW o \in Orders, PaymentFailed(r, o)
      PROVE  Inv'
    BY <1>3, EventHandles, HandleKeepsInv
<1>4. ASSUME NEW r \in Rows, NEW o \in Orders, PaymentAuthorized(r, o)
      PROVE  Inv'
    BY <1>4, EventHandles, HandleKeepsInv
<1>5. ASSUME NEW r \in Rows, NEW o \in Orders, PaymentRefunded(r, o)
      PROVE  Inv'
    BY <1>5, PaymentRefundedKeepsInv
<1>6. ASSUME NEW r \in Rows, NEW o \in Orders, PaymentDispute(r, o)
      PROVE  Inv'
    BY <1>6, PaymentDisputeKeepsInv
<1>7. ASSUME NEW u \in Travellers, CreatePaymentOrder(u)
      PROVE  Inv'
    BY <1>7, CheckoutHandles, HandleKeepsInv
<1>8. ASSUME NEW r \in Rows, MockCapture(r)
      PROVE  Inv'
    BY <1>8, MockCaptureKeepsInv
<1>9. ASSUME NEW r \in Rows, CreateDispute(r)
      PROVE  Inv'
    BY <1>9, CreateDisputeKeepsInv
<1>10. ASSUME NEW r \in Rows, ResolveTicket(r)
       PROVE  Inv'
    BY <1>10, ResolveTicketKeepsInv
<1>11. ASSUME NEW r \in Rows, AgencyPayout(r)
       PROVE  Inv'
    BY <1>11, AgencyPayoutKeepsInv
<1>12. ASSUME NEW r \in Rows, NEW o \in Orders, VerifyPayment(r, o)
       PROVE  Inv'
    BY <1>12, VerifyPaymentKeepsInv
<1>13. ASSUME NEW r \in Rows, NEW o \in Orders, HostedCheckoutCallback(r, o)
       PROVE  Inv'
    BY <1>13, FoundCaptureKeepsInv DEF HostedCheckoutCallback
<1>14. ASSUME NEW o \in Orders, ResolveChargeback(o)
       PROVE  Inv'
    BY <1>14, ResolveChargebackKeepsInv
<1>15. CASE ResolveConfirmingWindow
    BY <1>15, ResolveConfirmingWindowKeepsInv
<1>16. CASE CompleteTrip
    BY <1>16, CompleteTripKeepsInv
<1>20. ASSUME NEW r \in Rows, LateWrite(r)
       PROVE  Inv'
    BY <1>20, LateWriteKeepsInv
<1>17. CASE Beat
    BY <1>17, CompleteTripKeepsInv, ReconcileKeepsInv DEF Beat, CheckCompletedTrips
<1>18. CASE Environment
    BY <1>18, EnvironmentKeepsInv DEF Environment
<1>19. CASE UNCHANGED vars
    <2>1. GroupInv'
        BY <1>19, TripKeepsGroupInv DEF vars, groupVars, Inv, GroupInv, GroupTypeOK
    <2>2. GatewayAdvances /\ gw' \in [Orders -> GatewayOrder]
        BY <1>19, StillGatewayAdvances DEF vars, payVars, Inv, PayTypeOK
    <2>3. ticket' \in [Rows -> {"none", "OPEN", "RESOLVED"}]
        BY <1>19 DEF vars, payVars, Inv, PayTypeOK
    <2> QED
        BY <1>19, <2>1, <2>2, <2>3, StillRowsKeepInv DEF vars, payVars
<1> QED
    BY <1>1, <1>2, <1>3, <1>4, <1>5, <1>6, <1>7, <1>8, <1>9, <1>10, <1>11, <1>12, <1>13,
       <1>14, <1>15, <1>16, <1>17, <1>18, <1>19, <1>20 DEF Next, Webhook, Request

(* The invariant holds in every state of every behaviour.                  *)
LEMMA SpecKeepsInv == Spec => []Inv
<1>1. Inv /\ [Next]_vars => Inv'
    BY NextKeepsInv
<1> QED
    BY InvInit, <1>1, PTL DEF Spec

----------------------------------------------------------------------------
(* Every variable keeps its type, whatever the numbers of travellers, rows *)
(* and orders: the run Booking checks two travellers.                      *)
THEOREM TypesHold == Spec => []TypeOK
<1>1. Inv => TypeOK
    BY DEF Inv, GroupInv, TypeOK
<1> QED
    BY <1>1, SpecKeepsInv, PTL

(* A group with members has an active creator, also while payments commit  *)
(* members who had left.                                                   *)
THEOREM CreatorStaysActive == Spec => []CreatorIsActive
<1>1. Inv => CreatorIsActive
    BY DEF Inv, GroupInv
<1> QED
    BY <1>1, SpecKeepsInv, PTL

(* The headcount on the group row never reports more travellers than there *)
(* are.                                                                    *)
THEOREM SizeIsNoOvercount == Spec => []SizeNeverOvercounts
<1>1. Inv => SizeNeverOvercounts
    BY DEF Inv, GroupInv
<1> QED
    BY <1>1, SpecKeepsInv, PTL

(* A captured row names money that was taken for it, whichever of verify,  *)
(* callback, webhook and mock capture made it so.                          *)
THEOREM CapturesAreBacked == Spec => []MoneyBehindCapture
<1>1. Inv => MoneyBehindCapture
    BY DEF Inv, Books, CapturedIsCharged, ChargesBacked, Backed, MoneyBehindCapture
<1> QED
    BY <1>1, SpecKeepsInv, PTL

(* The freeze of a refunded payment outlasts everything but a dispute.     *)
THEOREM RefundsStayFrozen == Spec => []RefundStopsPayout
<1>1. Inv => RefundStopsPayout
    BY DEF Inv, Books
<1> QED
    BY <1>1, SpecKeepsInv, PTL

----------------------------------------------------------------------------
(* What a step may do to a row, seen from the ledger: a charge is never    *)
(* forgotten, and the agency receives more only for a captured row that was*)
(* not frozen.                                                             *)
RowAdvances(q) ==
    /\ pay[q].charge # NoOrder => pay'[q].charge # NoOrder
    /\ \/ pay'[q].paid = pay[q].paid
       \/ ~pay[q].frozen /\ pay'[q].status = "CAPTURED" /\ pay[q].paid < pay'[q].paid

(* A payout run on rows that are as they were.                             *)
LEMMA SettledRowAdvances ==
    ASSUME NEW q \in Rows, pay[q] \in PaymentRow, OnlySettled(pay[q], pay'[q])
    PROVE  RowAdvances(q)
    BY DEF RowAdvances, OnlySettled, Payable

(* A row no handler touches.                                               *)
LEMMA UntouchedRowAdvances ==
    ASSUME NEW q \in Rows, pay'[q] = pay[q]
    PROVE  RowAdvances(q)
    BY DEF RowAdvances

(* A payout run on all rows.                                               *)
LEMMA RunAdvances ==
    ASSUME Inv, \A q \in Rows : OnlySettled(pay[q], pay'[q])
    PROVE  \A q \in Rows : RowAdvances(q)
    BY SettledRowAdvances DEF Inv, PayTypeOK

(* A handler that writes row r and pays nothing out.                       *)
LEMMA RowWriteAdvances ==
    ASSUME Inv, NEW r \in Rows, NEW row, pay' = [pay EXCEPT ![r] = row],
           pay[r].charge # NoOrder => row.charge # NoOrder,
           row.paid = pay[r].paid
    PROVE  \A q \in Rows : RowAdvances(q)
<1>1. pay'[r] = row /\ \A q \in Rows \ {r} : pay'[q] = pay[q]
    BY DEF Inv, PayTypeOK
<1> QED
    BY <1>1, UntouchedRowAdvances DEF RowAdvances

(* A capture of row r, and the payouts of the trip it may confirm.         *)
LEMMA CaptureAdvances ==
    ASSUME Inv, NEW r \in Rows, NEW row \in PaymentRow, FinalizeCapture(r, row),
           row.charge # NoOrder,
           row.frozen = pay[r].frozen, row.paid = pay[r].paid
    PROVE  \A q \in Rows : RowAdvances(q)
<1> DEFINE captured == [row EXCEPT !.status = "CAPTURED"]
           rows == [pay EXCEPT ![r] = captured]
           members == [member EXCEPT ![r[1]] = IF @ = "NONE" THEN @ ELSE "COMMITTED"]
<1>1. /\ rows \in [Rows -> PaymentRow]
      /\ rows[r] = captured
      /\ \A q \in Rows \ {r} : rows[q] = pay[q]
    BY DEF Inv, PayTypeOK, PaymentRow
<1>2. CheckAndConfirm(rows, members)
    BY DEF FinalizeCapture
<1>3. /\ captured \in PaymentRow /\ captured.status = "CAPTURED"
      /\ captured.frozen = pay[r].frozen /\ captured.paid = pay[r].paid
      /\ captured.charge # NoOrder
    BY DEF PaymentRow
<1> HIDE DEF rows, members, captured
<1>4. \A q \in Rows : OnlySettled(rows[q], pay'[q])
    BY <1>1, <1>2, CheckAndConfirmSettles DEF Inv, GroupInv, GroupTypeOK
<1>5. RowAdvances(r)
    <2>1. OnlySettled(captured, pay'[r])
        BY <1>1, <1>4
    <2> QED
        BY <1>3, <2>1 DEF RowAdvances, OnlySettled, Payable, PaymentRow
<1>6. ASSUME NEW q \in Rows \ {r}
      PROVE  RowAdvances(q)
    BY <1>1, <1>4, SettledRowAdvances
<1> QED
    BY <1>5, <1>6

(* Every action advances the gateway and each row.                         *)
LEMMA NextAdvances ==
    ASSUME Inv, [Next]_vars
    PROVE  GatewayAdvances /\ \A q \in Rows : RowAdvances(q)
<1>1. \A r \in Rows : pay[r] \in PaymentRow
    BY DEF Inv, PayTypeOK
<1>2. CASE UNCHANGED <<pay, gw>>
    BY <1>2, StillGatewayAdvances, UntouchedRowAdvances
<1>3. ASSUME NEW r \in Rows, NEW o \in Orders, PaymentCaptured(r, o) \/ HostedCheckoutCallback(r, o)
      PROVE  GatewayAdvances /\ \A q \in Rows : RowAdvances(q)
    <2> DEFINE row == [pay[r] EXCEPT !.charge = o]
    <2>1. FinalizeCapture(r, row) /\ gw' = gw
        BY <1>3 DEF PaymentCaptured, HostedCheckoutCallback
    <2>2. /\ row \in PaymentRow /\ row.frozen = pay[r].frozen /\ row.paid = pay[r].paid
          /\ row.charge # NoOrder
        BY <1>1, SpecialOrders DEF PaymentRow
    <2> HIDE DEF row
    <2> QED
        BY <2>1, <2>2, CaptureAdvances, StillGatewayAdvances
<1>4. ASSUME NEW r \in Rows, NEW o \in Orders, VerifyPayment(r, o)
      PROVE  GatewayAdvances /\ \A q \in Rows : RowAdvances(q)
    <2> DEFINE row == [pay[r] EXCEPT !.order = o, !.charge = o]
    <2>1. FinalizeCapture(r, row) /\ gw' = gw
        BY <1>4 DEF VerifyPayment
    <2>2. /\ row \in PaymentRow /\ row.frozen = pay[r].frozen /\ row.paid = pay[r].paid
          /\ row.charge # NoOrder
        BY <1>1, SpecialOrders DEF PaymentRow
    <2> HIDE DEF row
    <2> QED
        BY <2>1, <2>2, CaptureAdvances, StillGatewayAdvances
<1>5. ASSUME NEW r \in Rows, MockCapture(r)
      PROVE  GatewayAdvances /\ \A q \in Rows : RowAdvances(q)
    <2> DEFINE charge == IF pay[r].charge = NoOrder THEN MockOrder ELSE pay[r].charge
               row == [pay[r] EXCEPT !.charge = charge]
    <2>1. FinalizeCapture(r, row) /\ gw' = gw
        BY <1>5 DEF MockCapture
    <2>2. /\ row \in PaymentRow /\ row.frozen = pay[r].frozen /\ row.paid = pay[r].paid
          /\ row.charge # NoOrder
        BY <1>1, SpecialOrders DEF PaymentRow
    <2> HIDE DEF row
    <2> QED
        BY <2>1, <2>2, CaptureAdvances, StillGatewayAdvances
<1>6. ASSUME NEW r \in Rows, NEW q, RequestFits(r, q), Writes(r, q)
      PROVE  GatewayAdvances /\ \A p \in Rows : RowAdvances(p)
    <2>1. PICK row \in PaymentRow : pay' = [pay EXCEPT ![r] = row] /\ SameMoney(row, pay[r])
                                   /\ (pay[r].charge # NoOrder => row.charge # NoOrder)
        BY <1>6, WritesOneRow
    <2> QED
        BY <1>6, <2>1, RowWriteAdvances, WritesAdvance DEF SameMoney
<1>7. ASSUME NEW r \in Rows, NEW q, RequestFits(r, q), Handle(r, q)
      PROVE  GatewayAdvances /\ \A p \in Rows : RowAdvances(p)
    BY <1>2, <1>6, <1>7 DEF Handle
<1>8. ASSUME NEW r \in Rows, NEW o \in Orders, PaymentRefunded(r, o)
      PROVE  GatewayAdvances /\ \A q \in Rows : RowAdvances(q)
    <2> DEFINE row == [pay[r] EXCEPT !.status = "REFUNDED", !.escrow = "REFUNDED", !.frozen = TRUE]
    <2>1. pay' = [pay EXCEPT ![r] = row] /\ gw' = gw
        BY <1>1, <1>8 DEF PaymentRefunded, Inv, PayTypeOK, PaymentRow
    <2>2. row.status = "REFUNDED" /\ row.charge = pay[r].charge /\ row.paid = pay[r].paid
        BY <1>1 DEF PaymentRow
    <2> HIDE DEF row
    <2> QED
        BY <2>1, <2>2, RowWriteAdvances, StillGatewayAdvances
<1>9. ASSUME NEW r \in Rows, NEW frozen, pay' = [pay EXCEPT ![r].frozen = frozen], gw' = gw
      PROVE  GatewayAdvances /\ \A q \in Rows : RowAdvances(q)
    <2> DEFINE row == [pay[r] EXCEPT !.frozen = frozen]
    <2>1. pay' = [pay EXCEPT ![r] = row]
        BY <1>9
    <2>2. row.status = pay[r].status /\ row.charge = pay[r].charge /\ row.paid = pay[r].paid
        BY <1>1 DEF PaymentRow
    <2> HIDE DEF row
    <2> QED
        BY <1>9, <2>1, <2>2, RowWriteAdvances, StillGatewayAdvances
<1>10. ASSUME NEW r \in Rows, NEW o \in Orders, PaymentDispute(r, o)
       PROVE  GatewayAdvances /\ \A q \in Rows : RowAdvances(q)
    <2>1. PICK status : pay' = [pay EXCEPT ![r].frozen = FreezeAfter(status, pay[r].frozen)]
        BY <1>10 DEF PaymentDispute
    <2>2. gw' = gw
        BY <1>10 DEF PaymentDispute
    <2>3. PICK frozen : frozen = FreezeAfter(status, pay[r].frozen)
        OBVIOUS
    <2> QED
        BY <1>9, <2>1, <2>2, <2>3
<1>11. ASSUME NEW u \in Travellers, CreatePaymentOrder(u)
       PROVE  GatewayAdvances /\ \A q \in Rows : RowAdvances(q)
    BY <1>7, <1>11, CheckoutHandles
<1>22. ASSUME NEW r \in Rows, NEW o \in Orders, PaymentFailed(r, o) \/ PaymentAuthorized(r, o)
       PROVE  GatewayAdvances /\ \A q \in Rows : RowAdvances(q)
    BY <1>7, <1>22, EventHandles
<1>23. ASSUME NEW r \in Rows, LateWrite(r)
       PROVE  GatewayAdvances /\ \A q \in Rows : RowAdvances(q)
    BY <1>6, <1>23 DEF LateWrite, Inv, Books, OpenFits
<1>12. ASSUME NEW r \in Rows, ResolveTicket(r)
       PROVE  GatewayAdvances /\ \A q \in Rows : RowAdvances(q)
    BY <1>9, <1>12 DEF ResolveTicket
<1>13. ASSUME NEW o \in Orders, ResolveChargeback(o)
       PROVE  GatewayAdvances /\ \A q \in Rows : RowAdvances(q)
    <2>1. PICK r \in Rows : gw[o].row = r
        BY <1>13 DEF ResolveChargeback, Inv, Books, DisputedOrdersExist
    <2>2. pay' = [pay EXCEPT ![r].frozen = FALSE] /\ gw' = gw
        BY <1>13, <2>1 DEF ResolveChargeback
    <2> QED
        BY <1>9, <2>2
<1>14. ASSUME NEW r \in Rows, AgencyPayout(r)
       PROVE  GatewayAdvances /\ \A q \in Rows : RowAdvances(q)
    <2>1. /\ pay' = [pay EXCEPT ![r] = Settled(pay[r])]
          /\ gw' = gw /\ Payable(pay[r])
        BY <1>14 DEF AgencyPayout
    <2>2. pay'[r] = Settled(pay[r]) /\ \A q \in Rows \ {r} : pay'[q] = pay[q]
        BY <2>1 DEF Inv, PayTypeOK
    <2>3. \A q \in Rows : OnlySettled(pay[q], pay'[q])
        BY <1>1, <2>1, <2>2, SettledIsSettled, UntouchedIsSettled
    <2> QED
        BY <2>1, <2>3, RunAdvances, StillGatewayAdvances
<1>15. CASE CompleteTrip
    <2>1. \A q \in Rows : OnlySettled(pay[q], pay'[q])
        BY <1>15, PayOutSettles DEF CompleteTrip, Inv, PayTypeOK
    <2> QED
        BY <1>15, <2>1, RunAdvances, StillGatewayAdvances DEF CompleteTrip
<1>16. CASE ReconcileStuckGroupConfirmations
    <2>1. \A q \in Rows : OnlySettled(pay[q], pay'[q])
        BY <1>16, CheckAndConfirmSettles
        DEF ReconcileStuckGroupConfirmations, Inv, PayTypeOK, GroupInv, GroupTypeOK
    <2> QED
        BY <1>16, <2>1, RunAdvances, StillGatewayAdvances DEF ReconcileStuckGroupConfirmations
<1>17. ASSUME NEW o \in Orders, GatewayMoves(o) \/ BankDisputes(o)
       PROVE  GatewayAdvances /\ \A q \in Rows : RowAdvances(q)
    BY <1>17, EnvironmentKeepsInv, UntouchedRowAdvances DEF GatewayMoves, BankDisputes
<1>18. CASE MembershipStep /\ UNCHANGED payVars
    BY <1>2, <1>18 DEF payVars
<1>19. CASE ResolveConfirmingWindow
    BY <1>2, <1>19 DEF ResolveConfirmingWindow, payVars
<1>20. ASSUME NEW r \in Rows, CreateDispute(r)
       PROVE  GatewayAdvances /\ \A q \in Rows : RowAdvances(q)
    BY <1>2, <1>20 DEF CreateDispute
<1>21. CASE UNCHANGED vars
    BY <1>2, <1>21 DEF vars, payVars
<1> QED
    BY <1>3, <1>4, <1>5, <1>8, <1>10, <1>11, <1>12, <1>13, <1>14, <1>15, <1>16,
       <1>17, <1>18, <1>19, <1>20, <1>21, <1>22, <1>23
    DEF Next, Webhook, Request, Beat, CheckCompletedTrips, Environment

----------------------------------------------------------------------------
(* The first books are those of an empty ledger.                           *)
LEMMA LedgerInit == Init => Ledger!Init
<1> SUFFICES ASSUME Init
             PROVE  Ledger!Init
    OBVIOUS
<1>1. Charged = {}
    BY SpecialOrders DEF Init, PayInit, Charged, HasSignature, NoGatewayOrder, NoRow, Rows
<1>2. Frozen = {}
    BY DEF Init, PayInit, Frozen, NoRow
<1>3. Received = [r \in Rows |-> 0]
    BY DEF Init, PayInit, Received, NoRow
<1> QED
    BY <1>1, <1>2, <1>3 DEF Ledger!Init

(* Every step is a step of the ledger.                                     *)
LEMMA LedgerNext ==
    ASSUME Inv, Inv', [Next]_vars
    PROVE  Ledger!Next
<1>1. GatewayAdvances /\ \A q \in Rows : RowAdvances(q)
    BY NextAdvances
<1>2. Charged \subseteq Charged'
    <2>1. ASSUME NEW r \in Rows, NEW o \in Orders, gw[o].row = r, HasSignature(o)
          PROVE  r \in Charged'
        BY <1>1, <2>1, SignedOrderExists DEF Charged, GatewayAdvances
    <2>2. ASSUME NEW r \in Rows, pay[r].charge = MockOrder
          PROVE  r \in Charged'
        <3>1. pay'[r].charge # NoOrder
            BY <1>1, <2>2, SpecialOrders DEF RowAdvances
        <3>2. Backed(r, pay[r].charge)'
            BY <3>1 DEF Inv, Books, ChargesBacked
        <3> QED
            BY <3>2 DEF Backed, Charged
    <2> QED
        BY <2>1, <2>2 DEF Charged
<1>3. Charged' \subseteq Rows /\ Frozen' \subseteq Rows
    BY DEF Charged, Frozen
<1>4. Received' \in [Rows -> Prices \cup {0}]
    BY DEF Inv, PayTypeOK, PaymentRow, Received
<1>5. ASSUME NEW r \in Rows, Received'[r] # Received[r]
      PROVE  Ledger!Settles(r)
    <2>1. ~pay[r].frozen /\ pay'[r].status = "CAPTURED" /\ pay[r].paid < pay'[r].paid
        BY <1>1, <1>5 DEF RowAdvances, Received
    <2>2. pay'[r].charge # NoOrder /\ Backed(r, pay[r].charge)'
        BY <2>1 DEF Inv, Books, CapturedIsCharged, ChargesBacked
    <2>3. r \in Charged'
        BY <2>2 DEF Backed, Charged
    <2>4. r \notin Frozen
        BY <2>1 DEF Frozen
    <2>5. pay[r] \in PaymentRow /\ pay'[r] \in PaymentRow
        BY DEF Inv, PayTypeOK
    <2>6. pay[r].paid \in Prices \cup {0} /\ pay'[r].paid \in Prices \cup {0}
        BY <2>5 DEF PaymentRow
    <2>7. pay'[r].paid \in Prices
        <3>1. \A p \in Prices \cup {0} : p \in Nat
            BY PaymentAssumption
        <3>2. pay[r].paid \in Nat /\ pay[r].paid < pay'[r].paid
            BY <2>1, <2>6, <3>1
        <3>3. pay'[r].paid # 0
            BY <3>2
        <3> QED
            BY <2>6, <3>3
    <2>8. Received[r] = pay[r].paid /\ Received'[r] = pay'[r].paid
        BY DEF Received
    <2> QED
        BY <2>1, <2>3, <2>4, <2>7, <2>8 DEF Ledger!Settles
<1> QED
    BY <1>2, <1>3, <1>4, <1>5 DEF Ledger!Next

(* The payments of a group implement the ledger of Settlement.tla: the     *)
(* agency is paid for charged travellers only, never out of a frozen       *)
(* payment, and what it got is never taken back or paid again.             *)
THEOREM PaymentsImplementLedger == Spec => SettlesLikeLedger
<1>1. Inv /\ Inv' /\ [Next]_vars => [Ledger!Next]_Ledger!settlementVars
    BY LedgerNext
<1> QED
    BY <1>1, LedgerInit, SpecKeepsInv, PTL DEF Spec, SettlesLikeLedger, Ledger!Spec

----------------------------------------------------------------------------
(* What is owed for a row: it has a price since its first checkout, and    *)
(* what was paid of it was released. So a captured row nobody released is  *)
(* payable unless it is frozen.                                            *)
Owed(row) == (row.released \/ row.paid = 0) /\ (row.status # "NONE" => row.net # 0)

SharesOwed == \A r \in Rows : Owed(pay[r])

(* A capture of a row that exists, whatever handler makes it.              *)
CaptureStep ==
    \E r \in Rows, row \in PaymentRow :
        /\ Exists(r) /\ FinalizeCapture(r, row)
        /\ row.paid = pay[r].paid /\ row.released = pay[r].released /\ row.net = pay[r].net

(* A handler that writes one row and neither pays out nor moves the trip.  *)
WriteStep ==
    /\ UNCHANGED trip
    /\ \E r \in Rows : \E row :
        /\ pay' = [pay EXCEPT ![r] = row]
        /\ row.paid = pay[r].paid /\ row.released = pay[r].released
        /\ row.status # "NONE" => row.net \in Prices \/ (Exists(r) /\ row.net = pay[r].net)

(* The beat's check of the group as it is.                                 *)
CheckStep == CheckAndConfirm(pay, member) /\ UNCHANGED member

(* No row changes, and no trip is confirmed or completed.                  *)
StillStep == UNCHANGED pay /\ \A k \in Kinds : trip'[k] \in {"OPEN", trip[k]}

(* What the actions amount to for shares and trip.                         *)
LEMMA StepEffects ==
    ASSUME Inv, [Next]_vars
    PROVE  \/ CaptureStep \/ WriteStep \/ CheckStep \/ StillStep \/ CompleteTrip
           \/ (\E r \in Rows : AgencyPayout(r))
           \/ (ResolveConfirmingWindow /\ UNCHANGED pay)
<1>1. \A r \in Rows : pay[r] \in PaymentRow
    BY DEF Inv, PayTypeOK
<1>2. ASSUME NEW r \in Rows, NEW o \in Orders, PaymentCaptured(r, o) \/ HostedCheckoutCallback(r, o)
      PROVE  CaptureStep
    <2> DEFINE row == [pay[r] EXCEPT !.charge = o]
    <2>1. FinalizeCapture(r, row) /\ Finds(r, o)
        BY <1>2 DEF PaymentCaptured, HostedCheckoutCallback
    <2>2. /\ row \in PaymentRow /\ row.paid = pay[r].paid
          /\ row.released = pay[r].released /\ row.net = pay[r].net
        BY <1>1 DEF PaymentRow
    <2> HIDE DEF row
    <2> QED
        BY <2>1, <2>2, FoundRowIsBacked DEF CaptureStep
<1>3. ASSUME NEW r \in Rows, NEW o \in Orders, VerifyPayment(r, o)
      PROVE  CaptureStep
    <2> DEFINE row == [pay[r] EXCEPT !.order = o, !.charge = o]
    <2>1. FinalizeCapture(r, row) /\ Exists(r)
        BY <1>3 DEF VerifyPayment, Exists
    <2>2. /\ row \in PaymentRow /\ row.paid = pay[r].paid
          /\ row.released = pay[r].released /\ row.net = pay[r].net
        BY <1>1 DEF PaymentRow
    <2> HIDE DEF row
    <2> QED
        BY <2>1, <2>2 DEF CaptureStep
<1>4. ASSUME NEW r \in Rows, MockCapture(r)
      PROVE  CaptureStep
    <2> DEFINE charge == IF pay[r].charge = NoOrder THEN MockOrder ELSE pay[r].charge
               row == [pay[r] EXCEPT !.charge = charge]
    <2>1. FinalizeCapture(r, row) /\ Exists(r)
        BY <1>4 DEF MockCapture, Inv, Books, ToldRowsExist
    <2>2. /\ row \in PaymentRow /\ row.paid = pay[r].paid
          /\ row.released = pay[r].released /\ row.net = pay[r].net
        BY <1>1 DEF PaymentRow
    <2> HIDE DEF row
    <2> QED
        BY <2>1, <2>2 DEF CaptureStep
<1>5. ASSUME NEW r \in Rows, NEW q, RequestFits(r, q), Writes(r, q)
      PROVE  WriteStep
    <2>1. PICK row \in PaymentRow : pay' = [pay EXCEPT ![r] = row] /\ SameMoney(row, pay[r])
                                   /\ (row.net \in Prices \/ (Exists(r) /\ row.net = pay[r].net))
        BY <1>5, WritesOneRow
    <2>2. UNCHANGED trip
        BY <1>5 DEF Writes, groupVars
    <2> QED
        BY <2>1, <2>2 DEF WriteStep, SameMoney
<1>6. ASSUME NEW r \in Rows, NEW q, RequestFits(r, q), Handle(r, q)
      PROVE  WriteStep \/ StillStep
    BY <1>5, <1>6 DEF Handle, StillStep, groupVars
<1>7. ASSUME NEW r \in Rows, NEW o \in Orders, PaymentRefunded(r, o)
      PROVE  WriteStep
    <2> DEFINE row == [pay[r] EXCEPT !.status = "REFUNDED", !.escrow = "REFUNDED", !.frozen = TRUE]
    <2>1. pay' = [pay EXCEPT ![r] = row] /\ UNCHANGED trip
        BY <1>1, <1>7 DEF PaymentRefunded, groupVars, Inv, PayTypeOK, PaymentRow
    <2>2. Exists(r)
        BY <1>7, RowFacts, SpecialOrders DEF PaymentRefunded
    <2>3. row.paid = pay[r].paid /\ row.released = pay[r].released /\ row.net = pay[r].net
        BY <1>1 DEF PaymentRow
    <2> HIDE DEF row
    <2> QED
        BY <2>1, <2>2, <2>3 DEF WriteStep
<1>8. ASSUME NEW r \in Rows, NEW frozen, pay' = [pay EXCEPT ![r].frozen = frozen], UNCHANGED trip
      PROVE  WriteStep
    <2> DEFINE row == [pay[r] EXCEPT !.frozen = frozen]
    <2>1. pay' = [pay EXCEPT ![r] = row]
        BY <1>8
    <2>2. /\ row.paid = pay[r].paid /\ row.released = pay[r].released /\ row.net = pay[r].net
          /\ row.status = pay[r].status
        BY <1>1 DEF PaymentRow
    <2> HIDE DEF row
    <2> QED
        BY <1>8, <2>1, <2>2 DEF WriteStep, Exists
<1>9. ASSUME NEW r \in Rows, NEW o \in Orders, PaymentDispute(r, o)
      PROVE  WriteStep
    <2>1. PICK status : pay' = [pay EXCEPT ![r].frozen = FreezeAfter(status, pay[r].frozen)]
        BY <1>9 DEF PaymentDispute
    <2>2. PICK frozen : frozen = FreezeAfter(status, pay[r].frozen)
        OBVIOUS
    <2>3. UNCHANGED trip
        BY <1>9 DEF PaymentDispute, groupVars
    <2> QED
        BY <1>8, <2>1, <2>2, <2>3
<1>10. ASSUME NEW r \in Rows, ResolveTicket(r)
       PROVE  WriteStep
    BY <1>8, <1>10 DEF ResolveTicket, groupVars
<1>11. ASSUME NEW o \in Orders, ResolveChargeback(o)
       PROVE  WriteStep
    <2>1. PICK r \in Rows : gw[o].row = r
        BY <1>11 DEF ResolveChargeback, Inv, Books, DisputedOrdersExist
    <2>2. pay' = [pay EXCEPT ![r].frozen = FALSE] /\ UNCHANGED trip
        BY <1>11, <2>1 DEF ResolveChargeback, groupVars
    <2> QED
        BY <1>8, <2>2
<1>12. ASSUME NEW u \in Travellers, CreatePaymentOrder(u)
       PROVE  WriteStep \/ StillStep
    BY <1>6, <1>12, CheckoutHandles
<1>17. ASSUME NEW r \in Rows, NEW o \in Orders, PaymentFailed(r, o) \/ PaymentAuthorized(r, o)
       PROVE  WriteStep \/ StillStep
    BY <1>6, <1>17, EventHandles
<1>18. ASSUME NEW r \in Rows, LateWrite(r)
       PROVE  WriteStep
    BY <1>5, <1>18 DEF LateWrite, Inv, Books, OpenFits
<1>13. CASE ReconcileStuckGroupConfirmations
    BY <1>13 DEF ReconcileStuckGroupConfirmations, CheckStep
<1>14. CASE MembershipStep /\ UNCHANGED payVars
    BY <1>14 DEF MembershipStep, BookPackage, JoinGroup, LeaveGroup, ApproveMember, RemoveMember,
        InviteMember, PublishPackage, StillStep, payVars, Inv, GroupInv, GroupTypeOK
<1>15. CASE ResolveConfirmingWindow
    BY <1>15 DEF ResolveConfirmingWindow, payVars
<1>16. CASE Environment \/ (\E r \in Rows : CreateDispute(r)) \/ UNCHANGED vars
    BY <1>16 DEF Environment, GatewayMoves, BankDisputes, CreateDispute, StillStep, vars, groupVars,
        payVars
<1> QED
    BY <1>2, <1>3, <1>4, <1>7, <1>9, <1>10, <1>11, <1>12, <1>13, <1>14, <1>15, <1>16, <1>17, <1>18
    DEF Next, Webhook, Request, Beat, CheckCompletedTrips

(* execute_agency_payout leaves a row owed, and a captured row that nobody *)
(* released or froze it either settles or marks as failed.                 *)
LEMMA AfterPayoutClears ==
    ASSUME NEW row \in PaymentRow, Owed(row), NEW rejected \in BOOLEAN
    PROVE  /\ Owed(AfterPayout(row, rejected))
           /\ ~InLimbo(AfterPayout(row, rejected))
<1>1. row.paid \in Nat /\ row.net \in Nat
    <2>1. \A p \in Prices \cup {0} : p \in Nat
        BY PaymentAssumption
    <2>2. row.paid \in Prices \cup {0} /\ row.net \in Prices \cup {0}
        BY DEF PaymentRow
    <2> QED
        BY <2>1, <2>2
<1>2. CASE ~Payable(row)
    BY <1>1, <1>2 DEF AfterPayout, Payable, Owed, InLimbo
<1>3. CASE Payable(row) /\ rejected /\ ByRoute(row)
    BY <1>3 DEF AfterPayout, Owed, InLimbo, PaymentRow
<1>4. CASE Payable(row) /\ ~(rejected /\ ByRoute(row))
    BY <1>4 DEF AfterPayout, Settled, Payable, Owed, InLimbo, PaymentRow
<1> QED
    BY <1>2, <1>3, <1>4

(* A payout run leaves every row owed, and none of those it is given, nor  *)
(* one that was not in limbo before, in limbo.                             *)
LEMMA PayOutClears ==
    ASSUME NEW rows \in [Rows -> PaymentRow], \A r \in Rows : Owed(rows[r]),
           NEW due, PayOut(rows, due), NEW r \in Rows
    PROVE  /\ Owed(pay'[r])
           /\ r \in due \/ ~InLimbo(rows[r]) => ~InLimbo(pay'[r])
<1>1. PICK rejected \in SUBSET due :
        pay' = [q \in Rows |-> IF q \in due THEN AfterPayout(rows[q], q \in rejected) ELSE rows[q]]
    BY DEF PayOut
<1>2. CASE r \in due
    <2>1. pay'[r] = AfterPayout(rows[r], r \in rejected)
        BY <1>1, <1>2
    <2>2. (r \in rejected) \in BOOLEAN /\ rows[r] \in PaymentRow /\ Owed(rows[r])
        OBVIOUS
    <2>3. /\ Owed(AfterPayout(rows[r], r \in rejected))
          /\ ~InLimbo(AfterPayout(rows[r], r \in rejected))
        BY <2>2, AfterPayoutClears, Zenon
    <2> QED
        BY <2>1, <2>3
<1>3. CASE r \notin due
    BY <1>1, <1>3
<1> QED
    BY <1>2, <1>3

(* check_and_confirm_group leaves every row owed, and the step by which it *)
(* confirms the trip no paying traveller's row in limbo.                   *)
LEMMA CheckAndConfirmClears ==
    ASSUME NEW rows \in [Rows -> PaymentRow], \A r \in Rows : Owed(rows[r]),
           NEW members, trip \in [Kinds -> TripStatus], CheckAndConfirm(rows, members)
    PROVE  /\ \A r \in Rows : Owed(pay'[r])
           /\ \A k \in Kinds : trip'[k] = "COMPLETED" => trip[k] = "COMPLETED"
           /\ \A k \in Kinds : trip[k] # "CONFIRMED" /\ trip'[k] = "CONFIRMED" =>
                \A r \in Rows : r[1] \in ActiveIn(members) => ~InLimbo(pay'[r])
<1>1. \A k \in Kinds : /\ trip'[k] = "COMPLETED" => trip[k] = "COMPLETED"
                       /\ trip[k] # "CONFIRMED" /\ trip'[k] = "CONFIRMED" => Confirms(rows, members)
    BY DEF CheckAndConfirm, TripAfterCheck, Confirms
<1>2. CASE Confirms(rows, members)
    <2> DEFINE due == {r \in CapturedIn(rows, ActiveIn(members)) : ~rows[r].released}
    <2>1. PayOut(rows, due)
        BY <1>2 DEF CheckAndConfirm
    <2>2. \A r \in Rows : r[1] \in ActiveIn(members) => r \in due \/ ~InLimbo(rows[r])
        BY DEF CapturedIn, InLimbo
    <2> HIDE DEF due
    <2> QED
        BY <1>1, <2>1, <2>2, PayOutClears
<1>3. CASE ~Confirms(rows, members)
    BY <1>1, <1>3 DEF CheckAndConfirm
<1> QED
    BY <1>2, <1>3

(* The two properties, of one step.                                        *)
ClearsOnConfirm ==
    \A k \in Kinds :
        trip[k] # "CONFIRMED" /\ trip'[k] = "CONFIRMED" /\ ~ResolveConfirmingWindow =>
            \A r \in Rows : r[1] \in ActiveIn(member') => ~InLimbo(pay'[r])

ClearsOnCompletion ==
    (\E k \in Kinds : trip[k] # "COMPLETED" /\ trip'[k] = "COMPLETED") =>
        \A r \in Rows : ~InLimbo(pay'[r])

(* Each step keeps what is owed, and a step that confirms or completes the *)
(* trip clears it.                                                         *)
LEMMA StepsClear ==
    ASSUME Inv, SharesOwed, [Next]_vars
    PROVE  SharesOwed' /\ ClearsOnConfirm /\ ClearsOnCompletion
<1>1. pay \in [Rows -> PaymentRow] /\ trip \in [Kinds -> TripStatus]
    BY DEF Inv, PayTypeOK, GroupInv, GroupTypeOK
<1>2. CASE CaptureStep
    <2>1. PICK r \in Rows, row \in PaymentRow :
            /\ Exists(r) /\ FinalizeCapture(r, row)
            /\ row.paid = pay[r].paid /\ row.released = pay[r].released /\ row.net = pay[r].net
        BY <1>2 DEF CaptureStep
    <2> DEFINE captured == [row EXCEPT !.status = "CAPTURED"]
               rows == [pay EXCEPT ![r] = captured]
    <2>2. /\ captured \in PaymentRow /\ captured.paid = pay[r].paid
          /\ captured.released = pay[r].released /\ captured.net = pay[r].net
        BY <2>1 DEF PaymentRow
    <2>3. Owed(captured)
        BY <2>1, <2>2 DEF SharesOwed, Owed, Exists
    <2>4. CheckAndConfirm(rows, member')
        BY <2>1 DEF FinalizeCapture
    <2> HIDE DEF captured
    <2>5. rows \in [Rows -> PaymentRow] /\ \A q \in Rows : Owed(rows[q])
        BY <1>1, <2>2, <2>3 DEF SharesOwed
    <2> HIDE DEF rows
    <2> QED
        BY <1>1, <2>4, <2>5, CheckAndConfirmClears DEF SharesOwed, ClearsOnConfirm, ClearsOnCompletion
<1>3. CASE WriteStep
    <2>1. PICK r \in Rows : \E row :
            /\ pay' = [pay EXCEPT ![r] = row]
            /\ row.paid = pay[r].paid /\ row.released = pay[r].released
            /\ row.status # "NONE" => row.net \in Prices \/ (Exists(r) /\ row.net = pay[r].net)
        BY <1>3 DEF WriteStep
    <2>2. PICK row :
            /\ pay' = [pay EXCEPT ![r] = row]
            /\ row.paid = pay[r].paid /\ row.released = pay[r].released
            /\ row.status # "NONE" => row.net \in Prices \/ (Exists(r) /\ row.net = pay[r].net)
        BY <2>1
    <2>3. Owed(row)
        BY <2>2, PaymentAssumption DEF SharesOwed, Owed, Exists
    <2>4. \A q \in Rows : Owed(pay'[q])
        BY <1>1, <2>2, <2>3 DEF SharesOwed
    <2> QED
        BY <1>3, <2>4 DEF WriteStep, SharesOwed, ClearsOnConfirm, ClearsOnCompletion
<1>4. CASE CheckStep
    BY <1>1, <1>4, CheckAndConfirmClears
    DEF CheckStep, SharesOwed, ClearsOnConfirm, ClearsOnCompletion
<1>5. CASE StillStep
    BY <1>5 DEF StillStep, SharesOwed, ClearsOnConfirm, ClearsOnCompletion
<1>6. CASE CompleteTrip
    <2> DEFINE due == {r \in Rows : pay[r].status = "CAPTURED" /\ ~pay[r].released}
    <2>1. PayOut(pay, due) /\ \A k \in Kinds : trip'[k] = "COMPLETED"
        BY <1>6 DEF CompleteTrip
    <2>2. \A r \in Rows : r \in due \/ ~InLimbo(pay[r])
        BY DEF InLimbo
    <2> HIDE DEF due
    <2>3. \A r \in Rows : Owed(pay'[r]) /\ ~InLimbo(pay'[r])
        BY <1>1, <2>1, <2>2, PayOutClears DEF SharesOwed
    <2> QED
        BY <2>1, <2>3 DEF SharesOwed, ClearsOnConfirm, ClearsOnCompletion
<1>7. ASSUME NEW r \in Rows, AgencyPayout(r)
      PROVE  SharesOwed' /\ ClearsOnConfirm /\ ClearsOnCompletion
    <2>1. pay' = [pay EXCEPT ![r] = Settled(pay[r])] /\ UNCHANGED trip
        BY <1>7 DEF AgencyPayout, groupVars
    <2>2. Owed(Settled(pay[r]))
        <3>1. pay[r] \in PaymentRow
            BY <1>1
        <3> QED
            BY <3>1 DEF SharesOwed, Owed, Settled, PaymentRow
    <2>3. \A q \in Rows : Owed(pay'[q])
        BY <1>1, <2>1, <2>2 DEF SharesOwed
    <2> QED
        BY <2>1, <2>3 DEF SharesOwed, ClearsOnConfirm, ClearsOnCompletion
<1>8. CASE ResolveConfirmingWindow /\ UNCHANGED pay
    BY <1>8 DEF ResolveConfirmingWindow, SharesOwed, ClearsOnConfirm, ClearsOnCompletion
<1> QED
    BY <1>2, <1>3, <1>4, <1>5, <1>6, <1>7, <1>8, StepEffects

(* Nothing is owed at first, and something is in every state since.        *)
LEMMA SpecOwes == Spec => []SharesOwed
<1>1. Init => SharesOwed
    BY DEF Init, PayInit, SharesOwed, Owed, NoRow
<1>2. Inv /\ SharesOwed /\ [Next]_vars => SharesOwed'
    BY StepsClear
<1> QED
    BY <1>1, <1>2, SpecKeepsInv, PTL DEF Spec

(* The capture or beat that confirms the trip pays, freezes or marks as    *)
(* failed each share of a paying traveller (check_and_confirm_group and    *)
(* _release_agency_payout_for_group).                                      *)
THEOREM ConfirmationPays == Spec => ConfirmationPaysAgency
<1>1. Inv /\ SharesOwed /\ [Next]_vars => [ClearsOnConfirm]_vars
    BY StepsClear
<1>2. Spec => [][ClearsOnConfirm]_vars
    BY <1>1, SpecKeepsInv, SpecOwes, PTL DEF Spec
<1> QED
    BY <1>2 DEF ConfirmationPaysAgency, ClearsOnConfirm

(* Completing the trip leaves no captured share in limbo, whoever left the *)
(* group in between (complete_trip, check_completed_trips).                *)
THEOREM CompletionClears == Spec => CompletionSettles
<1>1. Inv /\ SharesOwed /\ [Next]_vars => [ClearsOnCompletion]_vars
    BY StepsClear
<1>2. Spec => [][ClearsOnCompletion]_vars
    BY <1>1, SpecKeepsInv, SpecOwes, PTL DEF Spec
<1> QED
    BY <1>2 DEF CompletionSettles, ClearsOnCompletion
====
