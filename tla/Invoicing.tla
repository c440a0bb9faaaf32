------------------------------ MODULE Invoicing ------------------------------
(***************************************************************************)
(* What a traveller is charged for a trip, and the invoice, the two PDFs   *)
(* and the receipt that say so (services/payments.py: the breakdown, promo *)
(* discounts, checkout and capture; services/invoices.py; the receipt's    *)
(* task in workers/tasks.py).                                              *)
(*                                                                         *)
(* One payment's row, from its first checkout on.  A request loads the     *)
(* row, then the invoice, and writes at its commit the columns it changed. *)
(* Prices are rupees per person, amounts paise.  An authorized payment and *)
(* the transfers of a payout are in TripPayments.                          *)
(* The discount for loyalty points is nought in every state the program    *)
(* can be in: no code adds points to the ledger that limits them.          *)
(***************************************************************************)
EXTENDS Integers, FiniteSets, FiniteSetsExt

CONSTANTS Rates,     \* prices the trip may have
          Credit,    \* rupees in the traveller's wallet
          Codes,     \* promo codes: [percent, value, cap, least]
          Desks,     \* the requests that overlap
          MaxVisits, \* bound: requests
          Nothing    \* no code, no invoice, no PDF

ASSUME InvoicingAssumption ==
  /\ Rates \subseteq Nat \ {0} /\ Credit \in Nat /\ MaxVisits \in Nat /\ Nothing \notin Codes
  /\ Codes \subseteq [percent : BOOLEAN, value : Nat, cap : Nat, least : Nat]

VARIABLES rate,      \* the price of the trip
          bill,      \* the payment's row; price stands for trip, GST and commission
          invoice,   \* the invoice's row with its PDFs
          visit,     \* the requests in flight
          visits,    \* requests the bound still admits
          receipts,  \* receipt tasks waiting, and receipts sent
          mixed,      \* history: a checkout wrote over a checkout it had not seen
          passed,    \* history: a request wrote rows that had changed under it
          early,     \* history: a PDF was rendered before the payment was captured
          undone     \* history: a capture that had queued its receipt was rolled back

invoicingVars == <<rate, bill, invoice, visit, visits, receipts, mixed, passed, early, undone>>

NoVisit == [at |-> "none"]
BillStatus == {"PENDING", "FAILED", "CAPTURED", "REFUNDED"}
Escrow == {"HELD", "RELEASED", "REFUNDED"}

\* The rows, in rupees where prices and wallets are, else in paise.
Bills == [status : BillStatus, escrow : Escrow, price : Rates, wallet : 0..Credit,
          promo : Nat, amount : Nat \ 0..99]
UserPdfs == [status : BillStatus, subtotal : Nat, discounts : Nat, total : Nat \ 0..99]
AgencyPdfs == [escrow : Escrow, net : Nat]
Invoices == [status : BillStatus, price : Rates, total : Nat \ 0..99,
             userPdf : UserPdfs \cup {Nothing}, agencyPdf : AgencyPdfs \cup {Nothing}]

ASSUME NothingIsNoRow == Nothing \notin Invoices

(***************************************************************************)
(* The arithmetic.                                                         *)
(***************************************************************************)
\* FEE_GST_RATE 5 %, COMMISSION_RATE 10 %, no platform fee; exact, as a trip
\* costs whole rupees.
ComputeBreakdown(price) ==
  LET trip == 100 * price
      gst == (trip * 5) \div 100
      commission == (trip * 10) \div 100
  IN [trip |-> trip, gst |-> gst, commission |-> commission,
      net |-> trip - commission, total |-> trip + gst]

\* WALLET_USAGE_CAP_RATE: half of the trip, in whole rupees.
UsableCredit(price, balance) == Max({0, Min({balance, price \div 2})})

PromoDiscount(code, gross) ==
  LET asked == IF code.percent THEN (gross * code.value) \div 100 ELSE code.value
  IN IF code = Nothing \/ gross < code.least THEN 0
     ELSE Max({0, Min({asked, code.cap, gross})})

\* Never below one rupee.
FinalAmount(gross, credit, promo) == Max({100, gross - 100 * credit - promo})

Charge(price, credit, code) ==
  LET gross == ComputeBreakdown(price).total
      used == UsableCredit(price, credit)
      promo == PromoDiscount(code, gross)
  IN [price |-> price, wallet |-> used, promo |-> promo,
      amount |-> FinalAmount(gross, used, promo)]

BillRow(status, escrow, charge) ==
  [status |-> status, escrow |-> escrow, price |-> charge.price, wallet |-> charge.wallet,
   promo |-> charge.promo, amount |-> charge.amount]

(***************************************************************************)
(* The documents.                                                          *)
(***************************************************************************)
\* The traveller's: what was charged, before and after discounts.
UserInvoiceData(b) ==
  [status |-> b.status, subtotal |-> ComputeBreakdown(b.price).total,
   discounts |-> 100 * b.wallet + b.promo, total |-> b.amount]

\* The agency's: its net share, and whether it has been paid out.
AgencySettlementData(b) == [escrow |-> b.escrow, net |-> ComputeBreakdown(b.price).net]

\* The payment page: the price of today beside the amount of the last checkout.
GetGroupPaymentState ==
  [total |-> ComputeBreakdown(rate).total, discount |-> 100 * bill.wallet, amount |-> bill.amount]

\* What a checkout without a code would charge.
GetCheckoutBreakdown(credit) == Charge(rate, credit, Nothing).amount

IssuedFor(b) ==
  [status |-> b.status, price |-> b.price, total |-> b.amount,
   userPdf |-> Nothing, agencyPdf |-> Nothing]

\* Mutant: an invoice keeps the status it was made with.
KeepsStatus(loaded, b) ==
  IF loaded = Nothing THEN IssuedFor(b) ELSE [loaded EXCEPT !.price = b.price, !.total = b.amount]

\* A new invoice, or the one there brought up to date.
EnsureInvoice(loaded, b) ==
  IF loaded = Nothing THEN IssuedFor(b)
  ELSE [loaded EXCEPT !.status = b.status, !.price = b.price, !.total = b.amount]

\* Fills what is missing; a rendering that fails leaves it missing.
Renderings(pdf, data) == IF pdf = Nothing THEN {Nothing, data} ELSE {pdf}
WithPdfs(i, u, a) == [i EXCEPT !.userPdf = u, !.agencyPdf = a]
EnsureInvoicePdfs(i, b) ==
  {WithPdfs(i, u, a) : u \in Renderings(i.userPdf, UserInvoiceData(b)),
                       a \in Renderings(i.agencyPdf, AgencySettlementData(b))}

InvoicingTypeOK ==
  /\ rate \in Rates /\ bill \in Bills /\ invoice \in Invoices \cup {Nothing}
  /\ visits \in 0..MaxVisits /\ receipts \in [waiting : Nat, sent : Nat]

(***************************************************************************)
(* Requests on the row alone.                                              *)
(***************************************************************************)
Arrive(d, j) ==
  /\ visit[d] = NoVisit /\ visits > 0 /\ visits' = visits - 1
  /\ visit' = [visit EXCEPT ![d] = j]
Leave(d) == visit' = [visit EXCEPT ![d] = NoVisit]

\* The agency edits its package.
PriceChanges(p) ==
  /\ p # rate /\ visits > 0 /\ visits' = visits - 1 /\ rate' = p
  /\ UNCHANGED <<bill, invoice, visit, receipts, mixed, passed, early, undone>>

\* A checkout again; one of a captured payment answers with it as it is, and
\* one of a refunded payment opens another row.
PricePaymentOrder(d, credit, code) ==
  LET charge == Charge(rate, IF credit THEN Credit ELSE 0, code) IN
  /\ bill.status \in {"PENDING", "FAILED"}
  /\ Arrive(d, [at |-> "checkout", was |-> bill, new |-> BillRow("PENDING", bill.escrow, charge)])
  /\ UNCHANGED <<rate, bill, invoice, receipts, mixed, passed, early, undone>>

Written(now, was, new) == [c \in DOMAIN now |-> IF new[c] # was[c] THEN new[c] ELSE now[c]]
ChargeOf(b) == <<b.price, b.wallet, b.promo, b.amount>>

CommitPrice(d) ==
  LET j == visit[d] IN
  /\ j.at = "checkout" /\ Leave(d)
  /\ bill' = Written(bill, j.was, j.new)
  /\ mixed' = (mixed \/ ChargeOf(bill) # ChargeOf(j.was))
  /\ passed' = (passed \/ bill # j.was)
  /\ UNCHANGED <<rate, invoice, visits, receipts, early, undone>>

\* payment.failed and refund events.
Webhook(status) ==
  /\ \/ bill.status = "PENDING" /\ status = "FAILED"
     \/ bill.status = "CAPTURED" /\ status = "REFUNDED"
  /\ bill' = [bill EXCEPT !.status = status, !.escrow = IF status = "REFUNDED" THEN status ELSE @]
  /\ UNCHANGED <<rate, invoice, visit, visits, receipts, mixed, passed, early, undone>>

(***************************************************************************)
(* Requests that bring the invoice up to date.                             *)
(***************************************************************************)
Ask(d, kind, new, pdfs) ==
  /\ Arrive(d, [at |-> "asked", kind |-> kind, was |-> bill, new |-> new, pdfs |-> pdfs])
  /\ UNCHANGED <<rate, bill, invoice, mixed, passed, early, undone>>

InvoiceCapture(d) ==
  /\ bill.status \in {"PENDING", "FAILED"}
  /\ Ask(d, "capture", [bill EXCEPT !.status = "CAPTURED"], TRUE) /\ UNCHANGED receipts

ExecuteAgencyPayout(d) ==
  /\ bill.status = "CAPTURED" /\ bill.escrow = "HELD"
  /\ Ask(d, "payout", [bill EXCEPT !.escrow = "RELEASED"], FALSE) /\ UNCHANGED receipts

\* Only what was charged.
ListUserInvoices(d) ==
  bill.status = "CAPTURED" /\ Ask(d, "read", bill, FALSE) /\ UNCHANGED receipts

\* Whatever its status: the agency's list, and the page of one invoice.
ListAgencyInvoices(d) == Ask(d, "read", bill, FALSE) /\ UNCHANGED receipts
GetInvoicePdf(d) == Ask(d, "read", bill, TRUE) /\ UNCHANGED receipts

\* The task finds the payment's row, captured or not.
SendReceipt(d) ==
  /\ receipts.waiting > 0 /\ receipts' = [receipts EXCEPT !.waiting = @ - 1]
  /\ Ask(d, "receipt", bill, TRUE)

\* The invoice is loaded and flushed; a capture queues its receipt, the
\* receipt's task sends it, both before they commit.
Flush(d) ==
  LET j == visit[d]
      base == EnsureInvoice(invoice, j.new)
  IN /\ j.at = "asked"
     /\ \E new \in IF j.pdfs THEN EnsureInvoicePdfs(base, j.new) ELSE {base} :
          visit' = [visit EXCEPT ![d] = [at |-> "flushed", kind |-> j.kind, was |-> j.was,
                                         new |-> j.new, had |-> invoice, invoice |-> new]]
     /\ receipts' = IF j.kind = "capture" THEN [receipts EXCEPT !.waiting = @ + 1]
                    ELSE IF j.kind = "receipt" THEN [receipts EXCEPT !.sent = @ + 1]
                    ELSE receipts
     /\ UNCHANGED <<rate, bill, invoice, visits, mixed, passed, early, undone>>

\* A payment has one invoice: of two inserts the second fails.
Clashes(d) == visit[d].at = "flushed" /\ visit[d].had = Nothing /\ invoice # Nothing

Commit(d) ==
  LET j == visit[d]
      Pdfs(i) == IF i = Nothing THEN <<Nothing, Nothing>> ELSE <<i.userPdf, i.agencyPdf>>
      renders == Pdfs(j.invoice) # Pdfs(j.had)
  IN /\ j.at = "flushed" /\ ~Clashes(d) /\ Leave(d)
     /\ bill' = Written(bill, j.was, j.new)
     /\ invoice' = IF j.had = Nothing THEN j.invoice ELSE Written(invoice, j.had, j.invoice)
     /\ passed' = (passed \/ bill # j.was \/ invoice # j.had)
     /\ early' = (early \/ (renders /\ j.new.status # "CAPTURED"))
     /\ UNCHANGED <<rate, visits, receipts, mixed, undone>>

\* The task is retried.
Rollback(d) ==
  /\ visit[d].at = "flushed" /\ Leave(d)
  /\ undone' = (undone \/ visit[d].kind = "capture")
  /\ receipts' = IF visit[d].kind = "receipt" THEN [receipts EXCEPT !.waiting = @ + 1] ELSE receipts
  /\ UNCHANGED <<rate, bill, invoice, visits, mixed, passed, early>>

InvoicingInit ==
  /\ rate \in Rates
  /\ \E credit \in {0, Credit}, code \in Codes \cup {Nothing} :
       bill = BillRow("PENDING", "HELD", Charge(rate, credit, code))
  /\ invoice = Nothing /\ visit = [d \in Desks |-> NoVisit] /\ visits = MaxVisits
  /\ receipts = [waiting |-> 0, sent |-> 0]
  /\ mixed = FALSE /\ passed = FALSE /\ early = FALSE /\ undone = FALSE

InvoicingNext ==
  \/ \E p \in Rates : PriceChanges(p)
  \/ \E s \in {"FAILED", "REFUNDED"} : Webhook(s)
  \/ \E d \in Desks :
       \/ \E credit \in BOOLEAN, code \in Codes \cup {Nothing} : PricePaymentOrder(d, credit, code)
       \/ CommitPrice(d)
       \/ InvoiceCapture(d) \/ ExecuteAgencyPayout(d)
       \/ ListUserInvoices(d) \/ ListAgencyInvoices(d) \/ GetInvoicePdf(d) \/ SendReceipt(d)
       \/ Flush(d) \/ Commit(d) \/ Rollback(d)

InvoicingSpec == InvoicingInit /\ [][InvoicingNext]_invoicingVars

-----------------------------------------------------------------------------
(***************************************************************************)
(* Properties.                                                             *)
(***************************************************************************)
AddsUp(doc) == doc.total = FinalAmount(doc.subtotal, 0, doc.discounts)

\* The row charges what its own columns say: the trip with its GST, less its
\* discounts, but never less than a rupee; two overlapping checkouts mix their
\* columns (create_payment_order).
ChargeAddsUp == ~mixed => AddsUp(UserInvoiceData(bill))

\* A captured payment has an invoice, and it says what was charged, whoever
\* looked at it before and when, unless a request wrote over what it had not
\* seen (_ensure_invoice, _finalize_capture).
InvoiceFollowsCapture ==
  bill.status = "CAPTURED" /\ ~passed =>
    invoice # Nothing /\ invoice.status = "CAPTURED" /\ invoice.total = bill.amount

\* The traveller's PDF says what was charged, and that it was, and the agency's
\* its share of that, unless someone opened one before the payment was captured:
\* each is rendered once, the agency's with the escrow of that day
\* (ensure_invoice_pdfs, get_user_invoice_pdf, get_agency_settlement_pdf).
PdfTellsCharge ==
  bill.status = "CAPTURED" /\ ~passed /\ ~early =>
    /\ invoice.userPdf \in {Nothing, UserInvoiceData(bill)}
    /\ invoice.agencyPdf # Nothing => invoice.agencyPdf.net = AgencySettlementData(bill).net

\* A receipt goes out for a payment that was captured or is being captured, or
\* the capture that asked for it was undone (send_transactional_invoice_email_task).
ReceiptsFollowCaptures ==
  receipts.sent > 0 =>
    \/ bill.status \in {"CAPTURED", "REFUNDED"} \/ undone \/ passed
    \/ \E d \in Desks : visit[d] # NoVisit /\ visit[d].at = "flushed" /\ visit[d].kind = "capture"

\* While the trip costs what it cost at the last checkout, the payment page adds
\* up, but for a code, which it leaves out; and without a code nobody was
\* charged less than a checkout with the whole wallet would charge now
\* (get_group_payment_state, get_checkout_breakdown).
PageAddsUp ==
  LET page == GetGroupPaymentState IN
  bill.price = rate /\ bill.promo = 0 /\ ~mixed =>
    /\ page.amount = FinalAmount(page.total, 0, page.discount)
    /\ bill.amount \in GetCheckoutBreakdown(Credit)..GetCheckoutBreakdown(0)

\* All five: the documents say what was charged.
InvoicesHold ==
  /\ PageAddsUp
  /\ ChargeAddsUp /\ InvoiceFollowsCapture /\ PdfTellsCharge /\ ReceiptsFollowCaptures
=============================================================================
