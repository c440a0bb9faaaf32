------------------------------ MODULE Credits ------------------------------
(***************************************************************************)
(* Referral links, the referral wallet, promo codes, and the checkouts and *)
(* captures that spend them (services/loyalty.py, _redeem_referral_code in *)
(* services/auth.py, the discounts of services/payments.py).               *)
(*                                                                         *)
(* Checkout promises discounts from what it reads; capture spends what the *)
(* payment's row promises.  Nothing is locked in between: a request reads  *)
(* the link or the payment, then the wallet, and writes at its commit.     *)
(***************************************************************************)
EXTENDS Integers, FiniteSets, FiniteSetsExt, Functions

CONSTANTS Users,       \* travellers with a payment
          Referrer,    \* the one whose referral link is out
          Newcomers,   \* those who sign up with it
          Payments,    \* one per traveller and group
          Buyer,       \* who pays each of them
          Callers,     \* verify, webhook: the captures of one payment at once
          Bonus,       \* REFERRAL_BONUS_RUPEES
          WalletCap,   \* the share of a trip the wallet may pay, in rupees
          PromoLimit,  \* usage_limit
          UserLimit,   \* per_user_limit
          MaxLinks,    \* bound: rotations of the link
          MaxOrders,   \* bound: checkouts
          MaxRequests, \* bound: requests in flight at once
          MaxLooks,    \* bound: invoices there are when another is looked at first
          None

ASSUME CreditsAssumption ==
  /\ Referrer \in Users /\ Buyer \in [Payments -> Users] /\ None \notin Newcomers
  /\ IsFiniteSet(Payments)
  /\ Bonus \in Nat /\ WalletCap \in Nat /\ MaxLinks \in Nat /\ MaxOrders \in Nat /\ MaxRequests \in Nat
  /\ PromoLimit \in Nat /\ UserLimit \in Nat /\ MaxLooks \in Nat

VARIABLES link,     \* the referral link; gen counts its rotations
          wallet,   \* the wallets' rows
          entries,  \* the wallet transactions
          promo,    \* the code exists, is active and not past expires_at
          uses,     \* promo usages, per payment
          pay,      \* the payments' rows
          invoiced, \* payments that have an invoice
          signup,   \* per newcomer, the request in flight
          order,    \* per payment, the checkout in flight
          capture,  \* per payment, the two captures that may be in flight
          orders,   \* checkouts the bound still admits
          lost,     \* history: wallet movements committed under a write that had not seen them
          raced,    \* history: payments a request wrote after they changed under it
          promised  \* history: whose credit ("promo" for the code) two orders held at once

creditsVars == <<link, wallet, entries, promo, uses, pay, invoiced, signup, order, capture,
                 orders, lost, raced, promised>>

Idle == [at |-> "idle"]

LinkRow == [gen : 0..MaxLinks, used : Newcomers \cup {None}, expired : BOOLEAN]
WalletRow == [exists : BOOLEAN, balance : Int, earned : Nat, spent : Nat]
PaymentRow == [status : {"none", "PENDING", "FAILED", "CAPTURED"},
               wallet : 0..WalletCap, promo : BOOLEAN]
\* The unique key of a transaction is its kind with what it is for.
Entry == [kind : {"referral"}, for : Newcomers, user : Users, amount : {Bonus}, gen : 1..MaxLinks]
           \cup [kind : {"checkout"}, for : Payments, user : Users,
                 amount : -WalletCap..-1, gen : {0}]

Amount == [e \in Entry |-> e.amount]

CreditsTypeOK ==
  /\ link \in LinkRow
  /\ \A u \in Users : wallet[u] \in WalletRow
  /\ entries \subseteq Entry
  /\ \A p \in Payments : pay[p] \in PaymentRow /\ uses[p] \in Nat
  /\ invoiced \subseteq Payments /\ promo \in BOOLEAN /\ lost \in Nat /\ orders \in 0..MaxOrders
  /\ raced \subseteq Payments /\ promised \subseteq Users \cup {"promo"}

requests == <<signup, order, capture, orders>>
history == <<lost, raced, promised>>

Movements(u) == Cardinality({e \in entries : e.user = u})

Admitted ==
  Cardinality({n \in Newcomers : signup[n] # Idle})
    + Cardinality({p \in Payments : order[p] # Idle})
    + Cardinality({pc \in Payments \X Callers : capture[pc[1]][pc[2]] # Idle}) < MaxRequests

HasEntry(kind, x) == \E e \in entries : e.kind = kind /\ e.for = x

(***************************************************************************)
(* Referral link, signup, bonus.                                           *)
(***************************************************************************)
\* A missing link is made; a used or expired one is opened again under its code.
GetOrCreateReferralLink ==
  /\ link.gen < MaxLinks
  /\ link.gen = 0 \/ link.expired \/ link.used # None
  /\ link' = [gen |-> link.gen + 1, used |-> None, expired |-> FALSE]
  /\ UNCHANGED <<wallet, entries, promo, uses, pay, invoiced, requests, history>>

LinkExpires ==
  /\ link.gen > 0 /\ ~link.expired
  /\ link' = [link EXCEPT !.expired = TRUE]
  /\ UNCHANGED <<wallet, entries, promo, uses, pay, invoiced, requests, history>>

\* Anything but an open link: the signup goes on without a bonus.
RedeemReferralCode(n) ==
  /\ link.gen > 0 /\ link.used = None /\ ~link.expired
  /\ signup[n] = Idle /\ ~HasEntry("referral", n) /\ Admitted
  /\ signup' = [signup EXCEPT ![n] = [at |-> "link", gen |-> link.gen]]
  /\ UNCHANGED <<link, wallet, entries, promo, uses, pay, invoiced, order, capture, orders, history>>

CreditReferralBonus(n) ==
  /\ signup[n].at = "link"
  /\ signup' = [signup EXCEPT ![n] = [at |-> "wallet", gen |-> signup[n].gen,
                                      loaded |-> wallet[Referrer],
                                      seen |-> Movements(Referrer)]]
  /\ UNCHANGED <<link, wallet, entries, promo, uses, pay, invoiced, order, capture, orders, history>>

\* Only changed columns are written, and by value: a debit that came in
\* between keeps its total_spent and loses its balance.  A second wallet of
\* one user meets the unique constraint, and the whole signup fails.
CommitSignup(n) ==
  LET loaded == signup[n].loaded
      clash == ~loaded.exists /\ wallet[Referrer].exists
  IN /\ signup[n].at = "wallet"
     /\ signup' = [signup EXCEPT ![n] = Idle]
     /\ \/ /\ clash
           /\ UNCHANGED <<link, wallet, entries, lost>>
        \/ /\ ~clash
           /\ link' = [link EXCEPT !.used = n]
           /\ wallet' = [wallet EXCEPT ![Referrer] =
                [exists |-> TRUE, balance |-> loaded.balance + Bonus,
                 earned |-> loaded.earned + Bonus, spent |-> @.spent]]
           /\ entries' = entries \cup {[kind |-> "referral", for |-> n, user |-> Referrer,
                                        amount |-> Bonus, gen |-> signup[n].gen]}
           /\ lost' = lost + Movements(Referrer) - signup[n].seen
     /\ UNCHANGED <<promo, uses, pay, invoiced, order, capture, orders, raced, promised>>

\* Mutant: every look makes an empty wallet.
GetWalletAnew(u) ==
  /\ wallet' = [wallet EXCEPT ![u] = [exists |-> TRUE, balance |-> 0, earned |-> 0, spent |-> 0]]
  /\ UNCHANGED <<link, entries, promo, uses, pay, invoiced, requests, history>>

\* Shows the wallet, made empty at the first look.
GetWalletBalance(u) ==
  /\ ~wallet[u].exists
  /\ wallet' = [wallet EXCEPT ![u].exists = TRUE]
  /\ UNCHANGED <<link, entries, promo, uses, pay, invoiced, requests, history>>

(***************************************************************************)
(* Promo code.                                                             *)
(***************************************************************************)
\* Created or activated; deactivated or past its expires_at.
PromoChange ==
  /\ promo' = ~promo
  /\ UNCHANGED <<link, wallet, entries, uses, pay, invoiced, requests, history>>

UsesOf(u) == SumFunctionOnSet(uses, {p \in Payments : Buyer[p] = u})
TotalUses == SumFunctionOnSet(uses, Payments)

\* A usage is written at capture; checkout only counts them.
ResolvePromoDiscount(u) == promo /\ TotalUses < PromoLimit /\ UsesOf(u) < UserLimit

(***************************************************************************)
(* Checkout: the promise.                                                  *)
(***************************************************************************)
Open(p) == pay[p].status \in {"PENDING", "FAILED"}

\* Mutant: the share of a trip is not capped.
WholeBalance(u) == Max({0, wallet[u].balance})

MaxWalletUsable(u) == Max({0, Min({wallet[u].balance, WalletCap})})

\* History: another order, of the traveller or of anyone, is open or in checkout.
Overlap(p) ==
  LET others == {q \in Payments \ {p} : Open(q) \/ order[q] # Idle}
  IN ({Buyer[q] : q \in others} \cap {Buyer[p]}) \cup {"promo" : q \in others}

\* The traveller asks for credit or not, for the code or not.
CreatePaymentOrder(p, credit, code) ==
  /\ orders > 0 /\ orders' = orders - 1
  /\ order[p] = Idle /\ pay[p].status # "CAPTURED" /\ Admitted
  /\ order' = [order EXCEPT ![p] =
       [at |-> "read", loaded |-> pay[p],
        wallet |-> IF credit THEN MaxWalletUsable(Buyer[p]) ELSE 0,
        promo |-> code /\ ResolvePromoDiscount(Buyer[p])]]
  /\ promised' = promised \cup Overlap(p)
  /\ UNCHANGED <<link, wallet, entries, promo, uses, pay, invoiced, signup, capture, lost, raced>>

CommitOrder(p) ==
  LET req == order[p]
      Written(new, old, now) == IF new = old THEN now ELSE new
  IN /\ order[p].at = "read"
     /\ order' = [order EXCEPT ![p] = Idle]
     /\ pay' = [pay EXCEPT ![p] =
          [status |-> Written("PENDING", req.loaded.status, @.status),
           wallet |-> Written(req.wallet, req.loaded.wallet, @.wallet),
           promo |-> Written(req.promo, req.loaded.promo, @.promo)]]
     /\ raced' = IF pay[p] # req.loaded THEN raced \cup {p} ELSE raced
     /\ UNCHANGED <<link, wallet, entries, promo, uses, invoiced, signup, capture, orders,
                    lost, promised>>

(***************************************************************************)
(* Capture: the promise is spent.                                          *)
(***************************************************************************)
\* Bound: after the last checkout none fails, as nobody would try again.
PaymentFailed(p) ==
  /\ pay[p].status = "PENDING" /\ orders > 0
  /\ pay' = [pay EXCEPT ![p].status = "FAILED"]
  /\ UNCHANGED <<link, wallet, entries, promo, uses, invoiced, requests, history>>

\* Whoever looks at the invoice of a payment first makes it.
LookAtInvoice(p) ==
  /\ pay[p].status # "none" /\ p \notin invoiced /\ Cardinality(invoiced) < MaxLooks
  /\ invoiced' = invoiced \cup {p}
  /\ UNCHANGED <<link, wallet, entries, promo, uses, pay, requests, history>>

CapturePayment(p, c) ==
  /\ Open(p) /\ capture[p][c] = Idle /\ Admitted
  /\ capture' = [capture EXCEPT ![p][c] = [at |-> "read", loaded |-> pay[p]]]
  /\ UNCHANGED <<link, wallet, entries, promo, uses, pay, invoiced, signup, order, orders, history>>

ReadWallet(p, c) ==
  /\ capture[p][c].at = "read"
  /\ capture' = [capture EXCEPT ![p][c] =
       [at |-> "wallet", loaded |-> @.loaded,
        purse |-> IF @.loaded.wallet > 0 /\ ~HasEntry("checkout", p)
                  THEN wallet[Buyer[p]] ELSE Idle,
        seen |-> Movements(Buyer[p]),
        invoiced |-> p \in invoiced]]
  /\ UNCHANGED <<link, wallet, entries, promo, uses, pay, invoiced, signup, order, orders, history>>

\* The second of two captures that both found no invoice, or no debit, fails
\* on a unique constraint and is rolled back.
FinalizeCapture(p, c) ==
  LET req == capture[p][c]
      u == Buyer[p]
      clash == \/ ~req.invoiced /\ p \in invoiced
               \/ req.purse # Idle /\ HasEntry("checkout", p)
  IN /\ req.at = "wallet"
     /\ capture' = [capture EXCEPT ![p][c] = Idle]
     /\ \/ clash /\ UNCHANGED <<wallet, entries, uses, pay, invoiced, lost, raced>>
        \/ /\ ~clash
           /\ pay' = [pay EXCEPT ![p].status = "CAPTURED"]
           /\ invoiced' = invoiced \cup {p}
           /\ uses' = [uses EXCEPT ![p] = IF req.loaded.promo THEN @ + 1 ELSE @]
           /\ \/ /\ req.purse # Idle
                 /\ wallet' = [wallet EXCEPT ![u].balance = req.purse.balance - req.loaded.wallet,
                                             ![u].spent = req.purse.spent + req.loaded.wallet]
                 /\ entries' = entries \cup {[kind |-> "checkout", for |-> p, user |-> u,
                                              amount |-> -req.loaded.wallet, gen |-> 0]}
                 /\ lost' = lost + Movements(u) - req.seen
              \/ req.purse = Idle /\ UNCHANGED <<wallet, entries, lost>>
           /\ raced' = IF pay[p] # req.loaded THEN raced \cup {p} ELSE raced
     /\ UNCHANGED <<link, promo, signup, order, orders, promised>>

(***************************************************************************)
(* What the wallet, referral and audit pages report.                       *)
(***************************************************************************)
WalletTransactions(u) == {e \in entries : e.user = u}
LedgerOf(u) == SumFunctionOnSet(Amount, WalletTransactions(u))

\* From the transactions: the link forgets whom it brought when it is opened again.
MyReferrals(u) == {e \in WalletTransactions(u) : e.kind = "referral"}
ReferralStats(u) ==
  [completed |-> Cardinality(MyReferrals(u)),
   earned |-> SumFunctionOnSet(Amount, MyReferrals(u))]

\* The months together; each shows the wallet's present balance.
Earned(es) == SumFunctionOnSet(Amount, {e \in es : e.amount >= 0})
Spent(es) == -SumFunctionOnSet(Amount, {e \in es : e.amount < 0})
MonthlySummary(u) ==
  [earned |-> Earned(WalletTransactions(u)), spent |-> Spent(WalletTransactions(u)),
   balance |-> wallet[u].balance]

CashflowAudit ==
  [credits |-> Earned(entries), debits |-> Spent(entries),
   checkouts |-> {e.for : e \in {x \in entries : x.kind = "checkout"}}]

\* The payments are not read: the report says reconciled of any ledger.
ReconciliationReport ==
  LET txs == {e \in entries : e.kind = "checkout"}
  IN [total |-> Cardinality(txs), amount |-> Spent(txs)]

CreditsInit ==
  /\ link = [gen |-> 0, used |-> None, expired |-> FALSE]
  /\ wallet = [u \in Users |-> [exists |-> FALSE, balance |-> 0, earned |-> 0, spent |-> 0]]
  /\ entries = {}
  /\ promo = FALSE
  /\ uses = [p \in Payments |-> 0]
  /\ pay = [p \in Payments |-> [status |-> "none", wallet |-> 0, promo |-> FALSE]]
  /\ invoiced = {}
  /\ signup = [n \in Newcomers |-> Idle]
  /\ order = [p \in Payments |-> Idle]
  /\ capture = [p \in Payments |-> [c \in Callers |-> Idle]]
  /\ orders = MaxOrders
  /\ lost = 0 /\ raced = {} /\ promised = {}

CreditsNext ==
  \/ GetOrCreateReferralLink \/ LinkExpires \/ PromoChange
  \/ \E n \in Newcomers : RedeemReferralCode(n) \/ CreditReferralBonus(n) \/ CommitSignup(n)
  \/ \E u \in Users : GetWalletBalance(u)
  \/ \E p \in Payments :
       \/ \E credit, code \in BOOLEAN : CreatePaymentOrder(p, credit, code)
       \/ CommitOrder(p) \/ PaymentFailed(p) \/ LookAtInvoice(p)
       \/ \E c \in Callers : CapturePayment(p, c) \/ ReadWallet(p, c) \/ FinalizeCapture(p, c)

CreditsSpec == CreditsInit /\ [][CreditsNext]_creditsVars

(***************************************************************************)
(* Properties.                                                             *)
(***************************************************************************)
LargestMove == Max({Bonus, WalletCap})

\* The balance (total earned minus total spent) is the sum of the wallet's
\* transactions; it is off by at most the movements that other requests
\* committed between the read and the write of one, and by nothing else.
WalletMatchesLedger ==
  \A u \in Users :
    /\ wallet[u].balance - LedgerOf(u) \in -(lost * LargestMove)..(lost * LargestMove)
    /\ lost = 0 => wallet[u].balance = wallet[u].earned - wallet[u].spent

\* A balance goes below zero only if two orders of the traveller were open
\* at once (both were promised the same credit), or a write was lost.
OverdrawnByTwoOrders ==
  \A u \in Users : wallet[u].balance < 0 => u \in promised \/ lost > 0 \/ raced # {}

\* A promo code is used more often than its limits allow, by all or by one
\* traveller, only if two orders were open at once; and one payment uses it
\* twice only if two captures of it overlapped.
PromoWithinLimits ==
  /\ "promo" \in promised \/ raced # {} \/
       (TotalUses <= PromoLimit /\ \A u \in Users : UsesOf(u) <= UserLimit)
  /\ \A p \in Payments \ raced : uses[p] <= 1

\* A captured payment spent what its row says it spent, unless a checkout or
\* another capture wrote the row meanwhile; a payment that is not captured
\* has spent nothing.
CapturedSpendsItsPromise ==
  \A p \in Payments \ raced :
    LET spent == {e \in entries : e.kind = "checkout" /\ e.for = p}
    IN IF pay[p].status = "CAPTURED"
       THEN /\ pay[p].wallet > 0 <=> spent # {}
            /\ \A e \in spent : e.amount = -pay[p].wallet
            /\ uses[p] = IF pay[p].promo THEN 1 ELSE 0
       ELSE spent = {} /\ uses[p] = 0

\* The newcomer a link names has earned its owner the bonus, and nobody earns
\* it twice.
RedeemedLinkPaid ==
  /\ link.used # None => HasEntry("referral", link.used)
  /\ \A e, f \in entries : e.kind = f.kind /\ e.for = f.for => e = f

\* The pages agree with the wallet and with each other: a friend stays on the
\* referrer's list after the link is opened again (get_my_referrals), the
\* months add up to the wallet's totals while no write of it was lost, and what
\* the audit and the reconciliation report as spent at checkouts is what
\* captured payments say they spent.
ReportsAgree ==
  LET captured == {p \in Payments : pay[p].status = "CAPTURED"} IN
  /\ lost = 0 => \A u \in Users :
       /\ ReferralStats(u).earned = wallet[u].earned
       /\ MonthlySummary(u).earned - MonthlySummary(u).spent = MonthlySummary(u).balance
       /\ MonthlySummary(u).spent = wallet[u].spent
  /\ link.used # None => \E e \in MyReferrals(Referrer) : e.for = link.used
  /\ raced = {} =>
       /\ ReconciliationReport.amount = SumFunctionOnSet([p \in Payments |-> pay[p].wallet], captured)
       /\ CashflowAudit.checkouts = {p \in captured : pay[p].wallet > 0}
       /\ CashflowAudit.debits = ReconciliationReport.amount

\* Credit and codes are earned once, spent once, within their limits, and
\* accounted for (credit_referral_bonus, _finalize_capture,
\* _resolve_promo_discount).
CreditsHold ==
  /\ WalletMatchesLedger /\ OverdrawnByTwoOrders /\ CapturedSpendsItsPromise
  /\ RedeemedLinkPaid /\ PromoWithinLimits /\ ReportsAgree
=============================================================================
