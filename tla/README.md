# Formal models of the travel backend

TLA+ modules, TLC configurations and TLAPS proofs for the FastAPI travel-booking
backend in `src/`. The models are written from the code; every definition that
stands for code is listed with its lines in `PROJECT.json` under `map`.

    tlc -workers 2 -config Booking.cfg MCTripPayments         # model-check
    tlc -workers 2 -config Community.cfg MCCommunity
    tlapm TripPaymentsProofs.tla                              # check the proofs

## 1. The system

Travellers publish *plans*; agencies answer with *offers* and publish catalogue
*packages*. An accepted offer, or the first booking of a package, creates a
*group*. The members of the group pay through Razorpay; once all of them have,
the trip is confirmed and the agency is paid. Around this core there are
wallets and referrals, chat, posts, follows and reviews.

Processes: FastAPI workers (one database transaction per request,
`database.py:46-55`), Celery workers and beats (`celery_app.py:22-59`), Redis as
cache and broker, a Socket.IO server. Nothing in the code takes a row lock
(`SELECT ... FOR UPDATE`) and nothing sets an isolation level, so PostgreSQL's
READ COMMITTED applies; sessions are created with `autoflush=False` and
`expire_on_commit=False`.

| component | state | operations | talks to | what makes it correct | model |
|---|---|---|---|---|---|
| Payments (`services/payments.py`) | payments, disputes, trip status, agency wallet | order, verify, callback, mock capture, webhooks, payout, disputes, complete | Razorpay, groups, invoices, workers | money behind each capture, agency paid for what was captured and once, refunds and chargebacks stop payouts | TripPayments, SettlementTx |
| Group membership (`api/v1/groups.py`) | member rows, `current_size` | join, leave, approve, remove, invite | payments (commit), packages (book) | an active creator, a headcount that matches the rows, capacity | GroupMembers |
| Packages (`services/packages.py`) | packages, the group of a package, its cached detail | create, update, publish, book | groups, cache | no overbooking, one group per package, no stale entry that stays | Catalogue, GroupMembers (publish, book) |
| Offers (`services/offers.py`) | offers and their negotiation | submit, counter, accept, reject, withdraw | plans, groups | the trip is the deal that was struck, closed offers stay closed | Marketplace |
| Plans (`services/plans.py`) | plans | create, update, publish, cancel, expire | offers, workers | a confirmed plan stays confirmed, a due one closes | Marketplace |
| Workers (`workers/tasks.py`) | none of their own | reconcile, complete, expire, warn, remind, mail | all of the above | stuck trips are repaired, beats do not undo requests, one mail per event | TripPayments, SettlementTx, Marketplace, Mail, Invoicing |
| Invoices (`services/invoices.py`) | invoices, PDFs | ensure, render, send | payments | one per payment, saying what was charged | Invoicing, SettlementTx (the insert) |
| Database sessions (`database.py`) | transactions | commit, roll back | PostgreSQL | all or nothing | SettlementTx |
| Razorpay (`lib/razorpay_*.py`) | orders, payments, disputes, transfers, linked accounts | order, capture, transfer, webhook, onboarding | payments, agencies | external | TripPayments (`gw`), SettlementTx (`sent`), Agencies (`razorpay`) |
| Wallet, loyalty, referrals (`services/loyalty.py`) | balances and their ledgers | credit, debit, redeem, report | payments, auth | balance equals ledger, one bonus per referral, reports agree | Credits |
| Promo codes (`services/payments.py:649-850`) | codes, usages | create, activate, validate, use | payments | limits hold | Credits, Invoicing (amounts) |
| Agencies (`services/agencies.py`) | verification, flags, bank, linked account | submit, approve, reject, flags, bank | Route | what was reviewed stays, one Route account, settling to the details on file | Agencies |
| Accounts (`services/auth.py`) | users, tokens | signup, login, refresh, verify, reset | referrals, e-mail | a link works once and proves its address | Accounts |
| Chat (`services/chat.py`, `websockets/`) | messages, polls, conversations | send, vote, open, read, join a room | groups, Socket.IO | one vote per member, no lost message, one reminder | Chat |
| Posts (`services/posts.py`) | posts, likes, comments, counters | like, comment, reply, share, delete, report | | counters equal rows, no orphan reply | Posts |
| Social graph (`services/social.py`) | follows, blocks, saves | follow, block, page a feed | posts, chat | no follow across a block, pages show each post once | Social |
| Reviews (`api/v1/reviews.py`) | reviews, the aggregates on the reviewed rows | submit | groups, agencies, notifications | aggregates equal rows | Reviews |
| Discovery (`services/discover.py`, feeds of `services/social.py`) | cached lists | feed, trending, search, following, profile | cache, packages, plans | the right audience, full pages, the price to pay | Discovery |
| Cache (`core/cache.py`) | cached details and lists | read through, invalidate | packages, discovery | no stale entry outlives its TTL | Catalogue, Discovery |
| Notifications (`services/notifications.py`) | notices | create | reviews, workers | one per event | Reviews, Mail |
| Locations, library wrappers, HTTP shell, migrations | none that decides anything | | | | not modelled, but for what callers see of a wrapper |

Behaviours that are hard here, each at its line in `PROJECT.json` under
`hazards`: webhooks that repeat, arrive late and overtake each other; several
finalizations of one payment at once; money that leaves before a commit;
transactions that do not see each other's counts; refunds and chargebacks
against running payouts; long mixes of leave, approve and rejoin; read, decide
and write back between which other requests commit (offers, headcounts,
balances, counters, aggregates, JSON columns); caches deleted before the commit;
tasks queued and events emitted before the commit; links and cursors used after
what they name has changed.

## 2. The modules

**Settlement** is the abstract ledger: what the platform promises about the
agency's money and nothing of how. A payment is settled only for a traveller who
was charged, never while it is frozen, and what the agency got for it only
grows, within one price.

**GroupMembers** is one group: `member` and `role` are the columns of
`group_members`, `size` is `groups.current_size`, `trip` the status of the plan
and the package behind it. One action per handler; `HasPlan` chooses between
the group of an accepted offer and that of a catalogue package. `CommitMember`
and `TripMoves` stand for what payments do to a group, so that the module can be
checked and proved about alone (`GroupSpec`).

**TripPayments** extends it with `services/payments.py` and two beats of
`workers/tasks.py`. `pay` is the payments table (the *n*-th row created for a
traveller is `<<traveller, n>>`), `told` the checkout mode of the last order
response, `ticket` and `chargeback` the dispute rows of each source, `gw` the
gateway's own record (external). `FinalizeCapture`, `CheckAndConfirm`, `PayOut`
and `AfterPayout` follow `_finalize_capture`, `check_and_confirm_group`,
`_release_agency_payout_for_group` and `execute_agency_payout`; every handler
that calls them does so in the same step, because it does so in the same
transaction. Three handlers decide on the row's status and write another over it
without calling any of those: `create_payment_order` (`payments.py:573-584`, the
gateway in between), `_handle_payment_failed` (`1130-1138`) and
`_handle_payment_authorized` (`1147-1155`). On the rows of `Slow` they are two
steps: `Handle` reads, decides and keeps in `open` the columns it will write (those
that differ from what it read), and `LateWrite` writes them, whatever happened to
the row in between. Webhooks need no message bag: the gateway repeats an event until it
is answered and does not order them, so an event may be delivered at any time
after its cause, any number of times. Transfers may be refused row by row
(`rejected`). `Ledger` is the refinement mapping to Settlement.

**SettlementTx** opens the transactions that TripPayments takes as atomic. Each
session runs one job (capture, beat, payout, refund), one action per database
statement that matters: what it read into its identity map (`seen`), what it
flushed (`writes`), whose row lock it holds (`lock`), what it still has to pay
(`due`). A write waits for the row's lock, is visible to its own session at
once and to the others at the commit. `Crash` kills a session anywhere,
`TransferRefused` fails a transfer, `DeadlockVictim` is PostgreSQL aborting one
of two sessions that wait for each other. `sent` counts what really left the
gateway. Two captures of one payment, one of the other, the beat, a payout and
a refund run together.

The modules that follow are one component each and share no state with each
other or with the core. All of them model a request the same way, which
SettlementTx justifies: a request **loads** its rows and decides, and at its
**commit** writes the columns that differ from what it loaded (SQLAlchemy's
UPDATE names only those, the sessions run with `autoflush=False`, nothing is
locked before the flush). Where the code flushes, sends, caches or enqueues
between the two, there is a step of its own. A request may be rolled back
wherever it stands.

Since nothing is locked, most of what such code promises can fail when two
requests overlap. A *history variable* records when this happened (`raced`,
`crossed`, `window`, `lost`, `torn`, `overlaid`, `clashed`, `doubled`, `over`,
`unsure`, `slipped`, `mixed`, `passed`, `early`, `undone`, `promised`, `dropped`,
`behind`, `errors`), as narrowly as possible: for
the account, the counter, the column, the row or the voter concerned, or until a
later request repairs it. A property says what holds in spite of overlaps, and what holds *unless* that
very overlap happened. History variables are read by no guard.

**Marketplace**: one plan put out to tender: its row, the offers with their
negotiation rounds, and the trips accepted offers leave. The expiry beat is a
request of its own beside the workers'. `check_expired_offers` is not there: it
filters on `Offer.expires_at`, a column that does not exist, and stops.

**Catalogue**: one package with its groups, member rows and headcount, and the
entry `get_package_by_slug` keeps in Redis. Bookings, edits and publications
delete the entry *before* they commit; readers fill it after they read.

**Mail**: a mail or push task of each kind, queued before its request commits,
retried when its row is not there and when anything else fails it (`except
Exception`, before or after the mail left), delivered again when a worker dies
(`task_acks_late`); the expiry-warning beat, which marks, commits and then
enqueues; the reminder beat, which marks and writes in one transaction.

**Credits**: the referral link of one traveller, the newcomers who sign up with
it, the wallet with its transactions, a promo code, and the checkouts and
captures that spend them; with the five reports on the wallet. An invoice may be
made by a look at it before any capture; the unique keys of invoices and of wallet
transactions decide which of two overlapping captures fails.

**Accounts**: users' address, password and verified flag, the links mailed to
them (verification, reset) and what these were issued on, tokens that lapse.

**Reviews**: submissions with their duplicate check, the aggregates written
back on the reviewed rows, the notices.

**Discovery**: the lists and their Redis entry over a fixed stock of listings
that open, close and fill; audiences, page merging, the price a card shows against
the one checkout charges.

**Invoicing**: what one payment charges (price, GST, commission, promo code,
wallet), and the invoice, two PDFs and receipt that repeat it.

**Agencies**: documents, flags and operational status of one agency; its bank
details and the Route account opened for it, whose replies may not arrive. Bank
details are two columns, the account number, which is written by every request,
and the IFSC code with the holder, which is written where it differs from the row
the request loaded. An empty GSTIN is a value of its own: the code skips it
in one place and writes it in another.

**Chat**: a group chat with its poll and a direct conversation, unread counts,
the leakage reminder, and one screen that joins a room and loads the history
while messages are emitted before they are committed.

**Posts**: a post with likes, comments, replies, shares; each counter is read,
changed and written back beside its row. The unique and foreign keys decide which of
two overlapping requests fails.

**Social**: follow rows (no key keeps them single) and blocks; the reader's feed and
saved posts, paged from a cursor while posts, follows and saves go on.

**MCTripPayments**, **MCSettlementTx** instantiate the core for TLC.
**MCMarketplace** (Marketplace, Catalogue, Mail), **MCMembers** (Credits,
Accounts, Reviews, Discovery, Invoicing) and **MCCommunity** (Agencies, Chat,
Posts, Social) check several components in one run: as they share no state,
interleaving them would multiply the states and show nothing, so the variable
`focus` picks one at the start, which then takes every step while the others
stay in an initial state.
**GroupMembersProofs**, **TripPaymentsProofs**, **SettlementTxProofs**, **MarketplaceProofs**,
**CatalogueProofs**, **MailProofs**, **MembersProofs** (Credits, Accounts, Reviews,
Discovery, Invoicing) and **CommunityProofs** (Agencies, Chat, Posts, Social) hold the proofs.

An operator whose comment starts with "Mutant" is a deliberately wrong version of
the definition after it. `PROJECT.json` pairs each with the property that fails
when it takes the definition's place.

## 3. The runs

| run | shows |
|---|---|
| Booking | A package group of two travellers, one payment row each, two gateway orders, under fairness. Types, active creator, headcount; a confirmation pays the agency or records why not; completion settles every captured share; a group whose remaining members have all paid is confirmed by the beat; money the gateway took for the current order is booked, unless a new checkout replaces the order first. |
| Disputes | One traveller of a package, two payment rows, gateway outages, mock orders, refund, chargeback, support ticket, and one checkout or event that writes late what it decided on an older row. Captures are backed; a refund freezes the row for good unless a dispute is resolved; the agency's money implements Settlement. |
| SettlementTx | The interleaved transactions: confirmation only on committed captures, a confirmation is not overwritten, nothing booked that was not sent, one debit per captured payment, a paid-up trip is confirmed in the end, every request ends. |
| Marketplace | An acceptance leaves one trip, at the offer's price and the plan's terms; accepted, rejected and withdrawn offers and confirmed plans stay so; a due plan closes. A package's headcount is its rows, the limit holds, the cached detail is the stored one but for the window between delete and commit, and becomes it when writes stop. No mail before or without its row, no second copy without a dead worker or a failed attempt, no task retried for ever or dropped with retries left, one reminder per route to a trip. |
| Members | Wallet, transactions and reports agree; overdrafts and promo limits overrun only by orders open at once; the bonus is paid once. A verified address was proven; a reset link works once. Aggregates are those of the reviews. Lists keep their audience, fill their pages and show the price to pay. Invoice, PDFs, receipt and payment page say what was charged. |
| Community | Locked bank details stay, and a GSTIN until it is erased; every Route account is accounted for and settles to the columns on file that no overlap mixed. One vote each; one reminder at the threshold; a screen misses no stored message. Counters are their rows, no reply is orphaned; a follower is counted once but for rows inserted over an unread one, and a block leaves no follow row but those committed over it; paging shows every post once. |
| CaptureLost | violation: a failed event that read the row before the capture writes FAILED over it (`payments.py:1130-1138`). |
| ConfirmedUnpaid | violation: `captured_count` counts rows, not travellers; two captured rows of one traveller confirm a trip another has not paid. |
| UnfrozenDispute | violation: resolving a support ticket unfreezes a payment with an open chargeback. |
| CommitTogether | violation: the last two captures commit together and neither confirms the trip. This is an interleaving that produces the "transaction-timing issue" of `payments.py:353-365`. |
| PaidTwice | violation: a transfer is sent before anything is committed, so a crash, a rollback or a second session repeats it. |
| Overbooking | violation: a member who left or was removed is active again without being counted, through `approve_member` (`groups.py:343`) or through a capture that arrives late (`payments.py:332-340`, `CommitMember`), and the next booking passes the capacity guard. Both behaviours have the same length; TLC prints one or the other, depending on its workers. |

Bounds, and why they are enough:

- *Travellers* 2 (3 in Overbooking). The confirmation compares a count with a
  count: one traveller cannot disagree with the rest, two can. Disputes are per
  row, so one traveller with two rows shows them. Overbooking needs a member who
  left and two who fill the group.
- *MaxRows* 1 or 2, *MaxOrders* 1 or 2. Two orders on one row give the
  superseded order; two rows of one traveller give the double count.
  Booking keeps one row each, Disputes two; ConfirmedUnpaid shows what both
  bounds at two make possible.
- *Prices* one: the runs ask of amounts only whether a share is owed or paid. That
  a payment is made again at another price is in Invoicing.
- *Slow* the traveller's first row in Disputes and CaptureLost: one request at a time
  that writes late, with every other handler in between. The insert of a new row and
  an event that changes no column are not opened, as nothing they read can be overwritten;
  two simultaneous first checkouts of one traveller, which make two rows, are not in
  the model. In the other runs `Slow` is empty, and CapturedMoneyIsBooked is checked there
  for handlers that do not overlap; CaptureLost shows what an overlap does.
- *Refundable*, *Chargeable*, *BankReports*, *Complaints* limit where the
  environment may strike; the handlers accept everything.
- *MaxFaults* 1. One killed process or refused transfer per behaviour; deadlock
  victims and unique-key failures come on top and are not bounded. Counters of
  transfers and debits saturate at "many" (2).
- *Two requests at once* (`Workers`, `Slots`, `Callers`, `Handlers`, `Forms`,
  `Desks`, `Calls`, `Tabs`, `Links`), in Marketplace with the beat as a third:
  a lost update, a duplicate or a stale decision needs one request committing
  between load and commit of another.
- *Requests in all* `MaxRequests`, `MaxWrites`, `MaxSerial`, `MaxForms`,
  `MaxVisits`, `MaxOrders`, `MaxCalls`, `MaxActs`, `MaxMoves`: two to five. Two overlap and
  the rest set the scene before or repair it after: publish, submit, counter and
  accept in Marketplace; signup, change of address, resend and reset in Accounts.
- *MaxRetries* 3 is the code's `max_retries`, so that a task is really dropped;
  *MaxCrashes* 2 gives the second redelivery.
- *Threshold* 2 with three calls: sends below, at and above the reminder's
  threshold (3 in the code). *PageLimit* 1 and *PageSizes*
  {1, 3}: pages that end inside a list and one that outruns a kind of listing.
- *Bonus* 250, *WalletCap* 200: the wallet covers one trip's share and then not
  quite another, so that two open orders overdraw it. *Codes*: a code that
  takes the whole trip up to a cap below the price, so that the floor of one rupee is met.
- *Stock*: four listings, with tiers above and below the base price, one tier
  that is not a number of people, and a corporate plan.
- `CHECK_DEADLOCK FALSE` in all of them: the bounds stop the environment, and a
  group whose trip is over may rest.

Symmetry is used in Members and Community, whose properties are
invariants and action properties: newcomers, addresses and callers there, GST
numbers, details and requests here are interchangeable. In Community a value set
that two components use for different things (account numbers and poll
options, `Workers` for calls and tabs) is permuted in both at once, which
is sound as only one of them moves. The other runs check liveness or are small enough
without.

The temporal properties rest on this fairness. `Booking`: weak fairness of the reconciliation beat, which
`celery_app.py:47-50` starts every 15 minutes, and of `PaymentCaptured`, because
`razorpay_webhook` answers 500 to a failure and Razorpay repeats an event until
it gets a 2xx. Travellers, administrators, other webhooks and the gateway's own moves have no
fairness. `SettlementTx`: weak fairness of each session's next statement; crashes and
refusals have none. `Marketplace`: weak fairness of the expiry beat and its commit
(every 15 minutes, `celery_app.py`), of a reader's store and the entry's expiry
in Redis, and of what a worker does with a queued task and of the end of a request, each
for the component in focus. Requests themselves have none, nor have crashes.

## 4. The proofs

TLAPS checks these for all values of the constants (any finite set of
travellers, any bounds, any prices), from the named assumptions of the modules
alone (`GroupAssumption`, `PaymentAssumption`, `TxAssumption`, `MarketAssumption`,
`CatalogueAssumption`, `MailAssumption`, `AccountsAssumption`, `ReviewsAssumption`,
`InvoicingAssumption`, `NothingIsNoRow`, `CreditsAssumption`, `AgenciesAssumption`, `NoneIsNoRow`,
`ChatAssumption`, `PostsAssumption`, `SocialAssumption`, `DiscoveryAssumption`); TLC evaluates each in the
runs of its module. They say that bounds are numbers, that prices are positive, and
that what stands for "no row" is none of the rows; in Discovery, that the listings are a
finite sequence, newest first, and packages are open to all (only plans are corporate); in Reviews, that there are six
submissions at most, up to which its averages are exact.

- `GroupIsSound`: `GroupSpec => []GroupInv`. `CreatorIsActive` is not inductive
  alone: `GroupInv` adds that a role is held by exactly those who have a member
  row (so that the first booker, not a later one, is the creator it looks for)
  and that a group without rows counts nobody. `SizeNeverOvercounts` rests on
  lemmas about the cardinality of the headcount when one traveller enters,
  leaves or is activated, and on the floor at zero of `_update_group_size`.
- `TypesHold`, `CreatorStaysActive`, `SizeIsNoOvercount`, `CapturesAreBacked`,
  `RefundsStayFrozen`: `Spec => []...` of the composed system, from one
  inductive invariant `Inv`, which is `GroupInv`, the types and `Books`. `Books`
  adds what `MoneyBehindCapture` and `RefundStopsPayout` rest on: an order a
  row has was opened for that row; any charge a row names is backed, captured
  or not; a captured row names one; a row with a mock charge stays captured; the
  rows of a traveller are numbered without a gap (a new row overwrites none); a
  chargeback belongs to an order that was opened. Each action has a lemma; the
  finalization, the check and the payout loop, which seven actions share, have
  lemmas of their own; `open` adds that what a slow request will write is of its kind
  (an authorized event names an order that was opened for the row and paid, a checkout
  never takes a row's order away).
- `PaymentsImplementLedger`: `Spec => Settlement`'s specification under the
  mapping of `Ledger`. Initial states map to the initial state; every step maps to a step
  of `Settlement!Next` or a stutter: only the payout raises `paid`, and its guards
  give `charged`, not `frozen` and a larger amount.

- `ConfirmationPays` and `CompletionClears`: the action properties
  `ConfirmationPaysAgency` and `CompletionSettles`, from `Inv` and `SharesOwed` (a row
  has a price since its first checkout, and what was paid of it was released, so that a
  captured row nobody released is payable unless frozen). Lemmas on the payout loop
  say what each row is after it.

SettlementTx: `TxTypesHold`, `TripsRestOnCaptures`, `TripStaysConfirmed`,
`DebitsAreSingle` and `BooksAreBacked`, from one invariant `TxInv`. Each session's
`SessionOK` says where it may be and what it may have written (`JobFits`), that a finalization
holds its payment's row from flush to end and has seen the debit or is the only one to
make it (`HoldsCapture`), that a refund is of a committed capture (`HoldsRefund`), and
that a confirmation it will write rests on captures that are committed or its own
(`TripFits`). `SentForBooks` adds that two sessions about to book the same transfer sent
it twice, which the counter shows even where it saturates.

Marketplace:

- `DealsAreKept` and `FinalIsFinal`: `DealsHold` and `FinalStaysFinal`. `MarketInv` adds
  what a request in flight has checked on the rows it loaded (`RequestOK`: an accept
  holds an offer that was open, an expiry a plan that was OPEN), that an agency has one
  live offer, and that the last round of a negotiation is the offer's price. The ghost
  `raced` says that a commit wrote over a row another had changed since its load; lemma
  `NotStale` turns its absence into "what was checked still holds at the commit".
- `CatalogueIsServed` and `BookingsStayWithinLimit`: `CatalogueHolds` and the action
  property `NoOverbooking`. `CatalogueInv` adds what a job in flight has checked
  (`JobsChecked`), that the headcount, the rows and the group's place in the list fit
  while no bookings crossed (`GroupsFit`), and where the cached detail and the
  reader's copy may differ from the committed row (`CacheFits`).
- `MailIsSound`: `MailHolds`. `MailInv` adds that a row that was looked up is
  committed, that copies sent before the task ended need a worker that died or an
  attempt that failed, that a task about a row that was there fails only otherwise, and that
  a member is marked in the transaction that reminds.
- `MarketplaceTypesHold`: the types of the three, in the run that steps in one at a time.

Members:

- `LinksAreSound` (Accounts): `LinksHold`. `AccountsInv` bounds what a request in
  flight may write: a password no older than the one it loaded (a reset: a newer one),
  and a verified address only if it loaded it verified or follows the link sent to it.
- `RatingsFollowReviews` (Reviews): `AggregatesMatch`. `ReviewsInv` adds that a
  submission that is not stale has read the aggregates of the rows there are, and, once
  flushed, has computed those of the rows with its own.
- `DocumentsTellCharge` (Invoicing): `InvoicesHold`. `InvoicingInv` adds that the row
  adds up unless two checkouts mixed; what each visit in flight loaded and will write;
  that an invoice once loaded stays; and that a receipt is waiting, sent or being
  queued only if the payment is captured or a capture was undone. The arithmetic of the
  breakdown and the discounts has lemmas of its own.
- `CreditAddsUp` (Credits): `CreditsHold`. `CreditsInv` relates each wallet row a request
  has read to the transactions (`ReadFits`): what the row misses is among the movements
  that were lost or have committed since the read, and a row that misses none is the one
  stored; so the wallet that is written misses exactly what becomes `lost`. `SpendsFit` says what a
  capture in flight found spent, `CreditRoom` and `PromoRoom` that what open orders
  promise is still there, unless two were open at once (`OneBusy`); `Balanced` that debits add
  up to what captured payments spent. The sums are folds over finite sets in the library;
  lemmas on them (one more summand, one that grows, equal summands) rest on the
  well-foundedness of the subsets of a finite set, so that `TotalsAreFold` needs no
  induction theorem with an operator as parameter.
- `ListingsAreTrue` (Discovery): `ListingsHold`. `DiscoveryInv` adds what no answer shows
  directly: the page in Redis suits the audience its key names and is priced as checkout
  charges (or dearer). The other lists keep no state, so each is a lemma about what a
  query returns: a listing's rank is the number of newer ones, the first n ranks are the
  n newest, and taking from two lists in turn loses and repeats none, so that a page is
  as full as the stock allows.
- `MembersTypesHold`: the types of the five. `AccountsTypes` adds that only an account with
  a password has an address, `ReviewsTypes` that an average is a natural number.

Community:

- `RouteAccountsHold`, `ReviewedAndLockedStay` (Agencies): `RouteHolds` and the
  action property `AgencyHolds`. `AgenciesInv` adds what each request loaded and
  holds of the account it opened, and that one request at most holds the bank details;
  `RouteHolds` is column by column, as the writes are.
- `PollIsKept`, `RemindersComeOnce`, `ScreensShowWhatIsStored` (Chat). `ChatInv`
  adds what a send in flight counted (`RemindersFit`), which options a vote will leave
  (`PollFits`) and which messages the screen may still lack (`ScreenFits`).
- `PostsAddUp` (Posts): `PostHolds`. `PostsInv` says of each counter that is not raced on
  that it is the cardinality of its rows, of each request what it will write to both.
- `FollowersAreCounted`, `BlocksAreKept` (Social): `FollowersCounted` and
  `BlocksCutFollows`. `SocialInv` adds that two rows of one pair are there only if the later one
  was committed over a row its request had not read, and that a block in flight knows every row between
  the two unless a follow was committed over it. The count then follows from a bijection
  between the other rows and the followers.
- `FeedsShowOnce` (Social): `FeedShowsOnce`. `FeedInv` ties the cursor to what has been
  shown and what is due: what comes after the cursor has not been shown, what is due
  has been shown or comes after it. The prover knows no order on cursors, so the posts are
  ranked by the number before them, and the last post of a page is the one of greatest rank.
- `CommunityTypesHold`: the types of the four.

Every invariant and every action property a passing run checks has its theorem.
Model-checked only: the liveness properties, as fairness and ENABLED are outside
what the prover does, and the violations, which TLC shows by a behaviour. The proofs take the
queries and folds by what they return: `Discovery` ranks listings, instead of filtering a
sequence by recursion, so that this can be proved.

## 5. Assumptions and what is left out

- *Honest client.* `verify_payment` checks the signature of the order and payment it is
  given and writes that order on the row the client names; nothing ties one to
  the other. `mock_capture` is open in every configuration. The model takes the
  browser to post the order its own checkout was opened with, and to call mock
  capture only when the order response said "mock". `MoneyBehindCapture` and
  `Settlement` are statements under this assumption.
- *Keys.* `KeysSet` covers `razorpay_key_id` and `razorpay_key_secret`, which the
  code reads together except in `verify_payment` (the secret alone).
- *Amounts.* In TripPayments a row carries what it owes the agency. Discounts
  lower what the traveller pays, never this amount; they are in Invoicing and
  Credits. The points discount (`payments.py:548-554`, `invoices.py:320`) is limited
  by a ledger nothing adds to, so it is nought in every reachable state and left out.
  Partial refunds are treated like full ones, as in the code.
- *One agency, one group.* In TripPayments a plan has one accepted offer. The
  code allows more: `accept_offer` looks at the status of the offer alone, so two
  offers of one plan can be accepted by requests that overlap, and also one after the
  other. Both are behaviours of Marketplace, and no property forbids the second:
  `DealsHold` requires of each accepted offer that it left one trip, at its price and on
  the plan's terms (while no request wrote over a row that had changed since it read it),
  and that the offer the plan names is an accepted one.
- *update_package* may change the size limits and the price after booking. The
  price is chosen anew at each checkout; the limits are constants.
- In SettlementTx one payment per traveller, all approved, package group only.
  The two look-ups of a finalization (wallet transaction, invoice) are one step,
  and its two inserts one flush. The order in which locks are taken is that of the flushes.
- *The code as it is.* Some code does not do what its name says, and is modelled
  as what it does: `check_expired_offers` and `expire_loyalty_points` name
  columns that do not exist and change nothing; nothing opens the windows that
  `check_payment_windows` looks for; `services/social.py`'s `submit_review`,
  `make_cache_key` and the cache decorator have no caller; `plan_detail` is
  deleted from Redis but never stored; `refer_plan_to_agencies` writes nothing;
  the reconciliation report always says "reconciled"; the approval mail of an
  approval that is rolled back goes out (`agencies.py:588`);
  `admin_create_agency` reads bank columns its request does not have
  (`agencies.py:366-372`, `schemas/agencies.py:56-79`), so it raises and commits nothing,
  and is no action of Agencies.
- *Where the code departs from what it says*, beside the findings: the docstring at
  `agencies.py:422` calls GSTIN and PAN "never editable afterward", but the check skips
  an empty value (`425`) which `update_agency` and `submit_verification` write (`444-448`,
  `552-554`), after which another number is a first one: `ReviewHolds` says what is left of
  the promise. Two overlapping changes of bank details leave the number of one beside
  the IFSC code, holder or status of the other (`905-913`): `RouteFollowsBank` holds
  for the other columns. `discover.py:211-213` calls corporate plans "never surfaced to other
  travelers"; feed, trending list and search keep to it (`ListingsHold`), while
  `_build_feed` (`social.py:423`, behind the public social feed, the following feed
  and profiles) and `get_following_feed` (`discover.py:389-463`) select by status and creator
  alone, as `GetFeed`, `GetSocialFollowingFeed`, `GetPublicProfile` and `GetFollowingFeed`
  do in Discovery, and show them. A `dispute.lost` event that overtakes `dispute.created`
  freezes nothing (`payments.py:1250`), which the run of UnfrozenDispute
  leaves out so as to be about the ticket.
- *Free choices.* Whether a text is flagged, a GST number or IFSC code is known,
  a mail server accepts, are choices of the environment. Filters that select rows
  alike for every viewer (destination, budget, text) are left out.

Not modelled, because they keep no state that decides anything: locations, HTTP
shell, migrations, PDF layout, S3, encryption, presence and typing events,
profile views and the view counter, Aadhaar verification (it stores a hash and a tier), keyword tables and
text patterns, the list queries. The loyalty points ledger is written by nothing.
Logging and wording are left out.

## 6. Plan

Done: the core (GroupMembers, Settlement, TripPayments, SettlementTx) with its
proofs; Marketplace, Catalogue (bookings as transactions), Mail, Credits,
Accounts, Reviews, Discovery, Invoicing, Agencies, Chat, Posts, Social.

Left, in this order:

1. Catalogue without overlaps as an implementation of GroupMembers.
