---- MODULE SettlementTx ----
(***************************************************************************)
(* The database transactions behind TripPayments' steps, interleaved: the  *)
(* captures of a group's payments (webhook, verify and callback run the    *)
(* same finalization), the reconciliation beat, the admin payout endpoint  *)
(* and the refund webhook.                                                 *)
(*                                                                         *)
(* Source: src/app/services/payments.py and workers/tasks.py over the      *)
(* sessions of database.py: one transaction per request or task, READ      *)
(* COMMITTED, no SELECT ... FOR UPDATE, autoflush off, and an identity map *)
(* that keeps what the session first read of a row. A write is sent at a   *)
(* flush, locks its row until the transaction ends, and changes only the   *)
(* columns the handler assigned.                                           *)
(*                                                                         *)
(* One package group whose travellers are all approved, one payment each.  *)
(***************************************************************************)
EXTENDS Integers, FiniteSets

CONSTANTS
    Travellers,  \* each is one member and one payment of the group
    Sessions,    \* the transactions that run
    Job,         \* what each session does: [kind, payment]
    SizeMin,     \* package.group_size_min
    MaxFaults    \* bound: processes killed and transfers refused

JobKind == {"capture", "reconcile", "payout", "refund"}

ASSUME TxAssumption ==
    /\ IsFiniteSet(Travellers) /\ Travellers # {} /\ "trip" \notin Travellers
    /\ "nobody" \notin Sessions
    /\ Job \in [Sessions -> [kind : JobKind, payment : Travellers]]
    /\ SizeMin \in Nat
    /\ MaxFaults \in Nat

VARIABLES
    db,      \* what is committed
    pc,      \* where each session is
    seen,    \* what each session's identity map holds
    writes,  \* what each session flushed or will flush
    due,     \* payments a session still has to pay out
    lock,    \* which session holds the lock of each row
    sent,    \* external: transfers the gateway made for each payment
    faults   \* crashes and refused transfers so far

vars == <<db, pc, seen, writes, due, lock, sent, faults>>

TripRow == "trip"
Nobody == "nobody"
LockRows == Travellers \cup {TripRow}

(* Counters count none, one, many.                                         *)
Many == 2
OneMore(counts, ps) ==
    [p \in Travellers |-> IF p \in ps /\ counts[p] < Many THEN counts[p] + 1 ELSE counts[p]]

Database ==
    [status : [Travellers -> {"PENDING", "CAPTURED", "REFUNDED"}],
     frozen : SUBSET Travellers,        \* payout_frozen
     paid : SUBSET Travellers,          \* payout_released, payout_amount_paise
     failed : SUBSET Travellers,        \* transfer_status = FAILED
     debits : [Travellers -> 0..Many],  \* wallet debits and invoices of the payment
     payouts : [Travellers -> 0..Many], \* agency_transactions of the payment
     trip : {"OPEN", "CONFIRMING", "CONFIRMED"}]

(* The identity map, as far as it can be stale: payout_frozen of payments, *)
(* and whether the debit and the invoice were found.                       *)
Snapshot == [frozen : SUBSET Travellers, finalized : BOOLEAN]
NothingSeen == [frozen |-> {}, finalized |-> FALSE]

Writes ==
    [captured : BOOLEAN, refunded : BOOLEAN, paid : SUBSET Travellers,
     failed : SUBSET Travellers, trip : {"none", "CONFIRMING", "CONFIRMED"}]
NoWrites ==
    [captured |-> FALSE, refunded |-> FALSE, paid |-> {}, failed |-> {}, trip |-> "none"]

Steps == {"idle", "gather", "flush", "check", "confirm", "transfer", "record", "commit", "done"}

TypeOK ==
    /\ db \in Database
    /\ pc \in [Sessions -> Steps]
    /\ seen \in [Sessions -> Snapshot]
    /\ writes \in [Sessions -> Writes]
    /\ due \in [Sessions -> SUBSET Travellers]
    /\ lock \in [LockRows -> Sessions \cup {Nobody}]
    /\ sent \in [Travellers -> 0..Many]
    /\ faults \in 0..MaxFaults

Init ==
    /\ db = [status |-> [p \in Travellers |-> "PENDING"], frozen |-> {}, paid |-> {},
             failed |-> {}, debits |-> [p \in Travellers |-> 0],
             payouts |-> [p \in Travellers |-> 0], trip |-> "OPEN"]
    /\ pc = [w \in Sessions |-> "idle"]
    /\ seen = [w \in Sessions |-> NothingSeen]
    /\ writes = [w \in Sessions |-> NoWrites]
    /\ due = [w \in Sessions |-> {}]
    /\ lock = [x \in LockRows |-> Nobody]
    /\ sent = [p \in Travellers |-> 0]
    /\ faults = 0

----------------------------------------------------------------------------
Goto(w, step) == pc' = [pc EXCEPT ![w] = step]
Mine(w) == Job[w].payment

(* The rows the next statement of a session updates, and so locks.         *)
Needs(w) ==
    IF pc[w] = "flush" THEN {Mine(w)}
    ELSE IF pc[w] = "confirm" \/ (pc[w] = "commit" /\ writes[w].trip # "none") THEN {TripRow}
    ELSE IF pc[w] = "record" THEN writes[w].paid \cup writes[w].failed
    ELSE {}

CanLock(w) == \A x \in Needs(w) : lock[x] \in {w, Nobody}
Locked(w) == [x \in LockRows |-> IF x \in Needs(w) THEN w ELSE lock[x]]
Unlocked(w) == [x \in LockRows |-> IF lock[x] = w THEN Nobody ELSE lock[x]]

(* Mutant: captures that are not committed are counted too.                *)
CapturedOrWritten(w) ==
    {p \in Travellers :
        db.status[p] = "CAPTURED" \/ \E v \in Sessions : writes[v].captured /\ p = Mine(v)}

(* A session's own flushed writes are visible to its later queries.        *)
CapturedFor(w) ==
    {p \in Travellers : db.status[p] = "CAPTURED" \/ (writes[w].captured /\ p = Mine(w))}

(* The beat starts over; a webhook that failed is sent again; a request    *)
(* that was answered is over.                                              *)
AfterSuccess(w) == IF Job[w].kind = "reconcile" THEN "idle" ELSE "done"
AfterFailure(w) == IF Job[w].kind = "payout" THEN "done" ELSE "idle"

Ends(w, step) ==
    /\ Goto(w, step)
    /\ seen' = [seen EXCEPT ![w] = NothingSeen]
    /\ writes' = [writes EXCEPT ![w] = NoWrites]
    /\ due' = [due EXCEPT ![w] = {}]

RollBack(w) == Ends(w, AfterFailure(w)) /\ UNCHANGED db

Reads(w, snapshot) == seen' = [seen EXCEPT ![w] = snapshot]

----------------------------------------------------------------------------
(* _handle_payment_captured, verify_payment, handle_hosted_checkout_       *)
(* callback: the guard reads the row; the finalization is decided here.    *)
LoadForCapture(w) ==
    LET p == Mine(w)
    IN  /\ pc[w] = "idle" /\ Job[w].kind = "capture"
        /\ IF db.status[p] = "CAPTURED"
           THEN Goto(w, "done") /\ UNCHANGED seen
           ELSE /\ Goto(w, "gather")
                /\ Reads(w, [NothingSeen EXCEPT !.frozen = db.frozen \cap {p}])
        /\ UNCHANGED <<db, writes, due, lock, sent, faults>>

(* Mutant: the finalization does not look for an earlier one.              *)
GatherNothing(w) ==
    /\ pc[w] = "gather"
    /\ Reads(w, [seen[w] EXCEPT !.finalized = FALSE])
    /\ Goto(w, "flush")
    /\ UNCHANGED <<db, writes, due, lock, sent, faults>>

(* _finalize_capture looks for the wallet transaction and the invoice of   *)
(* the payment before it inserts them. (Both reads are one step: a session *)
(* that finds one of them but not the other fails on the missing one's     *)
(* unique key, like a session that finds neither.)                         *)
GatherFinalized(w) ==
    /\ pc[w] = "gather"
    /\ Reads(w, [seen[w] EXCEPT !.finalized = db.debits[Mine(w)] > 0])
    /\ Goto(w, "flush")
    /\ UNCHANGED <<db, writes, due, lock, sent, faults>>

(* Mutant: no unique key on the wallet transaction and the invoice.        *)
FlushWithoutKey(w) ==
    /\ pc[w] = "flush" /\ Job[w].kind = "capture"
    /\ CanLock(w) /\ lock' = Locked(w)
    /\ Goto(w, "check")
    /\ writes' = [writes EXCEPT ![w].captured = TRUE]
    /\ UNCHANGED <<db, seen, due, sent, faults>>

(* The flush in _ensure_invoice: it waits for the payment's row, then      *)
(* fails on a unique key if another finalization came in between.          *)
FlushCapture(w) ==
    /\ pc[w] = "flush" /\ Job[w].kind = "capture"
    /\ CanLock(w)
    /\ IF ~seen[w].finalized /\ db.debits[Mine(w)] > 0
       THEN RollBack(w) /\ lock' = Unlocked(w)
       ELSE /\ Goto(w, "check")
            /\ lock' = Locked(w)
            /\ writes' = [writes EXCEPT ![w].captured = TRUE]
            /\ UNCHANGED <<db, seen, due>>
    /\ UNCHANGED <<sent, faults>>

(* Mutant: the beat scans the open trips.                                  *)
ReconcileOpen(w) ==
    /\ pc[w] = "idle" /\ Job[w].kind = "reconcile"
    /\ db.trip = "OPEN"
    /\ Goto(w, "check")
    /\ UNCHANGED <<db, seen, writes, due, lock, sent, faults>>

StartReconcile(w) ==
    /\ pc[w] = "idle" /\ Job[w].kind = "reconcile"
    /\ db.trip = "CONFIRMING"
    /\ Goto(w, "check")
    /\ UNCHANGED <<db, seen, writes, due, lock, sent, faults>>

MinRequired == IF SizeMin > 1 THEN SizeMin ELSE 1

(* check_and_confirm_group: count what is committed and the session's own. *)
Enough(w) ==
    LET captured == Cardinality(CapturedFor(w))
    IN  captured >= MinRequired /\ captured = Cardinality(Travellers)

(* Mutant: a trip that is not confirmed now is written as confirming.      *)
CheckGroupElse(w) ==
    /\ pc[w] = "check"
    /\ IF db.trip # "CONFIRMED" /\ Enough(w)
       THEN /\ Goto(w, "confirm")
            /\ writes' = [writes EXCEPT ![w].trip = "CONFIRMED"]
       ELSE /\ Goto(w, "commit")
            /\ writes' = [writes EXCEPT ![w].trip = IF db.trip # "CONFIRMED" THEN "CONFIRMING" ELSE @]
    /\ UNCHANGED <<db, seen, due, lock, sent, faults>>

CheckGroup(w) ==
    /\ pc[w] = "check"
    /\ IF db.trip # "CONFIRMED" /\ Enough(w)
       THEN /\ Goto(w, "confirm")
            /\ writes' = [writes EXCEPT ![w].trip = "CONFIRMED"]
       ELSE /\ Goto(w, "commit")
            /\ writes' = [writes EXCEPT ![w].trip = IF db.trip = "OPEN" THEN "CONFIRMING" ELSE @]
    /\ UNCHANGED <<db, seen, due, lock, sent, faults>>

(* The flush of the confirmed trip, then the query of                      *)
(* _release_agency_payout_for_group. A payment the session loaded before   *)
(* keeps the columns it was loaded with.                                   *)
ConfirmTrip(w) ==
    LET owing == CapturedFor(w) \ db.paid
        loaded == IF Job[w].kind = "capture" THEN {Mine(w)} ELSE {}
    IN  /\ pc[w] = "confirm"
        /\ CanLock(w) /\ lock' = Locked(w)
        /\ Goto(w, "transfer")
        /\ due' = [due EXCEPT ![w] = owing]
        /\ Reads(w, [seen[w] EXCEPT !.frozen = (@ \cap loaded) \cup (db.frozen \ loaded)])
        /\ UNCHANGED <<db, writes, sent, faults>>

(* execute_agency_payout behind the admin endpoint.                        *)
LoadForPayout(w) ==
    LET p == Mine(w)
    IN  /\ pc[w] = "idle" /\ Job[w].kind = "payout"
        /\ IF db.status[p] = "CAPTURED" /\ p \notin db.frozen \cup db.paid
           THEN Goto(w, "transfer") /\ due' = [due EXCEPT ![w] = {p}]
           ELSE Goto(w, "done") /\ UNCHANGED due
        /\ UNCHANGED <<db, seen, writes, lock, sent, faults>>

Due(w, p) == p \in due[w] \ seen[w].frozen

(* create_transfer: the money leaves before anything is written.           *)
TransferOut(w, p) ==
    /\ pc[w] = "transfer" /\ Due(w, p)
    /\ sent' = OneMore(sent, {p})
    /\ due' = [due EXCEPT ![w] = {q \in @ : q # p}]
    /\ writes' = [writes EXCEPT ![w].paid = @ \cup {p}]
    /\ Goto(w, "record")
    /\ UNCHANGED <<db, seen, lock, faults>>

(* Mutant: a refused transfer is booked like a payout.                     *)
RefusedIsBooked(w, p) ==
    /\ pc[w] = "transfer" /\ Due(w, p)
    /\ faults < MaxFaults
    /\ faults' = faults + 1
    /\ due' = [due EXCEPT ![w] = {q \in @ : q # p}]
    /\ writes' = [writes EXCEPT ![w].paid = @ \cup {p}]
    /\ Goto(w, "record")
    /\ UNCHANGED <<db, seen, lock, sent>>

(* The gateway refuses: behind the endpoint the error rolls everything     *)
(* back, elsewhere the failure is flushed and the loop goes on.            *)
TransferRefused(w, p) ==
    /\ pc[w] = "transfer" /\ Due(w, p)
    /\ faults < MaxFaults
    /\ faults' = faults + 1
    /\ IF Job[w].kind = "payout"
       THEN RollBack(w) /\ lock' = Unlocked(w)
       ELSE /\ due' = [due EXCEPT ![w] = {q \in @ : q # p}]
            /\ writes' = [writes EXCEPT ![w].failed = @ \cup {p}]
            /\ Goto(w, "record")
            /\ UNCHANGED <<db, seen, lock>>
    /\ UNCHANGED sent

(* The flush of the payment's row after its transfer.                      *)
RecordPayout(w) ==
    /\ pc[w] = "record"
    /\ CanLock(w) /\ lock' = Locked(w)
    /\ Goto(w, "transfer")
    /\ UNCHANGED <<db, seen, writes, due, sent, faults>>

PayoutsDone(w) ==
    /\ pc[w] = "transfer"
    /\ \A p \in Travellers : ~Due(w, p)
    /\ Goto(w, "commit")
    /\ UNCHANGED <<db, seen, writes, due, lock, sent, faults>>

(* _handle_payment_refunded. The gateway refunds what it captured, and the *)
(* row is found by the charge a committed capture left on it.              *)
LoadForRefund(w) ==
    LET p == Mine(w)
    IN  /\ pc[w] = "idle" /\ Job[w].kind = "refund"
        /\ db.status[p] # "PENDING"
        /\ IF db.status[p] = "REFUNDED" THEN Goto(w, "done") ELSE Goto(w, "flush")
        /\ UNCHANGED <<db, seen, writes, due, lock, sent, faults>>

FlushRefund(w) ==
    /\ pc[w] = "flush" /\ Job[w].kind = "refund"
    /\ CanLock(w) /\ lock' = Locked(w)
    /\ writes' = [writes EXCEPT ![w].refunded = TRUE]
    /\ Goto(w, "commit")
    /\ UNCHANGED <<db, seen, due, sent, faults>>

(* Mutant: the trip's status is written whether or not it was assigned.    *)
CommitTripBlindly(w) == [db EXCEPT !.trip = writes[w].trip]

(* The columns the session wrote, over what others committed meanwhile.    *)
AfterCommit(w) ==
    LET captured == IF writes[w].captured THEN {Mine(w)} ELSE {}
        refunded == IF writes[w].refunded THEN {Mine(w)} ELSE {}
    IN  [status |-> [p \in Travellers |->
                        IF p \in captured THEN "CAPTURED"
                        ELSE IF p \in refunded THEN "REFUNDED"
                        ELSE db.status[p]],
         frozen |-> db.frozen \cup refunded,
         paid |-> db.paid \cup writes[w].paid,
         failed |-> (db.failed \cup writes[w].failed) \ writes[w].paid,
         debits |-> OneMore(db.debits, IF seen[w].finalized THEN {} ELSE captured),
         payouts |-> OneMore(db.payouts, writes[w].paid),
         trip |-> IF writes[w].trip = "none" THEN db.trip ELSE writes[w].trip]

Commit(w) ==
    /\ pc[w] = "commit"
    /\ CanLock(w) /\ lock' = Unlocked(w)
    /\ db' = AfterCommit(w)
    /\ Ends(w, AfterSuccess(w))
    /\ UNCHANGED <<sent, faults>>

(* The process dies inside the transaction: nothing of it is committed,    *)
(* and what it sent stays sent.                                            *)
Crash(w) ==
    /\ pc[w] \notin {"idle", "done"}
    /\ faults < MaxFaults
    /\ faults' = faults + 1
    /\ RollBack(w) /\ lock' = Unlocked(w)
    /\ UNCHANGED sent

(* Two sessions that each hold what the other waits for: PostgreSQL aborts *)
(* one of them, and the other gets the row at once.                        *)
WaitsFor(w, v) == w # v /\ \E x \in Needs(w) : lock[x] = v

DeadlockVictim(w) ==
    /\ \E v \in Sessions :
        /\ WaitsFor(w, v) /\ WaitsFor(v, w)
        /\ lock' = [x \in LockRows |->
                       IF lock[x] = w /\ x \in Needs(v) THEN v ELSE Unlocked(w)[x]]
    /\ RollBack(w)
    /\ UNCHANGED <<sent, faults>>

Step(w) ==
    \/ LoadForCapture(w) \/ GatherFinalized(w) \/ FlushCapture(w)
    \/ StartReconcile(w) \/ CheckGroup(w) \/ ConfirmTrip(w)
    \/ LoadForPayout(w)
    \/ \E p \in Travellers : TransferOut(w, p)
    \/ RecordPayout(w) \/ PayoutsDone(w)
    \/ LoadForRefund(w) \/ FlushRefund(w)
    \/ Commit(w) \/ DeadlockVictim(w)

Next ==
    \E w \in Sessions :
        \/ Step(w)
        \/ Crash(w)
        \/ \E p \in Travellers : TransferRefused(w, p)

Spec == Init /\ [][Next]_vars

(* A session that can go on does. Webhooks are sent again until answered   *)
(* with a success and the beat runs every 15 minutes.                      *)
FairSpec == Spec /\ \A w \in Sessions : WF_vars(Step(w))

----------------------------------------------------------------------------
(* However the transactions interleave, a trip is only ever recorded as    *)
(* confirmed on payments that were all captured (some may be refunded      *)
(* since): no session counts a capture that is rolled back later.          *)
ConfirmedOnCaptures ==
    db.trip = "CONFIRMED" => \A p \in Travellers : db.status[p] # "PENDING"

(* A session that found the trip open or confirming, and writes at its     *)
(* commit what it made of that, never overwrites a confirmation others     *)
(* committed meanwhile: the payment's row lock keeps a second finalization *)
(* of the payment from looking before the first one is committed.          *)
ConfirmationLasts == [][db.trip = "CONFIRMED" => db'.trip = "CONFIRMED"]_vars

(* No payout is on the books that was not sent, whatever transfer was      *)
(* refused and whatever session died or lost a deadlock in between.        *)
BooksMatchTransfers == \A p \in Travellers : db.payouts[p] <= sent[p]

(* The traveller's wallet is debited once for a captured payment, although *)
(* order.paid, payment.captured and the callback may finalize it at once   *)
(* (payments.py:298-302, "so a retried capture never double-debits").      *)
DebitedOnce ==
    \A p \in Travellers : db.debits[p] = (IF db.status[p] = "PENDING" THEN 0 ELSE 1)

AllCaptured == \A p \in Travellers : db.status[p] = "CAPTURED"
InFlight(w) == pc[w] \notin {"idle", "done"}

(* Once every traveller has paid, the trip is confirmed in the end, though *)
(* captures that commit together miss each other's row: the beat finds it  *)
(* (tasks.py:212-220).                                                     *)
PaidTripIsConfirmed == AllCaptured ~> (db.trip = "CONFIRMED" \/ ~AllCaptured)

(* Payment rows and the trip row are locked in no fixed order, yet no      *)
(* request hangs: in the end every webhook, callback, payout and refund is *)
(* answered, one way or the other.                                         *)
RequestsEnd == <>[](\A w \in Sessions : Job[w].kind # "reconcile" => ~InFlight(w))

(* payments.py:353-365, check_and_confirm_group "flips the group's         *)
(* plan/package to CONFIRMED ... once every required traveler has a        *)
(* captured payment" in "the real-time path, called on every capture": with*)
(* every payment captured and nobody at work, the trip is confirmed.       *)
RealTimePathConfirms ==
    AllCaptured /\ (\A w \in Sessions : ~InFlight(w)) => db.trip = "CONFIRMED"

(* payments.py:1399-1402, "topped up to its full amount exactly once";     *)
(* 1421, "never re-attempt a Razorpay transfer once the agency has been    *)
(* paid in full".                                                          *)
PaidOutOnce == \A p \in Travellers : sent[p] <= 1
====
