------------------------- MODULE SettlementTxProofs -------------------------
(***************************************************************************)
(* The transactions of SettlementTx, for any travellers, any number of     *)
(* sessions with any jobs, and any number of crashes and refusals.         *)
(***************************************************************************)
EXTENDS SettlementTx, FiniteSetTheorems, TLAPS

\* The steps after a session's first flush, when it holds its payment's row.
Writing == {"check", "confirm", "transfer", "record", "commit"}

\* What a session is doing follows from its job, and it writes nothing before
\* its first flush.
JobFits(w) ==
  /\ pc[w] = "gather" => Job[w].kind = "capture"
  /\ pc[w] = "flush" => Job[w].kind \in {"capture", "refund"}
  /\ pc[w] \in {"check", "confirm"} => Job[w].kind \in {"capture", "reconcile"}
  /\ pc[w] \in {"transfer", "record"} => Job[w].kind # "refund"
  /\ pc[w] \notin Writing => writes[w] = NoWrites
  /\ pc[w] = "check" => writes[w].trip = "none"
  /\ pc[w] \in {"check", "confirm"} => writes[w].paid = {}
  /\ writes[w].paid \cap due[w] = {}

\* A finalization holds the payment's row from its flush to its end, and has
\* either seen that the debit is there or is the only one to make it.
HoldsCapture(w) ==
  /\ writes[w].captured <=> Job[w].kind = "capture" /\ pc[w] \in Writing
  /\ writes[w].captured => lock[Mine(w)] = w
  /\ writes[w].captured /\ ~seen[w].finalized => db.debits[Mine(w)] = 0
  /\ seen[w].finalized => db.debits[Mine(w)] > 0

\* A refund is of a committed capture.
HoldsRefund(w) ==
  /\ writes[w].refunded <=> Job[w].kind = "refund" /\ pc[w] = "commit"
  /\ writes[w].refunded => lock[Mine(w)] = w
  /\ Job[w].kind = "refund" /\ pc[w] \in {"flush", "commit"} => db.status[Mine(w)] # "PENDING"

\* What a session will write on the trip: a confirmation rests on captures
\* that are committed or its own; the first step away from "open" is written
\* by a session whose payment is still pending under its lock; and every
\* session that does not write on the trip knows that it is no longer open.
TripFits(w) ==
  /\ writes[w].trip = "CONFIRMED" =>
       \A p \in Travellers : db.status[p] # "PENDING" \/ (writes[w].captured /\ p = Mine(w))
  /\ writes[w].trip = "CONFIRMING" => writes[w].captured /\ db.status[Mine(w)] = "PENDING"
  /\ Job[w].kind = "reconcile" /\ pc[w] \in Writing => db.trip # "OPEN"
  /\ writes[w].captured /\ pc[w] # "check" /\ writes[w].trip = "none" => db.trip # "OPEN"

SessionOK(w) == JobFits(w) /\ HoldsCapture(w) /\ HoldsRefund(w) /\ TripFits(w)

\* A payment that was captured took the trip out of "open" in its transaction.
CaptureMovesTrip == db.trip = "OPEN" => \A p \in Travellers : db.status[p] = "PENDING"

\* Every payout that is or will be on the books was sent; counts end at Many.
SentForBooks ==
  \A p \in Travellers :
    /\ db.payouts[p] <= sent[p]
    /\ \A w \in Sessions :
         p \in writes[w].paid => sent[p] > db.payouts[p] \/ sent[p] = Many
    /\ \A v, w \in Sessions :
         v # w /\ p \in writes[v].paid /\ p \in writes[w].paid => sent[p] = Many

TxInv ==
  /\ TypeOK
  /\ \A w \in Sessions : SessionOK(w)
  /\ CaptureMovesTrip
  /\ ConfirmedOnCaptures
  /\ DebitedOnce
  /\ SentForBooks

-----------------------------------------------------------------------------
(***************************************************************************)
(* Steps that write nothing to the database.                               *)
(***************************************************************************)

\* Nothing of another session changes, and it keeps its locks.
Alone(w) ==
  \A v \in Sessions \ {w} :
    /\ pc'[v] = pc[v] /\ seen'[v] = seen[v] /\ writes'[v] = writes[v] /\ due'[v] = due[v]
    /\ \A x \in LockRows : lock[x] = v => lock'[x] = v

\* A session that starts out has everything an idle one has.
LEMMA TxStarts == Init => TxInv
<1> SUFFICES ASSUME Init
             PROVE  TxInv
  OBVIOUS
<1> USE TxAssumption
<1>1. TypeOK
  BY DEF Init, TypeOK, Database, Snapshot, NothingSeen, Writes, NoWrites, Steps, LockRows, Many
<1>2. ASSUME NEW w \in Sessions
      PROVE  SessionOK(w)
  BY DEF Init, SessionOK, JobFits, HoldsCapture, HoldsRefund, TripFits, NoWrites, NothingSeen, Writing
<1>3. CaptureMovesTrip /\ ConfirmedOnCaptures /\ DebitedOnce
  BY DEF Init, CaptureMovesTrip, ConfirmedOnCaptures, DebitedOnce
<1>4. SentForBooks
  BY DEF Init, SentForBooks, NoWrites
<1> QED
  BY <1>1, <1>2, <1>3, <1>4 DEF TxInv

\* A session whose own state and locks stay is in order as long as nobody
\* commits.
LEMMA OthersKeep ==
  ASSUME TxInv, NEW w \in Sessions, Alone(w), UNCHANGED db, NEW v \in Sessions, v # w
  PROVE  SessionOK(v)'
<1>1. SessionOK(v)
  BY DEF TxInv
<1>2. Mine(v) \in LockRows
  BY TxAssumption DEF Mine, LockRows
<1>3. /\ pc'[v] = pc[v] /\ seen'[v] = seen[v] /\ writes'[v] = writes[v] /\ due'[v] = due[v]
      /\ lock[Mine(v)] = v => lock'[Mine(v)] = v
  BY <1>2 DEF Alone
<1>4. (JobFits(v) /\ HoldsCapture(v))'
  BY <1>1, <1>3 DEF SessionOK, JobFits, HoldsCapture, Mine
<1>5. (HoldsRefund(v) /\ TripFits(v))'
  BY <1>1, <1>3 DEF SessionOK, HoldsRefund, TripFits, Mine
<1> QED
  BY <1>4, <1>5 DEF SessionOK

\* A step of one session that neither commits nor sends money keeps the
\* invariant if it leaves the session itself in order.
LEMMA QuietStep ==
  ASSUME TxInv, NEW w \in Sessions, Alone(w), UNCHANGED <<db, sent>>,
         writes'[w].paid \subseteq writes[w].paid, TypeOK', SessionOK(w)'
  PROVE  TxInv'
<1>1. \A v \in Sessions : SessionOK(v)'
  BY OthersKeep
<1>2. (CaptureMovesTrip /\ ConfirmedOnCaptures /\ DebitedOnce)'
  BY DEF TxInv, CaptureMovesTrip, ConfirmedOnCaptures, DebitedOnce
<1>3. \A v \in Sessions : writes'[v].paid \subseteq writes[v].paid
  BY DEF Alone
<1>4. SentForBooks'
  BY <1>3 DEF TxInv, SentForBooks
<1> QED
  BY <1>1, <1>2, <1>4 DEF TxInv

\* A session that ends, with or without success, is in order.
LEMMA EndedIsOK ==
  ASSUME TypeOK, NEW w \in Sessions, NEW step \in {"idle", "done"}, Ends(w, step)
  PROVE  SessionOK(w)' /\ writes'[w].paid = {}
  BY DEF TypeOK, Ends, Goto, SessionOK, JobFits, HoldsCapture, HoldsRefund, TripFits,
         NoWrites, NothingSeen, Writing

\* A session ends in a well-typed state.
LEMMA EndedTypes ==
  ASSUME TypeOK, NEW w \in Sessions, NEW step \in Steps, Ends(w, step)
  PROVE  /\ pc' \in [Sessions -> Steps] /\ seen' \in [Sessions -> Snapshot]
         /\ writes' \in [Sessions -> Writes] /\ due' \in [Sessions -> SUBSET Travellers]
         /\ \A v \in Sessions \ {w} : /\ pc'[v] = pc[v] /\ seen'[v] = seen[v]
                                      /\ writes'[v] = writes[v] /\ due'[v] = due[v]
<1>1. NoWrites \in Writes /\ NothingSeen \in Snapshot
  BY DEF NoWrites, Writes, NothingSeen, Snapshot
<1> QED
  BY <1>1 DEF TypeOK, Ends, Goto

\* The locks a session takes, gives back, or leaves to the one it was in
\* deadlock with, are nobody else's.
LEMMA LocksTyped ==
  ASSUME TypeOK, NEW w \in Sessions
  PROVE  /\ Locked(w) \in [LockRows -> Sessions \cup {Nobody}]
         /\ Unlocked(w) \in [LockRows -> Sessions \cup {Nobody}]
         /\ \A v \in Sessions \ {w}, x \in LockRows :
              /\ lock[x] = v => Unlocked(w)[x] = v
              /\ CanLock(w) /\ lock[x] = v => Locked(w)[x] = v
  BY TxAssumption DEF TypeOK, Locked, Unlocked, CanLock, Nobody

\* A roll-back: a crash, a unique key, a refused transfer, a deadlock.
LEMMA RollBackKeeps ==
  ASSUME TxInv, NEW w \in Sessions, RollBack(w), UNCHANGED sent, faults' \in 0..MaxFaults,
         lock' \in [LockRows -> Sessions \cup {Nobody}],
         \A v \in Sessions \ {w}, x \in LockRows : lock[x] = v => lock'[x] = v
  PROVE  TxInv'
<1>1. PICK step \in {"idle", "done"} : Ends(w, step)
  BY DEF RollBack, AfterFailure
<1>2. TypeOK' /\ Alone(w)
  BY <1>1, EndedTypes DEF TxInv, TypeOK, RollBack, Steps, Alone
<1>3. SessionOK(w)' /\ writes'[w].paid = {}
  BY <1>1, EndedIsOK DEF TxInv
<1> QED
  BY <1>2, <1>3, QuietStep DEF RollBack

-----------------------------------------------------------------------------
(***************************************************************************)
(* The steps of a session, in the order it takes them.                     *)
(***************************************************************************)
\* A field of a session's writes is set to a value of its type.
LEMMA FieldTyped ==
  ASSUME NEW r \in Writes
  PROVE  /\ [r EXCEPT !.captured = TRUE] \in Writes /\ [r EXCEPT !.refunded = TRUE] \in Writes
         /\ \A trip \in {"none", "CONFIRMING", "CONFIRMED"} : [r EXCEPT !.trip = trip] \in Writes
         /\ \A p \in Travellers : /\ [r EXCEPT !.paid = @ \cup {p}] \in Writes
                                 /\ [r EXCEPT !.failed = @ \cup {p}] \in Writes
  BY DEF Writes

USE DEF SessionOK, JobFits, Writing

\* A session's snapshot and writes are changed a field at a time.
LEMMA ReadsTyped ==
  ASSUME TypeOK, NEW w \in Sessions, NEW s \in Snapshot, Reads(w, s)
  PROVE  seen' \in [Sessions -> Snapshot]
  BY DEF TypeOK, Reads

\* A session's pending writes are changed a field at a time.
LEMMA WritesTyped ==
  ASSUME TypeOK, NEW w \in Sessions, NEW r \in Writes, writes' = [writes EXCEPT ![w] = r]
  PROVE  writes' \in [Sessions -> Writes]
  BY DEF TypeOK

\* What a session reads of the database, and where that takes it.
LEMMA LoadsKeep ==
  ASSUME TxInv, NEW w \in Sessions,
         LoadForCapture(w) \/ GatherFinalized(w) \/ StartReconcile(w) \/ LoadForPayout(w)
           \/ LoadForRefund(w) \/ PayoutsDone(w)
  PROVE  TxInv'
<1> USE TxAssumption
<1>1. TypeOK /\ SessionOK(w) /\ DebitedOnce
  BY DEF TxInv
<1>2. Mine(w) \in Travellers
  BY DEF Mine
<1>3. CASE LoadForCapture(w)
  <2>1. TypeOK'
    <3>1. [NothingSeen EXCEPT !.frozen = db.frozen \cap {Mine(w)}] \in Snapshot
      BY <1>2 DEF NothingSeen, Snapshot
    <3>2. seen' \in [Sessions -> Snapshot]
      BY <1>1, <1>3, <3>1, ReadsTyped DEF TypeOK, LoadForCapture
    <3> QED
      BY <1>1, <1>3, <3>2 DEF TypeOK, LoadForCapture, Goto, Steps
  <2>2. Alone(w) /\ writes'[w].paid \subseteq writes[w].paid
    BY <1>1, <1>3 DEF TypeOK, LoadForCapture, Goto, Reads, Alone
  <2>3. SessionOK(w)'
    BY <1>1, <1>3 DEF TypeOK, LoadForCapture, Goto, Reads, NoWrites, NothingSeen,
                      HoldsCapture, HoldsRefund, TripFits, Mine
  <2> QED
    BY <1>3, <2>1, <2>2, <2>3, QuietStep DEF LoadForCapture
<1>4. CASE GatherFinalized(w)
  <2>1. TypeOK'
    <3>1. [seen[w] EXCEPT !.finalized = db.debits[Mine(w)] > 0] \in Snapshot
      <4>1. seen[w] \in Snapshot
        BY <1>1 DEF TypeOK
      <4>2. ASSUME NEW b \in BOOLEAN
            PROVE  [seen[w] EXCEPT !.finalized = b] \in Snapshot
        BY <4>1 DEF Snapshot
      <4>3. (db.debits[Mine(w)] > 0) \in BOOLEAN
        OBVIOUS
      <4> QED
        BY <4>2, <4>3, Zenon
    <3>2. seen' \in [Sessions -> Snapshot]
      BY <1>1, <1>4, <3>1, ReadsTyped DEF GatherFinalized
    <3> QED
      BY <1>1, <1>4, <3>2 DEF TypeOK, GatherFinalized, Goto, Steps
  <2>2. Alone(w) /\ writes'[w].paid \subseteq writes[w].paid
    BY <1>1, <1>4 DEF TypeOK, GatherFinalized, Goto, Reads, Alone
  <2>3. SessionOK(w)'
    BY <1>1, <1>4 DEF TypeOK, GatherFinalized, Goto, Reads, NoWrites, Snapshot,
                      HoldsCapture, HoldsRefund, TripFits, Mine
  <2> QED
    BY <1>4, <2>1, <2>2, <2>3, QuietStep DEF GatherFinalized
<1>5. CASE StartReconcile(w)
  <2>1. TypeOK'
    BY <1>1, <1>5 DEF TypeOK, StartReconcile, Goto, Steps
  <2>2. Alone(w) /\ writes'[w].paid \subseteq writes[w].paid
    BY <1>1, <1>5 DEF TypeOK, StartReconcile, Goto, Alone
  <2>3. SessionOK(w)'
    BY <1>1, <1>5 DEF TypeOK, StartReconcile, Goto, NoWrites,
                      HoldsCapture, HoldsRefund, TripFits, Mine
  <2> QED
    BY <1>5, <2>1, <2>2, <2>3, QuietStep DEF StartReconcile
<1>6. CASE LoadForPayout(w)
  <2>1. TypeOK'
    <3>1. due' \in [Sessions -> SUBSET Travellers] /\ pc' \in [Sessions -> Steps]
      BY <1>1, <1>2, <1>6 DEF TypeOK, LoadForPayout, Goto, Steps
    <3> QED
      BY <1>1, <1>6, <3>1 DEF TypeOK, LoadForPayout
  <2>2. Alone(w) /\ writes'[w].paid \subseteq writes[w].paid
    BY <1>1, <1>6 DEF TypeOK, LoadForPayout, Goto, Alone
  <2>3. SessionOK(w)'
    BY <1>1, <1>6 DEF TypeOK, LoadForPayout, Goto, NoWrites,
                      HoldsCapture, HoldsRefund, TripFits, Mine
  <2> QED
    BY <1>6, <2>1, <2>2, <2>3, QuietStep DEF LoadForPayout
<1>7. CASE LoadForRefund(w)
  <2>1. TypeOK'
    BY <1>1, <1>7 DEF TypeOK, LoadForRefund, Goto, Steps
  <2>2. Alone(w) /\ writes'[w].paid \subseteq writes[w].paid
    BY <1>1, <1>7 DEF TypeOK, LoadForRefund, Goto, Alone
  <2>3. SessionOK(w)'
    BY <1>1, <1>7 DEF TypeOK, LoadForRefund, Goto, NoWrites,
                      HoldsCapture, HoldsRefund, TripFits, Mine
  <2> QED
    BY <1>7, <2>1, <2>2, <2>3, QuietStep DEF LoadForRefund
<1>8. CASE PayoutsDone(w)
  <2>1. TypeOK'
    BY <1>1, <1>8 DEF TypeOK, PayoutsDone, Goto, Steps
  <2>2. Alone(w) /\ writes'[w].paid \subseteq writes[w].paid
    BY <1>1, <1>8 DEF TypeOK, PayoutsDone, Goto, Alone
  <2>3. SessionOK(w)'
    BY <1>1, <1>8 DEF TypeOK, PayoutsDone, Goto,
                      HoldsCapture, HoldsRefund, TripFits, Mine
  <2> QED
    BY <1>8, <2>1, <2>2, <2>3, QuietStep DEF PayoutsDone
<1> QED
  BY <1>3, <1>4, <1>5, <1>6, <1>7, <1>8

\* The two flushes that lock a payment's row.
LEMMA FlushesKeep ==
  ASSUME TxInv, NEW w \in Sessions, FlushCapture(w) \/ FlushRefund(w)
  PROVE  TxInv'
<1> USE TxAssumption
<1>1. TypeOK /\ SessionOK(w) /\ DebitedOnce
  BY DEF TxInv
<1>2. Mine(w) \in Travellers /\ Mine(w) \in LockRows
  BY DEF Mine, LockRows
<1>3. CASE FlushCapture(w) /\ ~seen[w].finalized /\ db.debits[Mine(w)] > 0
  BY <1>1, <1>3, RollBackKeeps, LocksTyped DEF FlushCapture, TypeOK
<1>4. CASE FlushCapture(w) /\ ~(~seen[w].finalized /\ db.debits[Mine(w)] > 0)
  <2>1. writes' \in [Sessions -> Writes]
    <3>1. [writes[w] EXCEPT !.captured = TRUE] \in Writes
      BY <1>1, FieldTyped DEF TypeOK
    <3>2. writes' = [writes EXCEPT ![w] = [writes[w] EXCEPT !.captured = TRUE]]
      BY <1>1, <1>4 DEF TypeOK, FlushCapture
    <3> QED
      BY <1>1, <3>1, <3>2, WritesTyped
  <2>2. TypeOK'
    <3>1. /\ pc' = [pc EXCEPT ![w] = "check"] /\ lock' = Locked(w)
          /\ UNCHANGED <<db, seen, due, sent, faults>>
      BY <1>4 DEF FlushCapture, Goto
    <3>2. pc' \in [Sessions -> Steps]
      BY <1>1, <3>1 DEF TypeOK, Steps
    <3> QED
      BY <1>1, <2>1, <3>1, <3>2, LocksTyped DEF TypeOK
  <2>3. Alone(w)
    BY <1>1, <1>4, LocksTyped DEF TypeOK, FlushCapture, Goto, Alone
  <2>4. lock'[Mine(w)] = w
    BY <1>2, <1>4 DEF FlushCapture, Locked, Needs
  <2>5. /\ writes'[w] = [writes[w] EXCEPT !.captured = TRUE] /\ pc'[w] = "check"
        /\ UNCHANGED <<db, seen, due, sent>>
    BY <1>1, <1>4 DEF TypeOK, FlushCapture, Goto
  <2>6. db.debits[Mine(w)] \in 0..Many /\ writes[w] = NoWrites /\ seen[w] \in Snapshot
    BY <1>1, <1>2, <1>4 DEF TypeOK, Database, FlushCapture
  <2>7. SessionOK(w)'
    BY <1>1, <1>4, <2>4, <2>5, <2>6
       DEF FlushCapture, HoldsCapture, HoldsRefund, TripFits, Mine, NoWrites, Many
  <2> QED
    BY <1>4, <2>2, <2>3, <2>5, <2>6, <2>7, QuietStep DEF NoWrites
<1>5. CASE FlushRefund(w)
  <2>1. writes' \in [Sessions -> Writes]
    <3>1. [writes[w] EXCEPT !.refunded = TRUE] \in Writes
      BY <1>1, FieldTyped DEF TypeOK
    <3>2. writes' = [writes EXCEPT ![w] = [writes[w] EXCEPT !.refunded = TRUE]]
      BY <1>1, <1>5 DEF TypeOK, FlushRefund
    <3> QED
      BY <1>1, <3>1, <3>2, WritesTyped
  <2>2. TypeOK'
    BY <1>1, <1>5, <2>1, LocksTyped DEF TypeOK, FlushRefund, Goto, Steps
  <2>3. Alone(w)
    BY <1>1, <1>5, LocksTyped DEF TypeOK, FlushRefund, Goto, Alone
  <2>4. lock'[Mine(w)] = w
    BY <1>2, <1>5 DEF FlushRefund, Locked, Needs
  <2>5. /\ writes'[w] = [writes[w] EXCEPT !.refunded = TRUE] /\ pc'[w] = "commit"
        /\ UNCHANGED <<db, seen, due, sent>>
    BY <1>1, <1>5 DEF TypeOK, FlushRefund, Goto
  <2>6. writes[w] = NoWrites
    BY <1>1, <1>5 DEF FlushRefund
  <2>7. SessionOK(w)'
    BY <1>1, <1>5, <2>4, <2>5, <2>6
       DEF FlushRefund, HoldsCapture, HoldsRefund, TripFits, Mine, NoWrites
  <2> QED
    BY <1>5, <2>2, <2>3, <2>5, <2>6, <2>7, QuietStep DEF NoWrites
<1> QED
  BY <1>3, <1>4, <1>5

\* A count that reaches the number of travellers counts each of them.
LEMMA EnoughIsAll ==
  ASSUME NEW w \in Sessions, Enough(w)
  PROVE  \A p \in Travellers : db.status[p] = "CAPTURED" \/ (writes[w].captured /\ p = Mine(w))
<1>1. CapturedFor(w) \subseteq Travellers
  BY DEF CapturedFor
<1>2. CapturedFor(w) = Travellers
  BY <1>1, FS_Subset, TxAssumption DEF Enough
<1> QED
  BY <1>2 DEF CapturedFor

\* The check of the group, and the flush of a trip that it found complete.
LEMMA ChecksKeep ==
  ASSUME TxInv, NEW w \in Sessions, CheckGroup(w) \/ ConfirmTrip(w)
  PROVE  TxInv'
<1> USE TxAssumption
<1>1. TypeOK /\ SessionOK(w) /\ CaptureMovesTrip
  BY DEF TxInv
<1>2. Mine(w) \in Travellers
  BY DEF Mine
<1>3. CASE CheckGroup(w)
  <2>0. writes[w] \in Writes /\ db.trip \in {"OPEN", "CONFIRMING", "CONFIRMED"} /\ pc[w] = "check"
    BY <1>1, <1>3 DEF TypeOK, CheckGroup, Database
  <2>1. PICK trip \in {"none", "CONFIRMING", "CONFIRMED"} :
          /\ writes' = [writes EXCEPT ![w].trip = trip]
          /\ trip = "CONFIRMED" => Enough(w) /\ pc' = [pc EXCEPT ![w] = "confirm"]
          /\ trip # "CONFIRMED" => pc' = [pc EXCEPT ![w] = "commit"]
          /\ trip = "CONFIRMING" => db.trip = "OPEN"
          /\ trip = "none" => db.trip # "OPEN"
    <3>1. CASE db.trip # "CONFIRMED" /\ Enough(w)
      BY <1>3, <3>1 DEF CheckGroup, Goto
    <3>2. CASE ~(db.trip # "CONFIRMED" /\ Enough(w)) /\ db.trip = "OPEN"
      BY <1>1, <1>3, <3>2 DEF CheckGroup, Goto, TypeOK
    <3>3. CASE ~(db.trip # "CONFIRMED" /\ Enough(w)) /\ db.trip # "OPEN"
      <4>1. writes' = [writes EXCEPT ![w].trip = "none"]
        BY <1>1, <1>3, <3>3 DEF CheckGroup, TypeOK
      <4> QED
        BY <1>3, <3>3, <4>1 DEF CheckGroup, Goto
    <3> QED
      BY <3>1, <3>2, <3>3
  <2>2. TypeOK'
    <3>1. writes' = [writes EXCEPT ![w] = [writes[w] EXCEPT !.trip = trip]]
      BY <1>1, <2>1 DEF TypeOK
    <3>2. writes' \in [Sessions -> Writes]
      BY <1>1, <2>0, <3>1, FieldTyped, WritesTyped
    <3>3. pc' \in [Sessions -> Steps]
      BY <1>1, <2>1 DEF TypeOK, Steps
    <3> QED
      BY <1>1, <1>3, <3>2, <3>3 DEF TypeOK, CheckGroup
  <2>3. Alone(w)
    BY <1>1, <1>3, <2>1 DEF TypeOK, CheckGroup, Alone
  <2>4. /\ writes'[w] = [writes[w] EXCEPT !.trip = trip]
        /\ pc'[w] = IF trip = "CONFIRMED" THEN "confirm" ELSE "commit"
        /\ UNCHANGED <<db, seen, due, lock, sent>>
    BY <1>1, <1>3, <2>1 DEF TypeOK, CheckGroup
  <2>5. /\ writes'[w].paid = writes[w].paid /\ writes'[w].captured = writes[w].captured
        /\ writes'[w].refunded = writes[w].refunded /\ writes'[w].trip = trip
    BY <2>0, <2>4 DEF Writes
  <2>6. HoldsCapture(w)' /\ HoldsRefund(w)'
    BY <1>1, <2>0, <2>4, <2>5 DEF HoldsCapture, HoldsRefund, Mine
  <2>7. TripFits(w)'
    <3>1. trip = "CONFIRMED" =>
            \A p \in Travellers : db.status[p] = "CAPTURED" \/ (writes[w].captured /\ p = Mine(w))
      BY <2>1, EnoughIsAll
    <3>2. trip = "CONFIRMING" => writes[w].captured /\ db.status[Mine(w)] = "PENDING"
      BY <1>1, <1>2, <2>0, <2>1 DEF TripFits, HoldsCapture, CaptureMovesTrip
    <3> QED
      BY <1>1, <2>0, <2>1, <2>4, <2>5, <3>1, <3>2 DEF TripFits, Mine
  <2>8. JobFits(w)'
    BY <1>1, <2>0, <2>4, <2>5
  <2> QED
    BY <2>2, <2>3, <2>4, <2>5, <2>6, <2>7, <2>8, QuietStep
<1>4. CASE ConfirmTrip(w)
  <2>1. TypeOK'
    <3>1. due' \in [Sessions -> SUBSET Travellers]
      BY <1>1, <1>4 DEF TypeOK, ConfirmTrip, CapturedFor
    <3>2. seen' \in [Sessions -> Snapshot]
      BY SMTT(30), <1>1, <1>2, <1>4 DEF TypeOK, ConfirmTrip, Reads, Snapshot, Database
    <3> QED
      BY <1>1, <1>4, <3>1, <3>2, LocksTyped DEF TypeOK, ConfirmTrip, Goto, Steps
  <2>2. Alone(w)
    BY <1>1, <1>4, LocksTyped DEF TypeOK, ConfirmTrip, Goto, Reads, Alone
  <2>3. /\ pc[w] = "confirm" /\ pc'[w] = "transfer" /\ UNCHANGED <<db, writes, sent>>
        /\ seen'[w].finalized = seen[w].finalized
    BY <1>1, <1>4 DEF TypeOK, ConfirmTrip, Goto, Reads, Snapshot
  <2>4. lock[Mine(w)] = w => lock'[Mine(w)] = w
    BY <1>2, <1>4 DEF ConfirmTrip, Locked, LockRows
  <2>5. SessionOK(w)'
    BY <1>1, <2>3, <2>4 DEF HoldsCapture, HoldsRefund, TripFits, Mine
  <2> QED
    BY <2>1, <2>2, <2>3, <2>5, QuietStep
<1> QED
  BY <1>3, <1>4

-----------------------------------------------------------------------------
(***************************************************************************)
(* The payouts, the commit, and what ends a session without one.           *)
(***************************************************************************)

\* A transfer adds to what was sent before it is written to the books.
LEMMA TransferKeeps ==
  ASSUME TxInv, NEW w \in Sessions, NEW p \in Travellers, TransferOut(w, p)
  PROVE  TxInv'
<1> USE TxAssumption
<1>1. TypeOK /\ SessionOK(w) /\ SentForBooks
  BY DEF TxInv
<1>2. /\ writes[w] \in Writes /\ pc[w] = "transfer" /\ p \in due[w]
      /\ \A q \in Travellers : sent[q] \in 0..Many /\ db.payouts[q] \in 0..Many
      /\ due[w] \in SUBSET Travellers
  BY <1>1 DEF TypeOK, TransferOut, Due, Database
<1>3. /\ writes' = [writes EXCEPT ![w] = [writes[w] EXCEPT !.paid = @ \cup {p}]]
      /\ due' = [due EXCEPT ![w] = due[w] \ {p}]
      /\ pc' = [pc EXCEPT ![w] = "record"]
      /\ UNCHANGED <<db, seen, lock, faults>>
  BY <1>1, <1>2 DEF TypeOK, TransferOut, Goto
<1>4. \A q \in Travellers :
        sent'[q] = IF q = p /\ sent[p] < Many THEN sent[p] + 1 ELSE sent[q]
  BY DEF TransferOut, OneMore
<1>5. TypeOK'
  <2>1. writes' \in [Sessions -> Writes]
    BY <1>1, <1>2, <1>3, FieldTyped, WritesTyped
  <2>2. sent' \in [Travellers -> 0..Many]
    <3>1. sent' = [q \in Travellers |-> sent'[q]]
      BY DEF TransferOut, OneMore
    <3>2. \A q \in Travellers : sent'[q] \in 0..Many
      BY <1>2, <1>4 DEF Many
    <3> QED
      BY <3>1, <3>2
  <2>3. pc' \in [Sessions -> Steps] /\ due' \in [Sessions -> SUBSET Travellers]
    BY <1>1, <1>2, <1>3 DEF TypeOK, Steps
  <2> QED
    BY <1>1, <1>3, <2>1, <2>2, <2>3 DEF TypeOK
<1>6. Alone(w)
  BY <1>1, <1>3 DEF TypeOK, Alone
<1>7. /\ writes'[w].paid = writes[w].paid \cup {p} /\ writes'[w].captured = writes[w].captured
      /\ writes'[w].refunded = writes[w].refunded /\ writes'[w].trip = writes[w].trip
      /\ pc'[w] = "record" /\ due'[w] = due[w] \ {p}
  BY <1>1, <1>2, <1>3 DEF TypeOK, Writes
<1>8. SessionOK(w)'
  <2>1. (HoldsCapture(w) /\ HoldsRefund(w) /\ TripFits(w))'
    BY <1>1, <1>2, <1>3, <1>7 DEF HoldsCapture, HoldsRefund, TripFits, Mine
  <2>2. JobFits(w)'
    BY <1>1, <1>2, <1>7
  <2> QED
    BY <2>1, <2>2
<1>9. SentForBooks'
  <2>1. \A v \in Sessions \ {w} : writes'[v].paid = writes[v].paid
    BY <1>6 DEF Alone
  <2>2. p \notin writes[w].paid
    BY <1>1, <1>2
  <2>3. ASSUME NEW q \in Travellers
        PROVE  /\ db.payouts[q] <= sent'[q]
               /\ \A v \in Sessions :
                    q \in writes'[v].paid => sent'[q] > db.payouts[q] \/ sent'[q] = Many
               /\ \A u, v \in Sessions :
                    u # v /\ q \in writes'[u].paid /\ q \in writes'[v].paid => sent'[q] = Many
    <3>1. CASE q # p
      BY <1>1, <1>2, <1>4, <1>7, <2>1, <3>1 DEF SentForBooks
    <3>2. CASE q = p
      <4>1. db.payouts[q] <= sent'[q] /\ (sent'[q] > db.payouts[q] \/ sent'[q] = Many)
        BY <1>1, <1>2, <1>4, <3>2 DEF SentForBooks, Many
      <4>2. ASSUME NEW v \in Sessions, v # w, q \in writes[v].paid
            PROVE  sent'[q] = Many
        BY <1>1, <1>2, <1>4, <3>2, <4>2 DEF SentForBooks, Many
      <4> QED
        BY <2>1, <4>1, <4>2
    <3> QED
      BY <3>1, <3>2
  <2> QED
    BY <1>3, <2>3 DEF SentForBooks
<1>10. \A v \in Sessions : SessionOK(v)'
  BY <1>3, <1>6, <1>8, OthersKeep
<1>11. (CaptureMovesTrip /\ ConfirmedOnCaptures /\ DebitedOnce)'
  BY <1>3 DEF TxInv, CaptureMovesTrip, ConfirmedOnCaptures, DebitedOnce
<1> QED
  BY <1>5, <1>9, <1>10, <1>11 DEF TxInv

\* A refused transfer, and the flush that follows a transfer either way.
LEMMA RecordsKeep ==
  ASSUME TxInv, NEW w \in Sessions,
         RecordPayout(w) \/ \E p \in Travellers : TransferRefused(w, p)
  PROVE  TxInv'
<1> USE TxAssumption
<1>1. TypeOK /\ SessionOK(w)
  BY DEF TxInv
<1>2. CASE RecordPayout(w)
  <2>1. TypeOK' /\ Alone(w)
    BY <1>1, <1>2, LocksTyped DEF TypeOK, RecordPayout, Goto, Steps, Alone
  <2>2. /\ pc[w] = "record" /\ pc'[w] = "transfer" /\ UNCHANGED <<db, seen, writes, due, sent>>
        /\ lock[Mine(w)] = w => lock'[Mine(w)] = w
    BY <1>1, <1>2 DEF TypeOK, RecordPayout, Goto, Locked, LockRows, Mine
  <2>3. SessionOK(w)'
    BY <1>1, <2>2 DEF HoldsCapture, HoldsRefund, TripFits, Mine
  <2> QED
    BY <2>1, <2>2, <2>3, QuietStep
<1>3. ASSUME NEW p \in Travellers, TransferRefused(w, p)
      PROVE  TxInv'
  <2>1. faults' \in 0..MaxFaults
    BY <1>1, <1>3 DEF TypeOK, TransferRefused
  <2>2. CASE Job[w].kind = "payout"
    BY <1>1, <1>3, <2>1, <2>2, RollBackKeeps, LocksTyped DEF TransferRefused
  <2>3. CASE Job[w].kind # "payout"
    <3>1. writes[w] \in Writes /\ pc[w] = "transfer" /\ due[w] \in SUBSET Travellers
      BY <1>1, <1>3 DEF TypeOK, TransferRefused
    <3>2. /\ writes' = [writes EXCEPT ![w] = [writes[w] EXCEPT !.failed = @ \cup {p}]]
          /\ due' = [due EXCEPT ![w] = due[w] \ {p}]
          /\ pc' = [pc EXCEPT ![w] = "record"]
          /\ UNCHANGED <<db, seen, lock, sent>>
      BY <1>1, <1>3, <2>3, <3>1 DEF TypeOK, TransferRefused, Goto
    <3>3. writes' \in [Sessions -> Writes]
      BY <1>1, <3>1, <3>2, FieldTyped, WritesTyped
    <3>4. TypeOK' /\ Alone(w)
      BY <1>1, <2>1, <3>1, <3>2, <3>3 DEF TypeOK, Steps, Alone
    <3>5. /\ writes'[w].paid = writes[w].paid /\ writes'[w].captured = writes[w].captured
          /\ writes'[w].refunded = writes[w].refunded /\ writes'[w].trip = writes[w].trip
          /\ pc'[w] = "record" /\ due'[w] = due[w] \ {p}
      BY <1>1, <3>1, <3>2 DEF TypeOK, Writes
    <3>6. SessionOK(w)'
      BY <1>1, <3>1, <3>2, <3>5 DEF HoldsCapture, HoldsRefund, TripFits, Mine
    <3> QED
      BY <3>2, <3>4, <3>5, <3>6, QuietStep
  <2> QED
    BY <2>2, <2>3
<1> QED
  BY <1>2, <1>3

\* A process that dies, and the one of two sessions that PostgreSQL aborts.
LEMMA AbortsKeep ==
  ASSUME TxInv, NEW w \in Sessions, Crash(w) \/ DeadlockVictim(w)
  PROVE  TxInv'
<1> USE TxAssumption
<1>1. TypeOK
  BY DEF TxInv
<1>2. CASE Crash(w)
  BY <1>1, <1>2, RollBackKeeps, LocksTyped DEF Crash, TypeOK
<1>3. CASE DeadlockVictim(w)
  <2>1. PICK v \in Sessions :
          lock' = [x \in LockRows |->
                     IF lock[x] = w /\ x \in Needs(v) THEN v ELSE Unlocked(w)[x]]
    BY <1>3 DEF DeadlockVictim
  <2>2. /\ lock' \in [LockRows -> Sessions \cup {Nobody}]
        /\ \A u \in Sessions \ {w}, x \in LockRows : lock[x] = u => lock'[x] = u
    BY <1>1, <2>1, LocksTyped
  <2> QED
    BY <1>1, <1>3, <2>2, RollBackKeeps DEF DeadlockVictim, TypeOK
<1> QED
  BY <1>2, <1>3

\* What a commit leaves of each column: it never makes a payment pending, a
\* debit disappear, the trip open again, or a confirmation go away.
LEMMA CommitWrites ==
  ASSUME TxInv, NEW w \in Sessions, Commit(w)
  PROVE  /\ \A p \in Travellers : p # Mine(w) \/ (~writes[w].captured /\ ~writes[w].refunded) =>
              db'.status[p] = db.status[p] /\ db'.debits[p] = db.debits[p]
         /\ writes[w].captured => db'.status[Mine(w)] = "CAPTURED" /\ db'.debits[Mine(w)] = 1
         /\ writes[w].refunded => /\ db.status[Mine(w)] # "PENDING"
                                  /\ db'.status[Mine(w)] = "REFUNDED"
                                  /\ db'.debits[Mine(w)] = db.debits[Mine(w)]
         /\ db'.trip = IF writes[w].trip = "none" THEN db.trip ELSE writes[w].trip
         /\ db.trip # "OPEN" => db'.trip # "OPEN"
         /\ db.trip = "CONFIRMED" => db'.trip = "CONFIRMED"
         /\ \A p \in Travellers :
              db'.payouts[p] = IF p \in writes[w].paid /\ db.payouts[p] < Many
                               THEN db.payouts[p] + 1 ELSE db.payouts[p]
         /\ db' \in Database
<1> USE TxAssumption
<1>1. /\ TypeOK /\ SessionOK(w) /\ DebitedOnce /\ ConfirmedOnCaptures /\ db' = AfterCommit(w)
      /\ pc[w] = "commit" /\ writes[w] \in Writes /\ seen[w] \in Snapshot
  BY DEF TxInv, Commit, TypeOK
<1>2. Mine(w) \in Travellers
  BY DEF Mine
<1>3. ~(writes[w].captured /\ writes[w].refunded)
  BY <1>1 DEF HoldsCapture, HoldsRefund
<1>4. \A p \in Travellers :
        /\ db'.status[p] = IF p = Mine(w) /\ writes[w].captured THEN "CAPTURED"
                           ELSE IF p = Mine(w) /\ writes[w].refunded THEN "REFUNDED"
                           ELSE db.status[p]
        /\ db'.debits[p] = IF p = Mine(w) /\ writes[w].captured /\ ~seen[w].finalized
                              /\ db.debits[p] < Many
                           THEN db.debits[p] + 1 ELSE db.debits[p]
        /\ db'.payouts[p] = IF p \in writes[w].paid /\ db.payouts[p] < Many
                            THEN db.payouts[p] + 1 ELSE db.payouts[p]
  BY <1>1 DEF AfterCommit, OneMore
<1>5. db'.trip = IF writes[w].trip = "none" THEN db.trip ELSE writes[w].trip
  BY <1>1 DEF AfterCommit
<1>6. \A p \in Travellers : db.debits[p] \in 0..Many /\ db.payouts[p] \in 0..Many
  BY <1>1 DEF TypeOK, Database
<1>7. db.trip # "OPEN" => db'.trip # "OPEN"
  BY <1>1, <1>5 DEF Writes
<1>8. db.trip = "CONFIRMED" => db'.trip = "CONFIRMED"
  BY <1>1, <1>2, <1>5 DEF Writes, TripFits, ConfirmedOnCaptures
<1>9. writes[w].captured => db'.debits[Mine(w)] = 1
  <2>1. seen[w].finalized \in BOOLEAN
    BY <1>1 DEF Snapshot
  <2>2. CASE writes[w].captured /\ seen[w].finalized
    BY <1>1, <1>2, <1>4, <1>6, <2>2 DEF HoldsCapture, DebitedOnce
  <2>3. CASE writes[w].captured /\ ~seen[w].finalized
    BY <1>1, <1>2, <1>4, <2>3 DEF HoldsCapture, Many
  <2> QED
    BY <2>2, <2>3
<1>10. db' \in Database
  <2>1. \A p \in Travellers : /\ db'.status[p] \in {"PENDING", "CAPTURED", "REFUNDED"}
                              /\ db'.debits[p] \in 0..Many /\ db'.payouts[p] \in 0..Many
    <3>1. ASSUME NEW p \in Travellers
          PROVE  db.status[p] \in {"PENDING", "CAPTURED", "REFUNDED"}
      BY <1>1 DEF TypeOK, Database
    <3> QED
      BY <1>4, <1>6, <3>1 DEF Many
  <2>2. /\ db'.status = [p \in Travellers |-> db'.status[p]]
        /\ db'.debits = [p \in Travellers |-> db'.debits[p]]
        /\ db'.payouts = [p \in Travellers |-> db'.payouts[p]]
    BY <1>1 DEF AfterCommit, OneMore
  <2>3. /\ db'.status \in [Travellers -> {"PENDING", "CAPTURED", "REFUNDED"}]
        /\ db'.debits \in [Travellers -> 0..Many] /\ db'.payouts \in [Travellers -> 0..Many]
    BY <2>1, <2>2
  <2>4. /\ db'.frozen \in SUBSET Travellers /\ db'.paid \in SUBSET Travellers
        /\ db'.failed \in SUBSET Travellers /\ db'.trip \in {"OPEN", "CONFIRMING", "CONFIRMED"}
    BY <1>1, <1>2 DEF AfterCommit, TypeOK, Database, Writes
  <2>5. db' = [status |-> db'.status, frozen |-> db'.frozen, paid |-> db'.paid,
               failed |-> db'.failed, debits |-> db'.debits, payouts |-> db'.payouts,
               trip |-> db'.trip]
    BY <1>1 DEF AfterCommit
  <2> QED
    BY <2>3, <2>4, <2>5 DEF Database
<1>11. writes[w].refunded => db.status[Mine(w)] # "PENDING"
  BY <1>1 DEF HoldsRefund
<1> QED
  BY <1>2, <1>3, <1>4, <1>5, <1>7, <1>8, <1>9, <1>10, <1>11

\* A commit keeps the invariant: no other session relies on the rows it wrote.
LEMMA CommitKeeps ==
  ASSUME TxInv, NEW w \in Sessions, Commit(w)
  PROVE  TxInv'
<1> USE TxAssumption
<1>1. TypeOK /\ SessionOK(w) /\ pc[w] = "commit"
  BY DEF TxInv, Commit
<1>2. PICK step \in {"idle", "done"} : Ends(w, step)
  BY DEF Commit, AfterSuccess
<1>3. TypeOK'
  BY <1>1, <1>2, EndedTypes, LocksTyped, CommitWrites DEF TypeOK, Commit, Steps
<1>4. SessionOK(w)' /\ writes'[w].paid = {}
  BY <1>1, <1>2, EndedIsOK
<1>5. \A v \in Sessions \ {w} :
        /\ pc'[v] = pc[v] /\ seen'[v] = seen[v] /\ writes'[v] = writes[v] /\ due'[v] = due[v]
        /\ \A x \in LockRows : lock[x] = v => lock'[x] = v
  BY <1>1, <1>2, EndedTypes, LocksTyped DEF Commit, Steps
<1>6. ASSUME NEW v \in Sessions, v # w
      PROVE  SessionOK(v)'
  <2>1. SessionOK(v) /\ Mine(v) \in Travellers /\ Mine(v) \in LockRows /\ Mine(w) \in LockRows
    BY DEF TxInv, Mine, LockRows
  <2>2. lock[Mine(v)] = v =>
          db'.status[Mine(v)] = db.status[Mine(v)] /\ db'.debits[Mine(v)] = db.debits[Mine(v)]
    BY <1>1, <1>6, <2>1, CommitWrites DEF HoldsCapture, HoldsRefund
  <2>3. \A p \in Travellers : /\ db.status[p] # "PENDING" => db'.status[p] # "PENDING"
                              /\ db.debits[p] > 0 => db'.debits[p] > 0
    BY CommitWrites
  <2>4. JobFits(v)'
    BY <1>5, <1>6, <2>1
  <2>5. HoldsCapture(v)'
    BY <1>5, <1>6, <2>1, <2>2, <2>3 DEF HoldsCapture, Mine
  <2>6. HoldsRefund(v)'
    BY <1>5, <1>6, <2>1, <2>3 DEF HoldsRefund, Mine
  <2>7. TripFits(v)'
    BY <1>5, <1>6, <2>1, <2>2, <2>3, CommitWrites DEF HoldsCapture, TripFits, Mine
  <2> QED
    BY <2>4, <2>5, <2>6, <2>7
<1>7. CaptureMovesTrip'
  BY <1>1, CommitWrites DEF TxInv, CaptureMovesTrip, TypeOK, Writes, TripFits, HoldsRefund
<1>8. ConfirmedOnCaptures'
  BY <1>1, CommitWrites DEF TxInv, ConfirmedOnCaptures, TripFits
<1>9. DebitedOnce'
  <2>1. ASSUME NEW p \in Travellers
        PROVE  db'.debits[p] = IF db'.status[p] = "PENDING" THEN 0 ELSE 1
    <3>1. db.debits[p] = IF db.status[p] = "PENDING" THEN 0 ELSE 1
      BY DEF TxInv, DebitedOnce
    <3>2. CASE p # Mine(w) \/ (~writes[w].captured /\ ~writes[w].refunded)
      BY <3>1, <3>2, CommitWrites
    <3>3. CASE p = Mine(w) /\ writes[w].captured
      BY <3>3, CommitWrites
    <3>4. CASE p = Mine(w) /\ writes[w].refunded
      BY <3>1, <3>4, CommitWrites
    <3> QED
      BY <3>2, <3>3, <3>4
  <2> QED
    BY <2>1 DEF DebitedOnce
<1>10. SentForBooks'
  <2>1. SentForBooks /\ UNCHANGED sent /\ \A p \in Travellers :
          sent[p] \in 0..Many /\ db.payouts[p] \in 0..Many
    BY <1>1 DEF TxInv, Commit, TypeOK, Database
  <2>2. ASSUME NEW p \in Travellers
        PROVE  /\ db'.payouts[p] <= sent[p]
               /\ \A v \in Sessions :
                    p \in writes'[v].paid => sent[p] > db'.payouts[p] \/ sent[p] = Many
               /\ \A u, v \in Sessions :
                    u # v /\ p \in writes'[u].paid /\ p \in writes'[v].paid => sent[p] = Many
    <3>1. db'.payouts[p] = IF p \in writes[w].paid /\ db.payouts[p] < Many
                           THEN db.payouts[p] + 1 ELSE db.payouts[p]
      BY CommitWrites
    <3>2. db'.payouts[p] <= sent[p]
      BY <2>1, <3>1 DEF SentForBooks, Many
    <3>3. ASSUME NEW v \in Sessions, p \in writes'[v].paid
          PROVE  v # w /\ p \in writes[v].paid
      BY <1>4, <1>5, <3>3
    <3>4. \A v \in Sessions :
            p \in writes'[v].paid => sent[p] > db'.payouts[p] \/ sent[p] = Many
      BY <2>1, <3>1, <3>3 DEF SentForBooks
    <3> QED
      BY <2>1, <3>2, <3>3, <3>4 DEF SentForBooks
  <2> QED
    BY <2>1, <2>2 DEF SentForBooks
<1> QED
  BY <1>3, <1>4, <1>6, <1>7, <1>8, <1>9, <1>10 DEF TxInv

\* Every step of every session, and what no step does to a confirmed trip.
LEMMA TxSteps ==
  TxInv /\ [Next]_vars => TxInv' /\ (db.trip = "CONFIRMED" => db'.trip = "CONFIRMED")
<1> SUFFICES ASSUME TxInv, [Next]_vars
             PROVE  TxInv' /\ (db.trip = "CONFIRMED" => db'.trip = "CONFIRMED")
  OBVIOUS
<1>1. ASSUME NEW w \in Sessions, Step(w)
      PROVE  TxInv'
  BY <1>1, LoadsKeep, FlushesKeep, ChecksKeep, TransferKeeps, RecordsKeep, AbortsKeep, CommitKeeps
     DEF Step
<1>2. ASSUME NEW w \in Sessions, Crash(w) \/ \E p \in Travellers : TransferRefused(w, p)
      PROVE  TxInv'
  BY <1>2, AbortsKeep, RecordsKeep
<1>3. CASE UNCHANGED vars
  BY <1>3 DEF vars, TxInv, TypeOK, CaptureMovesTrip, ConfirmedOnCaptures, DebitedOnce, SentForBooks,
              HoldsCapture, HoldsRefund, TripFits, Mine
<1>4. TxInv'
  BY <1>1, <1>2, <1>3 DEF Next
<1>5. db.trip = "CONFIRMED" => db'.trip = "CONFIRMED"
  <2>1. \A w \in Sessions : Commit(w) => (db.trip = "CONFIRMED" => db'.trip = "CONFIRMED")
    BY CommitWrites
  <2>2. UNCHANGED db \/ \E w \in Sessions : Commit(w)
    BY DEF Next, Step, vars, LoadForCapture, GatherFinalized, FlushCapture, StartReconcile,
           CheckGroup, ConfirmTrip, LoadForPayout, TransferOut, RecordPayout, PayoutsDone,
           LoadForRefund, FlushRefund, DeadlockVictim, Crash, TransferRefused, RollBack
  <2> QED
    BY <2>1, <2>2
<1> QED
  BY <1>4, <1>5

\* The invariant holds in every reachable state.
LEMMA TxKeepsInv == Spec => []TxInv
<1> QED
  BY TxStarts, TxSteps, PTL DEF Spec

-----------------------------------------------------------------------------
(***************************************************************************)
(* The theorems.                                                           *)
(***************************************************************************)

\* Every reachable state of the interleaved transactions is well typed
\* (payments.py over database.py's sessions).
THEOREM TxTypesHold == Spec => []TypeOK
<1>1. TxInv => TypeOK
  BY DEF TxInv
<1> QED
  BY <1>1, TxKeepsInv, PTL

\* A trip is recorded as confirmed only on payments that were all captured,
\* whatever transactions that count each other's rows do meanwhile
\* (check_and_confirm_group).
THEOREM TripsRestOnCaptures == Spec => []ConfirmedOnCaptures
<1>1. TxInv => ConfirmedOnCaptures
  BY DEF TxInv
<1> QED
  BY <1>1, TxKeepsInv, PTL

\* No session overwrites a confirmation that another committed since it looked
\* (check_and_confirm_group, reconcile_unconfirmed_groups).
THEOREM TripStaysConfirmed == Spec => ConfirmationLasts
<1>1. TxInv /\ [Next]_vars => [db.trip = "CONFIRMED" => db'.trip = "CONFIRMED"]_vars
  BY TxSteps
<1> QED
  BY <1>1, TxKeepsInv, PTL DEF Spec, ConfirmationLasts

\* However often and by whomever a capture is finalized, the wallet is debited
\* and the invoice made once (_finalize_capture, _ensure_invoice).
THEOREM DebitsAreSingle == Spec => []DebitedOnce
<1>1. TxInv => DebitedOnce
  BY DEF TxInv
<1> QED
  BY <1>1, TxKeepsInv, PTL

\* Every payout on the books was sent (_release_agency_payout_for_group,
\* execute_agency_payout).
THEOREM BooksAreBacked == Spec => []BooksMatchTransfers
<1>1. TxInv => BooksMatchTransfers
  BY DEF TxInv, SentForBooks, BooksMatchTransfers
<1> QED
  BY <1>1, TxKeepsInv, PTL

=============================================================================
