----------------------------- MODULE MailProofs -----------------------------
(***************************************************************************)
(* What goes out is about rows that are there, and again only where an     *)
(* attempt failed, for any number of retries and of workers that die.      *)
(***************************************************************************)
EXTENDS Mail, TLAPS

\* Before it is looked up, the row of the request may still go; after, it is
\* there for good.
FoundIsThere == task = "found" /\ fresh => row = "committed"

\* A copy that left without ending its task left with a worker that died, or
\* before its attempt failed.
CopiesNeedCrashes == task # "done" => sent <= broke + errors

\* A task that has not ended has a retry left, and one nobody queued has sent
\* nothing.
RetryLeft == task \in {"none", "queued", "found"} => tries <= MaxRetries

\* An attempt about a row that was there before fails for another reason.
OldRowsFailOtherwise == errors <= tries /\ (~fresh => errors = tries)

\* What was there before its request is not new.
OldRowIsThere == kind \notin NewRow => ~fresh

\* The warning beat queues its task once.
WarnedOnce == kind = "warning" /\ warn # "queued" => task = "none"
MarkedForWarning == warn = "marked" => kind = "warning"

\* A member is marked in the transaction that reminds.
RemindedWhenMarked ==
  /\ remind # "marked" => reminders = 0
  /\ remind = "loaded" => loaded = routes

MailInv ==
  /\ MailTypeOK
  /\ OldRowIsThere
  /\ FoundIsThere
  /\ CopiesNeedCrashes
  /\ RetryLeft
  /\ OldRowsFailOtherwise
  /\ WarnedOnce
  /\ MarkedForWarning
  /\ RemindedWhenMarked
  /\ MailHolds

USE DEF MailInv, MailTypeOK, OldRowIsThere, FoundIsThere, CopiesNeedCrashes, RetryLeft,
        OldRowsFailOtherwise, WarnedOnce, MarkedForWarning, RemindedWhenMarked, MailHolds, MailMatchesRow, RemindedOnce,
        NewRow, OldRow, beats

\* The invariant holds before any request.
LEMMA MailStarts == MailInit => MailInv
<1> SUFFICES ASSUME MailInit
             PROVE  MailInv
  OBVIOUS
<1>1. fresh \in BOOLEAN /\ refused \in BOOLEAN /\ nobody \in BOOLEAN
  BY DEF MailInit
<1>2. kind \in NewRow \cup OldRow
  BY DEF MailInit
<1>3. tries \in 0..MaxRetries + 1 /\ errors \in 0..MaxRetries + 1 /\ sent \in Nat /\ broke \in Nat
  BY MailAssumption DEF MailInit
<1>4. /\ row \in {"open", "committed", "gone"}
      /\ task \in {"none", "queued", "found", "done", "dropped"}
      /\ warn \in {"due", "marked", "queued", "lost"}
      /\ remind \in {"due", "loaded", "marked"}
      /\ routes \in 1..2 /\ loaded \in 0..2 /\ reminders \in 0..2
  BY DEF MailInit
<1>5. FoundIsThere /\ CopiesNeedCrashes /\ WarnedOnce /\ MarkedForWarning /\ RemindedWhenMarked
  BY DEF MailInit
<1>6. RetryLeft /\ OldRowsFailOtherwise
  BY MailAssumption DEF MailInit
<1>7. MailHolds
  BY DEF MailInit
<1>8. MailTypeOK
  BY <1>1, <1>2, <1>3, <1>4
<1>9. OldRowIsThere
  BY DEF MailInit
<1> HIDE DEF MailTypeOK, OldRowIsThere, FoundIsThere, CopiesNeedCrashes, RetryLeft,
             OldRowsFailOtherwise, WarnedOnce, MarkedForWarning, RemindedWhenMarked, MailHolds
<1> QED
  BY <1>5, <1>6, <1>7, <1>8, <1>9

\* A task about a row that was there before finds it.
LEMMA OldIsThere ==
  ASSUME MailInv, NEW k \in {"approval", "warning", "push"}, Attempt(k)
  PROVE  IsThere
  BY DEF Attempt, IsThere

\* An attempt that fails, for want of its new row or otherwise.
LEMMA RetryKeeps ==
  ASSUME MailInv, task \in {"queued", "found"}, Retry,
         UNCHANGED <<kind, fresh, row, refused, nobody, broke, beats>>,
         \/ fresh /\ errors' = errors /\ sent' = sent
         \/ /\ errors' = errors + 1
            /\ sent' = sent \/ (task = "found" /\ sent' = sent + 1)
  PROVE  MailInv'
<1>1. /\ tries \in 0..MaxRetries /\ tries' = tries + 1
      /\ task' = IF tries < MaxRetries THEN "queued" ELSE "dropped"
  BY MailAssumption DEF Retry
<1>2. /\ sent \in Nat /\ broke \in Nat /\ errors \in Nat /\ errors <= tries
      /\ sent <= broke + errors
  BY MailAssumption
<1>3. sent' \in Nat /\ errors' \in 0..MaxRetries + 1 /\ sent' <= broke + errors' /\ errors' <= tries'
  BY <1>1, <1>2, MailAssumption
<1>4. ~fresh => errors' = tries'
  BY <1>1
<1>5. MailTypeOK'
  <2>1. tries' \in 0..MaxRetries + 1 /\ task' \in {"none", "queued", "found", "done", "dropped"}
    BY <1>1, MailAssumption
  <2> QED
    BY <1>3, <2>1
<1>6. RetryLeft' /\ OldRowsFailOtherwise' /\ CopiesNeedCrashes'
  <2>1. RetryLeft'
    BY <1>1, MailAssumption
  <2>2. OldRowsFailOtherwise'
    BY <1>3, <1>4
  <2>3. CopiesNeedCrashes'
    BY <1>3
  <2> QED
    BY <2>1, <2>2, <2>3
<1>7. OldRowIsThere' /\ FoundIsThere' /\ WarnedOnce' /\ MarkedForWarning' /\ RemindedWhenMarked'
  BY <1>1
<1>8. MailHolds'
  <2>1. (task = "dropped" => tries = MaxRetries + 1 /\ (~fresh => errors = tries))' /\ task' # "done"
    BY <1>1, <1>4, MailAssumption
  <2>2. (sent <= 1 + broke + errors)'
    <3>1. \A a, b, c \in Int : a <= b + c => a <= 1 + b + c
      OBVIOUS
    <3>2. broke' = broke /\ broke \in Int
      BY <1>2
    <3>3. sent' \in Int /\ errors' \in Int
      BY <1>3, MailAssumption
    <3>4. sent' <= broke' + errors'
      BY <1>3, <3>2
    <3> QED
      BY <3>1, <3>2, <3>3, <3>4
  <2>3. (sent > 0 /\ fresh => row = "committed")'
    BY <1>2
  <2>4. (reminders <= routes)'
    OBVIOUS
  <2> QED
    BY <2>1, <2>2, <2>3, <2>4
<1> QED
  BY <1>5, <1>6, <1>7, <1>8

\* A look-up that finds its row, finds nobody to write to, or has to retry.
LEMMA LookUpKeeps ==
  ASSUME MailInv, NEW k, Attempt(k),
         \/ IsThere /\ Found
         \/ GiveUp
         \/ ~IsThere /\ NotYet
  PROVE  MailInv'
<1>1. CASE IsThere /\ Found
  BY <1>1, MailAssumption DEF Attempt, IsThere, Found
<1>2. CASE GiveUp
  BY <1>2, MailAssumption DEF Attempt, GiveUp
<1>3. CASE ~IsThere /\ NotYet
  <2>1. fresh /\ sent' = sent /\ errors' = errors
    BY <1>3 DEF IsThere, NotYet, Attempt
  <2> HIDE DEF MailInv
  <2> QED
    BY <1>3, <2>1, RetryKeeps DEF NotYet, Attempt
<1> QED
  BY <1>1, <1>2, <1>3

\* A delivery ends its task, or leaves it to a retry.
LEMMA DeliverKeeps ==
  ASSUME MailInv, NEW k, Deliver(k)
  PROVE  MailInv'
<1> USE DEF Deliver
<1>1. UNCHANGED <<kind, fresh, row, tries, errors, nobody, broke, beats>> /\ task = "found" /\ task' = "done"
  OBVIOUS
<1>2. (sent' = sent + 1 /\ refused' = refused) \/ (sent' = sent /\ refused' = TRUE)
  OBVIOUS
<1>3. sent <= broke + errors /\ sent \in Nat /\ broke \in Nat /\ errors \in Nat
  BY <1>1, MailAssumption
<1>4. sent' \in Nat /\ sent' <= 1 + broke + errors /\ (sent' > 0 \/ refused')
  BY <1>2, <1>3
<1>5. refused' \in BOOLEAN
  BY <1>2
<1>6. MailTypeOK'
  BY <1>1, <1>4, <1>5
<1>7. OldRowIsThere' /\ FoundIsThere' /\ CopiesNeedCrashes' /\ RetryLeft'
      /\ OldRowsFailOtherwise' /\ WarnedOnce' /\ MarkedForWarning'
      /\ RemindedWhenMarked'
  BY <1>1
<1>8. MailHolds'
  <2>1. fresh => row = "committed"
    BY <1>1
  <2> QED
    BY <1>1, <1>4, <2>1
<1> QED
  BY <1>6, <1>7, <1>8

\* Every step of the request, the workers and the beats keeps the invariant.
LEMMA MailSteps == MailInv /\ [MailNext]_mailVars => MailInv'
<1> SUFFICES ASSUME MailInv, [MailNext]_mailVars
             PROVE  MailInv'
  OBVIOUS
<1>1. CASE Enqueue
  BY <1>1, MailAssumption DEF Enqueue
<1>2. CASE EndRequest
  BY <1>2, MailAssumption DEF EndRequest
<1>3. CASE LookUp
  <2> HIDE DEF MailInv
  <2>1. CASE SendRegistrationEmail
    BY <2>1, LookUpKeeps DEF SendRegistrationEmail, IsThere
  <2>2. CASE SendBidAlertEmail
    BY <2>2, LookUpKeeps DEF SendBidAlertEmail
  <2>3. CASE SendDisputeAlertEmail
    BY <2>3, LookUpKeeps DEF SendDisputeAlertEmail
  <2>4. CASE SendReviewAlertEmail
    BY <2>4, LookUpKeeps DEF SendReviewAlertEmail
  <2>5. CASE SendComplianceApprovalEmail
    BY <2>5, OldIsThere, LookUpKeeps DEF SendComplianceApprovalEmail
  <2>6. CASE SendPackageExpiryWarningEmail
    BY <2>6, OldIsThere, LookUpKeeps DEF SendPackageExpiryWarningEmail
  <2>7. CASE SendGroupChatVerificationEmail
    BY <2>7, LookUpKeeps DEF SendGroupChatVerificationEmail
  <2>8. CASE NotifyDirectMessage
    BY <2>8, OldIsThere, LookUpKeeps DEF NotifyDirectMessage
  <2> QED
    BY <1>3, <2>1, <2>2, <2>3, <2>4, <2>5, <2>6, <2>7, <2>8 DEF LookUp
<1>4. CASE SendMail
  BY <1>4, DeliverKeeps DEF SendMail
<1>5. CASE SendWhatsappNotification
  BY <1>5, DeliverKeeps DEF SendWhatsappNotification
<1>6. CASE Crash
  BY <1>6, MailAssumption DEF Crash
<1>7. CASE MarkExpiring
  BY <1>7, MailAssumption DEF MarkExpiring
<1>8. CASE SendWarnings
  BY <1>8, MailAssumption DEF SendWarnings
<1>9. CASE LoadUpcoming
  BY <1>9, MailAssumption DEF LoadUpcoming
<1>10. CASE RemindLoaded
  BY <1>10, MailAssumption DEF RemindLoaded
<1>12. CASE Fail
  BY <1>12, RetryKeeps DEF Fail
<1>11. CASE UNCHANGED mailVars
  BY <1>11 DEF mailVars
<1> HIDE DEF MailInv
<1> QED
  BY <1>1, <1>2, <1>3, <1>4, <1>5, <1>6, <1>7, <1>8, <1>9, <1>10, <1>11, <1>12 DEF MailNext

\* What goes out is about rows that are there: no mail before its row, no
\* second copy without a dead worker or a failed attempt, no task dropped
\* before its last retry (the mail tasks, send_upcoming_trip_reminders).
THEOREM MailIsSound == MailSpec => []MailHolds
<1>1. MailInv => MailHolds
  OBVIOUS
<1> HIDE DEF MailInv
<1> QED
  BY MailStarts, MailSteps, <1>1, PTL DEF MailSpec
=============================================================================
