------------------------------- MODULE Mail -------------------------------
(***************************************************************************)
(* E-mails, pushes and reminders (workers/tasks.py).  Three ways one goes  *)
(* out:                                                                    *)
(*  - a request enqueues a task before it commits; the task looks up what  *)
(*    it is about, a row of that request or one that was there before;     *)
(*  - the beat of expiry warnings marks the packages, commits, and only    *)
(*    then enqueues the mails;                                             *)
(*  - the beat of trip reminders marks the members and writes their        *)
(*    notifications in one transaction.                                    *)
(* Whatever a task raises, a row that is not there yet or a failure of     *)
(* database or broker, spends one of its retries.  celery_app.py sets      *)
(* task_acks_late: the task of a worker that dies is delivered again.  The *)
(* receipt's task is in Invoicing.                                         *)
(***************************************************************************)
EXTENDS Integers

CONSTANTS MaxRetries,    \* max_retries of the tasks
          MaxCrashes     \* bound: workers that die
ASSUME MailAssumption == MaxRetries \in Nat /\ MaxCrashes \in Nat

VARIABLES kind,       \* the task a behaviour is about
          fresh,      \* its row is one the request makes
          row,        \* the request's transaction: "open", "committed", "gone"
          task,       \* "none", "queued", "found" (looked up), "done", "dropped"
          tries,      \* attempts that failed
          errors,     \* history: attempts that failed but not for want of the row
          sent,       \* messages delivered
          refused,    \* history: the mail server or MSG91 refused the message
          nobody,     \* history: there was no address to write to
          broke,      \* workers that died
          warn,       \* beat of expiry warnings: "due", "marked", "queued", "lost"
          remind,     \* beat of trip reminders: "due", "loaded", "marked"
          routes,     \* 2 if the member's group has a plan and a package, else 1
          loaded,     \* rows the reminder beat holds of the member
          reminders   \* notifications the member got

beats == <<warn, remind, routes, loaded, reminders>>
mailVars == <<kind, fresh, row, task, tries, errors, sent, refused, nobody, broke, beats>>

\* The tasks about a row their request makes, and those about one that was
\* there; a group is either, made with its first member or joined later.
NewRow == {"registration", "bid", "dispute", "review", "chat"}
OldRow == {"approval", "warning", "push", "chat"}

MailTypeOK ==
  /\ kind \in NewRow \cup OldRow /\ fresh \in BOOLEAN
  /\ row \in {"open", "committed", "gone"}
  /\ task \in {"none", "queued", "found", "done", "dropped"}
  /\ tries \in 0..MaxRetries + 1 /\ errors \in 0..MaxRetries + 1
  /\ sent \in Nat /\ broke \in Nat
  /\ warn \in {"due", "marked", "queued", "lost"}
  /\ remind \in {"due", "loaded", "marked"}
  /\ refused \in BOOLEAN /\ nobody \in BOOLEAN /\ routes \in 1..2
  /\ loaded \in 0..2 /\ reminders \in 0..2

(***************************************************************************)
(* A request and its task.                                                 *)
(***************************************************************************)
Enqueue ==
  /\ kind # "warning" /\ row = "open" /\ task = "none"
  /\ task' = "queued"
  /\ UNCHANGED <<kind, fresh, row, tries, errors, sent, refused, nobody, broke, beats>>

EndRequest ==
  /\ row = "open" /\ task # "none"
  /\ row' \in {"committed", "gone"}
  /\ UNCHANGED <<kind, fresh, task, tries, errors, sent, refused, nobody, broke, beats>>

\* Mutant: no max_retries.
RetryForever == tries' = tries + 1 /\ task' = "queued"

\* self.retry, or the last exception.
Retry == /\ tries' = tries + 1
         /\ task' = IF tries < MaxRetries THEN "queued" ELSE "dropped"

\* Mutant: the task sees its request's uncommitted rows.
AlwaysThere == TRUE

\* What a task's session sees: committed rows.
IsThere == fresh => row = "committed"

Attempt(k) ==
  /\ task = "queued" /\ kind = k
  /\ UNCHANGED <<kind, fresh, row, sent, refused, broke, beats>>
Found == task' = "found" /\ UNCHANGED <<tries, errors, nobody>>
GiveUp == task' = "done" /\ nobody' = TRUE /\ UNCHANGED <<tries, errors>>
NotYet == Retry /\ UNCHANGED <<errors, nobody>>

\* The user of the signup; one without an address gets no mail.
SendRegistrationEmail ==
  Attempt("registration") /\ IF IsThere THEN Found \/ GiveUp ELSE NotYet

\* The offer, with its plan and agency; the plan's creator may have no address.
SendBidAlertEmail ==
  Attempt("bid") /\ IF IsThere THEN Found \/ GiveUp ELSE NotYet

\* Without an administrator's address the task ends before it looks.
SendDisputeAlertEmail ==
  Attempt("dispute") /\ (GiveUp \/ (IsThere /\ Found) \/ (~IsThere /\ NotYet))

\* The reviewed user, or the owner of the reviewed agency, if there is one.
SendReviewAlertEmail ==
  Attempt("review") /\ IF IsThere THEN Found \/ GiveUp ELSE NotYet

\* The agency was there before its approval.
SendComplianceApprovalEmail ==
  Attempt("approval") /\ (Found \/ GiveUp)

\* A package that is gone, or no longer expires, ends the task.
SendPackageExpiryWarningEmail ==
  Attempt("warning") /\ (Found \/ GiveUp)

SendGroupChatVerificationEmail ==
  Attempt("chat") /\ IF IsThere THEN Found \/ GiveUp ELSE NotYet

\* Hands over to the WhatsApp task when there is a telephone and a template.
NotifyDirectMessage ==
  Attempt("push") /\ (Found \/ GiveUp)

LookUp ==
  \/ SendRegistrationEmail \/ SendBidAlertEmail \/ SendDisputeAlertEmail
  \/ SendReviewAlertEmail \/ SendComplianceApprovalEmail
  \/ SendPackageExpiryWarningEmail \/ SendGroupChatVerificationEmail \/ NotifyDirectMessage

Deliver(k) ==
  /\ task = "found" /\ (kind = "push" <=> k = "push") /\ task' = "done"
  /\ \/ sent' = sent + 1 /\ refused' = refused
     \/ sent' = sent /\ refused' = TRUE
  /\ UNCHANGED <<kind, fresh, row, tries, errors, nobody, broke, beats>>

\* A failure is turned into the answer False, which no task looks at.
SendMail == Deliver("mail")

\* A failure is logged.
SendWhatsappNotification == Deliver("push")

\* Before or after the message has left.
Crash ==
  /\ task = "found" /\ broke < MaxCrashes
  /\ task' = "queued" /\ broke' = broke + 1
  /\ sent' \in {sent, sent + 1}
  /\ UNCHANGED <<kind, fresh, row, tries, errors, refused, nobody, beats>>

\* Anything else that a task raises: the database or the broker fails it on
\* its way to the row, or when it closes its session, the mail sent or not.
\* The WhatsApp task itself has no retry.
Fail ==
  /\ \/ task = "queued" /\ sent' = sent
     \/ task = "found" /\ kind # "push" /\ sent' \in {sent, sent + 1}
  /\ Retry /\ errors' = errors + 1
  /\ UNCHANGED <<kind, fresh, row, refused, nobody, broke, beats>>

(***************************************************************************)
(* The beats.                                                              *)
(***************************************************************************)
MarkExpiring ==
  /\ kind = "warning" /\ warn = "due" /\ warn' = "marked" /\ row' = "committed"
  /\ UNCHANGED <<kind, fresh, task, tries, errors, sent, refused, nobody, broke,
                 remind, routes, loaded, reminders>>

\* lost: the worker died here, or the broker did not take the task.
SendWarnings ==
  /\ warn = "marked"
  /\ \/ warn' = "queued" /\ task' = "queued"
     \/ warn' = "lost" /\ task' = task
  /\ UNCHANGED <<kind, fresh, row, tries, errors, sent, refused, nobody, broke,
                 remind, routes, loaded, reminders>>

\* One row by way of the group's plan, one by way of its package.
LoadUpcoming ==
  /\ remind = "due" /\ remind' = "loaded"
  /\ loaded' = routes
  /\ UNCHANGED <<kind, fresh, row, task, tries, errors, sent, refused, nobody, broke,
                 warn, routes, reminders>>

RemindLoaded ==
  /\ remind = "loaded"
  /\ \/ remind' = "marked" /\ reminders' = reminders + loaded
     \/ remind' = "due" /\ reminders' = reminders             \* rolled back
  /\ loaded' = 0
  /\ UNCHANGED <<kind, fresh, row, task, tries, errors, sent, refused, nobody, broke,
                 warn, routes>>

MailInit ==
  /\ \/ kind \in NewRow /\ fresh = TRUE
     \/ kind \in OldRow /\ fresh = FALSE
  /\ row = "open" /\ task = "none" /\ tries = 0 /\ errors = 0 /\ sent = 0
  /\ refused = FALSE /\ nobody = FALSE /\ broke = 0
  /\ warn = "due" /\ remind = "due" /\ routes \in 1..2 /\ loaded = 0 /\ reminders = 0

MailNext ==
  \/ Enqueue \/ EndRequest \/ LookUp \/ SendMail \/ SendWhatsappNotification \/ Crash \/ Fail
  \/ MarkExpiring \/ SendWarnings \/ LoadUpcoming \/ RemindLoaded

MailSpec == MailInit /\ [][MailNext]_mailVars

\* Workers take what is queued; a request ends.
MailFairness ==
  /\ WF_mailVars(LookUp) /\ WF_mailVars(SendMail)
  /\ WF_mailVars(SendWhatsappNotification) /\ WF_mailVars(EndRequest)

(***************************************************************************)
(* Properties.                                                             *)
(***************************************************************************)

\* Nobody is written to about a new row that was rolled back or is not there
\* yet, and a second copy needs a worker that died or an attempt that failed.
\* A task that ended without a message had nobody to send it to or was
\* refused.  One is only dropped with every retry used, and one about a row
\* that was there before only where each attempt failed otherwise.
MailMatchesRow ==
  /\ sent > 0 /\ fresh => row = "committed"
  /\ sent <= 1 + broke + errors
  /\ task = "done" => sent > 0 \/ refused \/ nobody
  /\ task = "dropped" => tries = MaxRetries + 1 /\ (~fresh => errors = tries)

\* Each task ends, sent or given up: neither a row that never appears nor
\* attempts that fail keep it in the queue.
TaskSettles == (task = "queued") ~> (task \in {"done", "dropped"})

\* However often the beat fails and starts again, a member is reminded once,
\* except one whose group has a plan and the package made of its offer: both
\* queries of one run find that row before it is marked.
RemindedOnce == reminders <= routes

\* Both: what goes out is about rows that are there, and once (the mail tasks,
\* send_upcoming_trip_reminders).
MailHolds == MailMatchesRow /\ RemindedOnce
=============================================================================
