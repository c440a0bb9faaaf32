------------------------------ MODULE Agencies ------------------------------
(***************************************************************************)
(* One agency: its documents, review and operational status, its bank      *)
(* details, and the Razorpay Route accounts opened for it                  *)
(* (services/agencies.py, lib/razorpay_route.py, lib/gst.py, lib/ifsc.py). *)
(*                                                                         *)
(* A request loads the agency, works on its copy, and writes the columns   *)
(* it changed at its commit.  The bank row is locked from its flush on:    *)
(* account numbers are encrypted afresh, so every flush writes the row.    *)
(***************************************************************************)
EXTENDS Integers, Sequences, FiniteSets

CONSTANTS Gstins,      \* GST numbers, each with the PAN it embeds
          Flags,       \* the checklist an administrator ticks off
          Blank,       \* the empty string as a GST number
          Numbers,     \* account numbers
          Branches,    \* IFSC code and holder
          Workers,     \* the requests that overlap
          MaxRequests, \* bound: requests
          None

Details == [number : Numbers, branch : Branches]
Filings == Gstins \cup {None, Blank}

ASSUME AgenciesAssumption ==
  /\ {None, Blank} \cap Gstins = {} /\ None # Blank /\ None \notin Details
  /\ MaxRequests \in Nat

VARIABLES agency,   \* the agency's row, None before it is created
          bank,     \* its bank account's row, None before details come in
          razorpay, \* the Route accounts opened for it: where each settles to
          req,      \* the requests in flight
          left,     \* requests the bound still admits
          dropped,  \* history: Route accounts opened that no row could keep
          behind    \* history: the columns the last bank request may have left unlike the row's account

agenciesVars == <<agency, bank, razorpay, req, left, dropped, behind>>

Free == [at |-> "free"]
BankColumns == {"number", "branch"}

AgencyRow == [gstin : Filings, flags : SUBSET Flags,
              verification : {"pending", "under_review", "verified", "rejected"},
              status : {"PENDING", "APPROVED", "REJECTED", "PAUSED", "SUSPENDED"}]
BankRow == [details : Details, status : {"PENDING", "FAILED"}, linked : Nat]

ASSUME NoneIsNoRow == None \notin AgencyRow \cup BankRow

AgenciesTypeOK ==
  /\ agency \in AgencyRow \cup {None}
  /\ bank \in BankRow \cup {None}
  /\ \A i \in DOMAIN razorpay : razorpay[i] \in Details \cup {None}
  /\ bank # None => bank.linked \in 0..Len(razorpay)
  /\ left \in 0..MaxRequests /\ dropped \in Nat /\ behind \subseteq BankColumns

Start(w, r) == req[w] = Free /\ left > 0 /\ left' = left - 1 /\ req' = [req EXCEPT ![w] = r]
Finish(w) == req' = [req EXCEPT ![w] = Free]
Goto(w, at) == req' = [req EXCEPT ![w].at = at]

(***************************************************************************)
(* The agency's row.                                                       *)
(***************************************************************************)
NewAgency(g) == [gstin |-> g, flags |-> {}, verification |-> "pending", status |-> "PENDING"]

\* No lookup: the documents of a new agency are taken as they are.
CreateAgency(w, g) ==
  /\ agency = None /\ \A v \in Workers : req[v] = Free
  /\ left > 0 /\ agency' = NewAgency(g) /\ left' = left - 1
  /\ UNCHANGED <<bank, razorpay, req, dropped, behind>>

\* Only a value that is neither missing nor empty is held against the row's.
GstinPanImmutable(row, g) == {row.gstin, g} \cap {None, Blank} # {} \/ row.gstin = g

Edit(w, new) ==
  /\ Start(w, [at |-> "edit", seen |-> agency, new |-> new])
  /\ UNCHANGED <<agency, bank, razorpay, dropped, behind>>

\* A missing value leaves the column; an empty one is written.
Filed(g) == [agency EXCEPT !.gstin = IF g = None THEN @ ELSE g]

UpdateAgency(w, g) ==
  agency # None /\ GstinPanImmutable(agency, g) /\ Edit(w, Filed(g))

\* A first GSTIN is looked up; one the service refuses ends the request.
SubmitVerification(w, g) ==
  /\ agency # None /\ GstinPanImmutable(agency, g)
  /\ Edit(w, [Filed(g) EXCEPT !.verification = "under_review"])

ApproveVerification(w) ==
  agency # None /\ Edit(w, [agency EXCEPT !.verification = "verified"])

RejectVerification(w) ==
  agency # None /\ Edit(w, [agency EXCEPT !.verification = "rejected"])

SetVerificationFlags(w, F) ==
  agency # None /\ Edit(w, [agency EXCEPT !.flags = F])

AgencyAllFlagsVerified(row) == row.flags = Flags

\* Mutant: the checklist is not looked at.
ApproveUnflagged(w, s) ==
  agency # None /\ Edit(w, [agency EXCEPT !.status = s])

UpdateAgencyOperationalStatus(w, s) ==
  /\ agency # None
  /\ s = "APPROVED" => AgencyAllFlagsVerified(agency)
  /\ Edit(w, [agency EXCEPT !.status = s])

\* Only changed columns are written; each flag is one.
Written(r) ==
  [c \in DOMAIN agency |->
     IF c = "flags" THEN (agency.flags \ (r.seen.flags \ r.new.flags)) \cup (r.new.flags \ r.seen.flags)
     ELSE IF r.new[c] # r.seen[c] THEN r.new[c] ELSE agency[c]]

CommitEdit(w) ==
  /\ req[w].at = "edit"
  /\ agency' = Written(req[w]) /\ Finish(w)
  /\ UNCHANGED <<bank, razorpay, left, dropped, behind>>

(***************************************************************************)
(* Bank details.                                                           *)
(***************************************************************************)
HoldsBank(w) == req[w].at \in {"linking", "configuring", "saving"}

\* FAILED is exempt from the lock.
Locked == bank # None /\ bank.status # "FAILED"

VerifyBankAccount(w, d, confirm) ==
  /\ agency # None
  /\ Locked => confirm
  /\ Start(w, [at |-> "ifsc", details |-> d, confirm |-> confirm, seen |-> bank])
  /\ UNCHANGED <<agency, bank, razorpay, dropped, behind>>

SeenAccount(r) == IF r.seen = None THEN 0 ELSE r.seen.linked

\* The lookup, and the flush that waits for the row.  The agency has one bank
\* row: a second insert fails.
FlushBank(w) ==
  /\ req[w].at = "ifsc" /\ \A v \in Workers : ~HoldsBank(v)
  /\ \/ req[w].seen = None /\ bank # None /\ Finish(w)
     \/ /\ req[w].seen # None \/ bank = None
        /\ \E valid \in BOOLEAN :
             req' = [req EXCEPT ![w] =
               [at |-> IF valid THEN "linking" ELSE "saving",
                status |-> IF valid THEN "PENDING" ELSE "FAILED",
                details |-> @.details, confirm |-> @.confirm, seen |-> @.seen,
                account |-> SeenAccount(@), clean |-> FALSE]]
  /\ UNCHANGED <<agency, bank, razorpay, left, dropped, behind>>

\* Route is not configured, or a field it requires is missing from the profile.
SkipSync(w) ==
  /\ req[w].at = "linking" /\ Goto(w, "saving")
  /\ UNCHANGED <<agency, bank, razorpay, left, dropped, behind>>

\* The account the loaded row names, or a new one; a reply may not arrive.
CreateLinkedAccount(w) ==
  /\ req[w].at = "linking"
  /\ \/ /\ req[w].account # 0 /\ Goto(w, "configuring")
        /\ UNCHANGED <<razorpay, dropped>>
     \/ /\ req[w].account = 0
        /\ razorpay' = Append(razorpay, None)
        /\ \/ /\ req' = [req EXCEPT ![w].at = "configuring", ![w].account = Len(razorpay')]
              /\ UNCHANGED dropped
           \/ Goto(w, "saving") /\ dropped' = dropped + 1
  /\ UNCHANGED <<agency, bank, left, behind>>

\* On a failure the id the row had is kept, and a new account's id is lost.
\* The settlement may be in place even so: the reply may have been lost.
ConfigureRouteSettlement(w) ==
  LET r == req[w]
      settled == [razorpay EXCEPT ![r.account] = r.details]
  IN /\ r.at = "configuring"
     /\ \/ /\ razorpay' = settled
           /\ req' = [req EXCEPT ![w].at = "saving", ![w].clean = TRUE]
           /\ UNCHANGED dropped
        \/ /\ razorpay' \in {razorpay, settled}
           /\ req' = [req EXCEPT ![w].at = "saving", ![w].account = SeenAccount(r)]
           /\ dropped' = IF SeenAccount(r) = 0 THEN dropped + 1 ELSE dropped
     /\ UNCHANGED <<agency, bank, left, behind>>

\* Mutant: the id of a new account is not written.
LoadedAccount(r) == SeenAccount(r)

KeptAccount(r) ==
  IF r.account # SeenAccount(r) THEN r.account
  ELSE IF bank = None THEN 0 ELSE bank.linked

Changed(new, old, now) == IF new = old THEN now ELSE new

\* The account number is always written; the other columns where they differ
\* from the loaded row, so that requests that overlap mix theirs.
Stored(r) ==
  IF r.seen = None
  THEN [details |-> r.details, status |-> r.status, linked |-> KeptAccount(r)]
  ELSE [details |-> [r.details EXCEPT !.branch = Changed(@, r.seen.details.branch, bank.details.branch)],
        status |-> Changed(r.status, r.seen.status, bank.status),
        linked |-> KeptAccount(r)]

\* A second id written over the first is one Route account lost.
CommitBank(w) ==
  LET r == req[w] IN
  /\ r.at = "saving" /\ Finish(w)
  /\ bank' = Stored(r)
  /\ behind' = IF ~r.clean \/ r.account # KeptAccount(r) THEN BankColumns
               ELSE IF r.seen # bank THEN {"branch"} ELSE {}
  /\ dropped' = IF bank # None /\ bank.linked \notin {0, KeptAccount(r)} THEN dropped + 1 ELSE dropped
  /\ UNCHANGED <<agency, razorpay, left>>

\* The request ends without its commit; what Razorpay did stays.
RollbackBank(w) ==
  /\ req[w].at \in {"ifsc", "linking", "configuring", "saving"} /\ Finish(w)
  /\ behind' = IF HoldsBank(w) THEN BankColumns ELSE behind
  /\ dropped' = IF HoldsBank(w) /\ req[w].account # SeenAccount(req[w]) THEN dropped + 1 ELSE dropped
  /\ UNCHANGED <<agency, bank, razorpay, left>>

AgenciesInit ==
  /\ agency = None /\ bank = None /\ razorpay = <<>>
  /\ req = [w \in Workers |-> Free] /\ left = MaxRequests
  /\ dropped = 0 /\ behind = {}

AgenciesNext ==
  \E w \in Workers :
    \/ \E g \in Filings : CreateAgency(w, g) \/ UpdateAgency(w, g) \/ SubmitVerification(w, g)
    \/ ApproveVerification(w)
    \/ RejectVerification(w)
    \/ \E F \in SUBSET Flags : SetVerificationFlags(w, F)
    \/ \E s \in {"PENDING", "APPROVED", "REJECTED", "PAUSED", "SUSPENDED"} :
         UpdateAgencyOperationalStatus(w, s)
    \/ \E d \in Details, confirm \in BOOLEAN : VerifyBankAccount(w, d, confirm)
    \/ CommitEdit(w)
    \/ FlushBank(w)
    \/ SkipSync(w)
    \/ CreateLinkedAccount(w)
    \/ ConfigureRouteSettlement(w)
    \/ CommitBank(w)
    \/ RollbackBank(w)

AgenciesSpec == AgenciesInit /\ [][AgenciesNext]_agenciesVars

-----------------------------------------------------------------------------
(***************************************************************************)
(* Properties.                                                             *)
(***************************************************************************)
\* Details on file and not FAILED change only by a request that said
\* confirmChange, or that loaded another row than it overwrites
\* (verify_bank_account's lock).
LockedDetailsKept ==
  [][bank # None /\ bank' # bank /\ bank.status # "FAILED" /\ bank'.details # bank.details
       => \E w \in Workers : req[w].at = "saving" /\ req'[w] = Free
                             /\ (req[w].confirm \/ req[w].seen # bank)]_agenciesVars

\* A GSTIN on file gives way to another only after it was erased with an empty
\* value, and an agency is approved only on every flag: by any request that
\* loaded the column it goes by as it still stands at its commit
\* (_assert_gstin_pan_immutable, update_agency_operational_status).
ReviewHolds ==
  [][agency # None /\ agency' # agency =>
       \E w \in Workers :
         /\ req[w].at = "edit" /\ req'[w] = Free
         /\ \/ agency.gstin \in {None, Blank, agency'.gstin} \/ agency'.gstin = Blank
            \/ req[w].seen.gstin # agency.gstin
         /\ agency'.status = "APPROVED" /\ agency.status # "APPROVED"
              => agency.flags = Flags \/ req[w].seen.flags # agency.flags]_agenciesVars

\* Both: what was reviewed and what was locked stays.
AgencyHolds == ReviewHolds /\ LockedDetailsKept

\* Once the last bank request reached Route, on the account the row still
\* names, and none is at work: that account settles to the number on the row,
\* whatever overlapped or failed before, and to its IFSC code and holder too
\* when no other request wrote between its load and its commit
\* (verify_bank_account, _sync_razorpay_linked_account).
RouteFollowsBank ==
  bank # None /\ (\A w \in Workers : ~HoldsBank(w))
    => \A c \in BankColumns \ behind :
         bank.linked # 0 /\ razorpay[bank.linked] # None /\ razorpay[bank.linked][c] = bank.details[c]

\* Every Route account is the row's, a request's at work, or one a failure or
\* an overlap dropped: none is opened beside one that the row already has.
AccountsAccountedFor ==
  LET opened == {req[w].account : w \in {v \in Workers :
                   HoldsBank(v) /\ req[v].account # SeenAccount(req[v])}}
      onRow == IF bank = None THEN {} ELSE {bank.linked} \ {0}
  IN Len(razorpay) = dropped + Cardinality(onRow \cup opened)

\* Both: the agency has one Route account, and it settles to the details on
\* file (_sync_razorpay_linked_account).
RouteHolds == RouteFollowsBank /\ AccountsAccountedFor
=============================================================================
