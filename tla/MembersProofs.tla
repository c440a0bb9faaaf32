--------------------------- MODULE MembersProofs ---------------------------
(***************************************************************************)
(* Links prove addresses and reset passwords once, ratings follow their    *)
(* reviews, the documents of a payment say what was charged, credit adds   *)
(* up and what a list shows belongs there, for any people, trips, prices,  *)
(* limits, stock and overlapping requests.                                 *)
(***************************************************************************)
EXTENDS MCMembers, TLAPS, FiniteSetTheorems, SequenceTheorems, WellFoundedInduction

\* What a request in flight may be about to write: no older password than it
\* saw, and a verified address only if it saw it verified or follows its link.
PasswordMoves(r, n) ==
  /\ r.seen.hash \in Nat /\ r.new.hash \in Nat
  /\ r.seen.hash <= r.new.hash /\ r.new.hash <= n
  /\ r.kind = "reset" => r.seen.hash < r.new.hash

KeepsProof(r) ==
  r.new.verified /\ r.new.email # NoEmail
    => r.new.email = r.seen.email /\ (r.kind = "verify" \/ r.seen.verified)

RequestOK(r, n) ==
  /\ r.who \in People /\ r.seen \in AccountRow /\ r.new \in AccountRow
  /\ PasswordMoves(r, n) /\ KeepsProof(r)

InFlight ==
  /\ DOMAIN request = Handlers
  /\ \A h \in Handlers : request[h].at = "commit" => RequestOK(request[h], serial)

Rows ==
  /\ account \in [People -> AccountRow]
  /\ serial \in 0..MaxSerial
  /\ \A p \in People : account[p].hash <= serial
  /\ \A l \in mailed : l.who \in People

\* A password that a reset link met is gone from an account that is not torn.
ResetsMove ==
  \A a \in resets :
    a.who \in People /\ a.met \in Nat /\ (a.who \notin torn => a.met < account[a.who].hash)

AccountsInv == Rows /\ InFlight /\ ResetsMove /\ LinksHold

\* No account, no link and no request.
LEMMA AccountsStart == AccountsInit => AccountsInv
<1> SUFFICES ASSUME AccountsInit
             PROVE  AccountsInv
  OBVIOUS
<1>1. NoAccount \in AccountRow
  BY AccountsAssumption DEF NoAccount, AccountRow
<1>2. Rows
  BY <1>1, AccountsAssumption DEF AccountsInit, Rows, NoAccount
<1>3. InFlight
  BY DEF AccountsInit, InFlight, Waiting
<1>4. ResetsMove /\ ResetLinkUsedOnce
  BY DEF AccountsInit, ResetsMove, ResetLinkUsedOnce
<1>5. VerifiedMeansProven
  BY DEF AccountsInit, VerifiedMeansProven, NoAccount
<1> QED
  BY <1>2, <1>3, <1>4, <1>5 DEF AccountsInv, LinksHold

\* A request that starts writes nothing yet.
LEMMA HandleKeeps ==
  ASSUME AccountsInv,
         NEW h \in Handlers, NEW p \in People, NEW kind, NEW new,
         Handle(h, p, kind, new),
         RequestOK([at |-> "commit", kind |-> kind, who |-> p, seen |-> account[p], new |-> new],
                   serial + 1),
         \A l \in mailed' : l.who \in People
  PROVE  AccountsInv'
<1>1. /\ serial \in Nat /\ MaxSerial \in Nat /\ serial < MaxSerial /\ serial' = serial + 1
      /\ UNCHANGED <<account, session, proven, resets, torn>>
  BY AccountsAssumption DEF AccountsInv, Rows, Handle
<1>2. Rows'
  <2>1. \A q \in People : account[q].hash <= serial /\ account[q].hash \in Nat
    BY AccountsAssumption DEF AccountsInv, Rows, AccountRow
  <2> QED
    BY <1>1, <2>1 DEF AccountsInv, Rows
<1>3. InFlight'
  <2>1. DOMAIN request' = Handlers
    BY DEF AccountsInv, InFlight, Handle
  <2>2. ASSUME NEW g \in Handlers, request'[g].at = "commit"
        PROVE  RequestOK(request'[g], serial')
    <3>1. CASE g = h
      BY <1>1, <3>1 DEF AccountsInv, InFlight, Handle
    <3>2. CASE g # h
      <4>1. request'[g] = request[g]
        BY <3>2 DEF AccountsInv, InFlight, Handle
      <4>2. RequestOK(request[g], serial)
        BY <2>2, <4>1 DEF AccountsInv, InFlight
      <4> QED
        BY <1>1, <4>1, <4>2 DEF RequestOK, PasswordMoves, KeepsProof
    <3> QED
      BY <3>1, <3>2
  <2> QED
    BY <2>1, <2>2 DEF InFlight
<1>4. ResetsMove' /\ LinksHold'
  BY <1>1 DEF AccountsInv, ResetsMove, LinksHold, VerifiedMeansProven, ResetLinkUsedOnce
<1> QED
  BY <1>2, <1>3, <1>4 DEF AccountsInv

\* A commit writes, of each column, what the request changed or what is there.
LEMMA ChangedColumns ==
  ASSUME NEW r, r.who \in People, r.new \in AccountRow, r.seen \in AccountRow,
         account \in [People -> AccountRow]
  PROVE  /\ Changed(r) \in AccountRow
         /\ Changed(r).hash \in {r.new.hash, account[r.who].hash}
         /\ account[r.who] = r.seen => Changed(r) = r.new
<1>1. DOMAIN r.new = {"email", "verified", "nonce", "hash"}
  BY DEF AccountRow
<1>2. account[r.who] \in AccountRow
  OBVIOUS
<1>3. Changed(r) = [email |-> Changed(r).email, verified |-> Changed(r).verified,
                    nonce |-> Changed(r).nonce, hash |-> Changed(r).hash]
  BY <1>1 DEF Changed
<1>4. /\ Changed(r).email \in {r.new.email, account[r.who].email}
      /\ Changed(r).verified \in {r.new.verified, account[r.who].verified}
      /\ Changed(r).nonce \in {r.new.nonce, account[r.who].nonce}
      /\ Changed(r).hash \in {r.new.hash, account[r.who].hash}
  BY <1>1 DEF Changed
<1>5. Changed(r) \in AccountRow
  BY <1>2, <1>3, <1>4 DEF AccountRow
<1>6. ASSUME account[r.who] = r.seen
      PROVE  Changed(r) = r.new
  <2>1. \A c \in DOMAIN r.new : Changed(r)[c] = r.new[c]
    BY <1>6 DEF Changed
  <2>2. r.new = [email |-> r.new.email, verified |-> r.new.verified,
                 nonce |-> r.new.nonce, hash |-> r.new.hash]
    BY DEF AccountRow
  <2> QED
    BY <1>1, <1>3, <2>1, <2>2
<1> QED
  BY <1>4, <1>5, <1>6

\* A commit of a row a request may write keeps the invariant.
LEMMA CommitKeeps ==
  ASSUME AccountsInv, NEW h \in Handlers, CommitAccount(h)
  PROVE  AccountsInv'
<1> DEFINE r == request[h]
           w == r.who
           clash == EmailTaken(w, Changed(r).email) \/ (r.kind = "signup" /\ HasAccount(w))
<1>1. /\ r.at = "commit" /\ request' = [request EXCEPT ![h] = Waiting]
      /\ UNCHANGED <<mailed, serial, session>>
  BY DEF CommitAccount
<1>2. RequestOK(r, serial)
  BY <1>1 DEF AccountsInv, InFlight
<1>3. InFlight'
  BY <1>1 DEF AccountsInv, InFlight, Waiting
<1>4. CASE clash
  <2>1. UNCHANGED <<account, proven, resets, torn>>
    BY <1>4 DEF CommitAccount
  <2> QED
    BY <1>1, <1>3, <2>1 DEF AccountsInv, Rows, ResetsMove, LinksHold, VerifiedMeansProven,
                            ResetLinkUsedOnce
<1>5. CASE ~clash
  <2>1. /\ account' = [account EXCEPT ![w] = Changed(r)]
        /\ proven' = IF r.kind = "verify" THEN proven \cup {<<w, r.seen.email>>} ELSE proven
        /\ resets' = IF r.kind # "reset" THEN resets
                     ELSE resets \cup {[who |-> w, met |-> r.seen.hash, left |-> r.new.hash]}
        /\ torn' = IF account[w] # r.seen THEN torn \cup {w} ELSE torn
    BY <1>5 DEF CommitAccount
  <2>2. /\ w \in People /\ Changed(r) \in AccountRow
        /\ Changed(r).hash \in {r.new.hash, account[w].hash}
        /\ account[w] = r.seen => Changed(r) = r.new
    BY <1>2, ChangedColumns DEF RequestOK, AccountsInv, Rows
  <2>3. /\ account' \in [People -> AccountRow] /\ account'[w] = Changed(r)
        /\ \A p \in People \ {w} : account'[p] = account[p]
    BY <2>1, <2>2 DEF AccountsInv, Rows
  <2>4. Rows'
    <3>1. \A p \in People : account'[p].hash <= serial
      BY <1>2, <2>2, <2>3 DEF AccountsInv, Rows, RequestOK, PasswordMoves
    <3> QED
      BY <1>1, <2>3, <3>1 DEF AccountsInv, Rows
  <2>5. w \notin torn' => w \notin torn /\ account[w] = r.seen /\ account'[w] = r.new
    BY <2>1, <2>2, <2>3
  <2>6. \A p \in People \ {w} : p \notin torn' => p \notin torn
    BY <2>1
  <2>7. VerifiedMeansProven'
    <3> SUFFICES ASSUME NEW p \in People, p \notin torn',
                        account'[p].verified, account'[p].email # NoEmail
                 PROVE  <<p, account'[p].email>> \in proven'
      BY DEF VerifiedMeansProven
    <3>1. proven \subseteq proven'
      BY <2>1
    <3>2. CASE p # w
      BY <2>3, <2>6, <3>1, <3>2 DEF AccountsInv, LinksHold, VerifiedMeansProven
    <3>3. CASE p = w
      <4>1. r.new.verified /\ r.new.email # NoEmail /\ account'[w].email = r.new.email
        BY <2>5, <3>3
      <4>2. r.new.email = r.seen.email /\ (r.kind = "verify" \/ r.seen.verified)
        BY <1>2, <4>1 DEF RequestOK, KeepsProof
      <4>3. CASE r.kind = "verify"
        BY <2>1, <3>3, <4>1, <4>2, <4>3
      <4>4. CASE r.seen.verified
        <5>1. account[w].verified /\ account[w].email = r.new.email /\ w \notin torn
          BY <2>5, <3>3, <4>2, <4>4
        <5>2. <<w, account[w].email>> \in proven
          BY <2>2, <4>1, <5>1 DEF AccountsInv, LinksHold, VerifiedMeansProven
        <5> QED
          BY <3>1, <3>3, <4>1, <5>1, <5>2
      <4> QED
        BY <4>2, <4>3, <4>4
    <3> QED
      BY <3>2, <3>3
  <2>8. /\ r.seen.hash \in Nat /\ r.new.hash \in Nat /\ r.seen.hash <= r.new.hash
        /\ r.kind = "reset" => r.seen.hash < r.new.hash
    BY <1>2 DEF RequestOK, PasswordMoves
  <2>9. ResetsMove'
    <3> SUFFICES ASSUME NEW a \in resets'
                 PROVE  /\ a.who \in People /\ a.met \in Nat
                        /\ a.who \notin torn' => a.met < account'[a.who].hash
      BY DEF ResetsMove
    <3>1. CASE a \in resets
      <4>1. a.who \in People /\ a.met \in Nat /\ (a.who \notin torn => a.met < account[a.who].hash)
        BY <3>1 DEF AccountsInv, ResetsMove
      <4>2. CASE a.who # w
        BY <2>3, <2>6, <4>1, <4>2
      <4>3. CASE a.who = w
        BY <2>5, <2>8, <4>1, <4>3
      <4> QED
        BY <4>2, <4>3
    <3>2. CASE a \notin resets
      <4>1. r.kind = "reset" /\ a = [who |-> w, met |-> r.seen.hash, left |-> r.new.hash]
        BY <2>1, <3>2
      <4>2. a.who = w /\ a.met = r.seen.hash
        BY <4>1
      <4> QED
        BY <2>2, <2>5, <2>8, <4>1, <4>2
    <3> QED
      BY <3>1, <3>2
  <2>10. ResetLinkUsedOnce'
    <3> SUFFICES ASSUME NEW a \in resets', NEW b \in resets', a.who = b.who, a.met = b.met
                 PROVE  a = b \/ a.who \in torn'
      BY DEF ResetLinkUsedOnce
    <3> DEFINE use == [who |-> w, met |-> r.seen.hash, left |-> r.new.hash]
    <3>1. \A c \in resets' : c \in resets \/ c = use
      BY <2>1
    <3>2. torn \subseteq torn'
      BY <2>1
    <3>3. CASE a \in resets /\ b \in resets
      BY <3>2, <3>3 DEF AccountsInv, LinksHold, ResetLinkUsedOnce
    <3>4. ASSUME NEW c \in resets, c.who = w, c.met = r.seen.hash
          PROVE  w \in torn'
      <4>1. c.met \in Nat /\ (w \notin torn => c.met < account[w].hash)
        BY <3>4 DEF AccountsInv, ResetsMove
      <4> QED
        BY <2>5, <2>8, <3>4, <4>1
    <3>5. CASE a = use /\ b = use
      BY <3>5
    <3>6. CASE a \in resets /\ b = use
      BY <3>4, <3>6
    <3>7. CASE a = use /\ b \in resets
      BY <3>4, <3>7
    <3> QED
      BY <3>1, <3>3, <3>5, <3>6, <3>7
  <2> QED
    BY <1>3, <2>4, <2>7, <2>9, <2>10 DEF AccountsInv, LinksHold
<1> QED
  BY <1>4, <1>5

\* The rows the handlers send to their commit.
LEMMA NewRowsKept ==
  ASSUME NEW row \in AccountRow, row.hash <= serial, serial \in Nat, serial < MaxSerial,
         NEW e \in Emails \cup {NoEmail}
  PROVE  LET issued == IssueEmailVerificationToken(row, e)
             followed == [row EXCEPT !.verified = TRUE, !.nonce = 0]
             changed == [row EXCEPT !.hash = serial + 1]
         IN /\ issued \in AccountRow /\ issued.hash = row.hash /\ ~issued.verified
            /\ followed \in AccountRow /\ followed.hash = row.hash /\ followed.email = row.email
            /\ changed \in AccountRow /\ changed.hash = serial + 1 /\ changed.email = row.email
            /\ changed.verified = row.verified
            /\ row.hash \in Nat
<1>1. serial + 1 \in 0..MaxSerial
  BY AccountsAssumption
<1>2. row.hash \in Nat /\ 0 \in 0..MaxSerial
  BY AccountsAssumption DEF AccountRow
<1>3. row = [email |-> row.email, verified |-> row.verified, nonce |-> row.nonce, hash |-> row.hash]
  BY DEF AccountRow
<1>4. LET issued == IssueEmailVerificationToken(row, e)
      IN issued \in AccountRow /\ issued.hash = row.hash /\ issued.verified = FALSE
  BY <1>1, <1>3 DEF AccountRow, IssueEmailVerificationToken
<1>5. LET followed == [row EXCEPT !.verified = TRUE, !.nonce = 0]
      IN followed \in AccountRow /\ followed.hash = row.hash /\ followed.email = row.email
  BY <1>2, <1>3 DEF AccountRow
<1>6. LET changed == [row EXCEPT !.hash = serial + 1]
      IN /\ changed \in AccountRow /\ changed.hash = serial + 1 /\ changed.email = row.email
         /\ changed.verified = row.verified
  BY <1>1, <1>3 DEF AccountRow
<1> QED
  BY <1>2, <1>4, <1>5, <1>6

\* A new account is unverified and its password is new.
LEMMA NewUserKept ==
  ASSUME serial \in Nat, serial < MaxSerial
  PROVE  /\ NewUser \in AccountRow /\ NewUser.hash = serial + 1
         /\ [NewUser EXCEPT !.verified = TRUE] \in AccountRow
         /\ [NewUser EXCEPT !.verified = TRUE].hash = serial + 1
         /\ [NewUser EXCEPT !.verified = TRUE].email = NoEmail
         /\ \A e \in Emails : LET issued == IssueEmailVerificationToken(NewUser, e) IN
              issued \in AccountRow /\ issued.hash = serial + 1 /\ ~issued.verified
<1>1. serial + 1 \in 0..MaxSerial /\ 0 \in 0..MaxSerial
  BY AccountsAssumption
<1> QED
  BY <1>1 DEF NewUser, NoAccount, AccountRow, IssueEmailVerificationToken

\* Every request that starts keeps the invariant.
LEMMA RequestsKeep ==
  ASSUME AccountsInv, NEW h \in Handlers,
         \/ \E p \in People, e \in Emails \cup {NoEmail} :
              SignupTraveler(h, p, e) \/ SignupAgencyOwner(h, p, e) \/ UpdateProfile(h, p, e)
         \/ \E p \in People : ResendVerification(h, p) \/ ChangePassword(h, p)
         \/ \E l \in mailed : VerifyEmail(h, l) \/ ResetPassword(h, l)
  PROVE  AccountsInv'
<1>1. /\ serial \in Nat /\ \A q \in People : account[q] \in AccountRow /\ account[q].hash <= serial
      /\ \A l \in mailed : l.who \in People
  BY AccountsAssumption DEF AccountsInv, Rows
<1>2. \A q \in People : account[q].hash \in Nat
  BY <1>1, AccountsAssumption DEF AccountRow
<1>3. ASSUME NEW p \in People, NEW e \in Emails \cup {NoEmail},
             SignupTraveler(h, p, e) \/ SignupAgencyOwner(h, p, e)
      PROVE  AccountsInv'
  <2>1. serial < MaxSerial
    BY <1>3 DEF SignupTraveler, SignupAgencyOwner, Handle
  <2>2. \A l \in mailed' : l.who \in People
    BY <1>1, <1>3 DEF SignupTraveler, SignupAgencyOwner, MailToken
  <2> DEFINE free == [NewUser EXCEPT !.verified = TRUE]
             issued == IssueEmailVerificationToken(NewUser, e)
             Req(new) == [at |-> "commit", kind |-> "signup", who |-> p, seen |-> account[p], new |-> new]
  <2>3. CASE e = NoEmail /\ Handle(h, p, "signup", free)
    <3>1. free \in AccountRow /\ free.hash = serial + 1 /\ free.email = NoEmail
      BY <1>1, <2>1, NewUserKept
    <3> HIDE DEF free
    <3>2. RequestOK(Req(free), serial + 1)
      BY <1>1, <1>2, <3>1 DEF RequestOK, PasswordMoves, KeepsProof
    <3> QED
      BY <2>2, <2>3, <3>2, HandleKeeps
  <2>4. CASE e # NoEmail /\ Handle(h, p, "signup", issued)
    <3>1. issued \in AccountRow /\ issued.hash = serial + 1 /\ ~issued.verified
      BY <1>1, <2>1, <2>4, NewUserKept
    <3> HIDE DEF issued
    <3>2. RequestOK(Req(issued), serial + 1)
      BY <1>1, <1>2, <3>1 DEF RequestOK, PasswordMoves, KeepsProof
    <3> QED
      BY <2>2, <2>4, <3>2, HandleKeeps
  <2> QED
    BY <1>3, <2>3, <2>4 DEF SignupTraveler, SignupAgencyOwner
<1>4. ASSUME NEW p \in People, NEW e \in Emails \cup {NoEmail}, NEW kind \in {"profile", "resend"},
             Handle(h, p, kind, IssueEmailVerificationToken(account[p], e)), MailToken(p, e)
      PROVE  AccountsInv'
  <2> DEFINE issued == IssueEmailVerificationToken(account[p], e)
  <2>1. issued \in AccountRow /\ issued.hash = account[p].hash /\ ~issued.verified
    BY <1>1, <1>4, NewRowsKept DEF Handle
  <2>2. \A l \in mailed' : l.who \in People
    BY <1>1, <1>4 DEF MailToken
  <2>3. Handle(h, p, kind, issued)
    BY <1>4
  <2> HIDE DEF issued
  <2>4. RequestOK([at |-> "commit", kind |-> kind, who |-> p, seen |-> account[p], new |-> issued], serial + 1)
    BY <1>1, <1>2, <2>1 DEF RequestOK, PasswordMoves, KeepsProof
  <2> QED
    BY <2>2, <2>3, <2>4, HandleKeeps
<1>5. ASSUME NEW p \in People, NEW kind \in {"reset", "change"},
             Handle(h, p, kind, [account[p] EXCEPT !.hash = serial + 1]), UNCHANGED mailed
      PROVE  AccountsInv'
  <2> DEFINE changed == [account[p] EXCEPT !.hash = serial + 1]
  <2>1. /\ changed \in AccountRow /\ changed.hash = serial + 1 /\ changed.email = account[p].email
        /\ changed.verified = account[p].verified
    BY <1>1, <1>5, NewRowsKept DEF Handle
  <2>2. Handle(h, p, kind, changed)
    BY <1>5
  <2> HIDE DEF changed
  <2>3. RequestOK([at |-> "commit", kind |-> kind, who |-> p, seen |-> account[p], new |-> changed], serial + 1)
    <3>1. PasswordMoves([at |-> "commit", kind |-> kind, who |-> p, seen |-> account[p], new |-> changed], serial + 1)
      BY <1>1, <1>2, <2>1 DEF PasswordMoves
    <3>2. KeepsProof([at |-> "commit", kind |-> kind, who |-> p, seen |-> account[p], new |-> changed])
      BY <2>1 DEF KeepsProof
    <3> QED
      BY <1>1, <2>1, <3>1, <3>2 DEF RequestOK
  <2> QED
    BY <1>1, <1>5, <2>2, <2>3, HandleKeeps
<1>6. ASSUME NEW l \in mailed, VerifyEmail(h, l)
      PROVE  AccountsInv'
  <2> DEFINE p == l.who
             followed == [account[p] EXCEPT !.verified = TRUE, !.nonce = 0]
  <2>1. p \in People /\ Handle(h, p, "verify", followed) /\ UNCHANGED mailed
    BY <1>1, <1>6 DEF VerifyEmail
  <2>2. followed \in AccountRow /\ followed.hash = account[p].hash /\ followed.email = account[p].email
    BY <1>1, <2>1, NewRowsKept DEF Handle
  <2> HIDE DEF followed, p
  <2>3. RequestOK([at |-> "commit", kind |-> "verify", who |-> p, seen |-> account[p], new |-> followed], serial + 1)
    BY <1>1, <1>2, <2>1, <2>2 DEF RequestOK, PasswordMoves, KeepsProof
  <2> QED
    BY <1>1, <2>1, <2>3, HandleKeeps
<1>7. \A p \in People : account[p].email \in Emails \cup {NoEmail}
  BY <1>1 DEF AccountRow
<1> QED
  BY <1>1, <1>3, <1>4, <1>5, <1>6, <1>7 DEF UpdateProfile, ResendVerification, ChangePassword, ResetPassword

\* Every step of the handlers keeps the invariant.
LEMMA AccountsStep == AccountsInv /\ [AccountsNext]_accountsVars => AccountsInv'
<1> SUFFICES ASSUME AccountsInv, [AccountsNext]_accountsVars
             PROVE  AccountsInv'
  OBVIOUS
<1>1. CASE \E p \in People : RequestPasswordReset(p)
  <2>1. PICK p \in People : RequestPasswordReset(p)
    BY <1>1
  <2>2. \A l \in mailed' : l.who \in People
    BY <2>1 DEF RequestPasswordReset, AccountsInv, Rows
  <2> QED
    BY <2>1, <2>2 DEF RequestPasswordReset, AccountsInv, Rows, InFlight, ResetsMove, LinksHold,
                      VerifiedMeansProven, ResetLinkUsedOnce
<1>2. CASE (\E p \in People : Login(p) \/ TokensLapse(p)) \/ UNCHANGED accountsVars
  <2>1. UNCHANGED <<account, mailed, request, serial, proven, resets, torn>>
    BY <1>2 DEF Login, TokensLapse, accountsVars
  <2> QED
    BY <2>1 DEF AccountsInv, Rows, InFlight, ResetsMove, LinksHold, VerifiedMeansProven,
                ResetLinkUsedOnce
<1> QED
  BY <1>1, <1>2, RequestsKeep, CommitKeeps DEF AccountsNext

\* A verified address is one whose link was followed, and a reset link changes
\* the password once, unless requests overlapped on the account
\* (services/auth.py: verify_email, update_profile, reset_password).
THEOREM LinksAreSound == AccountsSpec => []LinksHold
<1>1. AccountsInv => LinksHold
  BY DEF AccountsInv
<1> QED
  BY AccountsStart, AccountsStep, <1>1, PTL DEF AccountsSpec

-----------------------------------------------------------------------------
(* Accounts: the types. *)

\* A request in flight: its account exists or it opens it, a link it follows
\* was sent to an address, and a password it meets was set.
RequestTyped(r) ==
  /\ r.new.hash # 0 /\ (r.seen.hash # 0 => account[r.who].hash # 0)
  /\ r.kind = "verify" => r.seen.email \in Emails
  /\ r.kind = "reset" => r.seen.hash # 0

\* Only an account with a password has an address.
AccountsTypes ==
  /\ mailed \subseteq Link /\ torn \subseteq People /\ session \subseteq People
  /\ proven \subseteq People \X Emails
  /\ resets \subseteq [who : People, met : 1..MaxSerial, left : 1..MaxSerial]
  /\ \A p \in People : account[p].email # NoEmail => account[p].hash # 0
  /\ \A h \in Handlers : request[h].at = "commit" => RequestTyped(request[h])

\* No account, no link and no request.
LEMMA AccountsTypesStart == AccountsInit => AccountsTypes
BY DEF AccountsInit, AccountsTypes, NoAccount, Waiting

\* A request that starts on a row, and the mail it may have sent.
LEMMA HandleTypes ==
  ASSUME AccountsInv, AccountsTypes,
         NEW h \in Handlers, NEW p \in People, NEW kind, NEW new, Handle(h, p, kind, new),
         mailed' \subseteq Link, new.hash # 0,
         kind = "verify" => account[p].email \in Emails, kind = "reset" => account[p].hash # 0
  PROVE  AccountsTypes'
<1>1. PICK r : r = [at |-> "commit", kind |-> kind, who |-> p, seen |-> account[p], new |-> new]
  OBVIOUS
<1>2. /\ UNCHANGED <<account, session, proven, resets, torn>>
      /\ request' = [request EXCEPT ![h] = r]
  BY <1>1 DEF Handle
<1>3. RequestTyped(r)
  BY <1>1 DEF RequestTyped
<1>4. \A x : RequestTyped(x)' <=> RequestTyped(x)
  BY <1>2 DEF RequestTyped
<1>5. ASSUME NEW g \in Handlers, request'[g].at = "commit" PROVE RequestTyped(request[g])'
  <2>1. request'[g] = IF g = h THEN r ELSE request[g]
    BY <1>2 DEF AccountsInv, InFlight
  <2>2. CASE g = h
    BY <1>2, <1>3, <2>1, <2>2 DEF RequestTyped
  <2>3. CASE g # h
    <3>1. request'[g] = request[g] /\ RequestTyped(request[g])
      BY <1>5, <2>1, <2>3 DEF AccountsTypes
    <3> QED
      BY <1>2, <3>1 DEF RequestTyped
  <2> QED
    BY <2>2, <2>3
<1> QED
  BY <1>2, <1>5 DEF AccountsTypes, Link

\* The mail a request sends carries the nonce it issued.
LEMMA MailTyped ==
  ASSUME AccountsInv, AccountsTypes, NEW p \in People, NEW e \in Emails, serial < MaxSerial, MailToken(p, e)
  PROVE  mailed' \subseteq Link
<1>1. serial + 1 \in 1..MaxSerial
  BY AccountsAssumption DEF AccountsInv, Rows
<1>2. [kind |-> "verify", who |-> p, email |-> e, key |-> serial + 1] \in Link
  BY <1>1 DEF Link
<1> QED
  BY <1>2 DEF MailToken, AccountsTypes

\* Every request that starts keeps the types.
LEMMA RequestTypes ==
  ASSUME AccountsInv, AccountsTypes, NEW h \in Handlers,
         \/ \E p \in People, e \in Emails \cup {NoEmail} :
              SignupTraveler(h, p, e) \/ SignupAgencyOwner(h, p, e) \/ UpdateProfile(h, p, e)
         \/ \E p \in People : ResendVerification(h, p) \/ ChangePassword(h, p)
         \/ \E l \in mailed : VerifyEmail(h, l) \/ ResetPassword(h, l)
  PROVE  AccountsTypes'
<1>1. /\ serial \in Nat /\ serial + 1 # 0
      /\ \A p \in People : account[p] \in AccountRow /\ account[p].hash <= serial
      /\ \A p \in People : account[p].email \in Emails \cup {NoEmail}
  BY AccountsAssumption DEF AccountsInv, Rows, AccountRow
<1>2. mailed \subseteq Link
  BY DEF AccountsTypes
<1>3. ASSUME NEW p \in People, NEW e \in Emails \cup {NoEmail},
             SignupTraveler(h, p, e) \/ SignupAgencyOwner(h, p, e)
      PROVE  AccountsTypes'
  <2>1. serial < MaxSerial
    BY <1>3 DEF SignupTraveler, SignupAgencyOwner, Handle
  <2>2. CASE e = NoEmail
    <3>1. PICK free : free = [NewUser EXCEPT !.verified = TRUE]
      OBVIOUS
    <3>2. free.hash = serial + 1
      BY <1>1, <2>1, <3>1, NewUserKept
    <3>3. Handle(h, p, "signup", free) /\ UNCHANGED mailed
      BY <1>3, <2>2, <3>1 DEF SignupTraveler, SignupAgencyOwner
    <3> QED
      BY <1>1, <1>2, <3>2, <3>3, HandleTypes
  <2>3. CASE e # NoEmail
    <3>1. PICK issued : issued = IssueEmailVerificationToken(NewUser, e)
      OBVIOUS
    <3>2. issued.hash = serial + 1
      BY <1>1, <2>1, <2>3, <3>1, NewUserKept
    <3>3. Handle(h, p, "signup", issued) /\ MailToken(p, e)
      BY <1>3, <2>3, <3>1 DEF SignupTraveler, SignupAgencyOwner
    <3>4. mailed' \subseteq Link
      BY <2>1, <2>3, <3>3, MailTyped
    <3> QED
      BY <1>1, <3>2, <3>3, <3>4, HandleTypes
  <2> QED
    BY <2>2, <2>3
<1>4. ASSUME NEW p \in People, NEW e \in Emails, NEW kind \in {"profile", "resend"}, account[p].hash # 0,
             Handle(h, p, kind, IssueEmailVerificationToken(account[p], e)), MailToken(p, e)
      PROVE  AccountsTypes'
  <2>1. serial < MaxSerial
    BY <1>4 DEF Handle
  <2>2. PICK issued : issued = IssueEmailVerificationToken(account[p], e)
    OBVIOUS
  <2>3. issued.hash = account[p].hash
    BY <1>1, <2>1, <2>2, NewRowsKept
  <2>4. mailed' \subseteq Link
    BY <1>4, <2>1, MailTyped
  <2> QED
    BY <1>4, <2>2, <2>3, <2>4, HandleTypes
<1>5. ASSUME NEW p \in People, NEW e, UpdateProfile(h, p, e), e \in Emails \cup {NoEmail} PROVE AccountsTypes'
  BY <1>4, <1>5 DEF UpdateProfile, HasAccount
<1>6. ASSUME NEW p \in People, ResendVerification(h, p) PROVE AccountsTypes'
  <2>1. account[p].email \in Emails /\ account[p].hash # 0
    BY <1>1, <1>6 DEF ResendVerification, AccountsTypes
  <2> QED
    BY <1>4, <1>6, <2>1 DEF ResendVerification
<1>7. ASSUME NEW p \in People, NEW kind \in {"reset", "change"}, kind = "reset" => account[p].hash # 0,
             Handle(h, p, kind, [account[p] EXCEPT !.hash = serial + 1]), UNCHANGED mailed
      PROVE  AccountsTypes'
  <2>1. PICK changed : changed = [account[p] EXCEPT !.hash = serial + 1]
    OBVIOUS
  <2>2. serial < MaxSerial
    BY <1>7 DEF Handle
  <2>3. account[p] \in AccountRow /\ account[p].hash <= serial
    BY <1>1
  <2>4. changed.hash = serial + 1
    BY <1>1, <2>1, <2>2, <2>3, NewRowsKept
  <2> QED
    BY <1>1, <1>2, <1>7, <2>1, <2>4, HandleTypes
<1>8. ASSUME NEW l \in mailed, VerifyEmail(h, l) \/ ResetPassword(h, l) PROVE AccountsTypes'
  <2>1. PICK p \in People : p = l.who /\ account[p].email = l.email /\ l.email \in Emails /\ l.key \in 1..MaxSerial
    BY <1>2, <1>8 DEF VerifyEmail, ResetPassword, LinkFits, Link
  <2>2. account[p].hash # 0
    BY <2>1, AccountsAssumption DEF AccountsTypes
  <2>3. CASE VerifyEmail(h, l)
    <3>1. PICK followed : followed = [account[p] EXCEPT !.verified = TRUE, !.nonce = 0]
      OBVIOUS
    <3>2. Handle(h, p, "verify", followed) /\ UNCHANGED mailed
      BY <2>1, <2>3, <3>1 DEF VerifyEmail
    <3>3. serial < MaxSerial
      BY <3>2 DEF Handle
    <3>4. followed.hash = account[p].hash
      BY <1>1, <3>1, <3>3, NewRowsKept
    <3> QED
      BY <1>2, <2>1, <2>2, <3>2, <3>4, HandleTypes
  <2>4. CASE ResetPassword(h, l)
    BY <1>7, <2>1, <2>2, <2>4 DEF ResetPassword
  <2> QED
    BY <1>8, <2>3, <2>4
<1>9. ASSUME NEW p \in People, ChangePassword(h, p) PROVE AccountsTypes'
  BY <1>7, <1>9 DEF ChangePassword
<1> QED
  BY <1>3, <1>5, <1>6, <1>8, <1>9

\* A commit leaves an account with a password.
LEMMA CommitTyped ==
  ASSUME AccountsInv, AccountsTypes, NEW h \in Handlers, CommitAccount(h)
  PROVE  AccountsTypes'
<1>1. PICK r : r = request[h] /\ r.at = "commit"
  BY DEF CommitAccount
<1>2. RequestOK(r, serial) /\ RequestTyped(r)
  BY <1>1 DEF AccountsInv, InFlight, AccountsTypes
<1>3. PICK w \in People : w = r.who
  BY <1>2 DEF RequestOK
<1>4. UNCHANGED <<mailed, serial, session>> /\ request' = [request EXCEPT ![h] = Waiting]
  BY <1>1 DEF CommitAccount
<1>5. ASSUME NEW g \in Handlers, request'[g].at = "commit", \A p \in People : account[p].hash # 0 => account'[p].hash # 0
      PROVE  RequestTyped(request[g])'
  <2>1. request'[g] = request[g] /\ RequestTyped(request[g]) /\ RequestOK(request[g], serial)
    BY <1>4, <1>5 DEF AccountsInv, InFlight, AccountsTypes, Waiting
  <2> QED
    BY <1>5, <2>1 DEF RequestTyped, RequestOK
<1>6. CASE UNCHANGED <<account, proven, resets, torn>>
  BY <1>4, <1>5, <1>6 DEF AccountsTypes, Link
<1>7. CASE /\ account' = [account EXCEPT ![w] = Changed(r)]
           /\ proven' = IF r.kind = "verify" THEN proven \cup {<<w, r.seen.email>>} ELSE proven
           /\ resets' = IF r.kind # "reset" THEN resets
                        ELSE resets \cup {[who |-> w, met |-> r.seen.hash, left |-> r.new.hash]}
           /\ torn' = IF account[w] # r.seen THEN torn \cup {w} ELSE torn
  <2>1. Changed(r).hash # 0
    <3>1. r.new \in AccountRow
      BY <1>2 DEF RequestOK
    <3>2. Changed(r).hash = IF r.new.hash # r.seen.hash THEN r.new.hash ELSE account[w].hash
      BY <1>3, <3>1 DEF Changed, AccountRow
    <3> QED
      BY <1>2, <1>3, <3>2 DEF RequestTyped
  <2>2. \A p \in People : account'[p] = IF p = w THEN Changed(r) ELSE account[p]
    BY <1>7 DEF AccountsInv, Rows
  <2>3. \A p \in People : account[p].hash # 0 => account'[p].hash # 0
    BY <2>1, <2>2
  <2>4. \A p \in People : account'[p].email # NoEmail => account'[p].hash # 0
    BY <2>1, <2>2 DEF AccountsTypes
  <2>5. torn' \subseteq People
    BY <1>7 DEF AccountsTypes
  <2>6. proven' \subseteq People \X Emails
    BY <1>2, <1>7 DEF AccountsTypes, RequestTyped
  <2>7. resets' \subseteq [who : People, met : 1..MaxSerial, left : 1..MaxSerial]
    <3>1. r.kind = "reset" => r.seen.hash \in 1..MaxSerial /\ r.new.hash \in 1..MaxSerial
      BY <1>2, AccountsAssumption DEF RequestTyped, RequestOK, AccountRow
    <3> QED
      BY <1>7, <3>1 DEF AccountsTypes
  <2> QED
    BY <1>4, <1>5, <2>3, <2>4, <2>5, <2>6, <2>7 DEF AccountsTypes, Link
<1> QED
  BY <1>1, <1>3, <1>6, <1>7 DEF CommitAccount

\* Every step of the handlers keeps the types.
LEMMA AccountsTypesStep == AccountsInv /\ AccountsTypes /\ [AccountsNext]_accountsVars => AccountsTypes'
<1> SUFFICES ASSUME AccountsInv, AccountsTypes, [AccountsNext]_accountsVars PROVE AccountsTypes'
  OBVIOUS
<1>1. ASSUME NEW p \in People, RequestPasswordReset(p) PROVE AccountsTypes'
  <2>1. account[p].email \in Emails /\ account[p].hash \in 1..MaxSerial
    <3>1. account[p] \in AccountRow /\ account[p].email # NoEmail /\ account[p].hash # 0
      BY <1>1 DEF RequestPasswordReset, AccountsInv, Rows, AccountsTypes
    <3> QED
      BY <3>1, AccountsAssumption DEF AccountRow
  <2>2. [kind |-> "reset", who |-> p, email |-> account[p].email, key |-> account[p].hash] \in Link
    BY <2>1 DEF Link
  <2>3. mailed' \subseteq Link /\ UNCHANGED <<account, request, serial, session, proven, resets, torn>>
    BY <1>1, <2>2 DEF RequestPasswordReset, AccountsTypes
  <2> QED
    BY <2>3 DEF AccountsTypes, RequestTyped, Link
<1>2. ASSUME NEW p \in People, Login(p) \/ TokensLapse(p) PROVE AccountsTypes'
  BY <1>2 DEF Login, TokensLapse, AccountsTypes, RequestTyped, Link
<1>3. CASE UNCHANGED accountsVars
  BY <1>3 DEF accountsVars, AccountsTypes, RequestTyped, Link
<1> QED
  BY <1>1, <1>2, <1>3, RequestTypes, CommitTyped DEF AccountsNext

\* What the invariants say of the types.
LEMMA AccountsTyped == AccountsInv /\ AccountsTypes => AccountsTypeOK
BY DEF AccountsInv, Rows, AccountsTypes, AccountsTypeOK

-----------------------------------------------------------------------------
(* Reviews: the ratings follow what was submitted. *)

\* What a submission in flight that is not stale has read is as it was, and
\* its aggregate is the one its commit leaves.
FormFits(x) ==
  /\ x.at \in {"checked", "flushed"}
  /\ x.row.target \in Reviewed /\ "stale" \in DOMAIN x /\ x.stale \in BOOLEAN
  /\ x.at = "flushed" => DOMAIN x.sum = {"avg", "count"}
  /\ ~x.stale => /\ x.seen = rated[x.row.target]
                 /\ x.at = "flushed" => x.sum = Aggregate(reviews \cup {x.row}, x.row.target)

ReviewsInv ==
  /\ DOMAIN rated = Reviewed /\ DOMAIN form = Forms
  /\ AggregatesMatch
  /\ \A f \in Forms : form[f] # NoForm => FormFits(form[f])

-----------------------------------------------------------------------------
\* An aggregate is a pair, and looks at its target's reviews only.
LEMMA AggregateOfTarget ==
  ASSUME NEW rows, NEW t
  PROVE  /\ DOMAIN Aggregate(rows, t) = {"avg", "count"}
         /\ \A r : r.target # t => Aggregate(rows \cup {r}, t) = Aggregate(rows, t)
<1>1. DOMAIN Aggregate(rows, t) = {"avg", "count"}
  BY DEF Aggregate
<1>2. ASSUME NEW r, r.target # t
      PROVE  Aggregate(rows \cup {r}, t) = Aggregate(rows, t)
  <2>1. {x \in rows \cup {r} : x.target = t} = {x \in rows : x.target = t}
    BY <1>2
  <2> QED
    BY <2>1 DEF Aggregate
<1> QED
  BY <1>1, <1>2

\* No reviews, no rating.
LEMMA ReviewsStart == ReviewsInit => ReviewsInv
<1> SUFFICES ASSUME ReviewsInit PROVE ReviewsInv
  OBVIOUS
<1>1. \A t : Aggregate({}, t) = [avg |-> 0, count |-> 0]
  <2> SUFFICES ASSUME NEW t PROVE Aggregate({}, t) = [avg |-> 0, count |-> 0]
    OBVIOUS
  <2>1. {x \in {} : x.target = t} = {}
    OBVIOUS
  <2>2. Cardinality({}) = 0
    BY FS_EmptySet
  <2> QED
    BY <2>1, <2>2 DEF Aggregate
<1>2. AggregatesMatch
  BY <1>1 DEF ReviewsInit, AggregatesMatch
<1> QED
  BY <1>2 DEF ReviewsInit, ReviewsInv

\* A submission starts, computes its aggregate, or is rolled back.
LEMMA FormsKeep ==
  ASSUME ReviewsInv, NEW f \in Forms,
         UNCHANGED <<reviews, rated, overlaid>>,
         NEW x, form' = [form EXCEPT ![f] = x], x # NoForm => FormFits(x)
  PROVE  ReviewsInv'
<1>1. \A g \in Forms : form'[g] = IF g = f THEN x ELSE form[g]
  BY DEF ReviewsInv
<1>2. AggregatesMatch'
  BY Zenon DEF ReviewsInv, AggregatesMatch
<1>3. \A y : FormFits(y)' <=> FormFits(y)
  BY DEF FormFits
<1> QED
  BY <1>1, <1>2, <1>3 DEF ReviewsInv

\* The commit writes the aggregate it computed, unless it is stale, and makes
\* the others that reviewed the same target stale.
LEMMA ReviewCommitKeeps ==
  ASSUME ReviewsInv, NEW f \in Forms, CommitReview(f)
  PROVE  ReviewsInv'
<1> DEFINE x == form[f]
           t == x.row.target
<1>1. x.at = "flushed" /\ FormFits(x) /\ t \in Reviewed /\ x.stale \in BOOLEAN
  <2>1. x.at = "flushed" /\ x # NoForm
    BY DEF CommitReview, NoForm
  <2>2. FormFits(x)
    BY <2>1 DEF ReviewsInv
  <2> QED
    BY <2>1, <2>2 DEF FormFits
<1>2. /\ reviews' = reviews \cup {x.row} /\ DOMAIN rated' = Reviewed /\ DOMAIN form' = Forms
      /\ \A u \in Reviewed : u # t => rated'[u] = rated[u]
      /\ rated'[t] = [c \in DOMAIN x.sum |-> IF x.sum[c] # x.seen[c] THEN x.sum[c] ELSE rated[t][c]]
  BY <1>1 DEF CommitReview, ReviewsInv
<1>3. \A u : u # t => Aggregate(reviews', u) = Aggregate(reviews, u)
  BY <1>2, AggregateOfTarget
<1>4. ~x.stale => rated'[t] = Aggregate(reviews', t)
  <2> SUFFICES ASSUME ~x.stale PROVE rated'[t] = Aggregate(reviews', t)
    OBVIOUS
  <2>1. x.seen = rated[t] /\ x.sum = Aggregate(reviews', t)
    BY <1>1, <1>2 DEF FormFits
  <2>2. rated'[t] = [c \in DOMAIN x.sum |-> x.sum[c]]
    BY <1>2, <2>1
  <2>3. x.sum = [c \in DOMAIN x.sum |-> x.sum[c]]
    BY <2>1 DEF Aggregate
  <2> QED
    BY <2>1, <2>2, <2>3
<1>5. AggregatesMatch'
  <2> SUFFICES ASSUME NEW u \in Reviewed \ overlaid' PROVE rated'[u] = Aggregate(reviews', u)
    BY DEF AggregatesMatch, Reviewed
  <2>1. CASE u = t
    BY <1>1, <1>4, <2>1 DEF CommitReview
  <2>2. CASE u # t
    BY <1>1, <1>2, <1>3, <2>2 DEF CommitReview, ReviewsInv, AggregatesMatch
  <2> QED
    BY <2>1, <2>2
<1>6. ASSUME NEW g \in Forms, form'[g] # NoForm
      PROVE  FormFits(form[g])'
  <2> DEFINE y == form[g]
  <2>1. /\ g # f /\ y # NoForm /\ FormFits(y)
        /\ form'[g] = IF y.row.target = t THEN [y EXCEPT !.stale = TRUE] ELSE y
    BY <1>6 DEF CommitReview, ReviewsInv
  <2>2. CASE y.row.target = t
    <3> DEFINE z == [y EXCEPT !.stale = TRUE]
    <3>1. /\ z.stale = TRUE /\ DOMAIN z = DOMAIN y
          /\ z.at = y.at /\ z.row = y.row /\ z.sum = y.sum
      BY <2>1 DEF FormFits
    <3> HIDE DEF z
    <3>2. form'[g] = z
      BY <2>1, <2>2 DEF z
    <3> QED
      BY <2>1, <3>1, <3>2 DEF FormFits
  <2>3. CASE y.row.target # t
    <3>1. form'[g] = y /\ rated'[y.row.target] = rated[y.row.target]
      BY <1>2, <2>1, <2>3 DEF FormFits
    <3>2. Aggregate(reviews' \cup {y.row}, y.row.target) = Aggregate(reviews \cup {y.row}, y.row.target)
      <4>1. reviews' \cup {y.row} = (reviews \cup {y.row}) \cup {x.row}
        BY <1>2
      <4> QED
        BY <2>3, <4>1, AggregateOfTarget
    <3> QED
      BY <2>1, <3>1, <3>2 DEF FormFits
  <2> QED
    BY <2>2, <2>3
<1> QED
  BY <1>2, <1>5, <1>6 DEF ReviewsInv

\* Every step of a submission keeps the invariant.
LEMMA ReviewsSteps ==
  ASSUME ReviewsInv, [ReviewsNext]_reviewsVars
  PROVE  ReviewsInv'
<1>1. CASE UNCHANGED reviewsVars
  BY <1>1 DEF reviewsVars, ReviewsInv, AggregatesMatch, FormFits
<1>2. ASSUME NEW f \in Forms, NEW u \in Reviewers, NEW g \in Groups, NEW t \in Reviewed, NEW r \in Ratings,
             SubmitReview(f, u, g, t, r)
      PROVE  ReviewsInv'
  <2> DEFINE x == [at |-> "checked", seen |-> rated[t], stale |-> FALSE,
                   row |-> [id |-> forms + 1, by |-> u, group |-> g, target |-> t, rating |-> r]]
  <2>1. FormFits(x)
    BY DEF FormFits
  <2>2. UNCHANGED <<reviews, rated, overlaid>> /\ form' = [form EXCEPT ![f] = x]
    BY <1>2 DEF SubmitReview
  <2> QED
    BY <2>1, <2>2, FormsKeep
<1>3. ASSUME NEW f \in Forms, FlushReview(f)
      PROVE  ReviewsInv'
  <2> DEFINE y == form[f]
             t == y.row.target
             x == [at |-> "flushed", row |-> y.row, stale |-> y.stale /\ t = Firm,
                   seen |-> IF t = Firm THEN y.seen ELSE rated[t],
                   sum |-> Aggregate(reviews \cup {y.row}, t)]
  <2>1. y.at = "checked" /\ FormFits(y)
    BY <1>3 DEF FlushReview, ReviewsInv, NoForm
  <2>2. FormFits(x)
    BY <2>1, AggregateOfTarget DEF FormFits
  <2>3. UNCHANGED <<reviews, rated, overlaid>> /\ form' = [form EXCEPT ![f] = x]
    BY <1>3 DEF FlushReview
  <2> QED
    BY <2>2, <2>3, FormsKeep
<1>4. ASSUME NEW f \in Forms, RollbackReview(f)
      PROVE  ReviewsInv'
  BY <1>4, FormsKeep DEF RollbackReview
<1> QED
  BY <1>1, <1>2, <1>3, <1>4, ReviewCommitKeeps DEF ReviewsNext

\* AggregatesMatch: the rating and the count of an agency and of a traveller
\* are those of their reviews, except while the last of them overlapped
\* another.
THEOREM RatingsFollowReviews == ReviewsSpec => []AggregatesMatch
<1>1. ReviewsInv /\ [ReviewsNext]_reviewsVars => ReviewsInv'
  BY ReviewsSteps
<1>2. ReviewsInv => AggregatesMatch
  BY DEF ReviewsInv
<1> QED
  BY <1>1, <1>2, ReviewsStart, PTL DEF ReviewsSpec

-----------------------------------------------------------------------------
(* Invoicing: the row, its invoice, PDFs and receipt. *)

\* The charge adds up, and spends no more of the wallet than it may.
Sums(b) ==
  /\ AddsUp(UserInvoiceData(b))
  /\ b.wallet <= UsableCredit(b.price, Credit)

\* A document is rendered once: it is kept, or it is rendered from what the
\* request leaves of the payment, or still missing.
Rendered(had, now, from) == IF had = Nothing THEN now \in {Nothing, from} ELSE now = had
PdfsOf(i) == IF i = Nothing THEN [user |-> Nothing, agency |-> Nothing]
             ELSE [user |-> i.userPdf, agency |-> i.agencyPdf]

CheckoutFits(j) ==
  /\ j.was.status \in {"PENDING", "FAILED"} /\ j.new.status = "PENDING"
  /\ Sums(j.new)

\* Only a checkout changes what is charged, only a capture the status.
AskedFits(j) ==
  /\ ChargeOf(j.new) = ChargeOf(j.was)
  /\ j.kind = "capture" => j.was.status \in {"PENDING", "FAILED"} /\ j.new.status = "CAPTURED"
  /\ j.kind # "capture" => j.new.status = j.was.status

FlushedFits(j) ==
  /\ j.had \in Invoices \cup {Nothing} /\ j.invoice \in Invoices
  /\ j.invoice.status = j.new.status /\ j.invoice.total = j.new.amount
  /\ Rendered(PdfsOf(j.had).user, j.invoice.userPdf, UserInvoiceData(j.new))
  /\ Rendered(PdfsOf(j.had).agency, j.invoice.agencyPdf, AgencySettlementData(j.new))

VisitFits(j) ==
  /\ j.at \in {"checkout", "asked", "flushed"}
  /\ j.was \in Bills /\ j.new \in Bills
  /\ j.at = "checkout" => CheckoutFits(j)
  /\ j.at \in {"asked", "flushed"} => AskedFits(j)
  /\ j.at = "flushed" => FlushedFits(j)

VisitsFit == DOMAIN visit = Desks /\ \A d \in Desks : visit[d] = NoVisit \/ VisitFits(visit[d])

\* While nothing overlapped and nobody rendered early, the documents of a
\* payment that is not captured are missing.
PdfsTell(i, b) ==
  /\ i.userPdf \in {Nothing, UserInvoiceData(b)}
  /\ i.agencyPdf # Nothing => i.agencyPdf.net = AgencySettlementData(b).net
PdfsFollow ==
  ~passed /\ ~early /\ invoice # Nothing =>
    /\ bill.status \in {"PENDING", "FAILED"} => invoice.userPdf = Nothing /\ invoice.agencyPdf = Nothing
    /\ bill.status = "CAPTURED" => PdfsTell(invoice, bill)

\* Who may send a receipt: a capture did, or is about to, or was undone.
Capturing(j) == j # NoVisit /\ j.at = "flushed" /\ j.kind = "capture"
Owed ==
  \/ bill.status \in {"CAPTURED", "REFUNDED"} \/ undone \/ passed
  \/ \E d \in Desks : Capturing(visit[d])
Sending(j) == j # NoVisit /\ j.at \in {"asked", "flushed"} /\ j.kind = "receipt"
ReceiptsOwed ==
  receipts.waiting > 0 \/ receipts.sent > 0 \/ (\E d \in Desks : Sending(visit[d])) => Owed

\* Invoices are not deleted.
HadStays == \A d \in Desks : visit[d].at = "flushed" /\ visit[d].had # Nothing => invoice # Nothing

InvoicingInv ==
  /\ InvoicingTypeOK /\ VisitsFit /\ HadStays
  /\ ~mixed => Sums(bill)
  /\ InvoiceFollowsCapture /\ PdfsFollow /\ ReceiptsOwed
-----------------------------------------------------------------------------
\* The larger of two numbers, and the least of some.
LEMMA LargerOfTwo ==
  ASSUME NEW a \in Int, NEW b \in Int
  PROVE  Max({a, b}) = IF a >= b THEN a ELSE b
<1>1. \E x \in {a, b} : \A y \in {a, b} : x >= y
  OBVIOUS
<1> QED
  BY <1>1 DEF Max

\* The smaller of two numbers.
LEMMA SmallerOfTwo ==
  ASSUME NEW a \in Int, NEW b \in Int
  PROVE  Min({a, b}) = IF a <= b THEN a ELSE b
<1>1. \E x \in {a, b} : \A y \in {a, b} : x =< y
  OBVIOUS
<1> QED
  BY <1>1 DEF Min

\* The least of three numbers is one of them.
LEMMA LeastOfThree ==
  ASSUME NEW a \in Int, NEW b \in Int, NEW c \in Int
  PROVE  Min({a, b, c}) \in {a, b, c}
<1>1. \E x \in {a, b, c} : \A y \in {a, b, c} : x =< y
  OBVIOUS
<1> QED
  BY <1>1 DEF Min

\* GST is a twentieth of the trip, the commission a tenth: nothing is rounded.
LEMMA BreakdownIsExact ==
  ASSUME NEW price \in Nat
  PROVE  /\ ComputeBreakdown(price).total = 105 * price
         /\ ComputeBreakdown(price).net = 90 * price
<1>1. (100 * price * 5) \div 100 = 5 * price /\ (100 * price * 10) \div 100 = 10 * price
  OBVIOUS
<1> QED
  BY <1>1 DEF ComputeBreakdown

\* The wallet pays at most half of the trip, and at most what is in it.
LEMMA WalletShare ==
  ASSUME NEW price \in Nat, NEW balance \in Nat
  PROVE  /\ UsableCredit(price, balance) \in 0..balance
         /\ UsableCredit(price, balance) = IF balance <= price \div 2 THEN balance ELSE price \div 2
<1>1. price \div 2 \in Nat
  OBVIOUS
<1>2. PICK h : h = price \div 2
  OBVIOUS
<1>3. Min({balance, h}) = IF balance <= h THEN balance ELSE h
  BY <1>1, <1>2, SmallerOfTwo
<1>4. Max({0, Min({balance, h})}) = IF balance <= h THEN balance ELSE h
  BY <1>1, <1>2, <1>3, LargerOfTwo
<1> QED
  BY <1>1, <1>2, <1>4 DEF UsableCredit

\* A code never adds to the charge.
LEMMA DiscountIsNatural ==
  ASSUME InvoicingAssumption, NEW code \in Codes \cup {Nothing}, NEW gross \in Nat
  PROVE  PromoDiscount(code, gross) \in Nat
<1>1. CASE code = Nothing
  BY <1>1 DEF PromoDiscount
<1>2. CASE code # Nothing
  <2>1. code \in [percent : BOOLEAN, value : Nat, cap : Nat, least : Nat]
    BY <1>2 DEF InvoicingAssumption
  <2>2. PICK product : product = gross * code.value
    OBVIOUS
  <2>3. product \in Nat
    BY <2>1, <2>2
  <2>4. PICK asked : asked = IF code.percent THEN product \div 100 ELSE code.value
    OBVIOUS
  <2>5. asked \in Int
    BY <2>1, <2>3, <2>4
  <2>6. PICK least : least = Min({asked, code.cap, gross})
    OBVIOUS
  <2>7. least \in Int
    BY <2>1, <2>5, <2>6, LeastOfThree
  <2>8. Max({0, least}) \in Nat
    BY <2>7, LargerOfTwo
  <2>9. PromoDiscount(code, gross) \in {0, Max({0, least})}
    BY <2>2, <2>4, <2>6 DEF PromoDiscount
  <2> QED
    BY <2>8, <2>9
<1> QED
  BY <1>1, <1>2

\* At least a rupee, and the price less its discounts.
LEMMA FinalAmountIs ==
  ASSUME NEW gross \in Nat, NEW credit \in Nat, NEW rebate \in Nat,
         NEW spent \in Nat, spent = 100 * credit + rebate
  PROVE  /\ FinalAmount(gross, credit, rebate) = IF gross - spent <= 100 THEN 100 ELSE gross - spent
         /\ FinalAmount(gross, credit, rebate) \in Nat \ 0..99
<1>1. PICK left : left = gross - 100 * credit - rebate
  OBVIOUS
<1>2. left \in Int /\ left = gross - spent
  BY <1>1
<1>3. Max({100, left}) = IF left <= 100 THEN 100 ELSE left
  BY <1>2, LargerOfTwo
<1>4. FinalAmount(gross, credit, rebate) = Max({100, left})
  BY <1>1, Zenon DEF FinalAmount
<1> QED
  BY <1>2, <1>3, <1>4

\* Wallet and code together are one discount.
LEMMA OneDiscount ==
  ASSUME NEW gross \in Nat, NEW credit \in Nat, NEW rebate \in Nat
  PROVE  FinalAmount(gross, credit, rebate) = FinalAmount(gross, 0, 100 * credit + rebate)
<1>1. gross - 100 * credit - rebate = gross - 100 * 0 - (100 * credit + rebate)
  OBVIOUS
<1> QED
  BY <1>1, Zenon DEF FinalAmount

\* Who spends some of the credit pays between who spends all and who spends none.
LEMMA MoreCreditCharges ==
  ASSUME NEW gross \in Nat, NEW most \in Nat, NEW used \in Nat, used <= most
  PROVE  FinalAmount(gross, 0, 100 * used) \in FinalAmount(gross, most, 0)..FinalAmount(gross, 0, 0)
<1> DEFINE left(spent) == IF gross - spent <= 100 THEN 100 ELSE gross - spent
<1>1. 0 \in Nat /\ 100 * used \in Nat /\ 100 * most \in Nat /\ 100 * used <= 100 * most
  OBVIOUS
<1>2. FinalAmount(gross, most, 0) = left(100 * most)
  BY <1>1, FinalAmountIs
<1>3. FinalAmount(gross, 0, 100 * used) = left(100 * used)
  <2>1. PICK w \in Nat : w = 100 * used
    BY <1>1
  <2>2. w = 100 * 0 + w
    OBVIOUS
  <2>3. FinalAmount(gross, 0, w) = left(w)
    BY <1>1, <2>2, FinalAmountIs
  <2> QED
    BY <2>1, <2>3
<1>4. FinalAmount(gross, 0, 0) = left(0)
  BY <1>1, FinalAmountIs
<1> QED
  BY <1>1, <1>2, <1>3, <1>4

-----------------------------------------------------------------------------
\* What a row's sums say of its columns.
LEMMA SumsAre ==
  ASSUME NEW b \in Bills
  PROVE  Sums(b) <=> /\ b.amount = FinalAmount(ComputeBreakdown(b.price).total, 0, 100 * b.wallet + b.promo)
                     /\ b.wallet <= UsableCredit(b.price, Credit)
  BY DEF Sums, AddsUp, UserInvoiceData

\* A checkout charges what adds up, whatever the wallet and the code.
LEMMA ChargeSums ==
  ASSUME InvoicingAssumption, NEW price \in Rates, NEW credit \in {0, Credit},
         NEW code \in Codes \cup {Nothing}, NEW status \in BillStatus, NEW escrow \in Escrow
  PROVE  /\ BillRow(status, escrow, Charge(price, credit, code)) \in Bills
         /\ Sums(BillRow(status, escrow, Charge(price, credit, code)))
<1>1. price \in Nat /\ credit \in Nat /\ Credit \in Nat /\ credit <= Credit
  BY DEF InvoicingAssumption
<1>2. PICK gross : gross = ComputeBreakdown(price).total
  OBVIOUS
<1>3. gross \in Nat
  BY <1>1, <1>2, BreakdownIsExact
<1>4. PICK used : used = UsableCredit(price, credit)
  OBVIOUS
<1>5. used \in 0..Credit /\ used <= UsableCredit(price, Credit)
  <2>1. PICK half : half = price \div 2
    OBVIOUS
  <2>2. half \in Nat
    BY <1>1, <2>1
  <2>3. /\ used \in 0..credit /\ used = IF credit <= half THEN credit ELSE half
        /\ UsableCredit(price, Credit) = IF Credit <= half THEN Credit ELSE half
    BY <1>1, <1>4, <2>1, WalletShare
  <2> QED
    BY <1>1, <2>2, <2>3
<1>6. PICK rebate : rebate = PromoDiscount(code, gross)
  OBVIOUS
<1>7. rebate \in Nat
  BY <1>3, <1>6, DiscountIsNatural
<1>8. PICK amount : amount = FinalAmount(gross, used, rebate)
  OBVIOUS
<1>9. amount \in Nat \ 0..99 /\ amount = FinalAmount(gross, 0, 100 * used + rebate)
  <2>1. 100 * used + rebate \in Nat /\ used \in Nat
    BY <1>1, <1>5, <1>7
  <2> QED
    BY <1>3, <1>7, <1>8, <2>1, FinalAmountIs, OneDiscount
<1>10. PICK b : b = [status |-> status, escrow |-> escrow, price |-> price, wallet |-> used,
                     promo |-> rebate, amount |-> amount]
  OBVIOUS
<1>11. BillRow(status, escrow, Charge(price, credit, code)) = b
  BY <1>2, <1>4, <1>6, <1>8, <1>10, Zenon DEF BillRow, Charge
<1>12. b \in Bills
  BY <1>5, <1>7, <1>9, <1>10 DEF Bills
<1>13. Sums(b)
  BY <1>2, <1>5, <1>9, <1>10, <1>12, SumsAre
<1> QED
  BY <1>11, <1>12, <1>13

\* Columns written one by one leave a row of the table; nothing else is left
\* than the new row where the request had seen what it writes over.
LEMMA WrittenBill ==
  ASSUME NEW now \in Bills, NEW was \in Bills, NEW new \in Bills
  PROVE  /\ Written(now, was, new) \in Bills
         /\ now = was => Written(now, was, new) = new
         /\ ChargeOf(now) = ChargeOf(was) => ChargeOf(Written(now, was, new)) = ChargeOf(new)
         /\ ChargeOf(new) = ChargeOf(was) => ChargeOf(Written(now, was, new)) = ChargeOf(now)
<1>1. PICK w : w = Written(now, was, new)
  OBVIOUS
<1>2. w = [c \in {"status", "escrow", "price", "wallet", "promo", "amount"} |->
             IF new[c] # was[c] THEN new[c] ELSE now[c]]
  BY <1>1 DEF Written, Bills
<1>3. /\ w \in Bills
      /\ now = was => w = new
  BY <1>2 DEF Bills
<1>4. /\ w.price = IF new.price # was.price THEN new.price ELSE now.price
      /\ w.wallet = IF new.wallet # was.wallet THEN new.wallet ELSE now.wallet
      /\ w.promo = IF new.promo # was.promo THEN new.promo ELSE now.promo
      /\ w.amount = IF new.amount # was.amount THEN new.amount ELSE now.amount
  BY <1>2
<1>5. /\ ChargeOf(now) = ChargeOf(was) => ChargeOf(w) = ChargeOf(new)
      /\ ChargeOf(new) = ChargeOf(was) => ChargeOf(w) = ChargeOf(now)
  BY <1>4 DEF ChargeOf
<1> QED
  BY <1>1, <1>3, <1>5

\* The same of the invoice.
LEMMA WrittenInvoice ==
  ASSUME NEW now \in Invoices, NEW was \in Invoices, NEW new \in Invoices
  PROVE  /\ Written(now, was, new) \in Invoices
         /\ now = was => Written(now, was, new) = new
<1>1. PICK w : w = Written(now, was, new)
  OBVIOUS
<1>2. w = [c \in {"status", "price", "total", "userPdf", "agencyPdf"} |->
             IF new[c] # was[c] THEN new[c] ELSE now[c]]
  BY <1>1 DEF Written, Invoices
<1>3. /\ w \in Invoices
      /\ now = was => w = new
  BY <1>2 DEF Invoices
<1> QED
  BY <1>1, <1>3

\* A charge's columns decide its sums.
LEMMA ChargeDecides ==
  ASSUME NEW b \in Bills, NEW c \in Bills, ChargeOf(b) = ChargeOf(c)
  PROVE  Sums(b) <=> Sums(c)
<1>1. b.price = c.price /\ b.wallet = c.wallet /\ b.promo = c.promo /\ b.amount = c.amount
  BY DEF ChargeOf
<1> QED
  BY <1>1, SumsAre

\* A document's data are documents.
LEMMA DocumentsTyped ==
  ASSUME InvoicingAssumption, NEW b \in Bills
  PROVE  UserInvoiceData(b) \in UserPdfs /\ AgencySettlementData(b) \in AgencyPdfs
<1>1. b.price \in Nat
  BY DEF Bills, InvoicingAssumption
<1>2. PICK gross : gross = ComputeBreakdown(b.price).total
  OBVIOUS
<1>3. PICK net : net = ComputeBreakdown(b.price).net
  OBVIOUS
<1>4. gross \in Nat /\ net \in Nat
  BY <1>1, <1>2, <1>3, BreakdownIsExact
<1>5. UserInvoiceData(b) \in UserPdfs
  BY <1>2, <1>4 DEF UserInvoiceData, UserPdfs, Bills, InvoicingAssumption
<1>6. AgencySettlementData(b) \in AgencyPdfs
  BY <1>3, <1>4 DEF AgencySettlementData, AgencyPdfs, Bills
<1> QED
  BY <1>5, <1>6

\* The invoice a request leaves says what the payment's row will say, and
\* renders what is missing.
LEMMA FlushFits ==
  ASSUME InvoicingAssumption, NothingIsNoRow, NEW had \in Invoices \cup {Nothing}, NEW b \in Bills,
         NEW new \in EnsureInvoicePdfs(EnsureInvoice(had, b), b) \cup {EnsureInvoice(had, b)}
  PROVE  /\ new \in Invoices /\ new.status = b.status /\ new.total = b.amount
         /\ Rendered(PdfsOf(had).user, new.userPdf, UserInvoiceData(b))
         /\ Rendered(PdfsOf(had).agency, new.agencyPdf, AgencySettlementData(b))
<1>1. PICK base : base = EnsureInvoice(had, b)
  OBVIOUS
<1>2. /\ base \in Invoices /\ base.status = b.status /\ base.total = b.amount
      /\ base.userPdf = PdfsOf(had).user /\ base.agencyPdf = PdfsOf(had).agency
  <2>1. CASE had = Nothing
    BY <1>1, <2>1 DEF EnsureInvoice, IssuedFor, PdfsOf, Invoices, Bills
  <2>2. CASE had # Nothing
    <3>1. had \in Invoices
      BY <2>2
    <3>2. base = [had EXCEPT !.status = b.status, !.price = b.price, !.total = b.amount]
      BY <1>1, <2>2 DEF EnsureInvoice
    <3> QED
      BY <2>2, <3>1, <3>2 DEF PdfsOf, Invoices, Bills
  <2> QED
    BY <2>1, <2>2
<1>3. CASE new = base
  BY <1>2, <1>3 DEF Rendered
<1>4. CASE new \in EnsureInvoicePdfs(base, b)
  <2>1. PICK u \in Renderings(base.userPdf, UserInvoiceData(b)) :
          \E y \in Renderings(base.agencyPdf, AgencySettlementData(b)) : new = WithPdfs(base, u, y)
    BY <1>4 DEF EnsureInvoicePdfs
  <2>10. PICK a \in Renderings(base.agencyPdf, AgencySettlementData(b)) : new = WithPdfs(base, u, a)
    BY <2>1
  <2>2. u \in UserPdfs \cup {Nothing} /\ a \in AgencyPdfs \cup {Nothing}
    BY <1>2, DocumentsTyped DEF Invoices, Renderings
  <2>3. new \in Invoices /\ new.status = base.status /\ new.total = base.total
        /\ new.userPdf = u /\ new.agencyPdf = a
    BY <1>2, <2>10, <2>2 DEF Invoices, WithPdfs
  <2> QED
    BY <1>2, <2>3 DEF Rendered, Renderings
<1> QED
  BY <1>1, <1>3, <1>4

-----------------------------------------------------------------------------
\* The first checkout.
LEMMA InvoicingStart == InvoicingInit => InvoicingInv
<1> SUFFICES ASSUME InvoicingInit PROVE InvoicingInv
  OBVIOUS
<1>1. bill \in Bills /\ Sums(bill)
  BY InvoicingAssumption, ChargeSums DEF InvoicingInit, BillStatus, Escrow
<1>2. bill.status = "PENDING"
  BY DEF InvoicingInit, BillRow
<1>3. InvoicingTypeOK
  BY <1>1, InvoicingAssumption DEF InvoicingInit, InvoicingTypeOK
<1>4. VisitsFit /\ HadStays
  BY DEF InvoicingInit, VisitsFit, HadStays, NoVisit
<1>5. InvoiceFollowsCapture /\ PdfsFollow
  BY <1>2 DEF InvoicingInit, InvoiceFollowsCapture, PdfsFollow
<1>6. ReceiptsOwed
  BY DEF InvoicingInit, ReceiptsOwed, Sending
<1> QED
  BY <1>1, <1>3, <1>4, <1>5, <1>6 DEF InvoicingInv

\* One desk's visit moves on.
LEMMA OneDesk ==
  ASSUME VisitsFit, NEW d \in Desks, NEW j, j = NoVisit \/ VisitFits(j),
         visit' = [visit EXCEPT ![d] = j]
  PROVE  VisitsFit' /\ visit'[d] = j /\ \A e \in Desks \ {d} : visit'[e] = visit[e]
<1>1. DOMAIN visit' = Desks /\ visit'[d] = j /\ \A e \in Desks \ {d} : visit'[e] = visit[e]
  BY DEF VisitsFit
<1>2. ASSUME NEW e \in Desks
      PROVE  visit'[e] = NoVisit \/ VisitFits(visit'[e])
  BY <1>1, <1>2 DEF VisitsFit
<1> QED
  BY <1>1, <1>2 DEF VisitsFit

\* A request comes in that is neither a capture about to commit nor, unless
\* one waited, a receipt.
LEMMA ArrivalKeeps ==
  ASSUME InvoicingInv, NEW d \in Desks, NEW j, VisitFits(j), j.at \in {"checkout", "asked"},
         Arrive(d, j), receipts' \in [waiting : Nat, sent : Nat], receipts'.sent = receipts.sent,
         receipts'.waiting > 0 => receipts.waiting > 0,
         Sending(j) => receipts.waiting > 0,
         UNCHANGED <<rate, bill, invoice, mixed, passed, early, undone>>
  PROVE  InvoicingInv'
<1>1. visit[d] = NoVisit /\ visits' = visits - 1 /\ visits > 0 /\ visit' = [visit EXCEPT ![d] = j]
  BY DEF Arrive
<1>2. VisitsFit' /\ visit'[d] = j /\ \A e \in Desks \ {d} : visit'[e] = visit[e]
  BY <1>1, OneDesk DEF InvoicingInv
<1>3. InvoicingTypeOK'
  BY <1>1, InvoicingAssumption DEF InvoicingInv, InvoicingTypeOK
<1>4. HadStays'
  BY <1>2 DEF InvoicingInv, HadStays
<1>5. (~mixed => Sums(bill))' /\ InvoiceFollowsCapture' /\ PdfsFollow'
  BY DEF InvoicingInv, InvoiceFollowsCapture, PdfsFollow
<1>6. ReceiptsOwed'
  <2>1. SUFFICES ASSUME (receipts.waiting > 0 \/ receipts.sent > 0 \/ (\E e \in Desks : Sending(visit[e])))'
                 PROVE  Owed'
    BY DEF ReceiptsOwed
  <2>2. receipts.waiting > 0 \/ receipts.sent > 0 \/ (\E e \in Desks : Sending(visit[e]))
    BY <1>2, <2>1
  <2>3. Owed
    BY <2>2 DEF InvoicingInv, ReceiptsOwed
  <2>4. ~Capturing(visit[d])
    BY <1>1 DEF Capturing
  <2> QED
    BY <1>2, <2>3, <2>4 DEF Owed
<1> QED
  BY <1>2, <1>3, <1>4, <1>5, <1>6 DEF InvoicingInv

\* A checkout loads the row and prices it.
LEMMA CheckoutArrives ==
  ASSUME InvoicingInv, NEW d \in Desks, NEW credit \in BOOLEAN, NEW code \in Codes \cup {Nothing},
         PricePaymentOrder(d, credit, code)
  PROVE  InvoicingInv'
<1>1. PICK new : new = BillRow("PENDING", bill.escrow, Charge(rate, IF credit THEN Credit ELSE 0, code))
  OBVIOUS
<1>2. bill \in Bills /\ rate \in Rates
  BY DEF InvoicingInv, InvoicingTypeOK
<1>3. new \in Bills /\ Sums(new) /\ new.status = "PENDING"
  <2>1. bill.escrow \in Escrow /\ "PENDING" \in BillStatus
    BY <1>2 DEF Bills, BillStatus
  <2>2. PICK balance \in {0, Credit} : balance = IF credit THEN Credit ELSE 0
    OBVIOUS
  <2>3. new = BillRow("PENDING", bill.escrow, Charge(rate, balance, code))
    BY <1>1, <2>2
  <2>4. new \in Bills /\ Sums(new)
    BY <1>2, <2>1, <2>3, InvoicingAssumption, ChargeSums
  <2> QED
    BY <2>3, <2>4 DEF BillRow
<1>4. PICK j : j = [at |-> "checkout", was |-> bill, new |-> new]
  OBVIOUS
<1>5. Arrive(d, j) /\ bill.status \in {"PENDING", "FAILED"}
      /\ UNCHANGED <<rate, bill, invoice, receipts, mixed, passed, early, undone>>
  BY <1>1, <1>4 DEF PricePaymentOrder
<1>6. j.at = "checkout" /\ j.was = bill /\ j.new = new
  BY <1>4
<1>7. VisitFits(j)
  BY <1>2, <1>3, <1>5, <1>6 DEF VisitFits, CheckoutFits
<1>8. ~Sending(j)
  BY <1>6 DEF Sending
<1>9. receipts \in [waiting : Nat, sent : Nat]
  BY DEF InvoicingInv, InvoicingTypeOK
<1> QED
  BY <1>5, <1>6, <1>7, <1>8, <1>9, ArrivalKeeps

\* A request that will bring the invoice up to date loads the row.
LEMMA AskKeeps ==
  ASSUME InvoicingInv, NEW d \in Desks, NEW kind, NEW new \in Bills, NEW pdfs,
         Ask(d, kind, new, pdfs), ChargeOf(new) = ChargeOf(bill),
         kind = "capture" => bill.status \in {"PENDING", "FAILED"} /\ new.status = "CAPTURED",
         kind # "capture" => new.status = bill.status,
         receipts' \in [waiting : Nat, sent : Nat], receipts'.sent = receipts.sent,
         receipts'.waiting > 0 => receipts.waiting > 0,
         kind = "receipt" => receipts.waiting > 0
  PROVE  InvoicingInv'
<1>1. bill \in Bills
  BY DEF InvoicingInv, InvoicingTypeOK
<1>2. PICK j : j = [at |-> "asked", kind |-> kind, was |-> bill, new |-> new, pdfs |-> pdfs]
  OBVIOUS
<1>3. Arrive(d, j) /\ UNCHANGED <<rate, bill, invoice, mixed, passed, early, undone>>
  BY <1>2 DEF Ask
<1>4. j.at = "asked" /\ j.was = bill /\ j.new = new /\ j.kind = kind
  BY <1>2
<1>5. VisitFits(j)
  BY <1>1, <1>4 DEF VisitFits, AskedFits
<1>6. Sending(j) => receipts.waiting > 0
  BY <1>4 DEF Sending
<1> QED
  BY <1>3, <1>4, <1>5, <1>6, ArrivalKeeps

\* The requests that ask.
LEMMA RequestsAsk ==
  ASSUME InvoicingInv, NEW d \in Desks,
         \/ InvoiceCapture(d) \/ ExecuteAgencyPayout(d)
         \/ ListUserInvoices(d) \/ ListAgencyInvoices(d) \/ GetInvoicePdf(d) \/ SendReceipt(d)
  PROVE  InvoicingInv'
<1>1. bill \in Bills /\ receipts \in [waiting : Nat, sent : Nat]
  BY DEF InvoicingInv, InvoicingTypeOK
<1>2. CASE InvoiceCapture(d)
  <2>1. PICK new : new = [bill EXCEPT !.status = "CAPTURED"]
    OBVIOUS
  <2>2. new \in Bills /\ new.status = "CAPTURED" /\ ChargeOf(new) = ChargeOf(bill)
    BY <1>1, <2>1 DEF Bills, BillStatus, ChargeOf
  <2>3. Ask(d, "capture", new, TRUE) /\ bill.status \in {"PENDING", "FAILED"} /\ UNCHANGED receipts
    BY <1>2, <2>1 DEF InvoiceCapture
  <2> QED
    BY <1>1, <2>2, <2>3, AskKeeps
<1>3. CASE ExecuteAgencyPayout(d)
  <2>1. PICK new : new = [bill EXCEPT !.escrow = "RELEASED"]
    OBVIOUS
  <2>2. new \in Bills /\ new.status = bill.status /\ ChargeOf(new) = ChargeOf(bill)
    BY <1>1, <2>1 DEF Bills, Escrow, ChargeOf
  <2>3. Ask(d, "payout", new, FALSE) /\ UNCHANGED receipts
    BY <1>3, <2>1 DEF ExecuteAgencyPayout
  <2> QED
    BY <1>1, <2>2, <2>3, AskKeeps
<1>4. CASE ListUserInvoices(d) \/ ListAgencyInvoices(d) \/ GetInvoicePdf(d)
  <2>1. PICK pdfs : Ask(d, "read", bill, pdfs) /\ UNCHANGED receipts
    BY <1>4 DEF ListUserInvoices, ListAgencyInvoices, GetInvoicePdf
  <2> QED
    BY <1>1, <2>1, AskKeeps
<1>5. CASE SendReceipt(d)
  <2>1. receipts.waiting > 0 /\ Ask(d, "receipt", bill, TRUE)
    BY <1>5 DEF SendReceipt
  <2>2. receipts' \in [waiting : Nat, sent : Nat] /\ receipts'.sent = receipts.sent
    BY <1>1, <1>5 DEF SendReceipt
  <2> QED
    BY <1>1, <2>1, <2>2, AskKeeps
<1> QED
  BY <1>2, <1>3, <1>4, <1>5

\* The price of the trip changes, or the gateway reports: the rows say what
\* they said, and a refund leaves nothing to say.
LEMMA EventsKeep ==
  ASSUME InvoicingInv,
         \/ \E p \in Rates : PriceChanges(p)
         \/ \E s \in {"FAILED", "REFUNDED"} : Webhook(s)
  PROVE  InvoicingInv'
<1>1. bill \in Bills /\ visits \in Nat
  BY InvoicingAssumption DEF InvoicingInv, InvoicingTypeOK
<1>2. CASE \E p \in Rates : PriceChanges(p)
  <2>1. PICK p \in Rates : PriceChanges(p)
    BY <1>2
  <2>2. rate' \in Rates /\ visits' \in 0..MaxVisits
        /\ UNCHANGED <<bill, invoice, visit, receipts, mixed, passed, early, undone>>
    BY <2>1, InvoicingAssumption DEF PriceChanges, InvoicingInv, InvoicingTypeOK
  <2>3. InvoicingTypeOK'
    BY <2>2 DEF InvoicingInv, InvoicingTypeOK
  <2>4. VisitsFit' /\ HadStays' /\ (~mixed => Sums(bill))' /\ InvoiceFollowsCapture' /\ PdfsFollow'
    BY <2>2 DEF InvoicingInv, VisitsFit, HadStays, InvoiceFollowsCapture, PdfsFollow
  <2>5. ReceiptsOwed'
    BY <2>2 DEF InvoicingInv, ReceiptsOwed, Owed
  <2> QED
    BY <2>3, <2>4, <2>5 DEF InvoicingInv
<1>3. CASE \E s \in {"FAILED", "REFUNDED"} : Webhook(s)
  <2>1. PICK s \in {"FAILED", "REFUNDED"} : Webhook(s)
    BY <1>3
  <2>2. /\ UNCHANGED <<rate, invoice, visit, visits, receipts, mixed, passed, early, undone>>
        /\ \/ bill.status = "PENDING" /\ s = "FAILED"
           \/ bill.status = "CAPTURED" /\ s = "REFUNDED"
        /\ bill' = [bill EXCEPT !.status = s, !.escrow = IF s = "REFUNDED" THEN s ELSE @]
    BY <2>1 DEF Webhook
  <2>3. bill' \in Bills /\ bill'.status = s /\ ChargeOf(bill') = ChargeOf(bill)
    BY <1>1, <2>2 DEF Bills, BillStatus, Escrow, ChargeOf
  <2>4. InvoicingTypeOK'
    BY <2>2, <2>3 DEF InvoicingInv, InvoicingTypeOK
  <2>5. VisitsFit' /\ HadStays'
    BY <2>2 DEF InvoicingInv, VisitsFit, HadStays
  <2>6. ~mixed' => Sums(bill')
    BY <1>1, <2>2, <2>3, ChargeDecides DEF InvoicingInv
  <2>7. InvoiceFollowsCapture' /\ PdfsFollow'
    BY <2>2, <2>3 DEF InvoicingInv, InvoiceFollowsCapture, PdfsFollow
  <2>8. ReceiptsOwed'
    BY <2>2, <2>3 DEF InvoicingInv, ReceiptsOwed, Owed
  <2> QED
    BY <2>4, <2>5, <2>6, <2>7, <2>8 DEF InvoicingInv
<1> QED
  BY <1>2, <1>3

\* A checkout commits: it is never a captured row it has seen.
LEMMA CommitPriceKeeps ==
  ASSUME InvoicingInv, NEW d \in Desks, CommitPrice(d)
  PROVE  InvoicingInv'
<1>1. PICK j : j = visit[d]
  OBVIOUS
<1>2. /\ j.at = "checkout" /\ visit' = [visit EXCEPT ![d] = NoVisit]
      /\ bill' = Written(bill, j.was, j.new)
      /\ mixed' = (mixed \/ ChargeOf(bill) # ChargeOf(j.was))
      /\ passed' = (passed \/ bill # j.was)
      /\ UNCHANGED <<rate, invoice, visits, receipts, early, undone>>
  BY <1>1 DEF CommitPrice, Leave
<1>3. VisitFits(j)
  BY <1>1, <1>2 DEF InvoicingInv, VisitsFit, NoVisit
<1>4. bill \in Bills /\ j.was \in Bills /\ j.new \in Bills /\ CheckoutFits(j)
  BY <1>2, <1>3 DEF VisitFits, InvoicingInv, InvoicingTypeOK
<1>5. bill' \in Bills /\ (bill = j.was => bill' = j.new)
      /\ (ChargeOf(bill) = ChargeOf(j.was) => ChargeOf(bill') = ChargeOf(j.new))
  BY <1>2, <1>4, WrittenBill
<1>6. VisitsFit' /\ visit'[d] = NoVisit /\ \A e \in Desks \ {d} : visit'[e] = visit[e]
  BY <1>2, OneDesk DEF InvoicingInv
<1>7. InvoicingTypeOK'
  BY <1>2, <1>5 DEF InvoicingInv, InvoicingTypeOK
<1>8. HadStays'
  BY <1>2, <1>6 DEF InvoicingInv, HadStays, NoVisit
<1>9. ~mixed' => Sums(bill')
  BY <1>2, <1>4, <1>5, ChargeDecides DEF CheckoutFits
<1>10. ~passed' => ~passed /\ bill = j.was /\ bill' = j.new
  BY <1>2, <1>5
<1>11. InvoiceFollowsCapture' /\ PdfsFollow'
  BY <1>2, <1>4, <1>10 DEF InvoicingInv, InvoiceFollowsCapture, PdfsFollow, CheckoutFits
<1>12. ReceiptsOwed'
  <2>1. SUFFICES ASSUME (receipts.waiting > 0 \/ receipts.sent > 0 \/ (\E e \in Desks : Sending(visit[e])))',
                        ~passed'
                 PROVE  Owed'
    BY DEF ReceiptsOwed, Owed
  <2>2. receipts.waiting > 0 \/ receipts.sent > 0 \/ (\E e \in Desks : Sending(visit[e]))
    BY <1>2, <1>6, <2>1 DEF Sending
  <2>3. Owed
    BY <2>2 DEF InvoicingInv, ReceiptsOwed
  <2>4. ~Capturing(visit[d])
    BY <1>1, <1>2 DEF Capturing
  <2>5. bill.status \notin {"CAPTURED", "REFUNDED"}
    BY <1>4, <1>10, <2>1 DEF CheckoutFits
  <2> QED
    BY <1>2, <1>6, <1>10, <2>1, <2>3, <2>4, <2>5 DEF Owed
<1> QED
  BY <1>6, <1>7, <1>8, <1>9, <1>11, <1>12 DEF InvoicingInv

\* A request flushes the invoice; a receipt is queued by a capture that is
\* about to commit, and sent for one.
LEMMA FlushKeeps ==
  ASSUME InvoicingInv, NEW d \in Desks, Flush(d)
  PROVE  InvoicingInv'
<1>1. PICK j : j = visit[d]
  OBVIOUS
<1>2. PICK base : base = EnsureInvoice(invoice, j.new)
  OBVIOUS
<1>3. j.at = "asked" /\ UNCHANGED <<rate, bill, invoice, visits, mixed, passed, early, undone>>
  BY <1>1 DEF Flush
<1>4. PICK new \in (IF j.pdfs THEN EnsureInvoicePdfs(base, j.new) ELSE {base}) :
        visit' = [visit EXCEPT ![d] = [at |-> "flushed", kind |-> j.kind, was |-> j.was,
                                       new |-> j.new, had |-> invoice, invoice |-> new]]
  BY <1>1, <1>2, Zenon DEF Flush
<1>5. receipts' = IF j.kind = "capture" THEN [receipts EXCEPT !.waiting = @ + 1]
                  ELSE IF j.kind = "receipt" THEN [receipts EXCEPT !.sent = @ + 1] ELSE receipts
  BY <1>1, Zenon DEF Flush
<1>6. VisitFits(j)
  BY <1>1, <1>3 DEF InvoicingInv, VisitsFit, NoVisit
<1>7. j.was \in Bills /\ j.new \in Bills /\ AskedFits(j) /\ invoice \in Invoices \cup {Nothing}
  BY <1>3, <1>6 DEF VisitFits, InvoicingInv, InvoicingTypeOK
<1>8. PICK k : k = [at |-> "flushed", kind |-> j.kind, was |-> j.was,
                    new |-> j.new, had |-> invoice, invoice |-> new]
  OBVIOUS
<1>9. k.at = "flushed" /\ k.kind = j.kind /\ k.was = j.was /\ k.new = j.new
      /\ k.had = invoice /\ k.invoice = new /\ k # NoVisit
  BY <1>8 DEF NoVisit
<1>10. new \in EnsureInvoicePdfs(EnsureInvoice(invoice, j.new), j.new) \cup {EnsureInvoice(invoice, j.new)}
  BY <1>2, <1>4
<1>11. /\ new \in Invoices /\ new.status = j.new.status /\ new.total = j.new.amount
       /\ Rendered(PdfsOf(invoice).user, new.userPdf, UserInvoiceData(j.new))
       /\ Rendered(PdfsOf(invoice).agency, new.agencyPdf, AgencySettlementData(j.new))
  BY <1>7, <1>10, FlushFits, InvoicingAssumption, NothingIsNoRow
<1>12. VisitFits(k)
  BY <1>7, <1>9, <1>11 DEF VisitFits, AskedFits, FlushedFits
<1>13. VisitsFit' /\ visit'[d] = k /\ \A e \in Desks \ {d} : visit'[e] = visit[e]
  BY <1>4, <1>8, <1>12, OneDesk DEF InvoicingInv
<1>14. receipts \in [waiting : Nat, sent : Nat]
  BY DEF InvoicingInv, InvoicingTypeOK
<1>15. receipts' \in [waiting : Nat, sent : Nat]
  BY <1>5, <1>14
<1>16. InvoicingTypeOK'
  BY <1>3, <1>15 DEF InvoicingInv, InvoicingTypeOK
<1>17. HadStays'
  BY <1>3, <1>9, <1>13 DEF InvoicingInv, HadStays
<1>18. (~mixed => Sums(bill))' /\ InvoiceFollowsCapture' /\ PdfsFollow'
  BY <1>3 DEF InvoicingInv, InvoiceFollowsCapture, PdfsFollow
<1>19. ReceiptsOwed'
  <2>1. CASE j.kind = "capture"
    <3>1. Capturing(visit'[d])
      BY <1>9, <1>13, <2>1 DEF Capturing
    <3> QED
      BY <3>1 DEF ReceiptsOwed, Owed
  <2>2. CASE j.kind # "capture"
    <3>1. SUFFICES ASSUME (receipts.waiting > 0 \/ receipts.sent > 0 \/ (\E e \in Desks : Sending(visit[e])))'
                   PROVE  Owed'
      BY DEF ReceiptsOwed
    <3>2. j.kind = "receipt" => Sending(visit[d])
      BY <1>1, <1>3 DEF Sending, NoVisit
    <3>3. j.kind # "receipt" => receipts' = receipts /\ ~Sending(k)
      BY <1>5, <1>9, <2>2 DEF Sending
    <3>4. receipts.waiting > 0 \/ receipts.sent > 0 \/ (\E e \in Desks : Sending(visit[e]))
      BY <1>13, <3>1, <3>2, <3>3
    <3>5. Owed
      BY <3>4 DEF InvoicingInv, ReceiptsOwed
    <3>6. ~Capturing(visit[d])
      BY <1>1, <1>3 DEF Capturing
    <3> QED
      BY <1>3, <1>13, <3>5, <3>6 DEF Owed
  <2> QED
    BY <2>1, <2>2
<1> QED
  BY <1>13, <1>16, <1>17, <1>18, <1>19 DEF InvoicingInv

\* A request is rolled back; a receipt's task goes back to the queue.
LEMMA RollbackKeeps ==
  ASSUME InvoicingInv, NEW d \in Desks, Rollback(d)
  PROVE  InvoicingInv'
<1>1. PICK j : j = visit[d]
  OBVIOUS
<1>2. /\ j.at = "flushed" /\ visit' = [visit EXCEPT ![d] = NoVisit]
      /\ undone' = (undone \/ j.kind = "capture")
      /\ receipts' = IF j.kind = "receipt" THEN [receipts EXCEPT !.waiting = @ + 1] ELSE receipts
      /\ UNCHANGED <<rate, bill, invoice, visits, mixed, passed, early>>
  BY <1>1, Zenon DEF Rollback, Leave
<1>3. VisitsFit' /\ visit'[d] = NoVisit /\ \A e \in Desks \ {d} : visit'[e] = visit[e]
  BY <1>2, OneDesk DEF InvoicingInv
<1>4. receipts \in [waiting : Nat, sent : Nat]
  BY DEF InvoicingInv, InvoicingTypeOK
<1>5. receipts' \in [waiting : Nat, sent : Nat]
  BY <1>2, <1>4
<1>6. InvoicingTypeOK'
  BY <1>2, <1>5 DEF InvoicingInv, InvoicingTypeOK
<1>7. HadStays'
  BY <1>2, <1>3 DEF InvoicingInv, HadStays, NoVisit
<1>8. (~mixed => Sums(bill))' /\ InvoiceFollowsCapture' /\ PdfsFollow'
  BY <1>2 DEF InvoicingInv, InvoiceFollowsCapture, PdfsFollow
<1>9. ReceiptsOwed'
  <2>1. SUFFICES ASSUME (receipts.waiting > 0 \/ receipts.sent > 0 \/ (\E e \in Desks : Sending(visit[e])))',
                        j.kind # "capture"
                 PROVE  Owed'
    BY <1>2 DEF ReceiptsOwed, Owed
  <2>2. j.kind = "receipt" => Sending(visit[d])
    BY <1>1, <1>2 DEF Sending, NoVisit
  <2>3. j.kind # "receipt" => receipts' = receipts
    BY <1>2
  <2>4. receipts.waiting > 0 \/ receipts.sent > 0 \/ (\E e \in Desks : Sending(visit[e]))
    BY <1>3, <2>1, <2>2, <2>3 DEF Sending
  <2>5. Owed
    BY <2>4 DEF InvoicingInv, ReceiptsOwed
  <2>6. ~Capturing(visit[d])
    BY <1>1, <2>1 DEF Capturing
  <2> QED
    BY <1>2, <1>3, <2>5, <2>6 DEF Owed
<1> QED
  BY <1>3, <1>6, <1>7, <1>8, <1>9 DEF InvoicingInv

\* A commit that overlapped nothing puts down the rows the request made up,
\* over the ones it loaded; its PDFs are those of the row it leaves.
LEMMA CommitKeepsPdfs ==
  ASSUME InvoicingInv, NEW j, VisitFits(j), j.at = "flushed",
         ~passed, ~early, bill = j.was, invoice = j.had,
         PdfsOf(j.invoice) # PdfsOf(j.had) => j.new.status = "CAPTURED"
  PROVE  /\ j.new.status \in {"PENDING", "FAILED"} => j.invoice.userPdf = Nothing /\ j.invoice.agencyPdf = Nothing
         /\ j.new.status = "CAPTURED" => PdfsTell(j.invoice, j.new)
<1>1. /\ AskedFits(j) /\ FlushedFits(j) /\ j.new \in Bills /\ j.was \in Bills
      /\ j.invoice # Nothing
  BY NothingIsNoRow DEF VisitFits, FlushedFits
<1>2. ChargeOf(j.new) = ChargeOf(bill)
  BY <1>1 DEF AskedFits
<1>3. bill.status \in {"PENDING", "FAILED"} => PdfsOf(invoice) = [user |-> Nothing, agency |-> Nothing]
  BY DEF InvoicingInv, PdfsFollow, PdfsOf
<1>4. CASE j.new.status \in {"PENDING", "FAILED"}
  <2>1. bill.status = j.new.status
    BY <1>1, <1>4 DEF AskedFits
  <2>2. PdfsOf(j.invoice) = [user |-> Nothing, agency |-> Nothing]
    BY <1>3, <1>4, <2>1
  <2>3. PdfsOf(j.invoice).user = Nothing /\ PdfsOf(j.invoice).agency = Nothing
    BY <2>2
  <2> QED
    BY <1>1, <1>4, <2>3 DEF PdfsOf
<1>5. CASE j.new.status = "CAPTURED" /\ j.kind = "capture"
  <2>1. PdfsOf(invoice).user = Nothing /\ PdfsOf(invoice).agency = Nothing
    BY <1>1, <1>3, <1>5 DEF AskedFits
  <2> QED
    BY <1>1, <1>5, <2>1 DEF FlushedFits, Rendered, PdfsTell
<1>6. CASE j.new.status = "CAPTURED" /\ j.kind # "capture"
  <2>1. bill.status = "CAPTURED"
    BY <1>1, <1>6 DEF AskedFits
  <2>2. invoice # Nothing /\ PdfsTell(invoice, bill)
    BY <2>1 DEF InvoicingInv, InvoiceFollowsCapture, PdfsFollow
  <2>3. UserInvoiceData(bill) = UserInvoiceData(j.new)
        /\ AgencySettlementData(bill).net = AgencySettlementData(j.new).net
    BY <1>2, <1>6, <2>1 DEF ChargeOf, UserInvoiceData, AgencySettlementData
  <2>4. PdfsOf(invoice).user = invoice.userPdf /\ PdfsOf(invoice).agency = invoice.agencyPdf
    BY <2>2 DEF PdfsOf
  <2> QED
    BY <1>1, <1>6, <2>2, <2>3, <2>4 DEF FlushedFits, Rendered, PdfsTell
<1> QED
  BY <1>1, <1>4, <1>5, <1>6

\* A request commits the row and the invoice.
LEMMA InvoiceCommitKeeps ==
  ASSUME InvoicingInv, NEW d \in Desks, Commit(d)
  PROVE  InvoicingInv'
<1>1. PICK j : j = visit[d]
  OBVIOUS
<1>2. /\ j.at = "flushed" /\ visit' = [visit EXCEPT ![d] = NoVisit]
      /\ j.had = Nothing => invoice = Nothing
      /\ bill' = Written(bill, j.was, j.new)
      /\ invoice' = IF j.had = Nothing THEN j.invoice ELSE Written(invoice, j.had, j.invoice)
      /\ passed' = (passed \/ bill # j.was \/ invoice # j.had)
      /\ UNCHANGED <<rate, visits, receipts, mixed, undone>>
  BY <1>1 DEF Commit, Clashes, Leave
<1>3. VisitFits(j)
  BY <1>1, <1>2 DEF InvoicingInv, VisitsFit, NoVisit
<1>4. /\ bill \in Bills /\ j.was \in Bills /\ j.new \in Bills /\ AskedFits(j) /\ FlushedFits(j)
      /\ j.invoice \in Invoices
  BY <1>2, <1>3 DEF VisitFits, FlushedFits, InvoicingInv, InvoicingTypeOK
<1>5. bill' \in Bills /\ (bill = j.was => bill' = j.new) /\ ChargeOf(bill') = ChargeOf(bill)
  BY <1>2, <1>4, WrittenBill DEF AskedFits
<1>6. invoice' \in Invoices /\ (invoice = j.had => invoice' = j.invoice)
  <2>1. CASE j.had = Nothing
    BY <1>2, <1>4, <2>1
  <2>2. CASE j.had # Nothing
    <3>1. invoice \in Invoices /\ j.had \in Invoices
      BY <1>1, <1>2, <1>4, <2>2 DEF InvoicingInv, HadStays, InvoicingTypeOK, FlushedFits
    <3> QED
      BY <1>2, <1>4, <2>2, <3>1, WrittenInvoice
  <2> QED
    BY <2>1, <2>2
<1>7. invoice' # Nothing
  BY <1>6, NothingIsNoRow
<1>8. VisitsFit' /\ visit'[d] = NoVisit /\ \A e \in Desks \ {d} : visit'[e] = visit[e]
  BY <1>2, OneDesk DEF InvoicingInv
<1>9. InvoicingTypeOK'
  BY <1>2, <1>5, <1>6 DEF InvoicingInv, InvoicingTypeOK
<1>10. HadStays'
  BY <1>7 DEF HadStays
<1>11. ~mixed' => Sums(bill')
  BY <1>2, <1>4, <1>5, ChargeDecides DEF InvoicingInv
<1>12. ~passed' => /\ ~passed /\ bill = j.was /\ bill' = j.new
                   /\ invoice = j.had /\ invoice' = j.invoice
  BY <1>2, <1>5, <1>6
<1>13. InvoiceFollowsCapture'
  BY <1>4, <1>7, <1>12 DEF InvoiceFollowsCapture, FlushedFits
<1>14. PdfsFollow'
  <2>1. SUFFICES ASSUME ~passed', ~early'
                 PROVE  /\ bill'.status \in {"PENDING", "FAILED"} =>
                             invoice'.userPdf = Nothing /\ invoice'.agencyPdf = Nothing
                        /\ bill'.status = "CAPTURED" => PdfsTell(invoice', bill')
    BY DEF PdfsFollow
  <2>2. ~early /\ (PdfsOf(j.invoice) # PdfsOf(j.had) => j.new.status = "CAPTURED")
    <3>1. PICK before, after :
            /\ before = (IF j.had = Nothing THEN <<Nothing, Nothing>> ELSE <<j.had.userPdf, j.had.agencyPdf>>)
            /\ after = (IF j.invoice = Nothing THEN <<Nothing, Nothing>>
                        ELSE <<j.invoice.userPdf, j.invoice.agencyPdf>>)
      OBVIOUS
    <3>2. early' = (early \/ (after # before /\ j.new.status # "CAPTURED"))
      BY <1>1, <3>1, Zenon DEF Commit
    <3>3. after = before => PdfsOf(j.invoice) = PdfsOf(j.had)
      BY <3>1 DEF PdfsOf
    <3> QED
      BY <2>1, <3>2, <3>3
  <2> QED
    BY <1>2, <1>3, <1>12, <2>1, <2>2, CommitKeepsPdfs
<1>15. ReceiptsOwed'
  <2>1. SUFFICES ASSUME (receipts.waiting > 0 \/ receipts.sent > 0 \/ (\E e \in Desks : Sending(visit[e])))',
                        ~passed'
                 PROVE  Owed'
    BY DEF ReceiptsOwed, Owed
  <2>2. receipts.waiting > 0 \/ receipts.sent > 0 \/ (\E e \in Desks : Sending(visit[e]))
    BY <1>2, <1>8, <2>1 DEF Sending
  <2>3. Owed
    BY <2>2 DEF InvoicingInv, ReceiptsOwed
  <2>4. CASE j.kind = "capture"
    BY <1>4, <1>12, <2>1, <2>4 DEF AskedFits, Owed
  <2>5. CASE j.kind # "capture"
    <3>1. ~Capturing(visit[d]) /\ bill'.status = bill.status
      BY <1>1, <1>4, <1>12, <2>1, <2>5 DEF Capturing, AskedFits
    <3> QED
      BY <1>2, <1>8, <1>12, <2>1, <2>3, <3>1 DEF Owed
  <2> QED
    BY <2>4, <2>5
<1> QED
  BY <1>8, <1>9, <1>10, <1>11, <1>13, <1>14, <1>15 DEF InvoicingInv

\* Every step of the next-state relation, and the steps that change nothing.
LEMMA InvoicingStep == InvoicingInv /\ [InvoicingNext]_invoicingVars => InvoicingInv'
<1> SUFFICES ASSUME InvoicingInv, [InvoicingNext]_invoicingVars
             PROVE  InvoicingInv'
  OBVIOUS
<1>1. CASE \E p \in Rates : PriceChanges(p)
  BY <1>1, EventsKeep
<1>2. CASE \E s \in {"FAILED", "REFUNDED"} : Webhook(s)
  BY <1>2, EventsKeep
<1>3. ASSUME NEW d \in Desks,
             \E credit \in BOOLEAN, code \in Codes \cup {Nothing} : PricePaymentOrder(d, credit, code)
      PROVE  InvoicingInv'
  BY <1>3, CheckoutArrives
<1>4. ASSUME NEW d \in Desks, CommitPrice(d) \/ Flush(d) \/ Commit(d) \/ Rollback(d)
      PROVE  InvoicingInv'
  BY <1>4, CommitPriceKeeps, FlushKeeps, InvoiceCommitKeeps, RollbackKeeps
<1>5. ASSUME NEW d \in Desks,
             \/ InvoiceCapture(d) \/ ExecuteAgencyPayout(d)
             \/ ListUserInvoices(d) \/ ListAgencyInvoices(d) \/ GetInvoicePdf(d) \/ SendReceipt(d)
      PROVE  InvoicingInv'
  BY <1>5, RequestsAsk
<1>6. CASE UNCHANGED invoicingVars
  BY <1>6 DEF invoicingVars, InvoicingInv, InvoicingTypeOK, VisitsFit, HadStays, InvoiceFollowsCapture,
              PdfsFollow, ReceiptsOwed, Owed
<1> QED
  BY <1>1, <1>2, <1>3, <1>4, <1>5, <1>6 DEF InvoicingNext

\* The invariant is enough: what the page adds up to lies between the charge
\* with the whole wallet and the one without it.
LEMMA InvoicesFollow == InvoicingInv => InvoicesHold
<1> SUFFICES ASSUME InvoicingInv PROVE InvoicesHold
  OBVIOUS
<1>1. bill \in Bills /\ rate \in Rates /\ receipts \in [waiting : Nat, sent : Nat]
  BY DEF InvoicingInv, InvoicingTypeOK
<1>2. ChargeAddsUp
  BY DEF InvoicingInv, ChargeAddsUp, Sums
<1>3. InvoiceFollowsCapture /\ PdfTellsCharge
  BY DEF InvoicingInv, InvoiceFollowsCapture, PdfsFollow, PdfTellsCharge, PdfsTell
<1>4. ReceiptsFollowCaptures
  BY DEF InvoicingInv, ReceiptsOwed, Owed, Capturing, ReceiptsFollowCaptures
<1>5. PageAddsUp
  <2>1. SUFFICES ASSUME bill.price = rate, bill.promo = 0, ~mixed
                 PROVE  /\ bill.amount = FinalAmount(ComputeBreakdown(rate).total, 0, 100 * bill.wallet)
                        /\ bill.amount \in GetCheckoutBreakdown(Credit)..GetCheckoutBreakdown(0)
    BY DEF PageAddsUp, GetGroupPaymentState
  <2>2. rate \in Nat /\ Credit \in Nat /\ 0 \in Nat /\ bill.wallet \in Nat
    BY <1>1, InvoicingAssumption DEF Bills
  <2>3. PICK gross : gross = ComputeBreakdown(rate).total
    OBVIOUS
  <2>4. gross \in Nat
    BY <2>2, <2>3, BreakdownIsExact
  <2>5. PICK most : most = UsableCredit(rate, Credit)
    OBVIOUS
  <2>6. most \in Nat /\ UsableCredit(rate, 0) = 0
    BY <2>2, <2>5, WalletShare
  <2>7. bill.wallet <= most /\ bill.amount = FinalAmount(gross, 0, 100 * bill.wallet + bill.promo)
    BY <1>1, <2>1, <2>3, <2>5, SumsAre DEF InvoicingInv
  <2>8. 100 * bill.wallet + bill.promo = 100 * bill.wallet
    BY <2>1, <2>2
  <2>9. bill.amount = FinalAmount(gross, 0, 100 * bill.wallet)
    BY <2>7, <2>8
  <2>10. GetCheckoutBreakdown(Credit) = FinalAmount(gross, most, 0)
         /\ GetCheckoutBreakdown(0) = FinalAmount(gross, 0, 0)
    BY <2>3, <2>5, <2>6 DEF GetCheckoutBreakdown, Charge, PromoDiscount
  <2>11. FinalAmount(gross, 0, 100 * bill.wallet) \in FinalAmount(gross, most, 0)..FinalAmount(gross, 0, 0)
    BY <2>2, <2>4, <2>6, <2>7, MoreCreditCharges
  <2> QED
    BY <2>3, <2>9, <2>10, <2>11
<1> QED
  BY <1>2, <1>3, <1>4, <1>5 DEF InvoicesHold

\* The payment's row, its invoice, PDFs, receipt and page say what was
\* charged, while requests load, flush, commit and are rolled back between
\* one another: for any prices, codes, wallets and number of requests
\* (create_payment_order, _finalize_capture, _ensure_invoice,
\* ensure_invoice_pdfs, send_transactional_invoice_email_task).
THEOREM DocumentsTellCharge == InvoicingSpec => []InvoicesHold
<1> QED
  BY InvoicingStart, InvoicingStep, InvoicesFollow, PTL DEF InvoicingSpec

-----------------------------------------------------------------------------
(* Sums over finite sets. *)

\* A function that gives every part of S the sum of w over it.
Totals(S, w, f) ==
  /\ \A x \in S : w[x] \in Int
  /\ f \in [SUBSET S -> Int] /\ f[{}] = 0
  /\ \A s \in SUBSET S : \A x \in s : f[s] = w[x] + f[s \ {x}]

\* Of some parts of a finite set one contains no other.
LEMMA SmallestPart ==
  ASSUME NEW S, IsFiniteSet(S), NEW B \in SUBSET (SUBSET S), B # {}
  PROVE  \E T \in B : \A U \in B : U \subseteq T => U = T
<1>1. B \subseteq FiniteSubsetsOf(S)
  <2>1. \A T \in B : T \in SUBSET S /\ IsFiniteSet(T)
    BY FS_Subset
  <2> QED
    BY <2>1 DEF FiniteSubsetsOf
<1>2. PICK T \in B : \A U \in B : ~(<<U, T>> \in StrictSubsetOrdering(S))
  <2>1. IsWellFoundedOn(StrictSubsetOrdering(S), FiniteSubsetsOf(S))
    BY FS_StrictSubsetOrderingWellFounded
  <2> QED
    BY <1>1, <2>1, WFMin
<1>3. ASSUME NEW U \in B, U \subseteq T, U # T PROVE FALSE
  <2>1. <<U, T>> \in StrictSubsetOrdering(S)
    BY <1>3 DEF StrictSubsetOrdering
  <2> QED
    BY <1>2, <2>1
<1> QED
  BY <1>2, <1>3

\* The sum of a larger set from that of a smaller one.
LEMMA TotalsGrow ==
  ASSUME NEW S, NEW w, NEW g, Totals(S, w, g), NEW x, x \notin S, w[x] \in Int
  PROVE  \E f : Totals(S \cup {x}, w, f)
<1> DEFINE T == S \cup {x}
           f == [s \in SUBSET T |-> IF x \in s THEN w[x] + g[s \ {x}] ELSE g[s]]
<1>1. g \in [SUBSET S -> Int] /\ g[{}] = 0 /\ \A s \in SUBSET S : \A y \in s : g[s] = w[y] + g[s \ {y}]
  BY DEF Totals
<1>2. \A s \in SUBSET T : s \ {x} \in SUBSET S /\ (x \notin s => s \in SUBSET S)
  OBVIOUS
<1>3. f \in [SUBSET T -> Int]
  <2>1. \A s \in SUBSET T : (IF x \in s THEN w[x] + g[s \ {x}] ELSE g[s]) \in Int
    BY <1>1, <1>2
  <2> QED
    BY <2>1
<1>4. f[{}] = 0
  BY <1>1
<1>5. ASSUME NEW s \in SUBSET T, NEW y \in s PROVE f[s] = w[y] + f[s \ {y}]
  <2>1. s \ {y} \in SUBSET T
    OBVIOUS
  <2>2. CASE y = x
    <3>1. f[s] = w[x] + g[s \ {x}] /\ f[s \ {x}] = g[s \ {x}]
      BY <2>1, <2>2
    <3> QED
      BY <2>2, <3>1
  <2>3. CASE y # x /\ x \in s
    <3>1. f[s] = w[x] + g[s \ {x}] /\ f[s \ {y}] = w[x] + g[(s \ {y}) \ {x}]
      BY <2>1, <2>3
    <3>2. PICK r \in SUBSET S : r = s \ {x} /\ y \in r
      BY <1>2, <2>3
    <3>3. (s \ {y}) \ {x} = r \ {y}
      BY <3>2
    <3>4. g[r] = w[y] + g[r \ {y}] /\ g[r] \in Int /\ g[r \ {y}] \in Int
      <4>1. r \ {y} \in SUBSET S
        BY <3>2
      <4> QED
        BY <4>1, <1>1, <3>2
    <3>5. w[y] \in Int
      BY <3>2 DEF Totals
    <3>6. g[s \ {x}] = g[r] /\ g[(s \ {y}) \ {x}] = g[r \ {y}]
      BY <3>2, <3>3
    <3> HIDE DEF f
    <3> QED
      BY <3>1, <3>4, <3>5, <3>6
  <2>4. CASE x \notin s
    <3>1. f[s] = g[s] /\ f[s \ {y}] = g[s \ {y}]
      BY <2>1, <2>4
    <3> QED
      BY <1>1, <1>2, <2>4, <3>1
  <2> QED
    BY <2>2, <2>3, <2>4
<1>6. Totals(T, w, f)
  <2>1. \A y \in T : w[y] \in Int
    BY DEF Totals
  <2> HIDE DEF f
  <2> QED
    BY <1>3, <1>4, <1>5, <2>1 DEF Totals
<1> QED
  BY <1>6

\* Every finite set has sums.
LEMMA TotalsExist ==
  ASSUME NEW S, IsFiniteSet(S), NEW w, \A x \in S : w[x] \in Int
  PROVE  \E f : Totals(S, w, f)
<1> DEFINE B == {T \in SUBSET S : ~\E f : Totals(T, w, f)}
<1> SUFFICES ASSUME B # {} PROVE FALSE
  BY DEF Totals
<1>1. PICK T \in B : \A U \in B : U \subseteq T => U = T
  <2>1. B \in SUBSET (SUBSET S)
    OBVIOUS
  <2> HIDE DEF B
  <2> QED
    BY <2>1, SmallestPart
<1>2. T \in SUBSET S /\ ~\E f : Totals(T, w, f)
  OBVIOUS
<1>3. CASE T = {}
  <2> DEFINE f == [s \in SUBSET T |-> 0]
  <2>1. Totals(T, w, f)
    BY <1>3 DEF Totals
  <2> QED
    BY <1>2, <2>1
<1>4. CASE T # {}
  <2>1. PICK x \in T : TRUE
    BY <1>4
  <2>2. T \ {x} \notin B
    BY <1>1, <2>1
  <2>3. PICK g : Totals(T \ {x}, w, g)
    BY <1>2, <2>2
  <2>4. (T \ {x}) \cup {x} = T /\ w[x] \in Int
    BY <1>2, <2>1
  <2> HIDE DEF B
  <2>5. \E f : Totals((T \ {x}) \cup {x}, w, f)
    BY <2>3, <2>4, TotalsGrow
  <2> QED
    BY <1>2, <2>4, <2>5
<1> QED
  BY <1>3, <1>4

Pick(s) == CHOOSE x \in s : TRUE
Iterates(S, w, g) == g = [s \in SUBSET S |-> IF s = {} THEN 0 ELSE w[Pick(s)] + g[s \ {Pick(s)}]]

\* What the fold iterates is such a function, and the only one.
LEMMA TotalsAreFold ==
  ASSUME NEW S, IsFiniteSet(S), NEW w, NEW f, Totals(S, w, f),
         NEW g, Iterates(S, w, g)
  PROVE  g = f
<1> DEFINE B == {s \in SUBSET S : g[s] # f[s]}
<1>1. \A s \in SUBSET S : g[s] = IF s = {} THEN 0 ELSE w[Pick(s)] + g[s \ {Pick(s)}]
  <2> DEFINE G(s) == IF s = {} THEN 0 ELSE w[Pick(s)] + g[s \ {Pick(s)}]
  <2>1. g = [s \in SUBSET S |-> G(s)]
    BY DEF Iterates
  <2> HIDE DEF G
  <2>2. \A s \in SUBSET S : g[s] = G(s)
    BY <2>1
  <2> QED
    BY <2>2 DEF G
<1>2. B = {}
  <2> SUFFICES ASSUME B # {} PROVE FALSE
    OBVIOUS
  <2>1. PICK T \in B : \A U \in B : U \subseteq T => U = T
    <3>1. B \in SUBSET (SUBSET S)
      OBVIOUS
    <3> HIDE DEF B
    <3> QED
      BY <3>1, SmallestPart
  <2>2. T # {}
    BY <1>1 DEF Totals
  <2>3. Pick(T) \in T
    BY <2>2 DEF Pick
  <2>4. T \ {Pick(T)} \notin B
    BY <2>1, <2>3
  <2>5. g[T \ {Pick(T)}] = f[T \ {Pick(T)}]
    BY <2>4
  <2>6. g[T] = w[Pick(T)] + g[T \ {Pick(T)}]
    BY <1>1, <2>2
  <2>7. f[T] = w[Pick(T)] + f[T \ {Pick(T)}]
    BY <2>3 DEF Totals
  <2> QED
    BY <2>5, <2>6, <2>7
<1>3. g = [s \in SUBSET S |-> g[s]]
  <2> DEFINE G(s) == IF s = {} THEN 0 ELSE w[Pick(s)] + g[s \ {Pick(s)}]
  <2>1. g = [s \in SUBSET S |-> G(s)]
    BY DEF Iterates
  <2> HIDE DEF G
  <2> QED
    BY <2>1
<1>4. f = [s \in SUBSET S |-> f[s]]
  BY DEF Totals
<1> QED
  BY <1>2, <1>3, <1>4

\* The sum is what such a function gives the whole set.
LEMMA SumIsTotal ==
  ASSUME NEW S, IsFiniteSet(S), NEW w, NEW f, Totals(S, w, f)
  PROVE  SumFunctionOnSet(w, S) = f[S]
<1>1. Iterates(S, w, f)
  <2>1. ASSUME NEW s \in SUBSET S
        PROVE  f[s] = IF s = {} THEN 0 ELSE w[Pick(s)] + f[s \ {Pick(s)}]
    <3>1. s # {} => Pick(s) \in s
      BY DEF Pick
    <3> QED
      BY <3>1 DEF Totals
  <2>2. f = [s \in SUBSET S |-> f[s]]
    BY DEF Totals
  <2> QED
    BY <2>1, <2>2 DEF Iterates
<1>2. \A g : Iterates(S, w, g) => g = f
  BY TotalsAreFold
<1> QED
  BY <1>1, <1>2 DEF Iterates, SumFunctionOnSet, FoldFunctionOnSet, MapThenFoldSet, Pick

\* The sum over nothing.
LEMMA SumOfNone == \A w : SumFunctionOnSet(w, {}) = 0
<1> SUFFICES ASSUME NEW w PROVE SumFunctionOnSet(w, {}) = 0
  OBVIOUS
<1>1. IsFiniteSet({})
  BY FS_EmptySet
<1>2. PICK f : Totals({}, w, f)
  BY <1>1, TotalsExist
<1> QED
  BY <1>1, <1>2, SumIsTotal DEF Totals

\* The sum over a finite set is a number.
LEMMA SumIsInt ==
  ASSUME NEW S, IsFiniteSet(S), NEW w, \A x \in S : w[x] \in Int
  PROVE  SumFunctionOnSet(w, S) \in Int
<1>1. PICK f : Totals(S, w, f)
  BY TotalsExist
<1>2. f[S] \in Int
  <2>1. f \in [SUBSET S -> Int] /\ S \in SUBSET S
    BY <1>1 DEF Totals
  <2> QED
    BY <2>1
<1> QED
  BY <1>1, <1>2, SumIsTotal

\* Only the summands matter.
LEMMA SumOfSame ==
  ASSUME NEW S, IsFiniteSet(S), NEW w, NEW v, \A x \in S : w[x] \in Int /\ v[x] = w[x]
  PROVE  SumFunctionOnSet(v, S) = SumFunctionOnSet(w, S)
<1>1. PICK f : Totals(S, w, f)
  BY TotalsExist
<1>2. Totals(S, v, f)
  BY <1>1 DEF Totals
<1> QED
  BY <1>1, <1>2, SumIsTotal

\* One more summand.
LEMMA SumWithOne ==
  ASSUME NEW S, IsFiniteSet(S), NEW w, NEW x, x \notin S, \A y \in S \cup {x} : w[y] \in Int
  PROVE  SumFunctionOnSet(w, S \cup {x}) = w[x] + SumFunctionOnSet(w, S)
<1> DEFINE T == S \cup {x}
<1>1. IsFiniteSet(T)
  BY FS_AddElement
<1>2. PICK f : Totals(T, w, f)
  BY <1>1, TotalsExist
<1>3. SumFunctionOnSet(w, T) = f[T]
  BY <1>1, <1>2, SumIsTotal
<1>4. f[T] = w[x] + f[S]
  <2>1. T \in SUBSET T /\ x \in T /\ T \ {x} = S
    OBVIOUS
  <2> QED
    BY <1>2, <2>1 DEF Totals
<1>5. SumFunctionOnSet(w, S) = f[S]
  <2> DEFINE g == [s \in SUBSET S |-> f[s]]
  <2>1. Totals(S, w, g)
    <3>1. f \in [SUBSET T -> Int] /\ f[{}] = 0 /\ \A s \in SUBSET T : \A y \in s : f[s] = w[y] + f[s \ {y}]
      BY <1>2 DEF Totals
    <3>2. SUBSET S \subseteq SUBSET T
      OBVIOUS
    <3>3. g \in [SUBSET S -> Int] /\ g[{}] = 0
      BY <3>1, <3>2
    <3>4. ASSUME NEW s \in SUBSET S, NEW y \in s PROVE g[s] = w[y] + g[s \ {y}]
      <4>1. s \ {y} \in SUBSET S /\ s \in SUBSET T
        OBVIOUS
      <4> QED
        BY <3>1, <4>1
    <3>5. \A y \in S : w[y] \in Int
      OBVIOUS
    <3> HIDE DEF g
    <3> QED
      BY <3>3, <3>4, <3>5 DEF Totals
  <2>2. g[S] = f[S]
    OBVIOUS
  <2> QED
    BY <2>1, <2>2, SumIsTotal
<1> QED
  BY <1>3, <1>4, <1>5

\* One summand grows.
LEMMA SumWithChange ==
  ASSUME NEW S, IsFiniteSet(S), NEW w, NEW v, NEW x \in S, NEW k \in Int, v[x] = w[x] + k,
         \A y \in S : w[y] \in Int /\ (y # x => v[y] = w[y])
  PROVE  SumFunctionOnSet(v, S) = SumFunctionOnSet(w, S) + k
<1> DEFINE R == S \ {x}
<1>1. IsFiniteSet(R) /\ x \notin R /\ R \cup {x} = S
  BY FS_Subset
<1>2. SumFunctionOnSet(w, S) = w[x] + SumFunctionOnSet(w, R)
  <2> HIDE DEF R
  <2>1. \A y \in R \cup {x} : w[y] \in Int
    BY <1>1
  <2> QED
    BY <1>1, <2>1, SumWithOne
<1>3. SumFunctionOnSet(v, S) = v[x] + SumFunctionOnSet(v, R)
  <2>1. \A y \in R \cup {x} : v[y] \in Int
    OBVIOUS
  <2> HIDE DEF R
  <2> QED
    BY <1>1, <2>1, SumWithOne
<1>4. SumFunctionOnSet(v, R) = SumFunctionOnSet(w, R)
  <2>1. \A y \in R : w[y] \in Int /\ v[y] = w[y]
    OBVIOUS
  <2> HIDE DEF R
  <2> QED
    BY <1>1, <2>1, SumOfSame
<1>5. SumFunctionOnSet(w, R) \in Int
  BY <1>1, SumIsInt
<1> HIDE DEF R
<1> QED
  BY <1>2, <1>3, <1>4, <1>5

\* The sum of zeros.
LEMMA SumOfZeros ==
  ASSUME NEW S, IsFiniteSet(S), NEW w, \A x \in S : w[x] = 0
  PROVE  SumFunctionOnSet(w, S) = 0
<1> DEFINE f == [s \in SUBSET S |-> 0]
<1>1. Totals(S, w, f)
  BY DEF Totals
<1>2. f[S] = 0
  OBVIOUS
<1> HIDE DEF f
<1> QED
  BY <1>1, <1>2, SumIsTotal

-----------------------------------------------------------------------------
(* Reviews: the types. *)

\* A sum of natural numbers is one.
LEMMA SumIsNat ==
  ASSUME NEW S, IsFiniteSet(S), NEW w, \A x \in S : w[x] \in Nat
  PROVE  SumFunctionOnSet(w, S) \in Nat
<1>1. PICK f : Totals(S, w, f)
  BY TotalsExist
<1>2. /\ f \in [SUBSET S -> Int] /\ f[{}] = 0
      /\ \A s \in SUBSET S : \A x \in s : f[s] = w[x] + f[s \ {x}]
  BY <1>1 DEF Totals
<1> DEFINE B == {s \in SUBSET S : f[s] < 0}
<1>3. B = {}
  <2> SUFFICES ASSUME B # {} PROVE FALSE
    OBVIOUS
  <2>1. PICK T \in B : \A U \in B : U \subseteq T => U = T
    <3>1. B \in SUBSET (SUBSET S)
      OBVIOUS
    <3> HIDE DEF B
    <3> QED
      BY <3>1, SmallestPart
  <2>2. T \in SUBSET S /\ f[T] < 0 /\ T # {}
    <3>1. T \in SUBSET S /\ f[T] < 0
      OBVIOUS
    <3>2. ~(f[{}] < 0)
      BY <1>2
    <3> QED
      BY <3>1, <3>2
  <2>3. PICK x \in T : TRUE
    BY <2>2
  <2>4. T \ {x} \in SUBSET S /\ T \ {x} \notin B
    BY <2>1, <2>2, <2>3
  <2>5. f[T] = w[x] + f[T \ {x}] /\ w[x] \in Nat /\ f[T \ {x}] \in Int
    BY <1>2, <2>2, <2>3, <2>4
  <2>6. ~(f[T \ {x}] < 0)
    BY <2>4
  <2> QED
    BY <2>2, <2>5, <2>6
<1>4. f[S] \in Int /\ ~(f[S] < 0)
  BY <1>2, <1>3
<1> QED
  BY <1>1, <1>4, SumIsTotal

\* An average in sixtieths is a natural number.
LEMMA QuotientIsNat ==
  ASSUME NEW n \in Nat, NEW d \in Nat \ {0}
  PROVE  (60 * n) \div d \in Nat
<1>1. PICK m \in Nat : m = 60 * n
  OBVIOUS
<1>2. m \div d \in Int
  OBVIOUS
<1>3. m = d * (m \div d) + (m % d) /\ m % d \in 0..(d-1)
  OBVIOUS
<1>4. m \div d \in Nat
  BY <1>2, <1>3
<1> QED
  BY <1>1, <1>4
\* What a reviewed row keeps of its reviews.
Kept == [avg : Nat, count : Nat]

\* An aggregate of reviews is an average and a count.
LEMMA AggregateIsKept ==
  ASSUME NEW rows, rows \subseteq Review, IsFiniteSet(rows), NEW t
  PROVE  Aggregate(rows, t) \in Kept
<1>1. PICK mine : mine = {r \in rows : r.target = t}
  OBVIOUS
<1>2. mine \in SUBSET rows /\ IsFiniteSet(mine)
  BY <1>1, FS_Subset
<1>3. PICK count \in Nat : count = Cardinality(mine) /\ (mine # {} => count # 0)
  BY <1>2, FS_CardinalityType, FS_EmptySet
<1>4. PICK w : w = [r \in mine |-> r.rating]
  OBVIOUS
<1>5. \A r \in mine : w[r] \in Nat
  BY <1>2, <1>4, ReviewsAssumption DEF Review
<1>6. PICK total \in Nat : total = SumFunctionOnSet(w, mine)
  BY <1>2, <1>5, SumIsNat
<1>7. SumFunction(w) = total
  BY <1>4, <1>6 DEF SumFunction
<1>8. PICK avg : avg = IF mine = {} THEN 0 ELSE (60 * total) \div count
  OBVIOUS
<1>9. avg \in Nat
  BY <1>3, <1>8, QuotientIsNat
<1>10. Aggregate(rows, t) = [avg |-> avg, count |-> IF t = Firm THEN count ELSE 0]
  BY <1>1, <1>3, <1>4, <1>7, <1>8 DEF Aggregate
<1> QED
  BY <1>3, <1>9, <1>10 DEF Kept

ReviewsTypes ==
  /\ reviews \subseteq Review /\ overlaid \subseteq Reviewed
  /\ rated \in [Reviewed -> Kept] /\ notices \in [Reviewed -> Nat]
  /\ IsFiniteSet(reviews) /\ forms \in 0..MaxForms /\ DOMAIN form = Forms
  /\ \A f \in Forms : form[f] # NoForm =>
       /\ form[f].row \in Review
       /\ form[f].at = "flushed" => form[f].sum \in Kept

\* No review and no submission.
LEMMA ReviewsTypesStart == ReviewsInit => ReviewsTypes
<1> SUFFICES ASSUME ReviewsInit PROVE ReviewsTypes
  OBVIOUS
<1>1. [avg |-> 0, count |-> 0] \in Kept
  BY DEF Kept
<1>2. IsFiniteSet({})
  BY FS_EmptySet
<1> QED
  BY <1>1, <1>2, ReviewsAssumption DEF ReviewsInit, ReviewsTypes

\* A submission starts, computes its aggregate or is rolled back.
LEMMA FormTypesKept ==
  ASSUME ReviewsTypes, NEW f \in Forms, UNCHANGED <<reviews, rated, notices, overlaid>>,
         forms' \in 0..MaxForms,
         NEW x, form' = [form EXCEPT ![f] = x],
         x # NoForm => x.row \in Review /\ (x.at = "flushed" => x.sum \in Kept)
  PROVE  ReviewsTypes'
<1>1. \A g \in Forms : form'[g] = IF g = f THEN x ELSE form[g]
  BY DEF ReviewsTypes
<1> QED
  BY <1>1 DEF ReviewsTypes, Review, Reviewed, Kept

\* A commit adds a review and what its target keeps of it.
LEMMA CommitTypesKept ==
  ASSUME ReviewsTypes, NEW f \in Forms, CommitReview(f)
  PROVE  ReviewsTypes'
<1>1. PICK x : x = form[f] /\ x.at = "flushed"
  BY DEF CommitReview
<1>2. x # NoForm
  BY <1>1 DEF NoForm
<1>3. x.row \in Review /\ x.sum \in Kept
  BY <1>1, <1>2 DEF ReviewsTypes
<1>4. PICK t \in Reviewed : t = x.row.target
  BY <1>3 DEF Review
<1>5. /\ reviews' = reviews \cup {x.row} /\ forms' = forms
      /\ rated' = [rated EXCEPT ![t] = [c \in DOMAIN x.sum |-> IF x.sum[c] # x.seen[c] THEN x.sum[c] ELSE @[c]]]
      /\ notices' = [notices EXCEPT ![t] = @ + 1]
      /\ overlaid' = IF x.stale THEN overlaid \cup {t} ELSE overlaid \ {t}
  BY <1>1, <1>4 DEF CommitReview, CreateNotification
<1>6. reviews' \subseteq Review /\ IsFiniteSet(reviews') /\ overlaid' \subseteq Reviewed
  BY <1>3, <1>5, FS_AddElement DEF ReviewsTypes
<1>7. notices' \in [Reviewed -> Nat]
  BY <1>5 DEF ReviewsTypes
<1>8. rated' \in [Reviewed -> Kept]
  <2>1. PICK was : was = rated[t]
    OBVIOUS
  <2>2. was \in Kept
    BY <2>1 DEF ReviewsTypes
  <2>3. PICK now : now = [c \in DOMAIN x.sum |-> IF x.sum[c] # x.seen[c] THEN x.sum[c] ELSE was[c]]
    OBVIOUS
  <2>4. DOMAIN x.sum = {"avg", "count"} /\ x.sum.avg \in Nat /\ x.sum.count \in Nat
        /\ was.avg \in Nat /\ was.count \in Nat
    BY <1>3, <2>2 DEF Kept
  <2>5. now = [c \in {"avg", "count"} |-> IF x.sum[c] # x.seen[c] THEN x.sum[c] ELSE was[c]]
    BY <2>3, <2>4
  <2>6. now = [avg |-> now.avg, count |-> now.count] /\ now.avg \in Nat /\ now.count \in Nat
    BY <2>4, <2>5
  <2>7. now \in Kept
    BY <2>6 DEF Kept
  <2>8. rated' = [rated EXCEPT ![t] = now]
    BY <1>5, <2>1, <2>3
  <2> QED
    BY <2>7, <2>8 DEF ReviewsTypes
<1>9. ASSUME NEW g \in Forms, form'[g] # NoForm
      PROVE  form'[g].row \in Review /\ (form'[g].at = "flushed" => form'[g].sum \in Kept)
  <2>1. PICK y : y = form[g]
    OBVIOUS
  <2>2. g # f /\ y # NoForm /\ form'[g] \in {y, [y EXCEPT !.stale = TRUE]}
    BY <1>9, <2>1 DEF CommitReview
  <2>3. PICK z : z = [y EXCEPT !.stale = TRUE]
    OBVIOUS
  <2>4. z.row = y.row /\ z.at = y.at /\ z.sum = y.sum
    BY <2>3
  <2>5. y.row \in Review /\ (y.at = "flushed" => y.sum \in Kept)
    BY <2>1, <2>2 DEF ReviewsTypes
  <2> QED
    BY <2>2, <2>3, <2>4, <2>5
<1>10. DOMAIN form' = Forms
  BY DEF CommitReview
<1> QED
  BY <1>5, <1>6, <1>7, <1>8, <1>9, <1>10 DEF ReviewsTypes, Review, Reviewed, Kept

\* Every step of a submission keeps the types.
LEMMA ReviewsTypesStep == ReviewsTypes /\ [ReviewsNext]_reviewsVars => ReviewsTypes'
<1> SUFFICES ASSUME ReviewsTypes, [ReviewsNext]_reviewsVars PROVE ReviewsTypes'
  OBVIOUS
<1>1. CASE UNCHANGED reviewsVars
  BY <1>1 DEF reviewsVars, ReviewsTypes, Review, Reviewed, Kept
<1>2. ASSUME NEW f \in Forms, NEW u \in Reviewers, NEW g \in Groups, NEW t \in Reviewed, NEW r \in Ratings,
             SubmitReview(f, u, g, t, r)
      PROVE  ReviewsTypes'
  <2>1. PICK row : row = [id |-> forms + 1, by |-> u, group |-> g, target |-> t, rating |-> r]
    OBVIOUS
  <2>2. forms + 1 \in 1..MaxForms /\ forms' = forms + 1
    BY <1>2, ReviewsAssumption DEF SubmitReview, ReviewsTypes
  <2>3. row \in Review
    BY <2>1, <2>2 DEF Review
  <2>4. PICK x : x = [at |-> "checked", seen |-> rated[t], stale |-> FALSE, row |-> row]
    OBVIOUS
  <2>5. x.row = row /\ x.at # "flushed"
    BY <2>4
  <2>6. form' = [form EXCEPT ![f] = x] /\ UNCHANGED <<reviews, rated, notices, overlaid>>
    BY <1>2, <2>1, <2>4 DEF SubmitReview
  <2>7. forms' \in 0..MaxForms
    BY <2>2, ReviewsAssumption
  <2> QED
    BY <2>3, <2>5, <2>6, <2>7, FormTypesKept
<1>3. ASSUME NEW f \in Forms, FlushReview(f) PROVE ReviewsTypes'
  <2>1. PICK y : y = form[f] /\ y.at = "checked"
    BY <1>3 DEF FlushReview
  <2>2. y # NoForm
    BY <2>1 DEF NoForm
  <2>3. y.row \in Review
    BY <2>1, <2>2 DEF ReviewsTypes
  <2>4. PICK sum : sum = Aggregate(reviews \cup {y.row}, y.row.target)
    OBVIOUS
  <2>5. sum \in Kept
    <3>1. PICK rows : rows = reviews \cup {y.row}
      OBVIOUS
    <3>2. rows \subseteq Review /\ IsFiniteSet(rows)
      BY <2>3, <3>1, FS_AddElement DEF ReviewsTypes
    <3> QED
      BY <2>4, <3>1, <3>2, AggregateIsKept
  <2>6. PICK x : x = [at |-> "flushed", row |-> y.row, stale |-> y.stale /\ y.row.target = Firm,
                      seen |-> IF y.row.target = Firm THEN y.seen ELSE rated[y.row.target], sum |-> sum]
    OBVIOUS
  <2>7. x.row = y.row /\ x.sum = sum
    BY <2>6
  <2>8. form' = [form EXCEPT ![f] = x] /\ UNCHANGED <<reviews, rated, notices, forms, overlaid>>
    BY <1>3, <2>1, <2>4, <2>6 DEF FlushReview
  <2>9. forms' \in 0..MaxForms
    BY <2>8 DEF ReviewsTypes
  <2> QED
    BY <2>3, <2>5, <2>7, <2>8, <2>9, FormTypesKept
<1>4. ASSUME NEW f \in Forms, RollbackReview(f) PROVE ReviewsTypes'
  <2>1. form' = [form EXCEPT ![f] = NoForm] /\ UNCHANGED <<reviews, rated, notices, forms, overlaid>>
    BY <1>4 DEF RollbackReview
  <2>2. forms' \in 0..MaxForms
    BY <2>1 DEF ReviewsTypes
  <2> QED
    BY <2>1, <2>2, FormTypesKept
<1> QED
  BY <1>1, <1>2, <1>3, <1>4, CommitTypesKept DEF ReviewsNext

\* What the invariant says of the types.
LEMMA ReviewsTyped == ReviewsTypes => ReviewsTypeOK
BY DEF ReviewsTypes, ReviewsTypeOK, Kept

-----------------------------------------------------------------------------
(* Credits: the wallet, its transactions, and what is promised of it. *)

\* A difference that k movements explain.
Within(d, k) == d \in -(k * LargestMove)..(k * LargestMove)

\* The rows, and what requests in flight carry.
CreditTables ==
  /\ link \in LinkRow /\ wallet \in [Users -> WalletRow]
  /\ entries \subseteq Entry /\ IsFiniteSet(entries)
  /\ uses \in [Payments -> Nat] /\ pay \in [Payments -> PaymentRow]
  /\ invoiced \subseteq Payments /\ promo \in BOOLEAN /\ lost \in Nat /\ orders \in 0..MaxOrders
  /\ raced \subseteq Payments /\ promised \subseteq Users \cup {"promo"}

SignupFits(x) ==
  /\ x.at \in {"link", "wallet"} /\ x.gen \in 1..MaxLinks
  /\ x.at = "wallet" => x.loaded \in WalletRow /\ x.seen \in Nat

OrderFits(x) ==
  /\ x.at = "read" /\ x.loaded \in PaymentRow /\ x.loaded.status # "CAPTURED"
  /\ x.wallet \in 0..WalletCap /\ x.promo \in BOOLEAN

CaptureFits(x) ==
  /\ x.at \in {"read", "wallet"}
  /\ x.loaded \in PaymentRow /\ x.loaded.status \in {"PENDING", "FAILED"}
  /\ x.at = "wallet" =>
       /\ x.purse \in WalletRow \cup {Idle} /\ x.seen \in Nat /\ x.invoiced \in BOOLEAN
       /\ x.purse # Idle => x.loaded.wallet > 0

CreditRequests ==
  /\ DOMAIN signup = Newcomers /\ \A n \in Newcomers : signup[n] = Idle \/ SignupFits(signup[n])
  /\ DOMAIN order = Payments /\ \A p \in Payments : order[p] = Idle \/ OrderFits(order[p])
  /\ DOMAIN capture = Payments
  /\ \A p \in Payments : /\ DOMAIN capture[p] = Callers
                         /\ \A c \in Callers : capture[p][c] = Idle \/ CaptureFits(capture[p][c])

\* Transactions are single, and of the one they are about.
EntriesFit ==
  /\ \A e \in entries : e.user = IF e.kind = "referral" THEN Referrer ELSE Buyer[e.for]
  /\ \A e, f \in entries : e.kind = f.kind /\ e.for = f.for => e = f
  /\ \A n \in Newcomers : signup[n] # Idle => ~HasEntry("referral", n)
  /\ link.used # None => HasEntry("referral", link.used)

\* A row read when there were so many movements: what it misses is counted,
\* and if it misses none it is what is stored.
ReadAs(row, seen, now, moves, total, missed) ==
  /\ seen <= moves
  /\ Within(row.balance - total, missed + moves - seen)
  /\ seen = moves => row.balance = now.balance /\ row.earned = now.earned /\ row.spent = now.spent
ReadFits(u, row, seen) == ReadAs(row, seen, wallet[u], Movements(u), LedgerOf(u), lost)

LedgerFits ==
  /\ \A u \in Users : ReadFits(u, wallet[u], Movements(u))
  /\ \A n \in Newcomers : signup[n].at = "wallet" => ReadFits(Referrer, signup[n].loaded, signup[n].seen)
  /\ \A p \in Payments, c \in Callers :
       capture[p][c].at = "wallet" /\ capture[p][c].purse # Idle
         => ReadFits(Buyer[p], capture[p][c].purse, capture[p][c].seen)

TotalsFit ==
  lost = 0 => \A u \in Users :
    /\ wallet[u].earned = Earned(WalletTransactions(u))
    /\ wallet[u].spent = Spent(WalletTransactions(u))
    /\ wallet[u].balance = wallet[u].earned - wallet[u].spent

\* What a payment spent, and what a capture of it found.
SpentOn(p) == {e \in entries : e.kind = "checkout" /\ e.for = p}
SpendsFit ==
  /\ CapturedSpendsItsPromise
  /\ \A p \in Payments, c \in Callers :
       capture[p][c].at = "wallet" /\ capture[p][c].purse = Idle
         => capture[p][c].loaded.wallet = 0 \/ HasEntry("checkout", p)

\* Payments that have been promised something and not captured.
Busy(p) == Open(p) \/ order[p] # Idle
OneBusy ==
  \A p, q \in Payments : p # q /\ Busy(p) /\ Busy(q) =>
    "promo" \in promised /\ (Buyer[p] = Buyer[q] => Buyer[p] \in promised)

\* The wallet covers what a payment or an order promises.
Covered(p, balance) ==
  /\ Open(p) => pay[p].wallet <= balance
  /\ order[p] # Idle /\ pay[p].status # "CAPTURED" => order[p].wallet <= balance
CreditRoom ==
  raced = {} /\ lost = 0 => \A u \in Users \ promised :
    /\ wallet[u].balance >= 0
    /\ \A p \in Payments : Buyer[p] = u => Covered(p, wallet[u].balance)

\* A code that was granted and is not used yet has room.
Holds(p) ==
  \/ Open(p) /\ pay[p].promo
  \/ order[p] # Idle /\ order[p].promo /\ pay[p].status # "CAPTURED"
PromoRoom ==
  raced = {} /\ "promo" \notin promised =>
    /\ TotalUses <= PromoLimit /\ \A u \in Users : UsesOf(u) <= UserLimit
    /\ \A p \in Payments : Holds(p) => TotalUses < PromoLimit /\ UsesOf(Buyer[p]) < UserLimit

\* What checkouts spent is what captured payments say they did.
Captured == {p \in Payments : pay[p].status = "CAPTURED"}
CapturedWallet == SumFunctionOnSet([p \in Payments |-> pay[p].wallet], Captured)
Balanced == raced = {} => Spent(entries) = CapturedWallet

CreditsInv ==
  /\ CreditTables /\ CreditRequests /\ EntriesFit /\ LedgerFits /\ TotalsFit /\ SpendsFit
  /\ OneBusy /\ CreditRoom /\ PromoRoom /\ Balanced

-----------------------------------------------------------------------------
\* The largest movement is a number no movement exceeds.
LEMMA MovesAreBounded ==
  /\ LargestMove \in Nat /\ Bonus <= LargestMove /\ WalletCap <= LargestMove
  /\ Bonus \in Nat /\ WalletCap \in Nat
  BY LargerOfTwo, CreditsAssumption DEF LargestMove

\* More movements explain more.
LEMMA WithinMore ==
  ASSUME NEW d \in Int, NEW j \in Nat, NEW k \in Nat, j <= k, Within(d, j)
  PROVE  Within(d, k)
<1>1. PICK L \in Nat : L = LargestMove
  BY MovesAreBounded
<1>2. j * L <= k * L /\ j * L \in Nat /\ k * L \in Nat
  BY <1>1
<1>3. d \in -(j * L)..(j * L)
  BY <1>1 DEF Within
<1>4. d \in -(k * L)..(k * L)
  BY <1>2, <1>3
<1> QED
  BY <1>1, <1>4 DEF Within

\* One movement more explains its amount.
LEMMA WithinOneMore ==
  ASSUME NEW d \in Int, NEW k \in Nat, Within(d, k), NEW a \in -LargestMove..LargestMove
  PROVE  Within(d - a, k + 1)
<1>1. PICK L \in Nat : L = LargestMove
  BY MovesAreBounded
<1>2. (k + 1) * L = k * L + L /\ k * L \in Nat
  BY <1>1
<1>3. d \in -(k * L)..(k * L) /\ a \in -L..L
  BY <1>1 DEF Within
<1>4. d - a \in -((k + 1) * L)..((k + 1) * L)
  BY <1>2, <1>3
<1> QED
  BY <1>1, <1>4 DEF Within

\* Nothing but itself is within no movements.
LEMMA WithinNone ==
  ASSUME NEW d \in Int
  PROVE  Within(d, 0) <=> d = 0
<1>1. PICK L \in Nat : L = LargestMove
  BY MovesAreBounded
<1>2. 0 * L = 0
  BY <1>1
<1>3. Within(d, 0) <=> d \in -(0 * L)..(0 * L)
  BY <1>1 DEF Within
<1> QED
  BY <1>2, <1>3

\* A read stays good while another movement of the wallet commits.
LEMMA ReadsMove ==
  ASSUME NEW row \in WalletRow, NEW seen \in Nat, NEW now, NEW moves \in Nat, NEW total \in Int,
         NEW missed \in Nat, ReadAs(row, seen, now, moves, total, missed),
         NEW a \in -LargestMove..LargestMove, NEW more \in Nat, missed <= more, NEW after
  PROVE  ReadAs(row, seen, after, moves + 1, total + a, more)
<1>1. PICK d \in Int : d = row.balance - total
  BY DEF WalletRow
<1>2. PICK j \in Nat : j = missed + moves - seen
  BY DEF ReadAs
<1>3. PICK k \in Nat : k = more + (moves + 1) - seen
  BY DEF ReadAs
<1>4. Within(d, j)
  BY <1>1, <1>2 DEF ReadAs
<1>5. a \in Int
  BY MovesAreBounded
<1>6. Within(d - a, j + 1) /\ d - a \in Int
  BY <1>4, <1>5, WithinOneMore
<1>7. Within(d - a, k)
  <2>1. j + 1 <= k
    BY <1>2, <1>3 DEF ReadAs
  <2> QED
    BY <1>5, <1>6, <2>1, WithinMore
<1>8. d - a = row.balance - (total + a)
  BY <1>1, <1>5 DEF WalletRow
<1>9. seen <= moves + 1 /\ seen # moves + 1
  BY DEF ReadAs
<1> QED
  BY <1>3, <1>7, <1>8, <1>9 DEF ReadAs

\* The wallet written on such a read misses what the read missed.
LEMMA WritesFit ==
  ASSUME NEW row \in WalletRow, NEW seen \in Nat, NEW now, NEW moves \in Nat, NEW total \in Int,
         NEW missed \in Nat, ReadAs(row, seen, now, moves, total, missed),
         NEW a \in Int, NEW after, after.balance = row.balance + a
  PROVE  ReadAs(after, moves + 1, after, moves + 1, total + a, missed + moves - seen)
<1>1. PICK d \in Int : d = row.balance - total
  BY DEF WalletRow
<1>2. PICK j \in Nat : j = missed + moves - seen
  BY DEF ReadAs
<1>3. Within(d, j)
  BY <1>1, <1>2 DEF ReadAs
<1>4. d = after.balance - (total + a)
  BY <1>1 DEF WalletRow
<1>5. j = j + (moves + 1) - (moves + 1)
  BY <1>2
<1> QED
  BY <1>2, <1>3, <1>4, <1>5 DEF ReadAs

\* An entry's amount is a number no larger than a movement.
LEMMA AmountOfEntry ==
  ASSUME NEW e \in Entry
  PROVE  /\ Amount[e] = e.amount /\ e.amount \in Int /\ e.amount \in -LargestMove..LargestMove
         /\ e.kind \in {"referral", "checkout"}
         /\ e.kind = "referral" => e.amount = Bonus /\ e.for \in Newcomers
         /\ e.kind = "checkout" => e.amount \in -WalletCap..-1 /\ e.for \in Payments
<1>1. Amount[e] = e.amount
  BY DEF Amount
<1>2. /\ e.kind \in {"referral", "checkout"}
      /\ e.kind = "referral" => e.amount = Bonus /\ e.for \in Newcomers
      /\ e.kind = "checkout" => e.amount \in -WalletCap..-1 /\ e.for \in Payments
  BY DEF Entry
<1>3. e.amount \in Int /\ e.amount \in -LargestMove..LargestMove
  <2>1. CASE e.amount = Bonus
    BY <2>1, MovesAreBounded
  <2>2. CASE e.amount \in -WalletCap..-1
    BY <2>2, MovesAreBounded
  <2> QED
    BY <1>2, <2>1, <2>2
<1> QED
  BY <1>1, <1>2, <1>3

\* Sums over transactions are numbers, and one more adds its amount.
LEMMA AmountsAdd ==
  ASSUME NEW S \in SUBSET Entry, IsFiniteSet(S), NEW e \in Entry, e \notin S
  PROVE  /\ SumFunctionOnSet(Amount, S) \in Int
         /\ SumFunctionOnSet(Amount, S \cup {e}) = SumFunctionOnSet(Amount, S) + e.amount
<1>1. \A x \in S \cup {e} : Amount[x] \in Int
  BY AmountOfEntry
<1>2. SumFunctionOnSet(Amount, S) \in Int
  BY <1>1, SumIsInt
<1>3. SumFunctionOnSet(Amount, S \cup {e}) = Amount[e] + SumFunctionOnSet(Amount, S)
  BY <1>1, SumWithOne
<1>4. Amount[e] = e.amount /\ e.amount \in Int
  BY AmountOfEntry
<1> QED
  BY <1>2, <1>3, <1>4

\* The sums over parts of the transactions when one joins them.
LEMMA EntryJoins ==
  ASSUME CreditTables, NEW e \in Entry, e \notin entries, entries' = entries \cup {e}, NEW u
  PROVE  /\ Movements(u) \in Nat /\ LedgerOf(u) \in Int
         /\ Movements(u)' = IF e.user = u THEN Movements(u) + 1 ELSE Movements(u)
         /\ LedgerOf(u)' = IF e.user = u THEN LedgerOf(u) + e.amount ELSE LedgerOf(u)
<1> DEFINE W == WalletTransactions(u)
<1>1. W \subseteq Entry /\ IsFiniteSet(W) /\ e \notin W
  BY FS_Subset DEF CreditTables, WalletTransactions
<1>2. WalletTransactions(u)' = IF e.user = u THEN W \cup {e} ELSE W
  BY DEF WalletTransactions
<1>3. Movements(u) = Cardinality(W) /\ Movements(u)' = Cardinality(WalletTransactions(u)')
  BY DEF Movements, WalletTransactions
<1>4. LedgerOf(u) = SumFunctionOnSet(Amount, W) /\ LedgerOf(u)' = SumFunctionOnSet(Amount, WalletTransactions(u)')
  BY DEF LedgerOf
<1> HIDE DEF W
<1>5. Cardinality(W) \in Nat /\ Cardinality(W \cup {e}) = Cardinality(W) + 1
  BY <1>1, FS_CardinalityType, FS_AddElement
<1>6. /\ SumFunctionOnSet(Amount, W) \in Int
      /\ SumFunctionOnSet(Amount, W \cup {e}) = SumFunctionOnSet(Amount, W) + e.amount
  BY <1>1, AmountsAdd
<1> QED
  BY <1>2, <1>3, <1>4, <1>5, <1>6

\* What is earned and spent when a transaction joins.
LEMMA EarnedSpentJoin ==
  ASSUME NEW S \in SUBSET Entry, IsFiniteSet(S), NEW e \in Entry, e \notin S
  PROVE  /\ Earned(S) \in Int /\ Spent(S) \in Int
         /\ e.amount >= 0 => Earned(S \cup {e}) = Earned(S) + e.amount /\ Spent(S \cup {e}) = Spent(S)
         /\ e.amount < 0 => Earned(S \cup {e}) = Earned(S) /\ Spent(S \cup {e}) = Spent(S) - e.amount
<1> DEFINE P == {x \in S : x.amount >= 0}
           N == {x \in S : x.amount < 0}
           Q == {x \in S \cup {e} : x.amount >= 0}
           M == {x \in S \cup {e} : x.amount < 0}
<1>1. P \subseteq Entry /\ IsFiniteSet(P) /\ N \subseteq Entry /\ IsFiniteSet(N) /\ e \notin P /\ e \notin N
  BY FS_Subset
<1>2. e.amount \in Int
  BY AmountOfEntry
<1>3. /\ e.amount >= 0 => Q = P \cup {e} /\ M = N
      /\ e.amount < 0 => Q = P /\ M = N \cup {e}
  BY <1>2
<1>4. /\ Earned(S) = SumFunctionOnSet(Amount, P) /\ Spent(S) = -SumFunctionOnSet(Amount, N)
      /\ Earned(S \cup {e}) = SumFunctionOnSet(Amount, Q)
      /\ Spent(S \cup {e}) = -SumFunctionOnSet(Amount, M)
  BY DEF Earned, Spent
<1> HIDE DEF P, N, Q, M
<1>5. SumFunctionOnSet(Amount, P) \in Int /\ SumFunctionOnSet(Amount, P \cup {e}) = SumFunctionOnSet(Amount, P) + e.amount
  BY <1>1, AmountsAdd
<1>6. SumFunctionOnSet(Amount, N) \in Int /\ SumFunctionOnSet(Amount, N \cup {e}) = SumFunctionOnSet(Amount, N) + e.amount
  BY <1>1, AmountsAdd
<1>7. CASE e.amount >= 0
  <2>1. Q = P \cup {e} /\ M = N /\ ~(e.amount < 0)
    BY <1>2, <1>3, <1>7
  <2> QED
    BY <1>2, <1>4, <1>5, <1>6, <1>7, <2>1
<1>8. CASE e.amount < 0
  <2>1. Q = P /\ M = N \cup {e} /\ ~(e.amount >= 0)
    BY <1>2, <1>3, <1>8
  <2> QED
    BY <1>2, <1>4, <1>5, <1>6, <1>8, <2>1
<1> QED
  BY <1>2, <1>7, <1>8

\* The number of a traveller's movements and their sum are numbers.
LEMMA LedgerTypes ==
  ASSUME CreditTables, NEW u
  PROVE  /\ Movements(u) \in Nat /\ LedgerOf(u) \in Int
         /\ WalletTransactions(u) \subseteq Entry /\ IsFiniteSet(WalletTransactions(u))
<1> DEFINE W == WalletTransactions(u)
<1>1. W \subseteq Entry /\ IsFiniteSet(W)
  BY FS_Subset DEF CreditTables, WalletTransactions
<1>2. \A x \in W : Amount[x] \in Int
  BY <1>1, AmountOfEntry
<1>3. SumFunctionOnSet(Amount, W) \in Int /\ Cardinality(W) \in Nat
  <2> HIDE DEF W
  <2> QED
    BY <1>1, <1>2, SumIsInt, FS_CardinalityType
<1> QED
  BY <1>1, <1>3 DEF Movements, LedgerOf, WalletTransactions

-----------------------------------------------------------------------------
\* The wallet's side of a bonus or a debit: u's wallet is written from a row
\* that was read, with one transaction of u.
Move(u, row, seen, e) ==
  /\ e \in Entry /\ e \notin entries /\ e.user = u /\ entries' = entries \cup {e}
  /\ wallet' \in [Users -> WalletRow] /\ \A v \in Users \ {u} : wallet'[v] = wallet[v]
  /\ wallet'[u].balance = row.balance + e.amount
  /\ IF e.amount >= 0
     THEN wallet'[u].earned = row.earned + e.amount /\ wallet'[u].spent = wallet[u].spent
     ELSE wallet'[u].spent = row.spent - e.amount /\ wallet'[u].earned = wallet[u].earned
  /\ lost' = lost + Movements(u) - seen

\* Every read stays good, and so is the wallet that is written.
LEMMA MoveReads ==
  ASSUME CreditTables, NEW u \in Users, NEW row \in WalletRow, NEW seen \in Nat,
         ReadFits(u, row, seen), NEW e, Move(u, row, seen, e)
  PROVE  /\ lost' \in Nat /\ lost <= lost'
         /\ \A v \in Users, r \in WalletRow, n \in Nat : ReadFits(v, r, n) =>
              ReadAs(r, n, wallet'[v], Movements(v)', LedgerOf(v)', lost')
         /\ ReadAs(wallet'[u], Movements(u)', wallet'[u], Movements(u)', LedgerOf(u)', lost')
<1>1. /\ e \in Entry /\ e \notin entries /\ e.user = u /\ entries' = entries \cup {e}
      /\ \A v \in Users \ {u} : wallet'[v] = wallet[v]
      /\ wallet'[u].balance = row.balance + e.amount
      /\ lost' = lost + Movements(u) - seen
  BY DEF Move
<1>2. /\ \A v : Movements(v) \in Nat /\ LedgerOf(v) \in Int
      /\ Movements(u)' = Movements(u) + 1 /\ LedgerOf(u)' = LedgerOf(u) + e.amount
      /\ \A v \in Users \ {u} : Movements(v)' = Movements(v) /\ LedgerOf(v)' = LedgerOf(v)
  BY <1>1, EntryJoins
<1>3. lost \in Nat /\ seen <= Movements(u) /\ e.amount \in -LargestMove..LargestMove /\ e.amount \in Int
  BY <1>1, AmountOfEntry DEF CreditTables, ReadFits, ReadAs
<1>4. lost' \in Nat /\ lost <= lost'
  BY <1>1, <1>2, <1>3
<1>5. ASSUME NEW v \in Users, NEW r \in WalletRow, NEW n \in Nat, ReadFits(v, r, n)
      PROVE  ReadAs(r, n, wallet'[v], Movements(v)', LedgerOf(v)', lost')
  <2>1. ReadAs(r, n, wallet[v], Movements(v), LedgerOf(v), lost)
    BY <1>5 DEF ReadFits
  <2>2. CASE v = u
    BY <1>2, <1>3, <1>4, <2>1, <2>2, ReadsMove
  <2>3. CASE v # u
    <3>1. wallet'[v] = wallet[v] /\ Movements(v)' = Movements(v) /\ LedgerOf(v)' = LedgerOf(v)
      BY <1>1, <1>2, <2>3
    <3>2. PICK d \in Int : d = r.balance - LedgerOf(v)
      BY <1>2 DEF WalletRow
    <3>3. n <= Movements(v) /\ Within(d, lost + Movements(v) - n)
      BY <2>1, <3>2 DEF ReadAs
    <3>4. PICK j \in Nat, k \in Nat : j = lost + Movements(v) - n /\ k = lost' + Movements(v) - n /\ j <= k
      BY <1>2, <1>3, <1>4, <3>3
    <3>5. Within(d, lost' + Movements(v) - n)
      BY <3>3, <3>4, WithinMore
    <3> QED
      BY <2>1, <3>1, <3>2, <3>3, <3>5 DEF ReadAs
  <2> QED
    BY <2>2, <2>3
<1>6. ReadAs(wallet'[u], Movements(u)', wallet'[u], Movements(u)', LedgerOf(u)', lost')
  <2>1. ReadAs(row, seen, wallet[u], Movements(u), LedgerOf(u), lost)
    BY DEF ReadFits
  <2>2. PICK m \in Nat, t \in Int, a \in Int :
          /\ m = Movements(u) /\ t = LedgerOf(u) /\ a = e.amount
          /\ Movements(u)' = m + 1 /\ LedgerOf(u)' = t + a
    BY <1>2, <1>3
  <2>3. wallet'[u].balance = row.balance + a /\ lost' = lost + m - seen
    BY <1>1, <2>2
  <2>4. ReadAs(row, seen, wallet[u], m, t, lost)
    BY <2>1, <2>2
  <2>5. PICK after : after = wallet'[u] /\ after.balance = row.balance + a
    BY <2>3
  <2>6. ReadAs(after, m + 1, after, m + 1, t + a, lost + m - seen)
    BY <1>3, <2>2, <2>4, <2>5, WritesFit
  <2> QED
    BY <2>2, <2>3, <2>5, <2>6
<1> QED
  BY <1>4, <1>5, <1>6

\* Nor do the totals differ from the transactions unless a write was lost.
LEMMA MoveTotals ==
  ASSUME CreditTables, LedgerFits, TotalsFit, NEW u \in Users, NEW row \in WalletRow, NEW seen \in Nat,
         ReadFits(u, row, seen), NEW e, Move(u, row, seen, e)
  PROVE  TotalsFit'
<1> SUFFICES ASSUME lost' = 0, NEW v \in Users
             PROVE  /\ wallet'[v].earned = Earned(WalletTransactions(v)')
                    /\ wallet'[v].spent = Spent(WalletTransactions(v)')
                    /\ wallet'[v].balance = wallet'[v].earned - wallet'[v].spent
  BY DEF TotalsFit, Earned, Spent, WalletTransactions
<1> DEFINE W == WalletTransactions(v)
<1>1. /\ e \in Entry /\ e \notin entries /\ e.user = u /\ entries' = entries \cup {e}
      /\ lost' = lost + Movements(u) - seen
      /\ \A x \in Users \ {u} : wallet'[x] = wallet[x]
  BY DEF Move
<1>2. lost = 0 /\ seen = Movements(u)
  <2>1. PICK m \in Nat : m = Movements(u)
    BY LedgerTypes
  <2>2. lost \in Nat /\ seen <= m
    BY <2>1 DEF CreditTables, ReadFits, ReadAs
  <2>3. lost + m - seen = 0
    BY <1>1, <2>1
  <2> QED
    BY <2>1, <2>2, <2>3
<1>3. wallet[v].earned = Earned(W) /\ wallet[v].spent = Spent(W) /\ wallet[v].balance = wallet[v].earned - wallet[v].spent
  BY <1>2 DEF TotalsFit
<1>4. W \subseteq Entry /\ IsFiniteSet(W) /\ e \notin W
  BY <1>1, FS_Subset DEF CreditTables, WalletTransactions
<1>5. CASE v # u
  <2>1. WalletTransactions(v)' = W
    BY <1>1, <1>5 DEF WalletTransactions
  <2> QED
    BY <1>1, <1>3, <1>5, <2>1
<1>6. CASE v = u
  <2>1. WalletTransactions(v)' = W \cup {e}
    BY <1>1, <1>6 DEF WalletTransactions
  <2>2. row.balance = wallet[u].balance /\ row.earned = wallet[u].earned /\ row.spent = wallet[u].spent
    BY <1>2 DEF ReadFits, ReadAs
  <2> HIDE DEF W
  <2>3. /\ Earned(W) \in Int /\ Spent(W) \in Int
        /\ e.amount >= 0 => Earned(W \cup {e}) = Earned(W) + e.amount /\ Spent(W \cup {e}) = Spent(W)
        /\ e.amount < 0 => Earned(W \cup {e}) = Earned(W) /\ Spent(W \cup {e}) = Spent(W) - e.amount
    BY <1>1, <1>4, EarnedSpentJoin
  <2>4. e.amount \in Int
    BY <1>1, AmountOfEntry
  <2>5. /\ wallet'[u].balance = row.balance + e.amount
        /\ IF e.amount >= 0
           THEN wallet'[u].earned = row.earned + e.amount /\ wallet'[u].spent = wallet[u].spent
           ELSE wallet'[u].spent = row.spent - e.amount /\ wallet'[u].earned = wallet[u].earned
    BY DEF Move
  <2>6. e.amount >= 0 \/ e.amount < 0
    BY <2>4
  <2> QED
    BY <1>3, <1>6, <2>1, <2>2, <2>3, <2>4, <2>5, <2>6
<1> QED
  BY <1>5, <1>6

\* A bonus or a debit leaves every read in flight good, and the wallets too.
LEMMA LedgerMoves ==
  ASSUME CreditTables, CreditRequests, LedgerFits,
         NEW u \in Users, NEW row \in WalletRow, NEW seen \in Nat, ReadFits(u, row, seen),
         NEW e, Move(u, row, seen, e),
         \A n \in Newcomers : signup'[n].at = "wallet" => signup'[n] = signup[n],
         \A p \in Payments, c \in Callers :
           capture'[p][c].at = "wallet" => capture'[p][c] = capture[p][c]
  PROVE  LedgerFits'
<1>1. /\ \A v \in Users, r \in WalletRow, n \in Nat : ReadFits(v, r, n) =>
           ReadAs(r, n, wallet'[v], Movements(v)', LedgerOf(v)', lost')
      /\ ReadAs(wallet'[u], Movements(u)', wallet'[u], Movements(u)', LedgerOf(u)', lost')
  BY MoveReads
<1>2. ASSUME NEW v \in Users
      PROVE  ReadAs(wallet'[v], Movements(v)', wallet'[v], Movements(v)', LedgerOf(v)', lost')
  <2>1. CASE v = u
    BY <1>1, <2>1
  <2>2. CASE v # u
    <3>1. wallet'[v] = wallet[v] /\ wallet[v] \in WalletRow /\ Movements(v) \in Nat
      BY <2>2, LedgerTypes DEF Move, CreditTables
    <3>2. Movements(v)' = Movements(v)
      BY <2>2, EntryJoins DEF Move
    <3>3. ReadFits(v, wallet[v], Movements(v))
      BY DEF LedgerFits
    <3> QED
      BY <1>1, <3>1, <3>2, <3>3
  <2> QED
    BY <2>1, <2>2
<1>3. ASSUME NEW n \in Newcomers, signup'[n].at = "wallet"
      PROVE  ReadAs(signup'[n].loaded, signup'[n].seen, wallet'[Referrer], Movements(Referrer)',
                   LedgerOf(Referrer)', lost')
  <2>1. signup'[n] = signup[n] /\ signup[n].at = "wallet"
    BY <1>3
  <2>2. signup[n].loaded \in WalletRow /\ signup[n].seen \in Nat
    BY <2>1 DEF CreditRequests, SignupFits, Idle
  <2>3. ReadFits(Referrer, signup[n].loaded, signup[n].seen)
    BY <2>1 DEF LedgerFits
  <2> QED
    BY <1>1, <2>1, <2>2, <2>3, CreditsAssumption
<1>4. ASSUME NEW p \in Payments, NEW c \in Callers,
             capture'[p][c].at = "wallet", capture'[p][c].purse # Idle
      PROVE  ReadAs(capture'[p][c].purse, capture'[p][c].seen, wallet'[Buyer[p]], Movements(Buyer[p])',
                   LedgerOf(Buyer[p])', lost')
  <2>1. capture'[p][c] = capture[p][c] /\ capture[p][c].at = "wallet" /\ capture[p][c].purse # Idle
    BY <1>4
  <2>2. capture[p][c].purse \in WalletRow /\ capture[p][c].seen \in Nat
    BY <2>1 DEF CreditRequests, CaptureFits, Idle
  <2>3. ReadFits(Buyer[p], capture[p][c].purse, capture[p][c].seen)
    BY <2>1 DEF LedgerFits
  <2>4. Buyer[p] \in Users
    BY CreditsAssumption
  <2> QED
    BY <1>1, <2>1, <2>2, <2>3, <2>4
<1> QED
  BY <1>2, <1>3, <1>4 DEF LedgerFits, ReadFits

\* While no transaction commits, a wallet read now is as good as what is stored.
LEMMA LedgerStays ==
  ASSUME CreditTables, LedgerFits, TotalsFit, entries' = entries, lost' = lost,
         \A u \in Users : /\ wallet'[u].balance = wallet[u].balance
                          /\ wallet'[u].earned = wallet[u].earned
                          /\ wallet'[u].spent = wallet[u].spent,
         \A n \in Newcomers : signup'[n].at = "wallet" =>
           \/ signup'[n] = signup[n]
           \/ signup'[n].loaded = wallet[Referrer] /\ signup'[n].seen = Movements(Referrer),
         \A p \in Payments, c \in Callers : capture'[p][c].at = "wallet" =>
           \/ capture'[p][c] = capture[p][c]
           \/ /\ capture'[p][c].purse \in {Idle, wallet[Buyer[p]]}
              /\ capture'[p][c].seen = Movements(Buyer[p])
  PROVE  LedgerFits' /\ TotalsFit'
<1>1. \A u : /\ Movements(u)' = Movements(u) /\ LedgerOf(u)' = LedgerOf(u)
             /\ WalletTransactions(u)' = WalletTransactions(u)
  BY DEF Movements, LedgerOf, WalletTransactions
<1>2. \A u \in Users : \A row, seen : ReadFits(u, row, seen) =>
        ReadAs(row, seen, wallet'[u], Movements(u)', LedgerOf(u)', lost')
  BY <1>1 DEF ReadFits, ReadAs
<1>3. ASSUME NEW u \in Users
      PROVE  /\ ReadFits(u, wallet[u], Movements(u))
             /\ ReadAs(wallet'[u], Movements(u)', wallet'[u], Movements(u)', LedgerOf(u)', lost')
  <2>1. ReadFits(u, wallet[u], Movements(u))
    BY DEF LedgerFits
  <2>2. ReadAs(wallet[u], Movements(u), wallet'[u], Movements(u)', LedgerOf(u)', lost')
    BY <1>2, <2>1
  <2> QED
    BY <1>1, <2>1, <2>2 DEF ReadAs
<1>4. ASSUME NEW n \in Newcomers, signup'[n].at = "wallet"
      PROVE  ReadAs(signup'[n].loaded, signup'[n].seen, wallet'[Referrer], Movements(Referrer)',
                   LedgerOf(Referrer)', lost')
  <2>1. ReadFits(Referrer, signup'[n].loaded, signup'[n].seen)
    BY <1>3, <1>4, CreditsAssumption DEF LedgerFits
  <2> QED
    BY <1>2, <2>1, CreditsAssumption
<1>5. ASSUME NEW p \in Payments, NEW c \in Callers,
             capture'[p][c].at = "wallet", capture'[p][c].purse # Idle
      PROVE  ReadAs(capture'[p][c].purse, capture'[p][c].seen, wallet'[Buyer[p]], Movements(Buyer[p])',
                   LedgerOf(Buyer[p])', lost')
  <2>1. Buyer[p] \in Users
    BY CreditsAssumption
  <2>2. ReadFits(Buyer[p], capture'[p][c].purse, capture'[p][c].seen)
    BY <1>3, <1>5, <2>1 DEF LedgerFits
  <2> QED
    BY <1>2, <2>1, <2>2
<1>6. LedgerFits'
  BY <1>3, <1>4, <1>5 DEF LedgerFits, ReadFits
<1>7. TotalsFit'
  BY <1>1 DEF TotalsFit, Earned, Spent, WalletTransactions
<1> QED
  BY <1>6, <1>7

\* Nor do promises change with what they are not about.
LEMMA PromisesStay ==
  ASSUME CapturedSpendsItsPromise, OneBusy, CreditRoom, PromoRoom, Balanced,
         UNCHANGED <<entries, pay, order, uses, lost, raced, promised>>,
         \A u \in Users : wallet'[u].balance = wallet[u].balance
  PROVE  CapturedSpendsItsPromise' /\ OneBusy' /\ CreditRoom' /\ PromoRoom' /\ Balanced'
<1>1. CapturedSpendsItsPromise'
  BY DEF CapturedSpendsItsPromise
<1>2. OneBusy'
  BY DEF OneBusy, Busy, Open
<1>3. CreditRoom'
  BY DEF CreditRoom, Covered, Open
<1>4. PromoRoom'
  BY DEF PromoRoom, Holds, Open, TotalUses, UsesOf
<1>5. Balanced'
  BY DEF Balanced, Spent, CapturedWallet, Captured
<1> QED
  BY <1>1, <1>2, <1>3, <1>4, <1>5

-----------------------------------------------------------------------------
\* At first nothing is promised, spent or read.
LEMMA CreditsStart == CreditsInit => CreditsInv
<1> SUFFICES ASSUME CreditsInit PROVE CreditsInv
  OBVIOUS
<1>1. CreditTables
  <2>1. link \in LinkRow /\ orders \in 0..MaxOrders
    BY CreditsAssumption DEF CreditsInit, LinkRow
  <2>2. wallet \in [Users -> WalletRow]
    BY DEF CreditsInit, WalletRow
  <2>3. pay \in [Payments -> PaymentRow]
    <3>1. [status |-> "none", wallet |-> 0, promo |-> FALSE] \in PaymentRow
      BY CreditsAssumption DEF PaymentRow
    <3> QED
      BY <3>1 DEF CreditsInit
  <2>4. entries = {} /\ IsFiniteSet(entries)
    BY FS_EmptySet DEF CreditsInit
  <2> QED
    BY <2>1, <2>2, <2>3, <2>4 DEF CreditsInit, CreditTables
<1>2. CreditRequests
  BY DEF CreditsInit, CreditRequests
<1>3. EntriesFit
  BY DEF CreditsInit, EntriesFit, HasEntry
<1>4. \A u : WalletTransactions(u) = {} /\ Movements(u) = 0 /\ LedgerOf(u) = 0
  <2>1. \A u : WalletTransactions(u) = {} /\ {e \in entries : e.user = u} = {}
    BY DEF CreditsInit, WalletTransactions
  <2> QED
    BY <2>1, FS_EmptySet, SumOfNone DEF Movements, LedgerOf
<1>5. Earned({}) = 0 /\ Spent({}) = 0
  <2>1. {e \in {} : e.amount >= 0} = {} /\ {e \in {} : e.amount < 0} = {}
    OBVIOUS
  <2>2. Earned({}) = SumFunctionOnSet(Amount, {}) /\ Spent({}) = -SumFunctionOnSet(Amount, {})
    BY <2>1 DEF Earned, Spent
  <2>3. SumFunctionOnSet(Amount, {}) = 0
    BY SumOfNone
  <2> QED
    BY <2>2, <2>3
<1>6. LedgerFits
  <2>1. ASSUME NEW u \in Users PROVE ReadFits(u, wallet[u], Movements(u))
    <3>1. wallet[u].balance = 0 /\ lost = 0
      BY DEF CreditsInit
    <3>2. Within(0, 0)
      BY WithinNone
    <3>3. wallet[u].balance - LedgerOf(u) = 0 /\ lost + Movements(u) - Movements(u) = 0
      BY <1>4, <3>1
    <3> QED
      BY <1>4, <3>2, <3>3 DEF ReadFits, ReadAs
  <2>2. \A n \in Newcomers : signup[n].at = "idle"
    BY DEF CreditsInit, Idle
  <2>3. \A p \in Payments, c \in Callers : capture[p][c].at = "idle"
    BY DEF CreditsInit, Idle
  <2> QED
    BY <2>1, <2>2, <2>3 DEF LedgerFits
<1>7. TotalsFit
  <2>1. \A u \in Users : wallet[u].earned = 0 /\ wallet[u].spent = 0 /\ wallet[u].balance = 0
    BY DEF CreditsInit
  <2> QED
    BY <1>4, <1>5, <2>1 DEF TotalsFit
<1>8. SpendsFit
  <2>1. \A p \in Payments : pay[p].status = "none" /\ uses[p] = 0 /\ SpentOn(p) = {}
    BY DEF CreditsInit, SpentOn
  <2>2. \A p \in Payments, c \in Callers : capture[p][c].at = "idle"
    BY DEF CreditsInit, Idle
  <2> QED
    BY <2>1, <2>2 DEF SpendsFit, CapturedSpendsItsPromise, SpentOn
<1>9. \A p \in Payments : ~Open(p) /\ order[p] = Idle /\ pay[p].status # "CAPTURED"
  BY DEF CreditsInit, Open
<1>10. OneBusy
  BY <1>9 DEF OneBusy, Busy
<1>11. CreditRoom
  BY <1>9 DEF CreditRoom, Covered, CreditsInit
<1>12. PromoRoom
  <2>1. \A p \in Payments : uses[p] = 0
    BY DEF CreditsInit
  <2>2. TotalUses = 0
    BY <2>1, SumOfZeros, CreditsAssumption DEF TotalUses
  <2>3. ASSUME NEW u \in Users PROVE UsesOf(u) = 0
    <3> DEFINE S == {p \in Payments : Buyer[p] = u}
    <3>1. IsFiniteSet(S) /\ \A p \in S : uses[p] = 0
      BY <2>1, FS_Subset, CreditsAssumption
    <3> HIDE DEF S
    <3>2. SumFunctionOnSet(uses, S) = 0
      BY <3>1, SumOfZeros
    <3> QED
      BY <3>2 DEF UsesOf, S
  <2>4. PromoLimit \in Nat /\ UserLimit \in Nat
    BY CreditsAssumption
  <2> QED
    BY <1>9, <2>2, <2>3, <2>4 DEF PromoRoom, Holds
<1>13. Balanced
  <2>1. Captured = {} /\ entries = {}
    BY <1>9 DEF Captured, CreditsInit
  <2>2. CapturedWallet = 0
    BY <2>1, SumOfNone DEF CapturedWallet
  <2> QED
    BY <1>5, <2>1, <2>2 DEF Balanced
<1> QED
  BY <1>1, <1>2, <1>3, <1>6, <1>7, <1>8, <1>10, <1>11, <1>12, <1>13 DEF CreditsInv

\* The link, the code and the invoices on their own.
LEMMA OthersKeepCredits ==
  ASSUME CreditsInv,
         \/ GetOrCreateReferralLink \/ LinkExpires \/ PromoChange
         \/ \E p \in Payments : LookAtInvoice(p)
  PROVE  CreditsInv'
<1>1. /\ UNCHANGED <<wallet, entries, uses, pay, signup, order, capture, orders, lost, raced, promised>>
      /\ link' \in LinkRow /\ (link'.used # None => link'.used = link.used)
      /\ invoiced' \subseteq Payments /\ promo' \in BOOLEAN
  <2>1. CASE GetOrCreateReferralLink
    <3>1. link.gen \in 0..MaxLinks /\ MaxLinks \in Nat
      BY CreditsAssumption DEF CreditsInv, CreditTables, LinkRow
    <3>2. link' = [gen |-> link.gen + 1, used |-> None, expired |-> FALSE] /\ link.gen + 1 \in 0..MaxLinks
      BY <2>1, <3>1 DEF GetOrCreateReferralLink
    <3> QED
      BY <2>1, <3>2 DEF GetOrCreateReferralLink, requests, history, CreditsInv, CreditTables, LinkRow
  <2>2. CASE LinkExpires
    BY <2>2 DEF LinkExpires, requests, history, CreditsInv, CreditTables, LinkRow
  <2>3. CASE PromoChange
    BY <2>3 DEF PromoChange, requests, history, CreditsInv, CreditTables
  <2>4. CASE \E p \in Payments : LookAtInvoice(p)
    BY <2>4 DEF LookAtInvoice, requests, history, CreditsInv, CreditTables
  <2> QED
    BY <2>1, <2>2, <2>3, <2>4
<1>2. CreditTables' /\ CreditRequests'
  BY <1>1 DEF CreditsInv, CreditTables, CreditRequests
<1>3. EntriesFit'
  BY <1>1 DEF CreditsInv, EntriesFit, HasEntry
<1>4. LedgerFits' /\ TotalsFit'
  BY <1>1, LedgerStays DEF CreditsInv
<1>5. CapturedSpendsItsPromise' /\ OneBusy' /\ CreditRoom' /\ PromoRoom' /\ Balanced'
  BY <1>1, PromisesStay DEF CreditsInv, SpendsFit
<1>6. SpendsFit'
  BY <1>1, <1>5 DEF CreditsInv, SpendsFit, HasEntry
<1> QED
  BY <1>2, <1>3, <1>4, <1>5, <1>6 DEF CreditsInv

\* An empty wallet is made at the first look.
LEMMA LookKeepsCredits ==
  ASSUME CreditsInv, NEW u \in Users, GetWalletBalance(u)
  PROVE  CreditsInv'
<1>1. UNCHANGED <<link, entries, promo, uses, pay, invoiced, signup, order, capture, orders, lost, raced, promised>>
  BY DEF GetWalletBalance, requests, history
<1>2. /\ wallet' \in [Users -> WalletRow]
      /\ \A v \in Users : /\ wallet'[v].balance = wallet[v].balance
                          /\ wallet'[v].earned = wallet[v].earned
                          /\ wallet'[v].spent = wallet[v].spent
  BY DEF GetWalletBalance, CreditsInv, CreditTables, WalletRow
<1>3. CreditTables' /\ CreditRequests'
  BY <1>1, <1>2 DEF CreditsInv, CreditTables, CreditRequests
<1>4. EntriesFit'
  BY <1>1 DEF CreditsInv, EntriesFit, HasEntry
<1>5. LedgerFits' /\ TotalsFit'
  BY <1>1, <1>2, LedgerStays DEF CreditsInv
<1>6. CapturedSpendsItsPromise' /\ OneBusy' /\ CreditRoom' /\ PromoRoom' /\ Balanced'
  BY <1>1, <1>2, PromisesStay DEF CreditsInv, SpendsFit
<1>7. SpendsFit'
  BY <1>1, <1>6 DEF CreditsInv, SpendsFit, HasEntry
<1> QED
  BY <1>3, <1>4, <1>5, <1>6, <1>7 DEF CreditsInv

\* A signup that reads.
LEMMA SignupReadKeepsCredits ==
  ASSUME CreditsInv, NEW n \in Newcomers, RedeemReferralCode(n) \/ CreditReferralBonus(n)
  PROVE  CreditsInv'
<1>1. UNCHANGED <<link, wallet, entries, promo, uses, pay, invoiced, order, capture, orders, lost, raced, promised>>
  BY DEF RedeemReferralCode, CreditReferralBonus, history
<1>2. /\ DOMAIN signup' = Newcomers
      /\ \A m \in Newcomers : m # n => signup'[m] = signup[m]
      /\ SignupFits(signup'[n]) /\ signup'[n] # Idle /\ ~HasEntry("referral", n)
      /\ signup'[n].at = "wallet" => /\ signup'[n].loaded = wallet[Referrer]
                                     /\ signup'[n].seen = Movements(Referrer)
  <2>1. CASE RedeemReferralCode(n)
    BY <2>1 DEF RedeemReferralCode, CreditsInv, CreditTables, CreditRequests, SignupFits, LinkRow, Idle
  <2>2. CASE CreditReferralBonus(n)
    <3>1. signup[n] # Idle /\ SignupFits(signup[n])
      BY <2>2 DEF CreditReferralBonus, CreditsInv, CreditRequests, Idle
    <3>2. Movements(Referrer) \in Nat /\ wallet[Referrer] \in WalletRow
      BY LedgerTypes, CreditsAssumption DEF CreditsInv, CreditTables
    <3>3. DOMAIN signup = Newcomers /\ ~HasEntry("referral", n)
      BY <3>1 DEF CreditsInv, CreditRequests, EntriesFit
    <3> QED
      BY <2>2, <3>1, <3>2, <3>3 DEF CreditReferralBonus, SignupFits, Idle
  <2> QED
    BY <2>1, <2>2
<1>3. CreditTables' /\ CreditRequests'
  BY <1>1, <1>2 DEF CreditsInv, CreditTables, CreditRequests
<1>4. EntriesFit'
  BY <1>1, <1>2 DEF CreditsInv, EntriesFit, HasEntry
<1>5. LedgerFits' /\ TotalsFit'
  <2>1. \A m \in Newcomers : signup'[m].at = "wallet" =>
          \/ signup'[m] = signup[m]
          \/ signup'[m].loaded = wallet[Referrer] /\ signup'[m].seen = Movements(Referrer)
    BY <1>2
  <2> QED
    BY <1>1, <2>1, LedgerStays DEF CreditsInv
<1>6. CapturedSpendsItsPromise' /\ OneBusy' /\ CreditRoom' /\ PromoRoom' /\ Balanced'
  BY <1>1, PromisesStay DEF CreditsInv, SpendsFit
<1>7. SpendsFit'
  BY <1>1, <1>6 DEF CreditsInv, SpendsFit, HasEntry
<1> QED
  BY <1>3, <1>4, <1>5, <1>6, <1>7 DEF CreditsInv

\* A signup that commits: the bonus, or nothing.
LEMMA SignupKeepsCredits ==
  ASSUME CreditsInv, NEW n \in Newcomers, CommitSignup(n)
  PROVE  CreditsInv'
<1> DEFINE row == signup[n].loaded
           seen == signup[n].seen
           e == [kind |-> "referral", for |-> n, user |-> Referrer, amount |-> Bonus, gen |-> signup[n].gen]
<1>1. /\ UNCHANGED <<promo, uses, pay, invoiced, order, capture, orders, raced, promised>>
      /\ signup' = [signup EXCEPT ![n] = Idle] /\ signup[n].at = "wallet"
  BY DEF CommitSignup
<1>2. /\ signup[n] # Idle /\ row \in WalletRow /\ seen \in Nat /\ signup[n].gen \in 1..MaxLinks
      /\ DOMAIN signup = Newcomers /\ ~HasEntry("referral", n) /\ ReadFits(Referrer, row, seen)
  <2>1. signup[n] # Idle
    BY <1>1 DEF Idle
  <2> QED
    BY <1>1, <2>1 DEF CreditsInv, CreditRequests, SignupFits, EntriesFit, LedgerFits
<1>3. /\ signup'[n] = Idle /\ (\A m \in Newcomers : m # n => signup'[m] = signup[m])
      /\ \A m \in Newcomers : signup'[m].at = "wallet" => signup'[m] = signup[m]
      /\ CreditRequests'
  <2>1. signup'[n] = Idle /\ \A m \in Newcomers : m # n => signup'[m] = signup[m]
    BY <1>1, <1>2
  <2>2. DOMAIN signup' = Newcomers
    BY <1>1, <1>2
  <2> QED
    BY <1>1, <2>1, <2>2 DEF CreditsInv, CreditRequests, Idle
<1>4. CASE UNCHANGED <<link, wallet, entries, lost>>
  <2>1. CreditTables'
    BY <1>1, <1>4 DEF CreditsInv, CreditTables
  <2>2. EntriesFit'
    BY <1>3, <1>4 DEF CreditsInv, EntriesFit, HasEntry
  <2>3. LedgerFits' /\ TotalsFit'
    BY <1>1, <1>3, <1>4, LedgerStays DEF CreditsInv
  <2>4. CapturedSpendsItsPromise' /\ OneBusy' /\ CreditRoom' /\ PromoRoom' /\ Balanced'
    BY <1>1, <1>4, PromisesStay DEF CreditsInv, SpendsFit
  <2>5. SpendsFit'
    BY <1>1, <1>4, <2>4 DEF CreditsInv, SpendsFit, HasEntry
  <2> QED
    BY <1>3, <2>1, <2>2, <2>3, <2>4, <2>5 DEF CreditsInv
<1>5. CASE /\ link' = [link EXCEPT !.used = n]
           /\ wallet' = [wallet EXCEPT ![Referrer] =
                [exists |-> TRUE, balance |-> row.balance + Bonus,
                 earned |-> row.earned + Bonus, spent |-> @.spent]]
           /\ entries' = entries \cup {e}
           /\ lost' = lost + Movements(Referrer) - seen
  <2>1. CreditTables /\ LedgerFits /\ TotalsFit /\ EntriesFit /\ CreditRequests
    BY DEF CreditsInv
  <2>2. Referrer \in Users /\ Bonus \in Nat
    BY CreditsAssumption
  <2>3. e \in Entry /\ e \notin entries
    <3>1. e \in Entry
      BY <1>2, <2>2 DEF Entry
    <3> QED
      BY <1>2, <3>1 DEF HasEntry
  <2>4. /\ wallet' \in [Users -> WalletRow] /\ \A v \in Users \ {Referrer} : wallet'[v] = wallet[v]
        /\ wallet'[Referrer] = [exists |-> TRUE, balance |-> row.balance + Bonus,
                                earned |-> row.earned + Bonus, spent |-> wallet[Referrer].spent]
    <3>1. wallet \in [Users -> WalletRow] /\ wallet[Referrer].spent \in Nat
      BY <2>1, <2>2 DEF CreditTables, WalletRow
    <3>2. [exists |-> TRUE, balance |-> row.balance + Bonus,
           earned |-> row.earned + Bonus, spent |-> wallet[Referrer].spent] \in WalletRow
      BY <1>2, <2>2, <3>1 DEF WalletRow
    <3> QED
      BY <1>5, <2>2, <3>1, <3>2
  <2>5. Move(Referrer, row, seen, e)
    <3>1. e.amount = Bonus /\ e.user = Referrer /\ e.amount >= 0
      BY <2>2
    <3> QED
      BY <1>5, <2>3, <2>4, <3>1 DEF Move
  <2>6. lost' \in Nat /\ lost <= lost' /\ TotalsFit' /\ LedgerFits'
    <3> HIDE DEF e, row, seen
    <3>1. lost' \in Nat /\ lost <= lost'
      BY <1>2, <2>1, <2>2, <2>5, MoveReads
    <3>2. TotalsFit'
      BY <1>2, <2>1, <2>2, <2>5, MoveTotals
    <3>3. LedgerFits'
      BY <1>1, <1>2, <1>3, <2>1, <2>2, <2>5, LedgerMoves
    <3> QED
      BY <3>1, <3>2, <3>3
  <2>7. CreditTables'
    <3>1. entries' \subseteq Entry /\ IsFiniteSet(entries')
      <4> HIDE DEF e
      <4> QED
        BY <1>5, <2>1, <2>3, FS_AddElement DEF CreditTables
    <3>2. link' \in LinkRow
      BY <1>5, <2>1 DEF CreditTables, LinkRow
    <3> QED
      BY <1>1, <2>1, <2>4, <2>6, <3>1, <3>2 DEF CreditTables
  <2>8. EntriesFit'
    <3>1. \A x \in entries' : x.user = IF x.kind = "referral" THEN Referrer ELSE Buyer[x.for]
      BY <1>5, <2>1 DEF EntriesFit
    <3>2. \A x, y \in entries' : x.kind = y.kind /\ x.for = y.for => x = y
      BY <1>2, <1>5, <2>1 DEF EntriesFit, HasEntry
    <3>3. \A m \in Newcomers : signup'[m] # Idle => ~HasEntry("referral", m)'
      BY <1>3, <1>5, <2>1 DEF EntriesFit, HasEntry
    <3>4. HasEntry("referral", n)' /\ link'.used = n
      <4>1. e \in entries' /\ e.kind = "referral" /\ e.for = n
        BY <1>5
      <4>2. link \in LinkRow
        BY <2>1 DEF CreditTables
      <4>3. link'.used = n
        BY <1>5, <4>2 DEF LinkRow
      <4> QED
        BY <4>1, <4>3 DEF HasEntry
    <3> QED
      BY <3>1, <3>2, <3>3, <3>4 DEF EntriesFit
  <2>9. \A p \in Payments : SpentOn(p)' = SpentOn(p)
    BY <1>5 DEF SpentOn
  <2>10. SpendsFit'
    <3>1. CapturedSpendsItsPromise'
      BY <1>1, <2>9 DEF CreditsInv, SpendsFit, CapturedSpendsItsPromise, SpentOn
    <3>2. \A p \in Payments : HasEntry("checkout", p) => HasEntry("checkout", p)'
      BY <1>5 DEF HasEntry
    <3> QED
      BY <1>1, <3>1, <3>2 DEF CreditsInv, SpendsFit
  <2>11. OneBusy' /\ PromoRoom'
    <3>1. OneBusy'
      BY <1>1 DEF CreditsInv, OneBusy, Busy, Open
    <3>2. PromoRoom'
      BY <1>1 DEF CreditsInv, PromoRoom, Holds, Open, TotalUses, UsesOf
    <3> QED
      BY <3>1, <3>2
  <2>12. CreditRoom'
    <3> SUFFICES ASSUME raced' = {}, lost' = 0, NEW u \in Users \ promised'
                 PROVE  /\ wallet'[u].balance >= 0
                        /\ \A p \in Payments : Buyer[p] = u => Covered(p, wallet[u].balance)'
      BY DEF CreditRoom
    <3>1. lost = 0 /\ raced = {} /\ u \in Users \ promised
      BY <1>1, <2>1, <2>6 DEF CreditTables
    <3>2. /\ wallet[u].balance >= 0 /\ wallet[u].balance \in Int
          /\ \A p \in Payments : Buyer[p] = u => Covered(p, wallet[u].balance)
      BY <2>1, <3>1 DEF CreditsInv, CreditRoom, CreditTables, WalletRow
    <3>3. wallet'[u].balance \in Int /\ wallet'[u].balance >= wallet[u].balance
      <4>1. CASE u # Referrer
        BY <2>4, <3>2, <4>1
      <4>2. CASE u = Referrer
        <5>1. PICK m \in Nat : m = Movements(Referrer)
          BY <2>1, LedgerTypes
        <5>2. lost + m - seen = 0 /\ seen <= m
          BY <1>2, <1>5, <5>1 DEF ReadFits, ReadAs
        <5>3. seen = m
          BY <1>2, <3>1, <5>1, <5>2
        <5>4. row.balance = wallet[Referrer].balance
          BY <1>2, <5>1, <5>3 DEF ReadFits, ReadAs
        <5> QED
          BY <2>2, <2>4, <3>2, <4>2, <5>4
      <4> QED
        BY <4>1, <4>2
    <3>4. /\ \A p \in Payments : pay[p].wallet \in Int
          /\ \A p \in Payments : order[p] # Idle => order[p].wallet \in Int
      BY <2>1, CreditsAssumption DEF CreditTables, CreditRequests, PaymentRow, OrderFits
    <3>5. ASSUME NEW p \in Payments, Buyer[p] = u
          PROVE  Covered(p, wallet[u].balance)'
      BY <1>1, <3>2, <3>3, <3>4, <3>5 DEF Covered, Open
    <3> QED
      BY <3>2, <3>3, <3>5
  <2>13. Balanced'
    <3>1. Spent(entries') = Spent(entries)
      <4>1. entries \in SUBSET Entry /\ IsFiniteSet(entries) /\ e.amount >= 0
        BY <2>1, <2>2 DEF CreditTables
      <4> HIDE DEF e
      <4> QED
        BY <1>5, <2>3, <4>1, EarnedSpentJoin
    <3>2. CapturedWallet' = CapturedWallet
      BY <1>1 DEF CapturedWallet, Captured
    <3>3. Spent(entries)' = Spent(entries')
      BY DEF Spent
    <3> QED
      BY <1>1, <3>1, <3>2, <3>3 DEF CreditsInv, Balanced
  <2> QED
    BY <1>3, <2>6, <2>7, <2>8, <2>10, <2>11, <2>12, <2>13 DEF CreditsInv
<1> QED
  BY <1>4, <1>5 DEF CommitSignup

\* A capture that reads.
LEMMA CaptureReadKeepsCredits ==
  ASSUME CreditsInv, NEW p \in Payments, NEW c \in Callers, CapturePayment(p, c) \/ ReadWallet(p, c)
  PROVE  CreditsInv'
<1>1. UNCHANGED <<link, wallet, entries, promo, uses, pay, invoiced, signup, order, orders, lost, raced, promised>>
  BY DEF CapturePayment, ReadWallet, history
<1>2. DOMAIN capture = Payments /\ DOMAIN capture[p] = Callers /\ pay[p] \in PaymentRow /\ Buyer[p] \in Users
  BY CreditsAssumption DEF CreditsInv, CreditRequests, CreditTables
<1>3. PICK x : capture' = [capture EXCEPT ![p][c] = x]
  BY DEF CapturePayment, ReadWallet
<1>4. /\ DOMAIN capture' = Payments /\ capture'[p][c] = x
      /\ \A q \in Payments : /\ DOMAIN capture'[q] = DOMAIN capture[q]
                             /\ \A d \in Callers : q # p \/ d # c => capture'[q][d] = capture[q][d]
  BY <1>2, <1>3
<1>5. /\ CaptureFits(x)
      /\ x.at = "wallet" =>
           /\ x.purse \in {Idle, wallet[Buyer[p]]} /\ x.seen = Movements(Buyer[p])
           /\ x.purse = Idle => x.loaded.wallet = 0 \/ HasEntry("checkout", p)
  <2>1. CASE CapturePayment(p, c)
    <3>1. capture'[p][c] = [at |-> "read", loaded |-> pay[p]] /\ pay[p].status \in {"PENDING", "FAILED"}
      BY <1>2, <2>1 DEF CapturePayment, Open
    <3> QED
      BY <1>2, <1>4, <3>1 DEF CaptureFits
  <2>2. CASE ReadWallet(p, c)
    <3> DEFINE old == capture[p][c]
               purse == IF old.loaded.wallet > 0 /\ ~HasEntry("checkout", p) THEN wallet[Buyer[p]] ELSE Idle
    <3>1. capture'[p][c] = [at |-> "wallet", loaded |-> old.loaded, purse |-> purse,
                            seen |-> Movements(Buyer[p]), invoiced |-> p \in invoiced]
      BY <1>2, <2>2 DEF ReadWallet
    <3>2. CaptureFits(old)
      BY <2>2 DEF ReadWallet, CreditsInv, CreditRequests, Idle
    <3>3. wallet[Buyer[p]] \in WalletRow /\ Movements(Buyer[p]) \in Nat
      BY <1>2, LedgerTypes DEF CreditsInv, CreditTables
    <3>4. old.loaded \in PaymentRow /\ old.loaded.status \in {"PENDING", "FAILED"} /\ old.loaded.wallet \in Nat
      BY <3>2, CreditsAssumption DEF CaptureFits, PaymentRow
    <3>5. /\ purse \in {Idle, wallet[Buyer[p]]} /\ (purse # Idle => old.loaded.wallet > 0)
          /\ (purse = Idle => old.loaded.wallet = 0 \/ HasEntry("checkout", p))
      <4>1. wallet[Buyer[p]] # Idle
        BY <3>3 DEF WalletRow, Idle
      <4> QED
        BY <3>4, <4>1
    <3> HIDE DEF old, purse
    <3> QED
      BY <1>4, <3>1, <3>3, <3>4, <3>5 DEF CaptureFits
  <2> QED
    BY <2>1, <2>2
<1>6. CreditTables' /\ CreditRequests'
  <2>1. CreditTables'
    BY <1>1 DEF CreditsInv, CreditTables
  <2>2. CreditRequests'
    BY <1>1, <1>4, <1>5 DEF CreditsInv, CreditRequests
  <2> QED
    BY <2>1, <2>2
<1>7. EntriesFit'
  BY <1>1 DEF CreditsInv, EntriesFit, HasEntry
<1>8. LedgerFits' /\ TotalsFit'
  <2>1. \A q \in Payments, d \in Callers : capture'[q][d].at = "wallet" =>
          \/ capture'[q][d] = capture[q][d]
          \/ /\ capture'[q][d].purse \in {Idle, wallet[Buyer[q]]}
             /\ capture'[q][d].seen = Movements(Buyer[q])
    BY <1>4, <1>5
  <2> QED
    BY <1>1, <2>1, LedgerStays DEF CreditsInv
<1>9. CapturedSpendsItsPromise' /\ OneBusy' /\ CreditRoom' /\ PromoRoom' /\ Balanced'
  BY <1>1, PromisesStay DEF CreditsInv, SpendsFit
<1>10. SpendsFit'
  <2>1. \A q \in Payments : HasEntry("checkout", q)' <=> HasEntry("checkout", q)
    BY <1>1 DEF HasEntry
  <2>2. \A q \in Payments, d \in Callers :
          capture'[q][d].at = "wallet" /\ capture'[q][d].purse = Idle
            => capture'[q][d].loaded.wallet = 0 \/ HasEntry("checkout", q)
    BY <1>4, <1>5 DEF CreditsInv, SpendsFit
  <2> QED
    BY <1>9, <2>1, <2>2 DEF SpendsFit
<1> QED
  BY <1>6, <1>7, <1>8, <1>9, <1>10 DEF CreditsInv

\* A checkout that reads: two at once are noted, and no more is promised
\* than the wallet and the code have.
LEMMA CheckoutKeepsCredits ==
  ASSUME CreditsInv, NEW p \in Payments, NEW credit \in BOOLEAN, NEW code \in BOOLEAN,
         CreatePaymentOrder(p, credit, code)
  PROVE  CreditsInv'
<1> DEFINE asked == IF credit THEN MaxWalletUsable(Buyer[p]) ELSE 0
           granted == code /\ ResolvePromoDiscount(Buyer[p])
           x == [at |-> "read", loaded |-> pay[p], wallet |-> asked, promo |-> granted]
<1>1. /\ UNCHANGED <<link, wallet, entries, promo, uses, pay, invoiced, signup, capture, lost, raced>>
      /\ order' = [order EXCEPT ![p] = x] /\ order[p] = Idle /\ pay[p].status # "CAPTURED"
      /\ orders > 0 /\ orders' = orders - 1 /\ promised' = promised \cup Overlap(p)
  BY DEF CreatePaymentOrder
<1>2. /\ DOMAIN order = Payments /\ pay[p] \in PaymentRow /\ Buyer \in [Payments -> Users]
      /\ \A u \in Users : wallet[u] \in WalletRow
  BY CreditsAssumption DEF CreditsInv, CreditRequests, CreditTables
<1>3. DOMAIN order' = Payments /\ order'[p] = x /\ \A q \in Payments : q # p => order'[q] = order[q]
  BY <1>1, <1>2
<1>4. /\ asked \in 0..WalletCap
      /\ wallet[Buyer[p]].balance >= 0 => asked <= wallet[Buyer[p]].balance
  <2>1. PICK b \in Int : b = wallet[Buyer[p]].balance
    BY <1>2 DEF WalletRow
  <2>2. WalletCap \in Nat
    BY CreditsAssumption
  <2>3. PICK m \in Int : m = Min({b, WalletCap}) /\ m <= b /\ m <= WalletCap
    BY <2>2, SmallerOfTwo
  <2>4. Max({0, m}) = IF 0 >= m THEN 0 ELSE m
    BY LargerOfTwo
  <2>5. MaxWalletUsable(Buyer[p]) = IF 0 >= m THEN 0 ELSE m
    BY <2>1, <2>3, <2>4 DEF MaxWalletUsable
  <2> QED
    BY <2>1, <2>2, <2>3, <2>5
<1>5. granted \in BOOLEAN
  BY DEF ResolvePromoDiscount
<1> HIDE DEF asked, granted
<1>6. OrderFits(x) /\ x # Idle /\ x.wallet = asked /\ x.promo = granted
  BY <1>1, <1>2, <1>4, <1>5 DEF OrderFits, Idle
<1> HIDE DEF x
<1>7. CreditTables' /\ CreditRequests'
  <2>1. Overlap(p) \subseteq Users \cup {"promo"}
    BY <1>2 DEF Overlap
  <2>2. orders' \in 0..MaxOrders
    BY <1>1, CreditsAssumption DEF CreditsInv, CreditTables
  <2>3. CreditTables'
    BY <1>1, <2>1, <2>2 DEF CreditsInv, CreditTables
  <2>4. CreditRequests'
    BY <1>1, <1>3, <1>6 DEF CreditsInv, CreditRequests
  <2> QED
    BY <2>3, <2>4
<1>8. EntriesFit'
  BY <1>1 DEF CreditsInv, EntriesFit, HasEntry
<1>9. LedgerFits' /\ TotalsFit'
  BY <1>1, LedgerStays DEF CreditsInv
<1>10. SpendsFit'
  BY <1>1 DEF CreditsInv, SpendsFit, CapturedSpendsItsPromise, HasEntry
<1>11. \A q \in Payments : Open(q)' <=> Open(q)
  BY <1>1 DEF Open
<1>12. OneBusy'
  <2> SUFFICES ASSUME NEW q \in Payments, NEW r \in Payments, q # r, Busy(q)', Busy(r)'
               PROVE  "promo" \in promised' /\ (Buyer[q] = Buyer[r] => Buyer[q] \in promised')
    BY DEF OneBusy
  <2>1. \A s \in Payments \ {p} : Busy(s)' <=> Busy(s)
    BY <1>3, <1>11 DEF Busy
  <2>2. \A s \in Payments \ {p} : Busy(s) =>
          "promo" \in promised' /\ (Buyer[s] = Buyer[p] => Buyer[p] \in promised')
    <3> SUFFICES ASSUME NEW s \in Payments \ {p}, Busy(s)
                 PROVE  "promo" \in promised' /\ (Buyer[s] = Buyer[p] => Buyer[p] \in promised')
      OBVIOUS
    <3>1. s \in {t \in Payments \ {p} : Open(t) \/ order[t] # Idle}
      BY DEF Busy
    <3> QED
      BY <1>1, <3>1 DEF Overlap
  <2>3. CASE q = p
    BY <2>1, <2>2, <2>3
  <2>4. CASE r = p
    BY <2>1, <2>2, <2>4
  <2>5. CASE q # p /\ r # p
    BY <1>1, <2>1, <2>5 DEF CreditsInv, OneBusy
  <2> QED
    BY <2>3, <2>4, <2>5
<1>13. CreditRoom'
  <2> SUFFICES ASSUME raced' = {}, lost' = 0, NEW u \in Users \ promised'
               PROVE  /\ wallet'[u].balance >= 0
                      /\ \A q \in Payments : Buyer[q] = u => Covered(q, wallet[u].balance)'
    BY DEF CreditRoom
  <2>1. /\ wallet[u].balance >= 0
        /\ \A q \in Payments : Buyer[q] = u => Covered(q, wallet[u].balance)
    BY <1>1 DEF CreditsInv, CreditRoom
  <2>2. ASSUME NEW q \in Payments, Buyer[q] = u
        PROVE  Covered(q, wallet[u].balance)'
    <3>1. CASE q = p
      BY <1>1, <1>3, <1>4, <1>6, <1>11, <2>1, <2>2, <3>1 DEF Covered
    <3>2. CASE q # p
      BY <1>1, <1>3, <1>11, <2>1, <2>2, <3>2 DEF Covered
    <3> QED
      BY <3>1, <3>2
  <2> QED
    BY <1>1, <2>1, <2>2
<1>14. PromoRoom'
  <2> SUFFICES ASSUME raced' = {}, "promo" \notin promised'
               PROVE  /\ TotalUses' <= PromoLimit /\ \A u \in Users : UsesOf(u)' <= UserLimit
                      /\ \A q \in Payments : Holds(q)' =>
                           TotalUses' < PromoLimit /\ UsesOf(Buyer[q])' < UserLimit
    BY DEF PromoRoom
  <2>1. /\ TotalUses <= PromoLimit /\ \A u \in Users : UsesOf(u) <= UserLimit
        /\ \A q \in Payments : Holds(q) => TotalUses < PromoLimit /\ UsesOf(Buyer[q]) < UserLimit
    BY <1>1 DEF CreditsInv, PromoRoom
  <2>2. TotalUses' = TotalUses /\ \A u : UsesOf(u)' = UsesOf(u)
    BY <1>1 DEF TotalUses, UsesOf
  <2>3. ASSUME NEW q \in Payments, Holds(q)' PROVE TotalUses < PromoLimit /\ UsesOf(Buyer[q]) < UserLimit
    <3>1. CASE Holds(q)
      BY <2>1, <3>1
    <3>2. CASE ~Holds(q)
      <4>1. q = p /\ order'[p].promo
        BY <1>1, <1>3, <1>11, <2>3, <3>2 DEF Holds
      <4>2. granted
        BY <1>3, <1>6, <4>1
      <4> QED
        BY <4>1, <4>2 DEF granted, ResolvePromoDiscount
    <3> QED
      BY <3>1, <3>2
  <2> QED
    BY <2>1, <2>2, <2>3
<1>15. Balanced'
  BY <1>1 DEF CreditsInv, Balanced, Spent, CapturedWallet, Captured
<1> QED
  BY <1>7, <1>8, <1>9, <1>10, <1>12, <1>13, <1>14, <1>15 DEF CreditsInv

\* A payment that fails stays open.
LEMMA FailureKeepsCredits ==
  ASSUME CreditsInv, NEW p \in Payments, PaymentFailed(p)
  PROVE  CreditsInv'
<1>1. /\ UNCHANGED <<link, wallet, entries, promo, uses, invoiced, signup, order, capture, orders, lost, raced, promised>>
      /\ pay[p].status = "PENDING" /\ pay' = [pay EXCEPT ![p].status = "FAILED"]
  BY DEF PaymentFailed, requests, history
<1>2. pay \in [Payments -> PaymentRow]
  BY DEF CreditsInv, CreditTables
<1>3. /\ pay' \in [Payments -> PaymentRow] /\ pay'[p].status = "FAILED"
      /\ pay'[p].wallet = pay[p].wallet /\ pay'[p].promo = pay[p].promo
      /\ \A q \in Payments : q # p => pay'[q] = pay[q]
  BY <1>1, <1>2 DEF PaymentRow
<1>4. \A q \in Payments : /\ Open(q)' <=> Open(q)
                          /\ pay'[q].status = "CAPTURED" <=> pay[q].status = "CAPTURED"
                          /\ pay'[q].wallet = pay[q].wallet /\ pay'[q].promo = pay[q].promo
  BY <1>1, <1>3 DEF Open
<1>5. CreditTables' /\ CreditRequests'
  BY <1>1, <1>3 DEF CreditsInv, CreditTables, CreditRequests
<1>6. EntriesFit'
  BY <1>1 DEF CreditsInv, EntriesFit, HasEntry
<1>7. LedgerFits' /\ TotalsFit'
  BY <1>1, LedgerStays DEF CreditsInv
<1>8. SpendsFit'
  BY <1>1, <1>4 DEF CreditsInv, SpendsFit, CapturedSpendsItsPromise, HasEntry
<1>9. OneBusy'
  BY <1>1, <1>4 DEF CreditsInv, OneBusy, Busy
<1>10. CreditRoom'
  BY <1>1, <1>4 DEF CreditsInv, CreditRoom, Covered
<1>11. PromoRoom'
  BY <1>1, <1>4 DEF CreditsInv, PromoRoom, Holds, TotalUses, UsesOf
<1>12. Balanced'
  <2>1. Captured' = Captured /\ [q \in Payments |-> pay[q].wallet]' = [q \in Payments |-> pay[q].wallet]
    BY <1>4 DEF Captured
  <2>2. CapturedWallet' = CapturedWallet
    BY <2>1 DEF CapturedWallet
  <2> QED
    BY <1>1, <2>2 DEF CreditsInv, Balanced, Spent
<1> QED
  BY <1>5, <1>6, <1>7, <1>8, <1>9, <1>10, <1>11, <1>12 DEF CreditsInv

\* What captured payments spent is the same when the rest changes.
LEMMA CapturedWalletSame ==
  ASSUME pay \in [Payments -> PaymentRow], Captured' = Captured,
         \A q \in Captured : pay'[q].wallet = pay[q].wallet
  PROVE  CapturedWallet' = CapturedWallet
<1> DEFINE w == [q \in Payments |-> pay[q].wallet]
           v == [q \in Payments |-> pay'[q].wallet]
<1>1. IsFiniteSet(Captured)
  BY FS_Subset, CreditsAssumption DEF Captured
<1>2. \A q \in Captured : w[q] \in Int /\ v[q] = w[q]
  BY CreditsAssumption DEF Captured, PaymentRow
<1>3. CapturedWallet = SumFunctionOnSet(w, Captured) /\ CapturedWallet' = SumFunctionOnSet(v, Captured)
  BY DEF CapturedWallet
<1> HIDE DEF w, v
<1> QED
  BY <1>1, <1>2, <1>3, SumOfSame

\* A checkout that commits: the promise becomes the payment's, unless another
\* wrote the payment meanwhile.
LEMMA OrderKeepsCredits ==
  ASSUME CreditsInv, NEW p \in Payments, CommitOrder(p)
  PROVE  CreditsInv'
<1> DEFINE req == order[p]
           W(new, old, now) == IF new = old THEN now ELSE new
<1>1. /\ UNCHANGED <<link, wallet, entries, promo, uses, invoiced, signup, capture, orders, lost, promised>>
      /\ order[p].at = "read" /\ order' = [order EXCEPT ![p] = Idle]
      /\ pay' = [pay EXCEPT ![p] =
           [status |-> W("PENDING", req.loaded.status, pay[p].status),
            wallet |-> W(req.wallet, req.loaded.wallet, pay[p].wallet),
            promo |-> W(req.promo, req.loaded.promo, pay[p].promo)]]
      /\ raced' = IF pay[p] # req.loaded THEN raced \cup {p} ELSE raced
  BY DEF CommitOrder
<1>2. pay \in [Payments -> PaymentRow] /\ order[p] # Idle /\ OrderFits(order[p]) /\ DOMAIN order = Payments
  <2>1. order[p] # Idle
    BY <1>1 DEF Idle
  <2> QED
    BY <2>1 DEF CreditsInv, CreditTables, CreditRequests
<1>3. pay' \in [Payments -> PaymentRow] /\ \A q \in Payments : q # p => pay'[q] = pay[q]
  <2>1. [status |-> W("PENDING", req.loaded.status, pay[p].status),
         wallet |-> W(req.wallet, req.loaded.wallet, pay[p].wallet),
         promo |-> W(req.promo, req.loaded.promo, pay[p].promo)] \in PaymentRow
    BY <1>2 DEF OrderFits, PaymentRow
  <2> QED
    BY <1>1, <1>2, <2>1
<1>4. /\ DOMAIN order' = Payments /\ order'[p] = Idle
      /\ \A q \in Payments : q # p => order'[q] = order[q]
  BY <1>1, <1>2
<1>5. p \notin raced' => /\ pay[p] = req.loaded /\ raced' = raced /\ pay[p].status # "CAPTURED"
                         /\ pay'[p].status = "PENDING" /\ pay'[p].wallet = req.wallet
                         /\ pay'[p].promo = req.promo
  <2> SUFFICES ASSUME p \notin raced'
               PROVE  /\ pay[p] = req.loaded /\ raced' = raced /\ pay[p].status # "CAPTURED"
                      /\ pay'[p].status = "PENDING" /\ pay'[p].wallet = req.wallet
                      /\ pay'[p].promo = req.promo
    OBVIOUS
  <2>1. pay[p] = req.loaded /\ raced' = raced
    BY <1>1
  <2>2. pay'[p] = [status |-> W("PENDING", req.loaded.status, pay[p].status),
                   wallet |-> W(req.wallet, req.loaded.wallet, pay[p].wallet),
                   promo |-> W(req.promo, req.loaded.promo, pay[p].promo)]
    BY <1>1, <1>2
  <2> QED
    BY <1>2, <2>1, <2>2 DEF OrderFits
<1>6. raced \subseteq raced' /\ raced' \subseteq Payments
  BY <1>1 DEF CreditsInv, CreditTables
<1> HIDE DEF req, W
<1>7. CreditTables' /\ CreditRequests'
  <2>1. CreditTables'
    BY <1>1, <1>3, <1>6 DEF CreditsInv, CreditTables
  <2>2. CreditRequests'
    BY <1>1, <1>4 DEF CreditsInv, CreditRequests
  <2> QED
    BY <2>1, <2>2
<1>8. EntriesFit'
  BY <1>1 DEF CreditsInv, EntriesFit, HasEntry
<1>9. LedgerFits' /\ TotalsFit'
  BY <1>1, LedgerStays DEF CreditsInv
<1>10. SpendsFit'
  <2>1. CapturedSpendsItsPromise'
    <3>1. \A q \in Payments \ raced : q # p => q \notin raced
      OBVIOUS
    <3>2. CapturedSpendsItsPromise
      BY DEF CreditsInv, SpendsFit
    <3>3. ASSUME NEW q \in Payments \ raced'
          PROVE  LET spent == {e \in entries : e.kind = "checkout" /\ e.for = q}
                 IN IF pay'[q].status = "CAPTURED"
                    THEN /\ pay'[q].wallet > 0 <=> spent # {}
                         /\ \A e \in spent : e.amount = -pay'[q].wallet
                         /\ uses[q] = IF pay'[q].promo THEN 1 ELSE 0
                    ELSE spent = {} /\ uses[q] = 0
      <4>1. q \in Payments \ raced
        BY <1>6, <3>3
      <4>2. CASE q = p
        <5>1. pay[q].status # "CAPTURED" /\ pay'[q].status # "CAPTURED"
          BY <1>5, <3>3, <4>2
        <5> QED
          BY <3>2, <4>1, <5>1 DEF CapturedSpendsItsPromise
      <4>3. CASE q # p
        <5>1. pay'[q] = pay[q]
          BY <1>3, <4>3
        <5> QED
          BY <3>2, <4>1, <5>1 DEF CapturedSpendsItsPromise
      <4> QED
        BY <4>2, <4>3
    <3> QED
      BY <1>1, <3>3 DEF CapturedSpendsItsPromise
  <2> QED
    BY <1>1, <2>1 DEF CreditsInv, SpendsFit, HasEntry
<1>11. OneBusy'
  <2>1. \A q \in Payments : Busy(q)' => Busy(q)
    BY <1>2, <1>3, <1>4 DEF Busy, Open
  <2> QED
    BY <1>1, <2>1 DEF CreditsInv, OneBusy
<1>12. CreditRoom'
  <2> SUFFICES ASSUME raced' = {}, lost' = 0, NEW u \in Users \ promised'
               PROVE  /\ wallet'[u].balance >= 0
                      /\ \A q \in Payments : Buyer[q] = u => Covered(q, wallet[u].balance)'
    BY DEF CreditRoom
  <2>1. /\ wallet[u].balance >= 0
        /\ \A q \in Payments : Buyer[q] = u => Covered(q, wallet[u].balance)
    BY <1>1, <1>5 DEF CreditsInv, CreditRoom
  <2>2. ASSUME NEW q \in Payments, Buyer[q] = u
        PROVE  Covered(q, wallet[u].balance)'
    <3>1. CASE q = p
      BY <1>1, <1>2, <1>4, <1>5, <2>1, <2>2, <3>1 DEF Covered, Open, req
    <3>2. CASE q # p
      BY <1>1, <1>3, <1>4, <2>1, <2>2, <3>2 DEF Covered, Open
    <3> QED
      BY <3>1, <3>2
  <2> QED
    BY <1>1, <2>1, <2>2
<1>13. PromoRoom'
  <2>1. TotalUses' = TotalUses /\ \A u : UsesOf(u)' = UsesOf(u)
    BY <1>1 DEF TotalUses, UsesOf
  <2>2. raced' = {} => raced = {} /\ \A q \in Payments : Holds(q)' => Holds(q)
    <3> SUFFICES ASSUME raced' = {}, NEW q \in Payments, Holds(q)' PROVE raced = {} /\ Holds(q)
      BY <1>6
    <3>1. CASE q = p
      BY <1>2, <1>4, <1>5, <1>6, <3>1 DEF Holds, Open, req
    <3>2. CASE q # p
      BY <1>3, <1>4, <1>6, <3>2 DEF Holds, Open
    <3> QED
      BY <3>1, <3>2
  <2> QED
    BY <1>1, <2>1, <2>2 DEF CreditsInv, PromoRoom
<1>14. Balanced'
  <2> SUFFICES ASSUME raced' = {} PROVE Spent(entries)' = CapturedWallet'
    BY DEF Balanced
  <2>1. pay[p].status # "CAPTURED" /\ pay'[p].status # "CAPTURED" /\ raced = {}
    BY <1>5
  <2>2. Captured' = Captured /\ \A q \in Captured : pay'[q].wallet = pay[q].wallet
    BY <1>3, <2>1 DEF Captured
  <2>3. CapturedWallet' = CapturedWallet
    BY <1>2, <2>2, CapturedWalletSame
  <2> QED
    BY <1>1, <2>1, <2>3 DEF CreditsInv, Balanced, Spent
<1> QED
  BY <1>7, <1>8, <1>9, <1>10, <1>11, <1>12, <1>13, <1>14 DEF CreditsInv

\* A capture that fails on a unique key, or that has committed: no more of it.
LEMMA CaptureEnds ==
  ASSUME CreditRequests, NEW p \in Payments, NEW c \in Callers,
         capture' = [capture EXCEPT ![p][c] = Idle], UNCHANGED <<signup, order>>
  PROVE  /\ CreditRequests'
         /\ \A q \in Payments, d \in Callers :
              capture'[q][d].at = "wallet" => capture'[q][d] = capture[q][d]
<1>1. DOMAIN capture = Payments /\ DOMAIN capture[p] = Callers
  BY DEF CreditRequests
<1>2. /\ DOMAIN capture' = Payments /\ capture'[p][c] = Idle
      /\ \A q \in Payments : /\ DOMAIN capture'[q] = DOMAIN capture[q]
                             /\ \A d \in Callers : q # p \/ d # c => capture'[q][d] = capture[q][d]
  BY <1>1
<1>3. CreditRequests'
  BY <1>2 DEF CreditRequests
<1> QED
  BY <1>2, <1>3 DEF Idle

\* The uses of the code when payment p has used it once more, or not.
LEMMA UsesGrow ==
  ASSUME uses \in [Payments -> Nat], NEW p \in Payments, NEW k \in {0, 1},
         uses' = [uses EXCEPT ![p] = uses[p] + k]
  PROVE  /\ TotalUses \in Int /\ TotalUses' = TotalUses + k
         /\ \A u \in Users : UsesOf(u) \in Int /\ UsesOf(u)' = IF Buyer[p] = u THEN UsesOf(u) + k ELSE UsesOf(u)
<1> DEFINE v == uses'
<1>1. /\ \A q \in Payments : uses[q] \in Int /\ v[q] \in Int /\ (q # p => v[q] = uses[q])
      /\ v[p] = uses[p] + k
  OBVIOUS
<1>2. TotalUses \in Int /\ TotalUses' = TotalUses + k
  <2>1. IsFiniteSet(Payments)
    BY CreditsAssumption
  <2>2. TotalUses = SumFunctionOnSet(uses, Payments) /\ TotalUses' = SumFunctionOnSet(v, Payments)
    BY DEF TotalUses
  <2> HIDE DEF v
  <2>3. SumFunctionOnSet(uses, Payments) \in Int
    BY <1>1, <2>1, SumIsInt
  <2>4. SumFunctionOnSet(v, Payments) = SumFunctionOnSet(uses, Payments) + k
    BY <1>1, <2>1, SumWithChange
  <2> QED
    BY <1>1, <2>2, <2>3, <2>4
<1>3. ASSUME NEW u \in Users
      PROVE  UsesOf(u) \in Int /\ UsesOf(u)' = IF Buyer[p] = u THEN UsesOf(u) + k ELSE UsesOf(u)
  <2> DEFINE S == {q \in Payments : Buyer[q] = u}
  <2>1. IsFiniteSet(S) /\ S \subseteq Payments /\ (p \in S <=> Buyer[p] = u)
    BY FS_Subset, CreditsAssumption
  <2>2. UsesOf(u) = SumFunctionOnSet(uses, S) /\ UsesOf(u)' = SumFunctionOnSet(v, S)
    BY DEF UsesOf
  <2> HIDE DEF S, v
  <2>3. \A q \in S : uses[q] \in Int /\ v[q] \in Int /\ (q # p => v[q] = uses[q])
    BY <1>1, <2>1
  <2>4. SumFunctionOnSet(uses, S) \in Int
    BY <2>1, <2>3, SumIsInt
  <2>5. CASE Buyer[p] = u
    <3>1. p \in S
      BY <2>1, <2>5
    <3>2. v[p] = uses[p] + k
      BY <1>1
    <3>3. IsFiniteSet(S) /\ k \in Int
      BY <2>1
    <3>4. SumFunctionOnSet(v, S) = SumFunctionOnSet(uses, S) + k
      BY <2>3, <3>1, <3>2, <3>3, SumWithChange
    <3> QED
      BY <1>1, <2>2, <2>4, <2>5, <3>4
  <2>6. CASE Buyer[p] # u
    <3>1. \A q \in S : uses[q] \in Int /\ v[q] = uses[q]
      BY <2>1, <2>3, <2>6
    <3>2. SumFunctionOnSet(v, S) = SumFunctionOnSet(uses, S)
      BY <2>1, <3>1, SumOfSame
    <3> QED
      BY <2>2, <2>4, <2>6, <3>2
  <2> QED
    BY <2>5, <2>6
<1> QED
  BY <1>2, <1>3

\* One more captured payment adds what it spent.
LEMMA CapturedWalletGrows ==
  ASSUME pay \in [Payments -> PaymentRow], NEW p \in Payments, pay[p].status # "CAPTURED",
         pay' = [pay EXCEPT ![p].status = "CAPTURED"]
  PROVE  CapturedWallet \in Int /\ CapturedWallet' = CapturedWallet + pay[p].wallet
<1> DEFINE w == [q \in Payments |-> pay[q].wallet]
           v == [q \in Payments |-> pay'[q].wallet]
           S == Captured
<1>1. IsFiniteSet(S) /\ p \notin S /\ S \subseteq Payments
  BY FS_Subset, CreditsAssumption DEF Captured
<1>2. /\ \A q \in Payments : pay'[q].wallet = pay[q].wallet /\ pay[q].wallet \in Int
      /\ Captured' = S \cup {p}
  <2>1. /\ pay'[p].status = "CAPTURED" /\ pay'[p].wallet = pay[p].wallet
        /\ \A q \in Payments : q # p => pay'[q] = pay[q]
    BY DEF PaymentRow
  <2> QED
    BY <2>1, CreditsAssumption DEF Captured, PaymentRow
<1>3. v = w /\ (\A q \in S \cup {p} : w[q] \in Int) /\ w[p] = pay[p].wallet
  BY <1>1, <1>2
<1>4. CapturedWallet = SumFunctionOnSet(w, S) /\ CapturedWallet' = SumFunctionOnSet(v, Captured')
  BY DEF CapturedWallet
<1> HIDE DEF w, v, S
<1>5. SumFunctionOnSet(w, S \cup {p}) = w[p] + SumFunctionOnSet(w, S)
  BY <1>1, <1>3, SumWithOne
<1>6. SumFunctionOnSet(w, S) \in Int
  BY <1>1, <1>3, SumIsInt
<1> QED
  BY <1>2, <1>3, <1>4, <1>5, <1>6

\* A read that misses nothing has seen all.
LEMMA NothingMissed ==
  ASSUME NEW j \in Nat, NEW m \in Nat, NEW k \in Nat, j + m - k = 0, k <= m
  PROVE  k = m
  OBVIOUS

\* What a capture spends of the wallet.
SpendOf(x) == IF x.purse = Idle THEN 0 ELSE x.loaded.wallet
Debit(p, x) == [kind |-> "checkout", for |-> p, user |-> Buyer[p], amount |-> -x.loaded.wallet, gen |-> 0]

\* The debit of a capture, as it is written from the row that it read.
Debits(p, x) ==
  /\ x.purse # Idle /\ ~HasEntry("checkout", p)
  /\ wallet' = [wallet EXCEPT ![Buyer[p]].balance = x.purse.balance - x.loaded.wallet,
                              ![Buyer[p]].spent = x.purse.spent + x.loaded.wallet]
  /\ entries' = entries \cup {Debit(p, x)}
  /\ lost' = lost + Movements(Buyer[p]) - x.seen

\* What a capture leaves in the wallet and its transactions.
Spends(p, a) ==
  /\ wallet' \in [Users -> WalletRow] /\ entries' \subseteq Entry /\ IsFiniteSet(entries')
  /\ lost' \in Nat /\ lost <= lost'
  /\ LedgerFits' /\ TotalsFit' /\ EntriesFit'
  /\ \A q \in Payments \ {p} : SpentOn(q)' = SpentOn(q)
  /\ \A q \in Payments : HasEntry("checkout", q) => HasEntry("checkout", q)'
  /\ SpentOn(p) = {} => (a > 0 <=> SpentOn(p)' # {}) /\ \A x \in SpentOn(p)' : x.amount = -a
  /\ \A v \in Users \ {Buyer[p]} : wallet'[v] = wallet[v]
  /\ lost' = 0 => wallet'[Buyer[p]].balance = wallet[Buyer[p]].balance - a
  /\ Spent(entries)' = Spent(entries) + a

\* A debit is such a movement of the wallet.
LEMMA DebitSpends ==
  ASSUME CreditsInv, NEW p \in Payments, NEW c \in Callers, capture[p][c].at = "wallet",
         capture' = [capture EXCEPT ![p][c] = Idle], UNCHANGED <<link, signup, order>>,
         Debits(p, capture[p][c])
  PROVE  Spends(p, SpendOf(capture[p][c]))
<1> DEFINE u == Buyer[p]
           row == capture[p][c].purse
           seen == capture[p][c].seen
           a == capture[p][c].loaded.wallet
           e == Debit(p, capture[p][c])
<1>1. /\ row # Idle /\ ~HasEntry("checkout", p) /\ entries' = entries \cup {e}
      /\ wallet' = [wallet EXCEPT ![u].balance = row.balance - a, ![u].spent = row.spent + a]
      /\ lost' = lost + Movements(u) - seen
  BY DEF Debits
<1>2. u \in Users /\ WalletCap \in Nat
  BY CreditsAssumption
<1>3. row \in WalletRow /\ seen \in Nat /\ a \in 0..WalletCap /\ a > 0 /\ ReadFits(u, row, seen)
  <2>1. CaptureFits(capture[p][c])
    BY DEF CreditsInv, CreditRequests, Idle
  <2>2. ReadFits(u, row, seen)
    BY <1>1 DEF CreditsInv, LedgerFits
  <2> QED
    BY <1>1, <2>1, <2>2 DEF CaptureFits, PaymentRow
<1>4. /\ e \in Entry /\ e.kind = "checkout" /\ e.for = p /\ e.user = u /\ e.amount = -a /\ e.amount < 0
  <2>1. -a \in -WalletCap..-1
    BY <1>2, <1>3
  <2> QED
    BY <1>2, <1>3, <2>1 DEF Debit, Entry
<1>5. CreditTables /\ CreditRequests /\ LedgerFits /\ TotalsFit /\ EntriesFit
  BY DEF CreditsInv
<1>6. e \notin entries
  BY <1>1, <1>4 DEF HasEntry
<1> HIDE DEF e, row, seen, a, u
<1>7. /\ wallet' \in [Users -> WalletRow] /\ \A v \in Users \ {u} : wallet'[v] = wallet[v]
      /\ wallet'[u].balance = row.balance - a /\ wallet'[u].spent = row.spent + a
      /\ wallet'[u].earned = wallet[u].earned
  <2>1. wallet \in [Users -> WalletRow] /\ wallet[u] \in WalletRow
    BY <1>2, <1>5 DEF CreditTables
  <2>2. row.balance - a \in Int /\ row.spent + a \in Nat
    BY <1>2, <1>3 DEF WalletRow
  <2>3. PICK b \in Int, s \in Nat : b = row.balance - a /\ s = row.spent + a
    BY <2>2
  <2>4. wallet' = [wallet EXCEPT ![u].balance = b, ![u].spent = s]
    BY <1>1, <2>3
  <2>5. /\ wallet' \in [Users -> WalletRow] /\ \A v \in Users \ {u} : wallet'[v] = wallet[v]
        /\ wallet'[u].balance = b /\ wallet'[u].spent = s /\ wallet'[u].earned = wallet[u].earned
    BY <1>2, <2>1, <2>4 DEF WalletRow
  <2> QED
    BY <2>3, <2>5
<1>8. Move(u, row, seen, e)
  <2>1. row.balance - a = row.balance + e.amount /\ row.spent + a = row.spent - e.amount /\ ~(e.amount >= 0)
    BY <1>2, <1>3, <1>4 DEF WalletRow
  <2> QED
    BY <1>1, <1>4, <1>6, <1>7, <2>1 DEF Move
<1>9. lost' \in Nat /\ lost <= lost' /\ LedgerFits' /\ TotalsFit'
  <2>1. lost' \in Nat /\ lost <= lost'
    BY <1>2, <1>3, <1>5, <1>8, MoveReads
  <2>2. TotalsFit'
    BY <1>2, <1>3, <1>5, <1>8, MoveTotals
  <2>3. \A q \in Payments, d \in Callers :
          capture'[q][d].at = "wallet" => capture'[q][d] = capture[q][d]
    BY <1>5, CaptureEnds
  <2>4. \A n \in Newcomers : signup'[n].at = "wallet" => signup'[n] = signup[n]
    OBVIOUS
  <2>5. LedgerFits'
    BY <1>2, <1>3, <1>5, <1>8, <2>3, <2>4, LedgerMoves
  <2> QED
    BY <2>1, <2>2, <2>5
<1>10. entries \in SUBSET Entry /\ IsFiniteSet(entries) /\ entries' \subseteq Entry /\ IsFiniteSet(entries')
  BY <1>1, <1>4, <1>5, FS_AddElement DEF CreditTables
<1>11. EntriesFit'
  <2>1. \A x \in entries' : x.user = IF x.kind = "referral" THEN Referrer ELSE Buyer[x.for]
    BY <1>1, <1>4, <1>5 DEF EntriesFit, u
  <2>2. \A x, y \in entries' : x.kind = y.kind /\ x.for = y.for => x = y
    BY <1>1, <1>4, <1>5 DEF EntriesFit, HasEntry
  <2>3. \A n \in Newcomers : HasEntry("referral", n)' <=> HasEntry("referral", n)
    BY <1>1, <1>4 DEF HasEntry
  <2>4. link.used # None => HasEntry("referral", link.used)'
    BY <1>1, <1>5 DEF EntriesFit, HasEntry
  <2> QED
    BY <1>5, <2>1, <2>2, <2>3, <2>4 DEF EntriesFit
<1>12. /\ \A q \in Payments \ {p} : SpentOn(q)' = SpentOn(q)
       /\ SpentOn(p)' = SpentOn(p) \cup {e}
       /\ \A q \in Payments : HasEntry("checkout", q) => HasEntry("checkout", q)'
  BY <1>1, <1>4 DEF SpentOn, HasEntry
<1>13. lost' = 0 => wallet'[u].balance = wallet[u].balance - a
  <2> SUFFICES ASSUME lost' = 0 PROVE row.balance = wallet[u].balance
    BY <1>7
  <2>1. PICK m \in Nat : m = Movements(u)
    BY <1>5, LedgerTypes
  <2>2. seen \in Nat /\ seen <= m /\ lost \in Nat
    BY <1>3, <1>5, <2>1 DEF ReadFits, ReadAs, CreditTables
  <2>3. seen = m
    <3>1. lost + m - seen = 0
      BY <1>1, <2>1
    <3>2. PICK j \in Nat, k \in Nat : j = lost /\ k = seen
      BY <2>2
    <3>3. j + m - k = 0 /\ k <= m
      BY <2>2, <3>1, <3>2
    <3> QED
      BY <3>2, <3>3, NothingMissed
  <2> QED
    BY <1>3, <2>1, <2>3 DEF ReadFits, ReadAs
<1>14. Spent(entries)' = Spent(entries) + a
  <2>1. Spent(entries)' = Spent(entries')
    BY DEF Spent
  <2>2. Spent(entries) \in Int /\ Spent(entries \cup {e}) = Spent(entries) - e.amount
    BY <1>4, <1>6, <1>10, EarnedSpentJoin
  <2> QED
    BY <1>1, <1>2, <1>3, <1>4, <2>1, <2>2
<1>15. SpendOf(capture[p][c]) = a
  BY <1>1 DEF SpendOf, row, a
<1>16. Spends(p, a)
  BY <1>3, <1>4, <1>7, <1>9, <1>10, <1>11, <1>12, <1>13, <1>14 DEF Spends, u
<1> QED
  BY <1>15, <1>16

\* So is a capture that takes nothing from the wallet.
LEMMA NothingSpends ==
  ASSUME CreditsInv, NEW p \in Payments, NEW c \in Callers, capture[p][c].at = "wallet",
         capture' = [capture EXCEPT ![p][c] = Idle], UNCHANGED <<link, signup, order>>,
         capture[p][c].purse = Idle, UNCHANGED <<wallet, entries, lost>>
  PROVE  Spends(p, SpendOf(capture[p][c]))
<1>1. SpendOf(capture[p][c]) = 0
  BY DEF SpendOf
<1>2. CreditTables /\ CreditRequests /\ LedgerFits /\ TotalsFit /\ EntriesFit
  BY DEF CreditsInv
<1>3. \A q \in Payments, d \in Callers :
        capture'[q][d].at = "wallet" => capture'[q][d] = capture[q][d]
  BY <1>2, CaptureEnds
<1>4. LedgerFits' /\ TotalsFit'
  BY <1>2, <1>3, LedgerStays
<1>5. EntriesFit'
  BY <1>2 DEF EntriesFit, HasEntry
<1>6. Spent(entries)' = Spent(entries) + 0 /\ \A v \in Users : wallet'[v].balance = wallet[v].balance - 0
  <2>1. Spent(entries) \in Int
    <3> DEFINE S == {x \in entries : x.amount < 0}
    <3>1. S \subseteq Entry /\ IsFiniteSet(S)
      BY <1>2, FS_Subset DEF CreditTables
    <3>2. \A x \in S : Amount[x] \in Int
      BY <3>1, AmountOfEntry
    <3>3. SumFunctionOnSet(Amount, S) \in Int
      <4> HIDE DEF S
      <4> QED
        BY <3>1, <3>2, SumIsInt
    <3> QED
      BY <3>3 DEF Spent
  <2>2. Spent(entries)' = Spent(entries)
    BY DEF Spent
  <2>3. \A v \in Users : wallet[v].balance \in Int
    BY <1>2 DEF CreditTables, WalletRow
  <2> QED
    BY <2>1, <2>2, <2>3
<1>7. \A q \in Payments : SpentOn(q)' = SpentOn(q) /\ (HasEntry("checkout", q)' <=> HasEntry("checkout", q))
  BY DEF SpentOn, HasEntry
<1> QED
  BY <1>1, <1>2, <1>4, <1>5, <1>6, <1>7, CreditsAssumption DEF Spends, CreditTables

\* A capture that commits spends what the payment's row promised, unless that
\* row was written after it was read; one that meets a unique key does nothing.
LEMMA CaptureKeepsCredits ==
  ASSUME CreditsInv, NEW p \in Payments, NEW c \in Callers, FinalizeCapture(p, c)
  PROVE  CreditsInv'
<1> DEFINE req == capture[p][c]
           u == Buyer[p]
           a == SpendOf(req)
           k == IF req.loaded.promo THEN 1 ELSE 0
<1>1. /\ UNCHANGED <<link, promo, signup, order, orders, promised>>
      /\ req.at = "wallet" /\ capture' = [capture EXCEPT ![p][c] = Idle]
  BY DEF FinalizeCapture
<1>2. CreditRequests' /\ \A q \in Payments, d \in Callers :
        capture'[q][d].at = "wallet" => capture'[q][d] = capture[q][d]
  BY <1>1, CaptureEnds DEF CreditsInv
<1>3. CASE UNCHANGED <<wallet, entries, uses, pay, invoiced, lost, raced>>
  <2>1. CreditTables'
    BY <1>1, <1>3 DEF CreditsInv, CreditTables
  <2>2. EntriesFit'
    BY <1>1, <1>3 DEF CreditsInv, EntriesFit, HasEntry
  <2>3. LedgerFits' /\ TotalsFit'
    BY <1>1, <1>2, <1>3, LedgerStays DEF CreditsInv
  <2>4. CapturedSpendsItsPromise' /\ OneBusy' /\ CreditRoom' /\ PromoRoom' /\ Balanced'
    BY <1>1, <1>3, PromisesStay DEF CreditsInv, SpendsFit
  <2>5. SpendsFit'
    BY <1>2, <1>3, <2>4 DEF CreditsInv, SpendsFit, HasEntry
  <2> QED
    BY <1>2, <2>1, <2>2, <2>3, <2>4, <2>5 DEF CreditsInv
<1>4. CASE /\ pay' = [pay EXCEPT ![p].status = "CAPTURED"]
           /\ invoiced' = invoiced \cup {p}
           /\ uses' = [uses EXCEPT ![p] = IF req.loaded.promo THEN uses[p] + 1 ELSE uses[p]]
           /\ \/ Debits(p, req)
              \/ req.purse = Idle /\ UNCHANGED <<wallet, entries, lost>>
           /\ raced' = IF pay[p] # req.loaded THEN raced \cup {p} ELSE raced
  <2>1. CreditTables /\ CreditRequests /\ CaptureFits(req)
    BY <1>1 DEF CreditsInv, CreditRequests, Idle
  <2>2. Spends(p, a)
    BY <1>1, <1>4, DebitSpends, NothingSpends
  <2>3. a \in 0..WalletCap /\ (req.purse = Idle => a = 0) /\ (req.purse # Idle => a = req.loaded.wallet)
    BY <2>1, CreditsAssumption DEF SpendOf, CaptureFits, PaymentRow
  <2>4. /\ pay' \in [Payments -> PaymentRow] /\ pay'[p].status = "CAPTURED"
        /\ pay'[p].wallet = pay[p].wallet /\ pay'[p].promo = pay[p].promo
        /\ \A q \in Payments : q # p => pay'[q] = pay[q]
    BY <1>4, <2>1 DEF CreditTables, PaymentRow
  <2>5. uses \in [Payments -> Nat] /\ k \in {0, 1} /\ uses' = [uses EXCEPT ![p] = uses[p] + k]
    <3>1. uses \in [Payments -> Nat] /\ uses[p] \in Nat /\ k \in {0, 1}
      BY <2>1 DEF CreditTables
    <3>2. uses[p] + k = IF req.loaded.promo THEN uses[p] + 1 ELSE uses[p]
      BY <3>1
    <3> QED
      BY <1>4, <3>1, <3>2
  <2>6. /\ uses' \in [Payments -> Nat] /\ uses'[p] = uses[p] + k
        /\ \A q \in Payments : q # p => uses'[q] = uses[q]
    BY <2>5
  <2>7. raced \subseteq raced' /\ raced' \subseteq Payments
    BY <1>4, <2>1 DEF CreditTables
  <2>8. p \notin raced' =>
          /\ pay[p] = req.loaded /\ raced' = raced /\ Open(p) /\ pay[p].status # "CAPTURED"
          /\ SpentOn(p) = {} /\ uses[p] = 0 /\ a = pay[p].wallet
    <3> SUFFICES ASSUME p \notin raced'
                 PROVE  /\ pay[p] = req.loaded /\ raced' = raced /\ Open(p) /\ pay[p].status # "CAPTURED"
                        /\ SpentOn(p) = {} /\ uses[p] = 0 /\ a = pay[p].wallet
      OBVIOUS
    <3>1. pay[p] = req.loaded /\ raced' = raced /\ p \notin raced
      BY <1>4
    <3>2. Open(p) /\ pay[p].status # "CAPTURED"
      BY <2>1, <3>1 DEF CaptureFits, Open
    <3>3. SpentOn(p) = {} /\ uses[p] = 0
      BY <3>1, <3>2 DEF CreditsInv, SpendsFit, CapturedSpendsItsPromise, SpentOn
    <3>4. req.purse = Idle => req.loaded.wallet = 0
      BY <1>1, <3>3 DEF CreditsInv, SpendsFit, HasEntry, SpentOn
    <3> QED
      BY <2>3, <3>1, <3>2, <3>3, <3>4
  <2> HIDE DEF req, a, k, u
  <2>9. CreditTables'
    <3>1. invoiced' \subseteq Payments
      BY <1>4, <2>1 DEF CreditTables
    <3> QED
      BY <1>1, <2>1, <2>2, <2>4, <2>6, <2>7, <3>1 DEF CreditTables, Spends
  <2>10. LedgerFits' /\ TotalsFit' /\ EntriesFit'
    BY <2>2 DEF Spends
  <2>11. SpendsFit'
    <3>1. ASSUME NEW q \in Payments \ raced'
          PROVE  IF pay'[q].status = "CAPTURED"
                 THEN /\ pay'[q].wallet > 0 <=> SpentOn(q)' # {}
                      /\ \A e \in SpentOn(q)' : e.amount = -pay'[q].wallet
                      /\ uses'[q] = IF pay'[q].promo THEN 1 ELSE 0
                 ELSE SpentOn(q)' = {} /\ uses'[q] = 0
      <4>1. CASE q = p
        <5>1. /\ pay'[p].status = "CAPTURED" /\ SpentOn(p) = {} /\ pay'[p].wallet = a
              /\ uses'[p] = 0 + k /\ pay'[p].promo = req.loaded.promo
          BY <2>4, <2>6, <2>8, <3>1, <4>1
        <5>2. (a > 0 <=> SpentOn(p)' # {}) /\ \A e \in SpentOn(p)' : e.amount = -a
          BY <2>2, <5>1 DEF Spends
        <5>3. 0 + k = IF req.loaded.promo THEN 1 ELSE 0
          BY DEF k
        <5> QED
          BY <4>1, <5>1, <5>2, <5>3
      <4>2. CASE q # p
        <5>1. SpentOn(q)' = SpentOn(q) /\ pay'[q] = pay[q] /\ uses'[q] = uses[q] /\ q \in Payments \ raced
          BY <2>2, <2>4, <2>6, <2>7, <3>1, <4>2 DEF Spends
        <5>2. IF pay[q].status = "CAPTURED"
              THEN /\ pay[q].wallet > 0 <=> SpentOn(q) # {}
                   /\ \A e \in SpentOn(q) : e.amount = -pay[q].wallet
                   /\ uses[q] = IF pay[q].promo THEN 1 ELSE 0
              ELSE SpentOn(q) = {} /\ uses[q] = 0
          BY <5>1 DEF CreditsInv, SpendsFit, CapturedSpendsItsPromise, SpentOn
        <5> QED
          BY <5>1, <5>2
      <4> QED
        BY <4>1, <4>2
    <3>2. CapturedSpendsItsPromise'
      BY <3>1 DEF CapturedSpendsItsPromise, SpentOn
    <3>3. \A q \in Payments, d \in Callers :
            capture'[q][d].at = "wallet" /\ capture'[q][d].purse = Idle
              => capture'[q][d].loaded.wallet = 0 \/ HasEntry("checkout", q)'
      BY <1>2, <2>2 DEF CreditsInv, SpendsFit, Spends
    <3> QED
      BY <3>2, <3>3 DEF SpendsFit
  <2>12. OneBusy'
    <3>1. \A q \in Payments : Busy(q)' => Busy(q) \/ q = p
      BY <1>1, <2>4 DEF Busy, Open
    <3>2. Busy(p)' => Busy(p)
      BY <1>1, <2>4 DEF Busy, Open
    <3> QED
      BY <1>1, <3>1, <3>2 DEF CreditsInv, OneBusy
  <2>13. p \notin raced' => \A q \in Payments : q # p /\ Busy(q) =>
           "promo" \in promised /\ (Buyer[q] = u => u \in promised)
    <3>1. p \notin raced' => Busy(p)
      BY <2>8 DEF Busy
    <3> QED
      BY <3>1 DEF CreditsInv, OneBusy, u
  <2>14. CreditRoom'
    <3> SUFFICES ASSUME raced' = {}, lost' = 0, NEW v \in Users \ promised'
                 PROVE  /\ wallet'[v].balance >= 0
                        /\ \A q \in Payments : Buyer[q] = v => Covered(q, wallet[v].balance)'
      BY DEF CreditRoom
    <3>1. lost \in Nat /\ lost' \in Nat /\ lost <= lost'
      BY <2>1, <2>2 DEF CreditTables, Spends
    <3>2. raced = {} /\ lost = 0 /\ v \in Users \ promised
      BY <1>1, <2>7, <3>1
    <3>3. /\ wallet[v].balance >= 0 /\ wallet[v].balance \in Int
          /\ \A q \in Payments : Buyer[q] = v => Covered(q, wallet[v].balance)
      BY <2>1, <3>2 DEF CreditsInv, CreditRoom, CreditTables, WalletRow
    <3>4. CASE v = u
      <4>1. wallet'[u].balance = wallet[u].balance - a
        BY <2>2 DEF Spends, u
      <4>2. Open(p) /\ a = pay[p].wallet /\ pay[p].wallet \in Nat
        BY <2>1, <2>3, <2>8, CreditsAssumption DEF CreditTables, PaymentRow
      <4>3. pay[p].wallet <= wallet[u].balance
        BY <3>3, <3>4, <4>2 DEF Covered, u
      <4>4. wallet'[u].balance >= 0
        BY <3>3, <3>4, <4>1, <4>2, <4>3
      <4>5. ASSUME NEW q \in Payments, Buyer[q] = u
            PROVE  Covered(q, wallet[u].balance)'
        <5>1. CASE q = p
          BY <2>4, <5>1 DEF Covered, Open
        <5>2. CASE q # p
          <6>1. ~Busy(q)
            BY <2>13, <3>2, <3>4, <4>5, <5>2
          <6> QED
            BY <1>1, <2>4, <5>2, <6>1 DEF Busy, Covered, Open
        <5> QED
          BY <5>1, <5>2
      <4> QED
        BY <3>4, <4>4, <4>5
    <3>5. CASE v # u
      <4>1. wallet'[v] = wallet[v]
        BY <2>2, <3>5 DEF Spends, u
      <4>2. ASSUME NEW q \in Payments, Buyer[q] = v
            PROVE  Covered(q, wallet[v].balance)'
        <5>1. q # p /\ pay'[q] = pay[q] /\ order'[q] = order[q]
          BY <1>1, <2>4, <3>5, <4>2 DEF u
        <5> QED
          BY <3>3, <4>1, <4>2, <5>1 DEF Covered, Open
      <4> QED
        BY <3>3, <4>1, <4>2
    <3> QED
      BY <3>4, <3>5
  <2>15. PromoRoom'
    <3> SUFFICES ASSUME raced' = {}, "promo" \notin promised'
                 PROVE  /\ TotalUses' <= PromoLimit /\ \A v \in Users : UsesOf(v)' <= UserLimit
                        /\ \A q \in Payments : ~Holds(q)'
      BY DEF PromoRoom
    <3>1. raced = {} /\ "promo" \notin promised /\ p \notin raced'
      BY <1>1, <2>7
    <3>2. /\ TotalUses <= PromoLimit /\ \A v \in Users : UsesOf(v) <= UserLimit
          /\ \A q \in Payments : Holds(q) => TotalUses < PromoLimit /\ UsesOf(Buyer[q]) < UserLimit
      BY <3>1 DEF CreditsInv, PromoRoom
    <3>3. ASSUME NEW q \in Payments PROVE ~Holds(q)'
      <4>1. CASE q = p
        BY <2>4, <4>1 DEF Holds, Open
      <4>2. CASE q # p
        <5>1. ~Busy(q)
          BY <2>13, <3>1, <4>2
        <5> QED
          BY <1>1, <2>4, <4>2, <5>1 DEF Busy, Holds, Open
      <4> QED
        BY <4>1, <4>2
    <3>4. /\ TotalUses \in Int /\ TotalUses' = TotalUses + k
          /\ \A v \in Users : UsesOf(v) \in Int /\ UsesOf(v)' = IF Buyer[p] = v THEN UsesOf(v) + k ELSE UsesOf(v)
      BY <2>5, UsesGrow
    <3>5. k = 0 \/ (k = 1 /\ Holds(p))
      BY <2>5, <2>8, <3>1 DEF Holds, k
    <3>6. PromoLimit \in Nat /\ UserLimit \in Nat /\ k \in {0, 1}
      BY <2>5, CreditsAssumption
    <3>7. TotalUses' <= PromoLimit
      BY <3>2, <3>4, <3>5, <3>6
    <3>8. ASSUME NEW v \in Users PROVE UsesOf(v)' <= UserLimit
      BY <3>2, <3>4, <3>5, <3>6
    <3> QED
      BY <3>3, <3>7, <3>8
  <2>16. Balanced'
    <3> SUFFICES ASSUME raced' = {} PROVE Spent(entries)' = CapturedWallet'
      BY DEF Balanced
    <3>1. raced = {} /\ p \notin raced'
      BY <2>7
    <3>2. Spent(entries) = CapturedWallet
      BY <3>1 DEF CreditsInv, Balanced
    <3>3. Spent(entries)' = Spent(entries) + a
      BY <2>2 DEF Spends
    <3>4. CapturedWallet' = CapturedWallet + pay[p].wallet
      BY <1>4, <2>1, <2>8, <3>1, CapturedWalletGrows DEF CreditTables
    <3> QED
      BY <2>8, <3>1, <3>2, <3>3, <3>4
  <2> QED
    BY <1>2, <2>9, <2>10, <2>11, <2>12, <2>14, <2>15, <2>16 DEF CreditsInv
<1> QED
  BY <1>3, <1>4 DEF FinalizeCapture, Debits, Debit

-----------------------------------------------------------------------------
\* Every step keeps it, and so does none.
LEMMA CreditsKeeps == CreditsInv /\ [CreditsNext]_creditsVars => CreditsInv'
<1> SUFFICES ASSUME CreditsInv, [CreditsNext]_creditsVars PROVE CreditsInv'
  OBVIOUS
<1>1. CASE GetOrCreateReferralLink \/ LinkExpires \/ PromoChange
  BY <1>1, OthersKeepCredits
<1>2. CASE \E n \in Newcomers : RedeemReferralCode(n) \/ CreditReferralBonus(n)
  BY <1>2, SignupReadKeepsCredits
<1>3. CASE \E n \in Newcomers : CommitSignup(n)
  BY <1>3, SignupKeepsCredits
<1>4. CASE \E u \in Users : GetWalletBalance(u)
  BY <1>4, LookKeepsCredits
<1>5. CASE \E p \in Payments, credit, code \in BOOLEAN : CreatePaymentOrder(p, credit, code)
  BY <1>5, CheckoutKeepsCredits
<1>6. CASE \E p \in Payments : CommitOrder(p)
  BY <1>6, OrderKeepsCredits
<1>7. CASE \E p \in Payments : PaymentFailed(p)
  BY <1>7, FailureKeepsCredits
<1>8. CASE \E p \in Payments : LookAtInvoice(p)
  BY <1>8, OthersKeepCredits
<1>9. CASE \E p \in Payments, c \in Callers : CapturePayment(p, c) \/ ReadWallet(p, c)
  BY <1>9, CaptureReadKeepsCredits
<1>10. CASE \E p \in Payments, c \in Callers : FinalizeCapture(p, c)
  BY <1>10, CaptureKeepsCredits
<1>11. CASE UNCHANGED creditsVars
  <2>1. UNCHANGED <<link, wallet, entries, promo, uses, pay, invoiced, signup, order, capture,
                    orders, lost, raced, promised>>
    BY <1>11 DEF creditsVars
  <2>2. CreditTables' /\ CreditRequests' /\ EntriesFit'
    BY <2>1 DEF CreditsInv, CreditTables, CreditRequests, EntriesFit, HasEntry
  <2>3. LedgerFits' /\ TotalsFit'
    BY <2>1, LedgerStays DEF CreditsInv
  <2>4. CapturedSpendsItsPromise' /\ OneBusy' /\ CreditRoom' /\ PromoRoom' /\ Balanced'
    BY <2>1, PromisesStay DEF CreditsInv, SpendsFit
  <2>5. SpendsFit'
    BY <2>1, <2>4 DEF CreditsInv, SpendsFit, HasEntry
  <2> QED
    BY <2>2, <2>3, <2>4, <2>5 DEF CreditsInv
<1> QED
  BY <1>1, <1>2, <1>3, <1>4, <1>5, <1>6, <1>7, <1>8, <1>9, <1>10, <1>11 DEF CreditsNext

\* The balances are those of the transactions, up to the writes that were lost.
LEMMA InvWalletMatches == CreditsInv => WalletMatchesLedger
<1> SUFFICES ASSUME CreditsInv, NEW u \in Users
             PROVE  /\ wallet[u].balance - LedgerOf(u) \in -(lost * LargestMove)..(lost * LargestMove)
                    /\ lost = 0 => wallet[u].balance = wallet[u].earned - wallet[u].spent
  BY DEF WalletMatchesLedger
<1>1. PICK m \in Nat : m = Movements(u)
  BY LedgerTypes DEF CreditsInv
<1>2. Within(wallet[u].balance - LedgerOf(u), lost + m - m) /\ lost \in Nat
  BY <1>1 DEF CreditsInv, CreditTables, LedgerFits, ReadFits, ReadAs
<1>3. lost + m - m = lost
  BY <1>2
<1>4. Within(wallet[u].balance - LedgerOf(u), lost)
  BY <1>2, <1>3
<1> QED
  BY <1>4 DEF Within, CreditsInv, TotalsFit

\* Nobody is overdrawn and no code is overused but by what overlaps.
LEMMA InvWithinLimits == CreditsInv => OverdrawnByTwoOrders /\ PromoWithinLimits
<1> SUFFICES ASSUME CreditsInv PROVE OverdrawnByTwoOrders /\ PromoWithinLimits
  OBVIOUS
<1>1. OverdrawnByTwoOrders
  <2> SUFFICES ASSUME NEW u \in Users, wallet[u].balance < 0
               PROVE  u \in promised \/ lost > 0 \/ raced # {}
    BY DEF OverdrawnByTwoOrders
  <2>1. lost \in Nat /\ wallet[u].balance \in Int /\ ~(wallet[u].balance >= 0)
    BY DEF CreditsInv, CreditTables, WalletRow
  <2>2. raced = {} /\ lost = 0 => u \in promised
    BY <2>1 DEF CreditsInv, CreditRoom
  <2> QED
    BY <2>1, <2>2
<1>2. \A p \in Payments \ raced : uses[p] <= 1
  <2> SUFFICES ASSUME NEW p \in Payments \ raced PROVE uses[p] <= 1
    OBVIOUS
  <2>1. uses[p] = 0 \/ uses[p] = 1
    BY DEF CreditsInv, SpendsFit, CapturedSpendsItsPromise
  <2> QED
    BY <2>1
<1> QED
  BY <1>1, <1>2 DEF CreditsInv, PromoRoom, PromoWithinLimits

\* The pages agree.
LEMMA InvReportsAgree == CreditsInv => ReportsAgree
<1> SUFFICES ASSUME CreditsInv PROVE ReportsAgree
  OBVIOUS
<1>1. entries \subseteq Entry
  BY DEF CreditsInv, CreditTables
<1>2. \A e \in entries : /\ e.kind = "referral" <=> e.amount >= 0
                         /\ e.kind = "checkout" <=> e.amount < 0
  <2> SUFFICES ASSUME NEW e \in entries
               PROVE  /\ e.kind = "referral" <=> e.amount >= 0
                      /\ e.kind = "checkout" <=> e.amount < 0
    OBVIOUS
  <2>1. /\ e.amount \in Int /\ e.kind \in {"referral", "checkout"}
        /\ e.kind = "referral" => e.amount = Bonus
        /\ e.kind = "checkout" => e.amount \in -WalletCap..-1
    BY <1>1, AmountOfEntry
  <2>2. Bonus \in Nat /\ WalletCap \in Nat
    BY CreditsAssumption
  <2> QED
    BY <2>1, <2>2
<1>3. ASSUME lost = 0, NEW u \in Users
      PROVE  /\ ReferralStats(u).earned = wallet[u].earned
             /\ MonthlySummary(u).earned - MonthlySummary(u).spent = MonthlySummary(u).balance
             /\ MonthlySummary(u).spent = wallet[u].spent
  <2>1. /\ wallet[u].earned = Earned(WalletTransactions(u))
        /\ wallet[u].spent = Spent(WalletTransactions(u))
        /\ wallet[u].balance = wallet[u].earned - wallet[u].spent
    BY <1>3 DEF CreditsInv, TotalsFit
  <2>2. MyReferrals(u) = {e \in WalletTransactions(u) : e.amount >= 0}
    BY <1>2 DEF MyReferrals, WalletTransactions
  <2>3. ReferralStats(u).earned = Earned(WalletTransactions(u))
    BY <2>2 DEF ReferralStats, Earned
  <2>4. /\ MonthlySummary(u).earned = Earned(WalletTransactions(u))
        /\ MonthlySummary(u).spent = Spent(WalletTransactions(u))
        /\ MonthlySummary(u).balance = wallet[u].balance
    BY DEF MonthlySummary
  <2> QED
    BY <2>1, <2>3, <2>4
<1>4. link.used # None => \E e \in MyReferrals(Referrer) : e.for = link.used
  <2> SUFFICES ASSUME link.used # None PROVE \E e \in MyReferrals(Referrer) : e.for = link.used
    OBVIOUS
  <2>1. PICK e \in entries : e.kind = "referral" /\ e.for = link.used
    BY DEF CreditsInv, EntriesFit, HasEntry
  <2>2. e.user = Referrer
    BY <2>1 DEF CreditsInv, EntriesFit
  <2> QED
    BY <2>1, <2>2 DEF MyReferrals, WalletTransactions
<1>5. ASSUME raced = {}
      PROVE  /\ ReconciliationReport.amount = CapturedWallet
             /\ CashflowAudit.checkouts = {p \in Captured : pay[p].wallet > 0}
             /\ CashflowAudit.debits = ReconciliationReport.amount
  <2> DEFINE T == {e \in entries : e.kind = "checkout"}
  <2>1. {e \in T : e.amount < 0} = {e \in entries : e.amount < 0}
    BY <1>2
  <2>2. Spent(T) = Spent(entries)
    BY <2>1 DEF Spent
  <2>3. ReconciliationReport.amount = Spent(T) /\ CashflowAudit.debits = Spent(entries)
    BY DEF ReconciliationReport, CashflowAudit
  <2>4. Spent(entries) = CapturedWallet
    BY <1>5 DEF CreditsInv, Balanced
  <2>5. CashflowAudit.checkouts = {e.for : e \in T}
    BY DEF CashflowAudit
  <2>6. \A e \in T : e.for \in Payments
    BY <1>1, AmountOfEntry
  <2>7. \A p \in Payments : /\ SpentOn(p) # {} <=> p \in Captured /\ pay[p].wallet > 0
                            /\ SpentOn(p) # {} <=> \E e \in T : e.for = p
    <3>1. \A p \in Payments : SpentOn(p) # {} <=> p \in Captured /\ pay[p].wallet > 0
      BY <1>5 DEF CreditsInv, SpendsFit, CapturedSpendsItsPromise, SpentOn, Captured
    <3>2. \A p \in Payments : SpentOn(p) # {} <=> \E e \in T : e.for = p
      BY DEF SpentOn
    <3> QED
      BY <3>1, <3>2
  <2>8. {e.for : e \in T} = {p \in Captured : pay[p].wallet > 0}
    <3> HIDE DEF T
    <3>1. \A p : p \in {e.for : e \in T} <=> p \in Payments /\ \E e \in T : e.for = p
      BY <2>6
    <3>2. \A p : p \in {q \in Captured : pay[q].wallet > 0} <=> p \in Payments /\ p \in Captured /\ pay[p].wallet > 0
      BY DEF Captured
    <3> QED
      BY <2>7, <3>1, <3>2
  <2> QED
    BY <2>2, <2>3, <2>4, <2>5, <2>8
<1> QED
  BY <1>3, <1>4, <1>5 DEF ReportsAgree, CapturedWallet, Captured

\* Credit and codes are earned once, spent once, within their limits and
\* accounted for, but for what requests that overlap lose or race, and the
\* history variables name those (services/loyalty.py, services/payments.py).
THEOREM CreditAddsUp == CreditsSpec => []CreditsHold
<1>1. CreditsInv => CreditsHold
  <2>1. CreditsInv => CapturedSpendsItsPromise
    BY DEF CreditsInv, SpendsFit
  <2>2. CreditsInv => RedeemedLinkPaid
    BY DEF CreditsInv, EntriesFit, RedeemedLinkPaid
  <2> QED
    BY <2>1, <2>2, InvWalletMatches, InvWithinLimits, InvReportsAgree DEF CreditsHold
<1> QED
  BY <1>1, CreditsStart, CreditsKeeps, PTL DEF CreditsSpec

-----------------------------------------------------------------------------
(* Discovery: pages, cards, and what is cached. *)

\* A set of numbers has a least one.
LEMMA LeastNumber ==
  ASSUME NEW T \in SUBSET Nat, T # {}
  PROVE  \E x \in T : \A y \in T : x <= y
<1> DEFINE below == {0..x : x \in T}
           R == StrictSubsetOrdering(Nat)
<1>1. below # {} /\ below \subseteq FiniteSubsetsOf(Nat)
  <2>1. \A x \in T : x \in Int /\ 0 \in Int
    OBVIOUS
  <2>2. \A x \in T : IsFiniteSet(0..x)
    BY <2>1, FS_Interval
  <2>3. ASSUME NEW x \in T PROVE 0..x \in FiniteSubsetsOf(Nat)
    <3>1. PICK I : I = 0..x
      OBVIOUS
    <3>2. I \subseteq Nat /\ IsFiniteSet(I)
      BY <2>2, <3>1
    <3>3. I \in FiniteSubsetsOf(Nat)
      BY <3>2 DEF FiniteSubsetsOf
    <3> QED
      BY <3>1, <3>3
  <2> QED
    BY <2>3
<1>2. PICK M \in below : \A N \in below : ~(<<N, M>> \in R)
  <2>1. IsWellFoundedOn(R, FiniteSubsetsOf(Nat))
    BY FS_StrictSubsetOrderingWellFounded
  <2> HIDE DEF below, R
  <2> QED
    BY <1>1, <2>1, WFMin
<1>3. PICK x \in T : M = 0..x
  BY <1>2
<1>4. ASSUME NEW y \in T PROVE x <= y
  <2>1. <<0..y, 0..x>> \notin R
    BY <1>2, <1>3
  <2>2. 0..y \in SUBSET Nat /\ 0..x \in SUBSET Nat
    OBVIOUS
  <2>3. ~(0..y \subseteq 0..x /\ 0..y # 0..x)
    BY <2>1, <2>2 DEF StrictSubsetOrdering
  <2>4. y < x => 0..y \subseteq 0..x /\ x \in 0..x /\ x \notin 0..y
    OBVIOUS
  <2> QED
    BY <2>3, <2>4
<1> QED
  BY <1>4

\* The smaller number is no larger than either, and one of them.
LEMMA LeastIs ==
  ASSUME NEW m \in Nat, NEW n \in Nat
  PROVE  Least(m, n) \in Nat /\ Least(m, n) <= m /\ Least(m, n) <= n /\ Least(m, n) \in {m, n}
  BY DEF Least

\* How many are newer tells the members of a set apart, in their order, and
\* takes every value below their number.
LEMMA NewerRanks ==
  ASSUME NEW S \in SUBSET Int, IsFiniteSet(S)
  PROVE  /\ Cardinality(S) \in Nat
         /\ \A i \in S : Newer(S, i) \in Nat /\ Newer(S, i) < Cardinality(S)
         /\ \A i, j \in S : i < j <=> Newer(S, i) < Newer(S, j)
         /\ \A k \in 1..Cardinality(S) : \E i \in S : Newer(S, i) = k - 1
<1> DEFINE below(i) == {j \in S : j < i}
<1>1. Cardinality(S) \in Nat
  BY FS_CardinalityType
<1>2. ASSUME NEW i \in S
      PROVE  /\ IsFiniteSet(below(i)) /\ Newer(S, i) = Cardinality(below(i))
             /\ Newer(S, i) \in Nat /\ Newer(S, i) < Cardinality(S)
  <2>1. below(i) \in SUBSET S /\ i \notin below(i)
    OBVIOUS
  <2>2. Newer(S, i) = Cardinality(below(i))
    BY DEF Newer
  <2> HIDE DEF below
  <2>3. /\ IsFiniteSet(below(i)) /\ Cardinality(below(i)) <= Cardinality(S)
        /\ Cardinality(S) # Cardinality(below(i))
    BY <2>1, FS_Subset
  <2>4. Cardinality(below(i)) \in Nat
    BY <2>3, FS_CardinalityType
  <2> QED
    BY <1>1, <2>2, <2>3, <2>4
<1>3. ASSUME NEW i \in S, NEW j \in S, i < j PROVE Newer(S, i) < Newer(S, j)
  <2>1. below(i) \in SUBSET below(j) /\ i \in below(j) /\ i \notin below(i)
    <3>1. \A l \in S : l \in Int
      OBVIOUS
    <3>2. \A l \in S : l < i => l < j
      BY <1>3, <3>1
    <3>3. ~(i < i)
      BY <3>1
    <3> QED
      BY <1>3, <3>2, <3>3
  <2>2. IsFiniteSet(below(j)) /\ Newer(S, i) = Cardinality(below(i)) /\ Newer(S, j) = Cardinality(below(j))
    BY <1>2
  <2>3. Newer(S, i) \in Nat /\ Newer(S, j) \in Nat
    BY <1>2
  <2> HIDE DEF below
  <2>4. Cardinality(below(i)) <= Cardinality(below(j)) /\ Cardinality(below(i)) # Cardinality(below(j))
    BY <2>1, <2>2, FS_Subset
  <2> QED
    BY <2>2, <2>3, <2>4
<1>4. \A i, j \in S : i < j <=> Newer(S, i) < Newer(S, j)
  <2> SUFFICES ASSUME NEW i \in S, NEW j \in S, Newer(S, i) < Newer(S, j) PROVE i < j
    BY <1>3
  <2>1. Newer(S, i) \in Nat /\ Newer(S, j) \in Nat /\ i \in Int /\ j \in Int
    BY <1>2
  <2>2. j < i => Newer(S, j) < Newer(S, i)
    BY <1>3
  <2>3. i # j
    BY <2>1
  <2> QED
    BY <2>1, <2>2, <2>3
<1>5. ASSUME NEW k \in 1..Cardinality(S) PROVE \E i \in S : Newer(S, i) = k - 1
  <2> DEFINE T == 0..(Cardinality(S) - 1)
             f == [i \in S |-> Newer(S, i)]
  <2>1. IsFiniteSet(T) /\ Cardinality(T) = Cardinality(S)
    <3>1. PICK c \in Nat : c = Cardinality(S)
      BY <1>1
    <3>2. IsFiniteSet(0..(c - 1)) /\ Cardinality(0..(c - 1)) = IF 0 > c - 1 THEN 0 ELSE (c - 1) - 0 + 1
      <4>1. PICK d \in Int : d = c - 1
        OBVIOUS
      <4>2. IsFiniteSet(0..d) /\ Cardinality(0..d) = IF 0 > d THEN 0 ELSE d - 0 + 1
        BY FS_Interval
      <4> QED
        BY <4>1, <4>2
    <3>3. (IF 0 > c - 1 THEN 0 ELSE (c - 1) - 0 + 1) = c
      BY <3>1
    <3> QED
      BY <3>1, <3>2, <3>3
  <2>2. f \in Injection(S, T)
    <3>1. \A i \in S : f[i] \in T
      <4>1. PICK c \in Nat : c = Cardinality(S)
        BY <1>1
      <4>2. \A m \in Nat : m < c => m \in 0..(c - 1)
        OBVIOUS
      <4> QED
        BY <1>2, <4>1, <4>2
    <3>2. \A i, j \in S : f[i] = f[j] => i = j
      <4> SUFFICES ASSUME NEW i \in S, NEW j \in S, f[i] = f[j] PROVE i = j
        OBVIOUS
      <4>1. Newer(S, i) = Newer(S, j) /\ Newer(S, i) \in Nat /\ Newer(S, j) \in Nat
        BY <1>2
      <4>2. ~(i < j) /\ ~(j < i)
        BY <1>3, <4>1
      <4> QED
        BY <4>2
    <3> QED
      BY <3>1, <3>2 DEF Injection, IsInjective
  <2>3. f \in Surjection(S, T)
    <3> HIDE DEF f, T
    <3> QED
      BY <2>1, <2>2, FS_Injection
  <2>4. k - 1 \in T
    BY <1>1
  <2>5. \E i \in S : f[i] = k - 1
    BY <2>3, <2>4 DEF Surjection
  <2> QED
    BY <2>5
<1> QED
  BY <1>1, <1>2, <1>4, <1>5

\* The page of the newest: full unless there are fewer, without repetition,
\* and what it leaves out is older than all it shows.
LEMMA NewestOf ==
  ASSUME NEW S \in SUBSET Int, IsFiniteSet(S), NEW n \in Nat
  PROVE  LET s == Newest(S, n)
             L == Least(n, Cardinality(S))
         IN  /\ L \in Nat /\ s \in Seq(S) /\ Len(s) = L /\ DOMAIN s = 1..L
             /\ \A j, k \in 1..L : s[j] = s[k] => j = k
             /\ \A k \in 1..L : Newer(S, s[k]) = k - 1
             /\ \A i \in S : (\A k \in 1..L : s[k] # i) => L = n /\ \A k \in 1..L : s[k] < i
<1> DEFINE s == Newest(S, n)
           L == Least(n, Cardinality(S))
           C == Cardinality(S)
<1>1. C \in Nat /\ L \in Nat /\ L <= n /\ L <= C /\ L \in {n, C}
  BY NewerRanks, LeastIs
<1>2. s = [k \in 1..L |-> CHOOSE i \in S : Newer(S, i) = k - 1]
  BY DEF Newest
<1>3. \A k \in 1..L : s[k] \in S /\ Newer(S, s[k]) = k - 1
  <2> SUFFICES ASSUME NEW k \in 1..L PROVE s[k] \in S /\ Newer(S, s[k]) = k - 1
    OBVIOUS
  <2>1. s[k] = CHOOSE i \in S : Newer(S, i) = k - 1
    BY <1>2
  <2>2. k \in 1..C
    BY <1>1
  <2>3. \E i \in S : Newer(S, i) = k - 1
    BY <2>2, NewerRanks
  <2> QED
    BY <2>1, <2>3
<1> HIDE DEF s, L
<1>4. s \in [1..L -> S]
  BY <1>2, <1>3
<1>5. s \in Seq(S)
  BY <1>1, <1>4, SeqDef
<1>6. Len(s) = L /\ DOMAIN s = 1..L
  BY <1>1, <1>4, <1>5, LenProperties
<1>7. \A j, k \in 1..L : s[j] = s[k] => j = k
  <2> SUFFICES ASSUME NEW j \in 1..L, NEW k \in 1..L, s[j] = s[k] PROVE j = k
    OBVIOUS
  <2>1. j - 1 = k - 1
    BY <1>3
  <2> QED
    BY <2>1
<1>8. ASSUME NEW i \in S, \A k \in 1..L : s[k] # i
      PROVE  L = n /\ \A k \in 1..L : s[k] < i
  <2>1. PICK r \in Nat : r = Newer(S, i) /\ r < C
    BY NewerRanks
  <2>2. ~(r < L)
    <3> SUFFICES ASSUME r < L PROVE FALSE
      OBVIOUS
    <3>1. PICK k \in 1..L : k = r + 1
      BY <1>1
    <3>2. s[k] \in S /\ Newer(S, s[k]) = r
      BY <1>3, <3>1
    <3>3. s[k] # i /\ s[k] \in Int /\ i \in Int
      BY <1>8, <3>2
    <3>4. s[k] < i \/ i < s[k]
      BY <3>3
    <3>5. Newer(S, s[k]) < Newer(S, i) \/ Newer(S, i) < Newer(S, s[k])
      BY <3>2, <3>4, NewerRanks
    <3> QED
      BY <2>1, <3>2, <3>5
  <2>3. L = n
    BY <1>1, <2>1, <2>2
  <2>4. ASSUME NEW k \in 1..L PROVE s[k] < i
    <3>1. s[k] \in S /\ Newer(S, s[k]) = k - 1
      BY <1>3
    <3>2. Newer(S, s[k]) < Newer(S, i)
      BY <1>1, <2>1, <2>2, <3>1
    <3> QED
      BY <3>1, <3>2, NewerRanks
  <2> QED
    BY <2>3, <2>4
<1> QED
  BY <1>1, <1>3, <1>5, <1>6, <1>7, <1>8 DEF s, L

\* A page of two in turn: which of the two a place shows, and which of its own.
FromFirst(p, q, k) == IF k > 2 * Least(p, q) THEN p > Least(p, q) ELSE k % 2 = 1
Place(p, q, k) ==
  IF k > 2 * Least(p, q) THEN k - Least(p, q) ELSE IF k % 2 = 1 THEN (k + 1) \div 2 ELSE k \div 2

\* A number is even or odd, and half of it is a number.
LEMMA Half ==
  ASSUME NEW k \in Nat
  PROVE  \E h \in Nat : \/ k = 2 * h /\ k % 2 = 0 /\ k \div 2 = h 
                        \/ k = 2 * h - 1 /\ k % 2 = 1 /\ (k + 1) \div 2 = h
<1>1. k % 2 \in {0, 1}
  OBVIOUS
<1>2. k = 2 * (k \div 2) + (k % 2)
  OBVIOUS
<1>3. k \div 2 \in Nat
  OBVIOUS
<1>4. k % 2 = 1 => (k+1) \div 2 = (k \div 2) + 1
  OBVIOUS
<1> QED BY <1>1, <1>2, <1>3, <1>4

\* Two in turn: every place shows an item of one of them, and no item twice.
LEMMA Places ==
  ASSUME NEW p \in Nat, NEW q \in Nat
  PROVE  /\ \A k \in 1..(p + q) : /\ FromFirst(p, q, k) => Place(p, q, k) \in 1..p
                                  /\ ~FromFirst(p, q, k) => Place(p, q, k) \in 1..q
         /\ \A j, k \in 1..(p + q) :
              (FromFirst(p, q, j) <=> FromFirst(p, q, k)) /\ Place(p, q, j) = Place(p, q, k) => j = k
<1>1. PICK b \in Nat : b = Least(p, q) /\ b <= p /\ b <= q /\ b \in {p, q}
  BY LeastIs
<1> DEFINE ix(k) == IF k % 2 = 1 THEN (k + 1) \div 2 ELSE k \div 2
           half(k, h) == ix(k) = h /\ ((k = 2 * h /\ k % 2 = 0) \/ (k = 2 * h - 1 /\ k % 2 = 1))
<1>2. \A k \in Nat : \E h \in Nat : half(k, h)
  <2> SUFFICES ASSUME NEW k \in Nat PROVE \E h \in Nat : half(k, h)
    OBVIOUS
  <2>1. PICK h \in Nat : \/ k = 2 * h /\ k % 2 = 0 /\ k \div 2 = h
                         \/ k = 2 * h - 1 /\ k % 2 = 1 /\ (k + 1) \div 2 = h
    BY Half
  <2> QED
    BY <2>1
<1>3. \A k \in 1..(p + q) : 
      /\ FromFirst(p, q, k) = IF k > 2 * b THEN p > b ELSE k % 2 = 1
      /\ Place(p, q, k) = IF k > 2 * b THEN k - b ELSE ix(k)
  BY <1>1 DEF FromFirst, Place
<1> HIDE DEF ix, half
<1>4. ASSUME NEW k \in 1..(p + q)
  PROVE /\ FromFirst(p, q, k) => Place(p, q, k) \in 1..p
        /\ ~FromFirst(p, q, k) => Place(p, q, k) \in 1..q
        /\ k > 2 * b => Place(p, q, k) = k - b /\ Place(p, q, k) > b
        /\ ~(k > 2 * b) => Place(p, q, k) = ix(k) /\ ix(k) \in 1..b 
  <2>1. k \in Nat /\ k >= 1
    OBVIOUS
  <2>2. PICK h \in Nat : half(k, h)
    BY <1>2, <2>1
  <2>3. CASE k > 2 * b
    <3>1. /\ FromFirst(p, q, k) <=> p > b
          /\ Place(p, q, k) = k - b
      BY <1>3, <2>3
    <3>2. p > b => b = q
      BY <1>1
    <3>3. ~(p > b) => b = p
      BY <1>1
    <3>4. k > b /\ k - b \in Nat
      BY <1>1, <2>1, <2>3
    <3>5. k <= p + q
      OBVIOUS
    <3> QED
      BY <2>1, <2>3, <3>1, <3>2, <3>3, <3>4, <3>5
  <2>4. CASE ~(k > 2 * b)
    <3>1. /\ FromFirst(p, q, k) <=> k % 2 = 1
          /\ Place(p, q, k) = ix(k)
      BY <1>3, <2>4
    <3>2. ix(k) = h /\ (k = 2 * h \/ k = 2 * h - 1)
      BY <2>2 DEF half
    <3>3. h \in 1..b
      BY <1>1, <2>1, <2>4, <3>2
    <3>4. h \in 1..p /\ h \in 1..q
      BY <1>1, <3>3
    <3> QED
      BY <2>4, <3>1, <3>2, <3>3, <3>4
  <2> QED
    BY <2>3, <2>4
<1>5. ASSUME NEW j \in 1..(p + q), NEW k \in 1..(p + q), FromFirst(p, q, j) <=> FromFirst(p, q, k), Place(p, q, j) = Place(p, q, k)
  PROVE j = k
  <2>1. j \in Nat /\ k \in Nat
    OBVIOUS
  <2>2. PICK h \in Nat : half(k, h)
    BY <1>2, <2>1
  <2>3. PICK i \in Nat : half(j, i)
    BY <1>2, <2>1
  <2>4. CASE k > 2 * b /\ j > 2 * b
    BY <1>4, <1>5, <2>1, <2>4
  <2>5. CASE ~(k > 2 * b) /\ ~(j > 2 * b)
    <3>1. (j % 2 = 1 <=> k % 2 = 1) /\ ix(j) = ix(k)
      BY <1>3, <1>5, <2>5
    <3>2. h = i
      BY <2>2, <2>3, <3>1 DEF half
    <3> QED
      BY <2>1, <2>2, <2>3, <3>1, <3>2 DEF half
  <2>6. ~(k > 2 * b /\ ~(j > 2 * b)) /\ ~(j > 2 * b /\ ~(k > 2 * b))
    BY <1>1, <1>4, <1>5
  <2> QED
    BY <2>4, <2>5, <2>6
<1> QED
  BY <1>4, <1>5

\* Two in turn are as long as both, and each place shows its item.
LEMMA AlternateOf ==
  ASSUME NEW S, NEW s \in Seq(S), NEW t \in Seq(S)
  PROVE  /\ Alternate(s, t) \in Seq(S) /\ Len(Alternate(s, t)) = Len(s) + Len(t)
         /\ \A k \in 1..(Len(s) + Len(t)) :
              Alternate(s, t)[k] = IF FromFirst(Len(s), Len(t), k) THEN s[Place(Len(s), Len(t), k)]
                                   ELSE t[Place(Len(s), Len(t), k)]
<1>1. PICK p \in Nat : p = Len(s) /\ s \in [1..p -> S]
  BY LenProperties
<1>2. PICK q \in Nat : q = Len(t) /\ t \in [1..q -> S]
  BY LenProperties
<1>3. PICK a : a = Alternate(s, t)
  OBVIOUS
<1>4. a = [k \in 1..(p + q) |-> IF FromFirst(p, q, k) THEN s[Place(p, q, k)] ELSE t[Place(p, q, k)]]
  <2>1. a = [k \in 1..(p + q) |->
               IF k > 2 * Least(p, q) THEN IF p > Least(p, q) THEN s[k - Least(p, q)] ELSE t[k - Least(p, q)]
               ELSE IF k % 2 = 1 THEN s[(k + 1) \div 2] ELSE t[k \div 2]]
    BY <1>1, <1>2, <1>3 DEF Alternate
  <2>2. ASSUME NEW k \in 1..(p + q)
        PROVE  (IF FromFirst(p, q, k) THEN s[Place(p, q, k)] ELSE t[Place(p, q, k)]) =
               (IF k > 2 * Least(p, q) THEN IF p > Least(p, q) THEN s[k - Least(p, q)] ELSE t[k - Least(p, q)]
                ELSE IF k % 2 = 1 THEN s[(k + 1) \div 2] ELSE t[k \div 2])
    BY Zenon DEF FromFirst, Place
  <2> QED
    BY <2>1, <2>2
<1>5. \A k \in 1..(p + q) : a[k] \in S
  BY <1>1, <1>2, <1>4, Places
<1>6. p + q \in Nat /\ a \in [1..(p + q) -> S]
  BY <1>4, <1>5
<1>7. a \in Seq(S) /\ Len(a) = p + q
  <2>1. a \in Seq(S)
    BY <1>6, SeqDef
  <2>2. Len(a) \in Nat /\ DOMAIN a = 1..Len(a)
    BY <2>1, LenProperties
  <2>3. 1..Len(a) = 1..(p + q)
    BY <1>6, <2>2
  <2> QED
    BY <1>6, <2>1, <2>2, <2>3
<1> QED
  BY <1>1, <1>2, <1>3, <1>4, <1>7

\* Two without repetition and without a common item in turn: none is repeated.
LEMMA AlternateApart ==
  ASSUME NEW S, NEW s \in Seq(S), NEW t \in Seq(S),
         \A j, k \in 1..Len(s) : s[j] = s[k] => j = k,
         \A j, k \in 1..Len(t) : t[j] = t[k] => j = k,
         \A j \in 1..Len(s), k \in 1..Len(t) : s[j] # t[k],
         NEW j \in 1..(Len(s) + Len(t)), NEW k \in 1..(Len(s) + Len(t)),
         Alternate(s, t)[j] = Alternate(s, t)[k]
  PROVE  j = k
<1>1. PICK p \in Nat : p = Len(s)
  BY LenProperties
<1>2. PICK q \in Nat : q = Len(t)
  BY LenProperties
<1>3. (IF FromFirst(p, q, j) THEN s[Place(p, q, j)] ELSE t[Place(p, q, j)]) =
      (IF FromFirst(p, q, k) THEN s[Place(p, q, k)] ELSE t[Place(p, q, k)])
  <2>1. \A i \in 1..(Len(s) + Len(t)) :
           Alternate(s, t)[i] = IF FromFirst(Len(s), Len(t), i) THEN s[Place(Len(s), Len(t), i)]
                                ELSE t[Place(Len(s), Len(t), i)]
    BY AlternateOf
  <2> QED
    BY <1>1, <1>2, <2>1
<1>a. /\ j \in 1..(p + q) /\ k \in 1..(p + q)
      /\ FromFirst(p, q, j) => Place(p, q, j) \in 1..p
      /\ ~FromFirst(p, q, j) => Place(p, q, j) \in 1..q
      /\ FromFirst(p, q, k) => Place(p, q, k) \in 1..p
      /\ ~FromFirst(p, q, k) => Place(p, q, k) \in 1..q
  BY <1>1, <1>2, Places
<1>4. FromFirst(p, q, j) <=> FromFirst(p, q, k)
  BY <1>1, <1>2, <1>3, <1>a
<1>5. Place(p, q, j) = Place(p, q, k)
  BY <1>1, <1>2, <1>3, <1>4, <1>a
<1> QED
  BY <1>1, <1>2, <1>4, <1>5, Places

\* A cut sequence shows the same in the same places.
LEMMA TrimOf ==
  ASSUME NEW S, NEW s \in Seq(S), NEW n \in Nat
  PROVE  /\ Trim(s, n) \in Seq(S) /\ Len(Trim(s, n)) = Least(n, Len(s))
         /\ \A k \in 1..Least(n, Len(s)) : Trim(s, n)[k] = s[k] /\ k \in 1..Len(s)
<1>1. PICK p \in Nat : p = Len(s) /\ s \in [1..p -> S]
  BY LenProperties
<1>2. PICK m \in Nat : m = Least(n, p) /\ m <= p
  BY LeastIs
<1>3. PICK a : a = Trim(s, n)
  OBVIOUS
<1>4. a = [k \in 1..m |-> s[k]] /\ \A k \in 1..m : k \in 1..p
  BY <1>1, <1>2, <1>3 DEF Trim
<1>5. a \in [1..m -> S]
  BY <1>1, <1>4
<1>6. a \in Seq(S)
  BY <1>5, SeqDef
<1>7. Len(a) = m
  BY <1>5, <1>6, LenProperties
<1> QED
  BY <1>1, <1>2, <1>3, <1>4, <1>6, <1>7

\* As many items as places, if none is repeated.
Apart(s, m) == DOMAIN s = 1..m /\ s = [k \in 1..m |-> s[k]] /\ \A j, k \in 1..m : s[j] = s[k] => j = k
ShownBy(s, m) == {s[k] : k \in 1..m}

\* Of so many items apart there are so many.
LEMMA ImageCount ==
  ASSUME NEW m \in Nat, NEW s, Apart(s, m)
  PROVE  Cardinality(ShownBy(s, m)) = m
<1>1. PICK I : I = ShownBy(s, m) /\ I = {s[k] : k \in 1..m}
  BY DEF ShownBy
<1>2. s \in Bijection(1..m, I)
  <2>1. \A k \in 1..m : s[k] \in I
    BY <1>1
  <2>2. s \in [1..m -> I]
    BY <2>1 DEF Apart
  <2>3. \A i \in I : \E k \in 1..m : s[k] = i
    BY <1>1
  <2> QED
    BY <2>2, <2>3 DEF Bijection, Injection, Surjection, IsInjective, Apart
<1>3. ExistsBijection(1..m, I)
  BY <1>2 DEF ExistsBijection
<1>4. Cardinality(I) = m
  BY <1>3, FS_CountingElements
<1> QED
  BY <1>1, <1>4

\* A sequence that shows members of a set, none twice, as many as n or as there are.
PageFrom(s, S, n) ==
  /\ s \in Seq(S) /\ Len(s) = Least(n, Cardinality(S))
  /\ \A j, k \in 1..Len(s) : s[j] = s[k] => j = k

\* The newest of a set are a page of it, and of no set the empty one.
LEMMA PageOfNewest ==
  ASSUME NEW S \in SUBSET Int, IsFiniteSet(S), NEW n \in Nat
  PROVE  PageFrom(Newest(S, n), S, n) /\ PageFrom(<<>>, {}, n)
<1>1. PICK s : s = Newest(S, n)
  OBVIOUS
<1>2. PageFrom(s, S, n)
  <2>1. PICK m : m = Least(n, Cardinality(S))
    OBVIOUS
  <2>2. s \in Seq(S) /\ Len(s) = m /\ \A j, k \in 1..m : s[j] = s[k] => j = k
    BY <1>1, <2>1, NewestOf
  <2> QED
    BY <2>1, <2>2 DEF PageFrom
<1>3. << >> \in Seq({}) /\ Len(<< >>) = 0 /\ Cardinality({}) = 0
  BY EmptySeq, FS_EmptySet
<1>4. Least(n, 0) = 0
  BY DEF Least
<1> QED
  BY <1>1, <1>2, <1>3, <1>4 DEF PageFrom

\* Pages of two sets without a common member, taken in turn or one after the
\* other when one is empty, and cut, are a page of both.
LEMMA PageOfBoth ==
  ASSUME NEW A, NEW B, IsFiniteSet(A), IsFiniteSet(B), A \cap B = {}, NEW n \in Nat,
         NEW s, NEW t, PageFrom(s, A, n), PageFrom(t, B, n)
  PROVE  /\ PageFrom(Trim(Alternate(s, t), n), A \cup B, n)
         /\ A = {} \/ B = {} => PageFrom(Trim(s \o t, n), A \cup B, n)
<1>1. PICK a \in Nat, b \in Nat : a = Cardinality(A) /\ b = Cardinality(B)
  BY FS_CardinalityType
<1>2. Cardinality(A \cup B) = a + b
  <2>1. PICK E : E = A \cap B
    OBVIOUS
  <2>2. Cardinality(E) = 0
    BY <2>1, FS_EmptySet
  <2>3. Cardinality(A \cup B) = Cardinality(A) + Cardinality(B) - Cardinality(E)
    BY <2>1, FS_Union
  <2> QED
    BY <1>1, <2>2, <2>3
<1> DEFINE U == A \cup B
<1>3. s \in Seq(U) /\ t \in Seq(U)
  BY SeqMonotonic DEF PageFrom
<1>4. PICK p \in Nat : p = Len(s) /\ p = Least(n, a)
  BY <1>1, LeastIs DEF PageFrom
<1>5. PICK q \in Nat : q = Len(t) /\ q = Least(n, b)
  BY <1>1, LeastIs DEF PageFrom
<1>6. \A j \in 1..p : s[j] \in A
  BY <1>4, ElementOfSeq DEF PageFrom
<1>7. \A j \in 1..q : t[j] \in B
  BY <1>5, ElementOfSeq DEF PageFrom
<1>8. Least(n, p + q) = Least(n, a + b)
  BY <1>4, <1>5 DEF Least
<1>r. PICK r \in Nat : r = p + q
  OBVIOUS
<1>9. ASSUME NEW u \in Seq(U), Len(u) = r, \A j, k \in 1..r : u[j] = u[k] => j = k
      PROVE  PageFrom(Trim(u, n), U, n)
  <2> HIDE DEF U
  <2>1. PICK w : w = Trim(u, n)
    OBVIOUS
  <2>2. PICK m \in Nat : m = Least(n, r)
    BY LeastIs
  <2>3. w \in Seq(U) /\ Len(w) = m /\ \A k \in 1..m : w[k] = u[k] /\ k \in 1..r
    BY ZenonT(40), <1>9, <2>1, <2>2, TrimOf
  <2>4. \A j, k \in 1..m : w[j] = w[k] => j = k
    BY <1>9, <2>3
  <2>5. m = Least(n, Cardinality(U))
    BY <1>2, <1>r, <1>8, <2>2 DEF U
  <2> QED
    BY <2>1, <2>3, <2>4, <2>5 DEF PageFrom
<1>10. PageFrom(Trim(Alternate(s, t), n), U, n)
  <2> HIDE DEF U
  <2>1. PICK u : u = Alternate(s, t)
    OBVIOUS
  <2>2. \A j, k \in 1..p : s[j] = s[k] => j = k
    BY <1>4 DEF PageFrom
  <2>3. \A j, k \in 1..q : t[j] = t[k] => j = k
    BY <1>5 DEF PageFrom
  <2>4. \A j \in 1..p, k \in 1..q : s[j] # t[k]
    BY <1>6, <1>7
  <2>5. u \in Seq(U) /\ Len(u) = r /\ \A j, k \in 1..r : u[j] = u[k] => j = k
    <3>1. Alternate(s, t) \in Seq(U) /\ Len(Alternate(s, t)) = Len(s) + Len(t)
      BY <1>3, AlternateOf
    <3>2. \A j, k \in 1..(Len(s) + Len(t)) : Alternate(s, t)[j] = Alternate(s, t)[k] => j = k
      <4>1. \A j, k \in 1..Len(s) : s[j] = s[k] => j = k
        BY <1>4, <2>2
      <4>2. \A j, k \in 1..Len(t) : t[j] = t[k] => j = k
        BY <1>5, <2>3
      <4>3. \A j \in 1..Len(s), k \in 1..Len(t) : s[j] # t[k]
        BY <1>4, <1>5, <2>4
      <4> QED
        BY <1>3, <4>1, <4>2, <4>3, AlternateApart
    <3>3. Len(s) + Len(t) = r
      BY <1>4, <1>5, <1>r
    <3> QED
      BY <2>1, <3>1, <3>2, <3>3
  <2> QED
    BY <1>9, <2>1, <2>5
<1>11. ASSUME A = {} \/ B = {} PROVE PageFrom(Trim(s \o t, n), U, n)
  <2>1. p = 0 \/ q = 0
    <3>1. a = 0 \/ b = 0
      BY <1>1, <1>11, FS_EmptySet
    <3> QED
      BY <1>4, <1>5, <3>1 DEF Least
  <2>2. PICK u : u = s \o t
    OBVIOUS
  <2> HIDE DEF U
  <2>3. u \in Seq(U) /\ Len(u) = r /\ \A i \in 1..r : u[i] = IF i <= p THEN s[i] ELSE t[i - p]
    <3>1. /\ u \in Seq(U) /\ Len(u) = Len(s) + Len(t)
          /\ \A i \in 1..(Len(s) + Len(t)) : u[i] = IF i <= Len(s) THEN s[i] ELSE t[i - Len(s)]
      BY <1>3, <2>2, ConcatProperties
    <3>2. Len(s) = p /\ Len(s) + Len(t) = r
      BY <1>4, <1>5, <1>r
    <3> QED
      BY <3>1, <3>2
  <2>4. ASSUME NEW j \in 1..r, NEW k \in 1..r, u[j] = u[k] PROVE j = k
    <3>1. CASE q = 0
      BY <1>4, <2>3, <2>4, <3>1, <1>r DEF PageFrom
    <3>2. CASE p = 0
      BY <1>5, <2>3, <2>4, <3>2, <1>r DEF PageFrom
    <3> QED
      BY <2>1, <3>1, <3>2
  <2> QED
    BY <1>9, <2>2, <2>3, <2>4
<1> QED
  BY <1>10, <1>11

\* The listings are finitely many numbers.
LEMMA ListingsAreFinite == 
  /\ Listings \in SUBSET Int /\ IsFiniteSet(Listings)
  /\ \A S : S \subseteq Listings => S \in SUBSET Int /\ IsFiniteSet(S)
<1>1. PICK n \in Nat : Listings = 1..n
  BY DiscoveryAssumption
<1>2. IsFiniteSet(1..n)
  BY FS_Interval
<1> QED
  BY <1>1, <1>2, FS_Subset

\* What may stand on a page of the feed.
Candidates(agency, origin, type) ==
  (IF origin = "package" THEN {} ELSE PlansFor(agency, type))
    \cup (IF origin = "plan" THEN {} ELSE PackagesFor(agency))

\* The feed is a page of its candidates.
LEMMA FeedPageOf ==
  ASSUME live \subseteq Listings, NEW agency \in BOOLEAN, NEW origin \in {Nobody, "plan", "package"},
         NEW type, NEW n \in Nat
  PROVE  /\ PageFrom(FeedPage(agency, origin, type, n), Candidates(agency, origin, type), n)
         /\ Candidates(agency, origin, type) \subseteq Listings
<1>1. PICK A : A = IF origin = "package" THEN {} ELSE PlansFor(agency, type)
  OBVIOUS
<1>2. PICK B : B = IF origin = "plan" THEN {} ELSE PackagesFor(agency)
  OBVIOUS
<1>3. A \subseteq Listings /\ B \subseteq Listings /\ A \cap B = {}
  BY <1>1, <1>2 DEF PlansFor, PackagesFor, Of
<1>4. A \in SUBSET Int /\ IsFiniteSet(A) /\ B \in SUBSET Int /\ IsFiniteSet(B)
  BY <1>3, ListingsAreFinite
<1>5. PICK s : s = IF origin = "package" THEN <<>> ELSE Newest(PlansFor(agency, type), n)
  OBVIOUS
<1>6. PICK t : t = IF origin = "plan" THEN <<>> ELSE Newest(PackagesFor(agency), n)
  OBVIOUS
<1>7. PageFrom(s, A, n) 
  BY <1>1, <1>4, <1>5, PageOfNewest
<1>8. PageFrom(t, B, n)
  BY <1>2, <1>4, <1>6, PageOfNewest
<1>9. origin # Nobody => A = {} \/ B = {}
  BY <1>1, <1>2
<1>10. FeedPage(agency, origin, type, n) = IF origin = Nobody THEN Trim(Alternate(s, t), n) ELSE Trim(s \o t, n)
  BY <1>5, <1>6 DEF FeedPage
<1>11. Candidates(agency, origin, type) = A \cup B
  BY <1>1, <1>2 DEF Candidates
<1>12. PageFrom(FeedPage(agency, origin, type, n), A \cup B, n)
  <2>1. PageFrom(Trim(Alternate(s, t), n), A \cup B, n)
    BY <1>3, <1>4, <1>7, <1>8, PageOfBoth
  <2>2. origin # Nobody => PageFrom(Trim(s \o t, n), A \cup B, n)
    BY <1>3, <1>4, <1>7, <1>8, <1>9, PageOfBoth
  <2> QED
    BY <1>10, <2>1, <2>2
<1> QED
  BY <1>3, <1>11, <1>12

\* Of the tiers whose head count is reached one asks for the most.
LEMMA HighestTier ==
  ASSUME NEW T, T # {}, NEW count \in Nat, \A t \in T : t.minPax \in Int /\ count >= t.minPax
  PROVE  \E t \in T : \A u \in T : t.minPax >= u.minPax
<1>1. PICK D : D = {count - t.minPax : t \in T}
  OBVIOUS
<1>2. D \in SUBSET Nat /\ D # {}
  BY <1>1
<1>3. PICK d \in D : \A e \in D : d <= e
  BY <1>2, LeastNumber
<1>4. PICK t \in T : d = count - t.minPax
  BY <1>1
<1>5. ASSUME NEW u \in T PROVE t.minPax >= u.minPax
  <2>1. d <= count - u.minPax
    BY <1>1, <1>3
  <2> QED
    BY <1>4, <2>1
<1> QED
  BY <1>5

\* A card that charges what it shows.
CardFits(c) ==
  /\ c.id \in Listings
  /\ Stock[c.id].kind = "package" =>
       /\ c.struck # 0 => c.struck = CheckoutPrice(c.id) /\ c.price < c.struck
       /\ c.struck = 0 => c.price >= CheckoutPrice(c.id)
       /\ (\A t \in Stock[c.id].tiers : t.minPax <= 0 \/ t.price <= 0) =>
            c.price = CheckoutPrice(c.id)

\* A listing's card is about it, and charges what it shows.
LEMMA CardIs ==
  ASSUME NEW i \in Listings, joined[i] \in Nat
  PROVE  Card(i).id = i /\ CardFits(Card(i))
<1>1. CASE Stock[i].kind = "plan"
  BY <1>1 DEF Card, CardFits
<1>2. CASE Stock[i].kind # "plan"
  <2>1. PICK base \in Nat : base = Stock[i].price /\ base = CheckoutPrice(i)
    BY DiscoveryAssumption DEF CheckoutPrice
  <2>2. PICK tiers : tiers = Stock[i].tiers
    OBVIOUS
  <2>3. \A t \in tiers : t.minPax \in Int /\ t.price \in Int
    BY <2>2, DiscoveryAssumption
  <2>4. PICK reached : reached = {t \in tiers : t.minPax > 0 /\ t.price > 0 /\ joined[i] >= t.minPax}
    OBVIOUS
  <2>5. PICK active : active = CHOOSE t \in reached : \A u \in reached : t.minPax >= u.minPax
    OBVIOUS
  <2>6. PICK price : price = IF reached = {} THEN base ELSE active.price
    OBVIOUS
  <2>7. Card(i) = [id |-> i, price |-> price, struck |-> IF price < base THEN base ELSE 0]
    BY <1>2, <2>1, <2>2, <2>4, <2>5, <2>6 DEF Card, ActivePackagePrice
  <2>8. reached # {} => price \in Int /\ price > 0
    <3> SUFFICES ASSUME reached # {} PROVE price \in Int /\ price > 0
      OBVIOUS
    <3>1. \A t \in reached : t.minPax \in Int /\ joined[i] >= t.minPax
      BY <2>3, <2>4
    <3>2. \E t \in reached : \A u \in reached : t.minPax >= u.minPax
      BY <3>1, HighestTier
    <3>3. active \in reached
      BY <2>5, <3>2
    <3> QED
      BY <2>3, <2>4, <2>6, <3>3
  <2>9. price \in Int
    BY <2>1, <2>6, <2>8
  <2>10. (\A t \in tiers : t.minPax <= 0 \/ t.price <= 0) => price = base
    <3>1. ASSUME \A t \in tiers : t.minPax <= 0 \/ t.price <= 0 PROVE reached = {}
      BY <2>3, <2>4, <3>1
    <3> QED
      BY <2>6, <3>1
  <2>11. price < base => base # 0
    BY <2>1, <2>6, <2>8
  <2>12. PICK c : c = Card(i)
    OBVIOUS
  <2>13. c.id = i /\ c.price = price /\ c.struck = IF price < base THEN base ELSE 0
    BY <2>7, <2>12
  <2>14. /\ c.struck # 0 => c.struck = base /\ c.price < c.struck
         /\ c.struck = 0 => c.price >= base
    BY <2>1, <2>9, <2>11, <2>13
  <2> QED
    BY <2>1, <2>2, <2>10, <2>12, <2>13, <2>14 DEF CardFits
<1> QED
  BY <1>1, <1>2

\* A page of cards of the members of a set.
PageShows(page, S, n) ==
  /\ DOMAIN page = 1..Len(page) /\ Len(page) \in Nat /\ Len(page) = Least(n, Cardinality(S))
  /\ \A k \in DOMAIN page : page[k].id \in S /\ CardFits(page[k])
  /\ \A j, k \in DOMAIN page : page[j].id = page[k].id => j = k

\* Cards of the items of a page, one each.
LEMMA PageOfCards ==
  ASSUME NEW S \in SUBSET Listings, NEW n, NEW ids, PageFrom(ids, S, n),
         NEW page, DOMAIN page = DOMAIN ids, page = [k \in DOMAIN ids |-> page[k]],
         \A k \in DOMAIN ids : page[k].id = ids[k] /\ CardFits(page[k])
  PROVE  PageShows(page, S, n)
<1>1. PICK m \in Nat : m = Len(ids) /\ ids \in [1..m -> S] /\ DOMAIN ids = 1..m
  BY LenProperties DEF PageFrom
<1>2. PICK C : C = {page[k] : k \in 1..m}
  OBVIOUS
<1>3. page \in [1..m -> C]
  BY <1>1, <1>2
<1>4. page \in Seq(C)
  BY <1>3, SeqDef
<1>5. Len(page) = m
  BY <1>3, <1>4, LenProperties
<1> QED
  BY <1>1, <1>3, <1>5 DEF PageShows, PageFrom

\* The cards of a page.
LEMMA CardsShow ==
  ASSUME joined \in [Listings -> 0..MaxJoined], NEW S \in SUBSET Listings, NEW n, NEW ids,
         PageFrom(ids, S, n)
  PROVE  PageShows(Cards(ids), S, n)
<1>1. PICK page : page = Cards(ids)
  OBVIOUS
<1>2. page = [k \in DOMAIN ids |-> Card(ids[k])]
  BY <1>1 DEF Cards
<1>3. \A k \in DOMAIN ids : ids[k] \in Listings
  BY LenProperties, ElementOfSeq DEF PageFrom
<1>4. \A i \in Listings : joined[i] \in Nat
  BY DEF MaxJoined
<1>5. \A k \in DOMAIN ids : page[k].id = ids[k] /\ CardFits(page[k])
  BY <1>2, <1>3, <1>4, CardIs
<1> QED
  BY <1>1, <1>2, <1>5, PageOfCards

\* The items of a social feed, at their own prices.
LEMMA ItemsShow ==
  ASSUME NEW S \in SUBSET Listings, NEW n, NEW ids, PageFrom(ids, S, n)
  PROVE  PageShows(FeedItems(ids), S, n)
<1>1. PICK page : page = FeedItems(ids)
  OBVIOUS
<1>2. page = [k \in DOMAIN ids |-> [id |-> ids[k], price |-> Stock[ids[k]].price, struck |-> 0]]
  BY <1>1 DEF FeedItems
<1>3. \A k \in DOMAIN ids : ids[k] \in Listings
  BY LenProperties, ElementOfSeq DEF PageFrom
<1>4. \A i \in Listings : Stock[i].price \in Nat
  BY DiscoveryAssumption
<1>5. ASSUME NEW k \in DOMAIN ids PROVE page[k].id = ids[k] /\ CardFits(page[k])
  <2>1. PICK i \in Listings : i = ids[k]
    BY <1>3
  <2>2. PICK base \in Nat : base = Stock[i].price
    BY <1>4
  <2>3. PICK c : c = page[k] 
    OBVIOUS
  <2>4. c.id = i /\ c.price = base /\ c.struck = 0
    BY <1>2, <2>1, <2>2, <2>3
  <2> QED
    BY <2>1, <2>2, <2>3, <2>4 DEF CardFits, CheckoutPrice
<1> QED
  BY <1>1, <1>2, <1>5, PageOfCards

\* What of a set the two newest halves keep is a page of the whole.
LEMMA BuildFeedOf ==
  ASSUME NEW S \in SUBSET Listings, NEW n \in Nat
  PROVE  \E K \in SUBSET S :
           /\ PageFrom(BuildFeed(S, n), K, n)
           /\ \A i \in S \ ToSet(BuildFeed(S, n)) :
                Len(BuildFeed(S, n)) = n /\ \A k \in ToSet(BuildFeed(S, n)) : k < i
<1>1. PICK A : A = {i \in S : Stock[i].kind = "plan"}
  OBVIOUS
<1>2. PICK B : B = {i \in S : Stock[i].kind = "package"}
  OBVIOUS
<1>3. A \in SUBSET S /\ B \in SUBSET S /\ S = A \cup B
  BY <1>1, <1>2, DiscoveryAssumption
<1>4. /\ S \in SUBSET Int /\ A \in SUBSET Int /\ IsFiniteSet(A) /\ B \in SUBSET Int /\ IsFiniteSet(B)
  BY <1>3, ListingsAreFinite
<1>5. PICK s : s = Newest(A, n)
  OBVIOUS
<1>6. PICK t : t = Newest(B, n)
  OBVIOUS
<1>7. PICK K : K = ToSet(s) \cup ToSet(t)
  OBVIOUS
<1>8. PICK b : b = Newest(K, n)
  OBVIOUS
<1>9. BuildFeed(S, n) = b
  BY <1>1, <1>2, <1>5, <1>6, <1>7, <1>8 DEF BuildFeed
<1>10. K \in SUBSET S
  <2>1. s \in Seq(A) /\ t \in Seq(B)
    BY <1>4, <1>5, <1>6, NewestOf
  <2>2. (\A k \in DOMAIN s : s[k] \in A) /\ (\A k \in DOMAIN t : t[k] \in B)
    BY <2>1, LenProperties, ElementOfSeq
  <2> QED
    BY <1>3, <1>7, <2>2 DEF ToSet
<1>11. K \in SUBSET Int /\ IsFiniteSet(K)
  BY <1>10, ListingsAreFinite
<1>12. PICK L \in Nat : L = Least(n, Cardinality(K))
  BY <1>11, FS_CardinalityType, LeastIs
<1>13. /\ b \in Seq(K) /\ Len(b) = L /\ DOMAIN b = 1..L
       /\ \A k \in 1..L : Newer(K, b[k]) = k - 1
       /\ \A i \in K : (\A k \in 1..L : b[k] # i) => L = n /\ \A k \in 1..L : b[k] < i
  BY <1>8, <1>11, <1>12, NewestOf
<1>14. PageFrom(b, K, n)
  BY <1>8, <1>11, PageOfNewest
<1>15. \A k \in 1..L : b[k] \in K
  BY <1>13, ElementOfSeq
\* A listing of one kind that its half leaves out is older than all of the feed.
<1>16. ASSUME NEW H \in SUBSET S, NEW u, u = Newest(H, n), ToSet(u) \subseteq K,
              NEW i \in H, i \notin ToSet(u), i \notin K
       PROVE  L = n /\ \A k \in 1..L : b[k] < i
  <2>1. H \in SUBSET Int /\ IsFiniteSet(H)
    BY <1>3, ListingsAreFinite
  <2>2. PICK m \in Nat : m = Least(n, Cardinality(H))
    BY <2>1, FS_CardinalityType, LeastIs
  <2>3. /\ u \in Seq(H) /\ DOMAIN u = 1..m /\ Len(u) = m
        /\ \A j, k \in 1..m : u[j] = u[k] => j = k
        /\ \A j \in H : (\A k \in 1..m : u[k] # j) => m = n /\ \A k \in 1..m : u[k] < j
    BY <1>16, <2>1, <2>2, NewestOf
  <2>4. \A k \in 1..m : u[k] # i
    BY <1>16, <2>3 DEF ToSet
  <2>5. m = n /\ \A k \in 1..m : u[k] < i
    BY <2>3, <2>4
  <2>6. PICK U : U = ToSet(u)
    OBVIOUS
  <2>7. U = {u[k] : k \in 1..m}
    BY <2>3, <2>6 DEF ToSet
  <2>8. Cardinality(U) = n
    <3>1. u \in [1..m -> H]
      BY <2>3, LenProperties
    <3>2. Apart(u, n)
      BY <2>3, <2>5, <3>1 DEF Apart
    <3>3. U = ShownBy(u, n)
      BY <2>5, <2>7 DEF ShownBy
    <3> QED
      BY <3>2, <3>3, ImageCount
  <2>9. U \in SUBSET K
    BY <1>16, <2>6
  <2>10. L = n
    <3>1. Cardinality(U) <= Cardinality(K) /\ Cardinality(K) \in Nat
      BY <1>11, <2>9, FS_Subset, FS_CardinalityType
    <3> QED
      BY <1>12, <2>8, <3>1 DEF Least
  <2>11. ASSUME NEW k \in 1..L, ~(b[k] < i) PROVE FALSE
    <3>1. b[k] \in K /\ b[k] \in Int /\ i \in Int
      BY <1>11, <1>15, <2>1
    <3>2. i < b[k]
      BY <1>16, <2>11, <3>1
    <3>3. PICK below : below = {j \in K : j < b[k]}
      OBVIOUS
    <3>4. U \in SUBSET below
      <4>1. \A j \in U : j \in K /\ j \in Int /\ j < i
        BY <1>11, <2>5, <2>7, <2>9
      <4>2. \A j \in U : j < b[k]
        BY <3>1, <3>2, <4>1
      <4> QED
        BY <3>3, <4>1, <4>2
    <3>5. IsFiniteSet(below) /\ Cardinality(below) \in Nat
      BY <1>11, <3>3, FS_Subset, FS_CardinalityType
    <3>6. n <= Cardinality(below)
      BY <2>8, <3>4, <3>5, FS_Subset
    <3>7. Cardinality(below) = k - 1
      BY <1>13, <3>3 DEF Newer
    <3> QED
      BY <2>10, <3>5, <3>6, <3>7
  <2> QED
    BY <2>10, <2>11
<1>17. ASSUME NEW i \in S \ ToSet(b) PROVE Len(b) = n /\ \A k \in ToSet(b) : k < i
  <2>1. \A k \in 1..L : b[k] # i
    BY <1>13 DEF ToSet
  <2>2. L = n /\ \A k \in 1..L : b[k] < i
    <3>1. CASE i \in K
      BY <1>13, <2>1, <3>1
    <3>2. CASE i \notin K /\ i \in A
      BY <1>3, <1>5, <1>7, <1>16, <3>2
    <3>3. CASE i \notin K /\ i \in B
      BY <1>3, <1>6, <1>7, <1>16, <3>3
    <3> QED
      BY <1>3, <3>1, <3>2, <3>3
  <2> QED
    BY <1>13, <2>2 DEF ToSet
<1> QED
  BY <1>9, <1>10, <1>14, <1>17

\* A page for an audience: no package for an agency, no corporate plan for a traveller.
Suits(i, agency) == IF agency THEN Stock[i].kind = "plan" ELSE Stock[i].type # "CORPORATE"

Fits(page, agency) == \A k \in DOMAIN page : CardFits(page[k]) /\ Suits(page[k].id, agency)

\* Who may stand on a page of the feed suits its audience.
LEMMA CandidatesSuit ==
  ASSUME live \subseteq Listings, NEW agency \in BOOLEAN, NEW origin, NEW type,
         NEW i \in Candidates(agency, origin, type)
  PROVE  i \in Listings /\ Suits(i, agency)
<1>1. i \in PlansFor(agency, type) \/ i \in PackagesFor(agency)
  BY DEF Candidates
<1>2. CASE i \in PlansFor(agency, type)
  <2>1. i \in Listings /\ Stock[i].kind = "plan" /\ (~agency => Stock[i].type = "STANDARD")
    BY <1>2 DEF PlansFor, Of
  <2> QED
    BY <2>1 DEF Suits
<1>3. CASE i \in PackagesFor(agency)
  <2>1. i \in Listings /\ Stock[i].kind = "package" /\ ~agency
    BY <1>3 DEF PackagesFor, Of
  <2>2. Stock[i].type = "STANDARD"
    BY <2>1, DiscoveryAssumption
  <2> QED
    BY <2>1, <2>2 DEF Suits
<1> QED
  BY <1>1, <1>2, <1>3

\* A page of the candidates suits its audience, at prices charged.
LEMMA PageSuits ==
  ASSUME live \subseteq Listings, NEW agency \in BOOLEAN, NEW origin, NEW type, NEW n, NEW page,
         PageShows(page, Candidates(agency, origin, type), n)
  PROVE  Fits(page, agency)
BY CandidatesSuit DEF PageShows, Fits

\* What fits keeps the audiences apart and charges what it shows.
LEMMA FitIsShown ==
  ASSUME NEW a, NEW agency \in BOOLEAN, agency = Agency(a.viewer), Fits(a.page, agency)
  PROVE  AudienceKept(a) /\ ShownPriceIsCharged(a)
<1>1. \A i \in Showing(a) : \E k \in DOMAIN a.page : i = a.page[k].id
  BY DEF Showing, Ids, ToSet
<1>2. \A i \in Showing(a) : Suits(i, agency)
  BY <1>1 DEF Fits
<1>3. AudienceKept(a)
  BY <1>2 DEF AudienceKept, CorporateIn, Suits
<1>4. ShownPriceIsCharged(a)
  BY DEF ShownPriceIsCharged, ToSet, Fits, CardFits
<1> QED
  BY <1>3, <1>4

\* A page of what is eligible, read now, fills.
LEMMA FillsNow ==
  ASSUME NEW a, NEW type, 
         ~Agency(a.viewer) => PageShows(a.page, Candidates(FALSE, a.origin, type), a.size)
  PROVE  PageFills(a)
<1> SUFFICES ASSUME ~Agency(a.viewer) PROVE PageFills(a)
  BY DEF PageFills
<1>1. PICK S : S = Eligible(a.origin)
  OBVIOUS
<1>2. S = Candidates(FALSE, a.origin, type)
  BY <1>1 DEF Eligible, Candidates, PlansFor
<1>3. PageShows(a.page, S, a.size)
  BY <1>2
<1>4. IsInjective(Ids(a))
  BY <1>3 DEF IsInjective, Ids, PageShows
<1>5. Len(a.page) = IF Cardinality(S) < a.size THEN Cardinality(S) ELSE a.size
  BY <1>3 DEF PageShows, Least
<1> QED
  BY <1>1, <1>4, <1>5 DEF PageFills

DiscoveryInv ==
  /\ live \subseteq Listings /\ confirmed \subseteq Listings \ live
  /\ joined \in [Listings -> 0..MaxJoined]
  /\ follows \subseteq Viewers \X {Stock[i].owner : i \in Listings}
  /\ redis.page # <<>> => Fits(redis.page, redis.key[5])
  /\ \/ shown = NoAnswer
     \/ /\ shown.via \in {"feed", "trending"}
        /\ Fits(shown.page, Agency(shown.viewer))
        /\ PageFills(shown)

\* No listing, no entry and no answer.
LEMMA DiscoveryStarts == DiscoveryInit => DiscoveryInv
<1> SUFFICES ASSUME DiscoveryInit PROVE DiscoveryInv
  OBVIOUS
<1>1. redis.page = <<>>
  BY DEF DiscoveryInit, NoEntry
<1> QED
  BY <1>1 DEF DiscoveryInit, DiscoveryInv, MaxJoined

\* An answer by Redis: a page that was cached for the same key, or one read now.
LEMMA ReadThroughStep ==
  ASSUME DiscoveryInv, NEW v, NEW via \in {"feed", "trending"}, NEW key, NEW page, NEW n, NEW origin,
         NEW agency \in BOOLEAN, agency = Agency(v), key[5] = agency,
         Fits(page, agency), PageFills(Answer(v, via, page, n, origin, TRUE)),
         ReadThrough(v, via, key, page, n, origin)
  PROVE  DiscoveryInv'
<1>1. UNCHANGED <<live, confirmed, joined, follows>>
  BY DEF ReadThrough
<1>2. \A o : Eligible(o)' = Eligible(o)
  BY <1>1 DEF Eligible, PlansFor, PackagesFor, Of
<1>3. CASE /\ redis.key = key /\ redis.page # <<>>
           /\ shown' = Answer(v, via, redis.page, n, origin, FALSE) /\ redis' = redis
  <2>1. PICK a : a = Answer(v, via, redis.page, n, origin, FALSE)
    OBVIOUS
  <2>2. a.via = via /\ a.viewer = v /\ a.page = redis.page /\ a.fresh = FALSE
    BY <2>1 DEF Answer
  <2>3. shown' = a
    BY <1>3, <2>1
  <2>4. Fits(redis.page, agency)
    BY <1>3 DEF DiscoveryInv
  <2>5. Fits(shown.page, Agency(shown.viewer))'
    BY ZenonT(40), <2>2, <2>3, <2>4 DEF Fits, Suits, CardFits, CheckoutPrice, Agency, Listings
  <2>6. PageFills(shown)'
    BY <2>2, <2>3 DEF PageFills
  <2>7. (redis.page # <<>> => Fits(redis.page, redis.key[5]))'
    BY <1>3 DEF DiscoveryInv, Fits, Suits, CardFits, CheckoutPrice, Listings
  <2> QED
    BY <1>1, <2>2, <2>3, <2>5, <2>6, <2>7 DEF DiscoveryInv
<1>4. CASE /\ shown' = Answer(v, via, page, n, origin, TRUE) /\ redis' = [key |-> key, page |-> page]
  <2>1. PICK a : a = Answer(v, via, page, n, origin, TRUE)
    OBVIOUS
  <2>2. a.via = via /\ a.viewer = v /\ a.page = page
    BY <2>1 DEF Answer
  <2>3. shown' = a
    BY <1>4, <2>1
  <2>4. Fits(shown.page, Agency(shown.viewer))'
    BY <2>2, <2>3 DEF Fits, Suits, CardFits, CheckoutPrice, Agency, Listings
  <2>5. PageFills(shown)'
    <3>1. PageFills(a)
      BY <2>1
    <3> QED
      BY <1>2, <2>3, <3>1 DEF PageFills, Agency, Ids
  <2>6. redis.page' = page /\ redis.key[5]' = agency
    BY <1>4
  <2>7. (redis.page # <<>> => Fits(redis.page, redis.key[5]))'
    BY <2>6 DEF Fits, Suits, CardFits, CheckoutPrice, Listings
  <2> QED
    BY <1>1, <2>2, <2>3, <2>4, <2>5, <2>7 DEF DiscoveryInv
<1> QED
  BY <1>3, <1>4 DEF ReadThrough

\* Every step keeps what is cached and what is shown right.
LEMMA DiscoveryStep == DiscoveryInv /\ [DiscoveryNext]_discoveryVars => DiscoveryInv'
<1> SUFFICES ASSUME DiscoveryInv, [DiscoveryNext]_discoveryVars PROVE DiscoveryInv'
  OBVIOUS
<1> USE DEF DiscoveryInv
\* A stored page fits whatever moves underneath.
<1>a. \A page, agency : Fits(page, agency)' <=> Fits(page, agency)
  BY DEF Fits, Suits, CardFits, CheckoutPrice, Listings
<1>1. ASSUME NEW v \in Viewers, NEW n \in PageSizes, NEW origin \in {Nobody, "plan", "package"},
             NEW type, GetDiscoverFeed(v, origin, type, n)
      PROVE  DiscoveryInv'
  <2>1. PICK agency \in BOOLEAN : agency = Agency(v)
    <3>1. PICK agency : agency = Agency(v)
      OBVIOUS
    <3>2. agency = TRUE \/ agency = FALSE
      BY <3>1 DEF Agency
    <3>3. agency \in BOOLEAN
      BY <3>2
    <3> QED
      BY <3>1, <3>3
  <2>2. n \in Nat
    BY DiscoveryAssumption
  <2>3. PICK page : page = Cards(FeedPage(agency, origin, type, n))
    OBVIOUS
  <2>4. PageShows(page, Candidates(agency, origin, type), n)
    BY <2>2, <2>3, FeedPageOf, CardsShow
  <2>5. Fits(page, agency)
    BY <2>4, PageSuits
  <2>6. PageFills(Answer(v, "feed", page, n, origin, TRUE))
    <3>1. PICK a : a = Answer(v, "feed", page, n, origin, TRUE)
      OBVIOUS
    <3>2. a.viewer = v /\ a.page = page /\ a.origin = origin /\ a.size = n
      BY <3>1 DEF Answer
    <3>3. ~Agency(a.viewer) => PageShows(a.page, Candidates(FALSE, a.origin, type), a.size)
      BY <2>1, <2>4, <3>2
    <3> QED
      BY <3>1, <3>3, FillsNow
  <2>7. PICK key : key = <<"feed", origin, type, n, agency>>
    OBVIOUS
  <2>8. key[5] = agency
    BY <2>7
  <2>9. ReadThrough(v, "feed", key, page, n, origin)
    BY <1>1, <2>1, <2>3, <2>7 DEF GetDiscoverFeed
  <2> QED
    BY <2>1, <2>5, <2>6, <2>8, <2>9, ReadThroughStep
<1>2. ASSUME NEW v \in Viewers, NEW n \in PageSizes, GetTrending(v, n)
      PROVE  DiscoveryInv'
  <2>1. n \in Nat /\ ~Agency(v)
    BY <1>2, DiscoveryAssumption DEF GetTrending
  <2>2. PICK S : S = PackagesFor(FALSE)
    OBVIOUS
  <2>3. S = Candidates(FALSE, "package", Nobody)
    BY <2>2 DEF Candidates
  <2>4. S \in SUBSET Listings
    BY <2>2 DEF PackagesFor, Of
  <2>5. S \in SUBSET Int /\ IsFiniteSet(S)
    BY <2>4, ListingsAreFinite
  <2>6. PICK page : page = Cards(Newest(S, n))
    OBVIOUS
  <2>7. PageShows(page, S, n)
    BY <2>1, <2>4, <2>5, <2>6, PageOfNewest, CardsShow
  <2>8. Fits(page, FALSE)
    BY <2>3, <2>7, PageSuits
  <2>9. PageFills(Answer(v, "trending", page, n, Nobody, TRUE))
    BY DEF PageFills, Answer
  <2>10. PICK key : key = <<"trending", Nobody, Nobody, 0, FALSE>>
    OBVIOUS
  <2>11. key[5] = FALSE
    BY <2>10
  <2>12. ReadThrough(v, "trending", key, page, n, Nobody)
    BY <1>2, <2>2, <2>6, <2>10 DEF GetTrending
  <2>13. Agency(v) = FALSE /\ FALSE \in BOOLEAN
    BY <2>1 DEF Agency
  <2> QED
    BY <2>8, <2>9, <2>11, <2>12, <2>13, ReadThroughStep
<1>3. ASSUME shown = NoAnswer, shown' = shown, redis' \in {redis, NoEntry},
             live' \subseteq Listings, confirmed' \subseteq Listings \ live',
             joined' \in [Listings -> 0..MaxJoined],
             follows' \subseteq Viewers \X {Stock[i].owner : i \in Listings}
      PROVE  DiscoveryInv'
  <2>1. (redis.page # <<>> => Fits(redis.page, redis.key[5]))'
    <3>1. CASE redis' = redis
      BY <1>a, <3>1
    <3>2. CASE redis' = NoEntry
      BY <3>2 DEF NoEntry
    <3> QED
      BY <1>3, <3>1, <3>2
  <2> QED
    BY <1>3, <2>1 DEF NoAnswer, Listings
<1>4. ASSUME shown = NoAnswer, NEW i \in Listings,
             \/ Publish(i) \/ ConfirmListing(i) \/ CloseListing(i) \/ JoinTrip(i)
             \/ \E v \in Viewers : FollowOwner(v, i)
      PROVE  DiscoveryInv'
  <2>1. CASE Publish(i)
    BY <1>3, <1>4, <2>1 DEF Publish
  <2>2. CASE ConfirmListing(i)
    BY <1>3, <1>4, <2>2 DEF ConfirmListing
  <2>3. CASE CloseListing(i)
    BY <1>3, <1>4, <2>3 DEF CloseListing
  <2>4. CASE JoinTrip(i)
    <3>1. PICK j : j = joined[i]
      OBVIOUS
    <3>2. j + 1 \in 0..MaxJoined
      BY <2>4, <3>1 DEF JoinTrip, MaxJoined
    <3>3. joined' = [joined EXCEPT ![i] = j + 1]
      BY <2>4, <3>1 DEF JoinTrip
    <3>4. joined' \in [Listings -> 0..MaxJoined]
      BY <3>2, <3>3
    <3> QED
      BY <1>3, <1>4, <2>4, <3>4 DEF JoinTrip
  <2>5. CASE \E v \in Viewers : FollowOwner(v, i)
    BY <1>3, <1>4, <2>5 DEF FollowOwner
  <2> QED
    BY <1>4, <2>1, <2>2, <2>3, <2>4, <2>5
<1>5. CASE shown = NoAnswer /\ EntryExpires
  BY <1>3, <1>5 DEF EntryExpires
<1>6. CASE Deliver
  <2>1. shown' = NoAnswer /\ UNCHANGED <<live, confirmed, joined, follows, redis>>
    BY <1>6 DEF Deliver
  <2> QED
    BY <1>a, <2>1 DEF NoAnswer, Listings
<1>7. CASE UNCHANGED discoveryVars
  <2>1. UNCHANGED <<live, confirmed, joined, follows, redis, shown>>
    BY <1>7 DEF discoveryVars
  <2>2. \A a : PageFills(a)' <=> PageFills(a)
    <3>1. \A o : Eligible(o)' = Eligible(o)
      BY <2>1 DEF Eligible, PlansFor, PackagesFor, Of
    <3> QED
      BY <3>1 DEF PageFills, Agency, Ids
  <2> QED
    BY <1>a, <2>1, <2>2 DEF NoAnswer, Listings, Agency
<1> QED
  BY <1>1, <1>2, <1>4, <1>5, <1>6, <1>7 DEF DiscoveryNext

\* What one answer shows is right.
Right(a) == AudienceKept(a) /\ PageFills(a) /\ ShownPriceIsCharged(a) /\ SocialShowsNewest(a)

\* A page of listings at the prices they are charged at.
LEMMA PageCharges ==
  ASSUME NEW a, NEW S \in SUBSET Listings, NEW n, PageShows(a.page, S, n)
  PROVE  ShownPriceIsCharged(a)
BY DEF ShownPriceIsCharged, ToSet, PageShows, CardFits

\* The search reads the page of the feed now.
LEMMA SearchIsRight ==
  ASSUME DiscoveryInv, NEW v, NEW origin \in {Nobody, "plan", "package"}, NEW n \in Nat
  PROVE  Right(Search(v, origin, n))
<1>1. PICK agency : agency = Agency(v)
  OBVIOUS
<1>2. agency = TRUE \/ agency = FALSE
  BY <1>1 DEF Agency
<1>3. agency \in BOOLEAN
  BY <1>2
<1>4. PICK page : page = Cards(FeedPage(agency, origin, Nobody, n))
  OBVIOUS
<1>5. PageShows(page, Candidates(agency, origin, Nobody), n)
  BY <1>3, <1>4, FeedPageOf, CardsShow DEF DiscoveryInv
<1>6. PICK a : a = Search(v, origin, n)
  OBVIOUS
<1>7. a.via = "search" /\ a.viewer = v /\ a.page = page /\ a.size = n /\ a.origin = origin
  BY <1>1, <1>4, <1>6 DEF Search, Answer
<1>8. Fits(a.page, agency)
  BY <1>3, <1>5, <1>7, PageSuits DEF DiscoveryInv
<1>9. AudienceKept(a) /\ ShownPriceIsCharged(a)
  BY <1>1, <1>3, <1>7, <1>8, FitIsShown
<1>10. ~Agency(a.viewer) => PageShows(a.page, Candidates(FALSE, a.origin, Nobody), a.size)
  BY <1>1, <1>3, <1>5, <1>7
<1>11. PageFills(a)
  BY <1>10, FillsNow
<1>12. SocialShowsNewest(a)
  BY <1>7 DEF SocialShowsNewest
<1> QED
  BY <1>6, <1>9, <1>11, <1>12 DEF Right

\* Only the feed, the trending list and the search keep to one audience.
LEMMA OthersOpen ==
  ASSUME NEW a, a.via \notin {"feed", "trending", "search"}
  PROVE  AudienceKept(a) /\ PageFills(a)
BY DEF AudienceKept, PageFills

\* The feed of what one follows.
LEMMA FollowingIsRight ==
  ASSUME DiscoveryInv, NEW v, NEW n \in Nat
  PROVE  Right(GetFollowingFeed(v, n))
<1>1. PICK S : S = {i \in live : <<v, Stock[i].owner>> \in follows}
  OBVIOUS
<1>2. S \in SUBSET Listings
  BY <1>1 DEF DiscoveryInv
<1>3. S \in SUBSET Int /\ IsFiniteSet(S)
  BY <1>2, ListingsAreFinite
<1>4. PICK page : page = Cards(Newest(S, n))
  OBVIOUS
<1>5. PageShows(page, S, n)
  BY <1>2, <1>3, <1>4, PageOfNewest, CardsShow DEF DiscoveryInv
<1>6. PICK a : a = GetFollowingFeed(v, n)
  OBVIOUS
<1>7. a.via = "following" /\ a.page = page
  BY <1>1, <1>4, <1>6 DEF GetFollowingFeed, FollowingPage, Answer
<1>8. ShownPriceIsCharged(a)
  BY <1>2, <1>5, <1>7, PageCharges
<1>9. SocialShowsNewest(a)
  BY <1>7 DEF SocialShowsNewest
<1> QED
  BY <1>6, <1>7, <1>8, <1>9, OthersOpen DEF Right

\* A social feed of a set: its newest, at their own prices.
LEMMA SocialIsRight ==
  ASSUME NEW S \in SUBSET Listings, NEW n \in Nat, NEW a,
         a.page = FeedItems(BuildFeed(S, n)), a.size = n,
         \/ a.via = "social" /\ S = OnSocial
         \/ a.via = "profile" /\ S = OfOwners({a.origin})
         \/ a.via = "circle"
  PROVE  Right(a)
<1>1. PICK ids : ids = BuildFeed(S, n)
  OBVIOUS
<1>2. PICK K \in SUBSET S :
        /\ PageFrom(ids, K, n)
        /\ \A i \in S \ ToSet(ids) : Len(ids) = n /\ \A k \in ToSet(ids) : k < i
  BY <1>1, BuildFeedOf
<1>3. K \in SUBSET Listings
  OBVIOUS
<1>4. PageShows(a.page, K, n)
  BY <1>1, <1>2, <1>3, ItemsShow
<1>5. AudienceKept(a) /\ PageFills(a)
  BY OthersOpen
<1>6. ShownPriceIsCharged(a)
  BY <1>3, <1>4, PageCharges
<1>7. SocialShowsNewest(a)
  <2>1. Showing(a) = ToSet(ids)
    <3>1. a.page = [k \in DOMAIN ids |-> [id |-> ids[k], price |-> Stock[ids[k]].price, struck |-> 0]]
      BY <1>1 DEF FeedItems
    <3>2. DOMAIN a.page = DOMAIN ids /\ \A k \in DOMAIN ids : a.page[k].id = ids[k]
      BY <3>1
    <3> QED
      BY <3>2 DEF Showing, Ids, ToSet
  <2>2. Len(a.page) = Len(ids)
    BY <1>2, <1>4 DEF PageFrom, PageShows
  <2>3. \A i \in S \ Showing(a) : Len(a.page) = a.size /\ \A k \in Showing(a) : k < i
    BY <1>2, <2>1, <2>2
  <2> QED
    BY <2>3 DEF SocialShowsNewest
<1> QED
  BY <1>5, <1>6, <1>7 DEF Right

\* The social feeds list listings.
LEMMA SocialListings == DiscoveryInv => OnSocial \in SUBSET Listings /\ \A o : OfOwners(o) \in SUBSET Listings
BY DEF DiscoveryInv, OnSocial, OfOwners

\* Whatever is read now is right.
LEMMA ReadsAreRight ==
  ASSUME DiscoveryInv, NEW v, NEW n \in Nat, NEW a \in Reads(v, n)
  PROVE  Right(a)
<1>1. CASE \E origin \in {Nobody, "plan", "package"} : a = Search(v, origin, n)
  BY <1>1, SearchIsRight
<1>2. CASE a = GetFollowingFeed(v, n)
  BY <1>2, FollowingIsRight
<1>3. CASE a = GetFeed(v, n)
  <2>1. a.page = FeedItems(BuildFeed(OnSocial, n)) /\ a.size = n /\ a.via = "social"
    BY <1>3 DEF GetFeed, Answer
  <2> QED
    BY <2>1, SocialListings, SocialIsRight
<1>4. CASE a = GetSocialFollowingFeed(v, n)
  <2>1. PICK S : S = OfOwners(FollowedBy(v))
    OBVIOUS
  <2>2. a.page = FeedItems(BuildFeed(S, n)) /\ a.size = n /\ a.via = "circle"
    BY <1>4, <2>1 DEF GetSocialFollowingFeed, Answer
  <2> QED
    BY <2>1, <2>2, SocialListings, SocialIsRight
<1>5. CASE \E i \in Listings : a = GetPublicProfile(v, Stock[i].owner, n)
  <2>1. PICK owner : a = GetPublicProfile(v, owner, n)
    BY <1>5
  <2>2. PICK S : S = OfOwners({owner})
    OBVIOUS
  <2>3. a.page = FeedItems(BuildFeed(S, n)) /\ a.size = n /\ a.via = "profile" /\ a.origin = owner
    BY <2>1, <2>2 DEF GetPublicProfile, Answer
  <2> QED
    BY <2>2, <2>3, SocialListings, SocialIsRight
<1> QED
  BY <1>1, <1>2, <1>3, <1>4, <1>5 DEF Reads

\* What the invariant says of every answer, and of the types.
LEMMA DiscoveryMeans == DiscoveryInv => ListingsHold /\ DiscoveryTypeOK
<1> SUFFICES ASSUME DiscoveryInv PROVE ListingsHold /\ DiscoveryTypeOK
  OBVIOUS
<1>1. ASSUME NEW a \in Answers PROVE Right(a)
  <2>1. CASE shown # NoAnswer
    <3>1. a = shown /\ shown.via \in {"feed", "trending"} /\ Fits(shown.page, Agency(shown.viewer)) /\ PageFills(shown)
      BY <2>1 DEF Answers, DiscoveryInv
    <3>2. PICK agency : agency = Agency(shown.viewer)
      OBVIOUS
    <3>3. agency = TRUE \/ agency = FALSE
      BY <3>2 DEF Agency
    <3>4. agency \in BOOLEAN
      BY <3>3
    <3>5. AudienceKept(a) /\ ShownPriceIsCharged(a)
      BY <3>1, <3>2, <3>4, FitIsShown
    <3>6. SocialShowsNewest(a)
      BY <3>1 DEF SocialShowsNewest
    <3> QED
      BY <3>1, <3>5, <3>6 DEF Right
  <2>2. CASE shown = NoAnswer
    <3>1. \E n \in PageSizes : \E v : a \in Reads(v, n)
      BY <2>2 DEF Answers
    <3>2. PageSizes \subseteq Nat
      BY DiscoveryAssumption
    <3> QED
      BY <3>1, <3>2, ReadsAreRight
  <2> QED
    BY <2>1, <2>2
<1>2. ListingsHold
  BY <1>1 DEF ListingsHold, Right
<1>3. shown.via \in {"none", "feed", "trending"} /\ \A i \in DOMAIN shown.page : shown.page[i].id \in Listings
  <2>1. CASE shown = NoAnswer
    BY <2>1 DEF NoAnswer
  <2>2. CASE shown # NoAnswer
    BY <2>2 DEF DiscoveryInv, Fits, CardFits
  <2> QED
    BY <2>1, <2>2
<1> QED
  BY <1>2, <1>3 DEF DiscoveryInv, DiscoveryTypeOK

\* The invariant holds.
LEMMA ListingsStay == DiscoverySpec => []DiscoveryInv
BY DiscoveryStarts, DiscoveryStep, PTL DEF DiscoverySpec

\* ListingsHold: every answer keeps the audiences apart, from the cache too;
\* a page read now is as full as the stock allows; a card shows the price that
\* checkout charges, or a dearer one; a social feed leaves out only what is older than a full
\* page of others - for any stock, page sizes, viewers and interleaving
\* (services/discover.py: get_discover_feed, get_trending, search_discover;
\* services/social.py: _build_feed, get_public_profile).
THEOREM ListingsAreTrue == DiscoverySpec => []ListingsHold
BY ListingsStay, DiscoveryMeans, PTL

-----------------------------------------------------------------------------
(* The members run's types. *)

MembersInv ==
  AccountsInv /\ AccountsTypes /\ ReviewsTypes /\ InvoicingInv /\ CreditsInv /\ DiscoveryInv

\* What the invariants say of the types.
LEMMA MembersTypes == MembersInv => MembersTypeOK
<1> SUFFICES ASSUME MembersInv PROVE MembersTypeOK
  OBVIOUS
<1>1. CreditsTypeOK
  BY DEF MembersInv, CreditsInv, CreditTables, CreditsTypeOK
<1>2. InvoicingTypeOK
  BY DEF MembersInv, InvoicingInv
<1> QED
  BY <1>1, <1>2, AccountsTyped, ReviewsTyped, DiscoveryMeans DEF MembersInv, MembersTypeOK

\* In the run that steps in one component at a time every state is well typed,
\* for any people, trips, payments, listings, prices and requests.
THEOREM MembersTypesHold == MembersSpec => []MembersTypeOK
<1>1. MembersInit => MembersInv
  BY AccountsStart, AccountsTypesStart, ReviewsTypesStart, InvoicingStart, CreditsStart, DiscoveryStarts
     DEF MembersInit, MembersInv
<1>2. MembersInv /\ [MembersNext]_membersVars => MembersInv'
  <2> SUFFICES ASSUME MembersInv, [MembersNext]_membersVars PROVE MembersInv'
    OBVIOUS
  <2>1. /\ CreditsNext \/ UNCHANGED creditsVars
        /\ AccountsNext \/ UNCHANGED accountsVars
        /\ ReviewsNext \/ UNCHANGED reviewsVars
        /\ DiscoveryNext \/ UNCHANGED discoveryVars
        /\ InvoicingNext \/ UNCHANGED invoicingVars
    BY DEF MembersNext, membersVars
  <2> QED
    BY <2>1, AccountsStep, AccountsTypesStep, ReviewsTypesStep, InvoicingStep, CreditsKeeps, DiscoveryStep
       DEF MembersInv
<1> QED
  BY <1>1, <1>2, MembersTypes, PTL DEF MembersSpec
=============================================================================
