------------------------------ MODULE Accounts ------------------------------
(***************************************************************************)
(* Accounts: signup, verification links, e-mail changes, password resets,  *)
(* login and refresh (services/auth.py, core/security.py).                 *)
(*                                                                         *)
(* A link carries what it was issued on: the address and the nonce, or the *)
(* address and the password's fingerprint.  A request compares them with   *)
(* the row it loaded, and writes the columns it changed at its commit.     *)
(***************************************************************************)
EXTENDS Integers, FiniteSets

CONSTANTS People,     \* who may open an account
          Emails,     \* the addresses
          Handlers,   \* the requests that overlap
          MaxSerial,  \* bound: requests
          NoEmail

ASSUME AccountsAssumption == NoEmail \notin Emails /\ MaxSerial \in Nat

VARIABLES account, \* the users' rows
          mailed,  \* the links sent
          request, \* the requests in flight
          serial,  \* requests so far: they name the nonces and the password hashes
          session, \* whose tokens are out, and whether a login or a refresh gave them
          proven,  \* history: who followed a link sent to which address
          resets,  \* history: the hash a reset link met, and the one it left
          torn     \* history: accounts written by a request under which they had changed

accountsVars == <<account, mailed, request, serial, session, proven, resets, torn>>

Waiting == [at |-> "waiting"]
NoAccount == [email |-> NoEmail, verified |-> FALSE, nonce |-> 0, hash |-> 0]
HasAccount(p) == account[p].hash # 0

\* nonce 0: email_verification_token is NULL.
AccountRow == [email : Emails \cup {NoEmail}, verified : BOOLEAN,
               nonce : 0..MaxSerial, hash : 0..MaxSerial]
Link == [kind : {"verify", "reset"}, who : People, email : Emails, key : 1..MaxSerial]

AccountsTypeOK ==
  /\ account \in [People -> AccountRow] /\ mailed \subseteq Link
  /\ serial \in 0..MaxSerial /\ torn \subseteq People /\ session \subseteq People
  /\ proven \subseteq People \X Emails
  /\ resets \subseteq [who : People, met : 1..MaxSerial, left : 1..MaxSerial]

\* The check every handler makes before it writes an address.
EmailTaken(p, e) == \E q \in People \ {p} : account[q].email = e /\ e # NoEmail

Handle(h, p, kind, new) ==
  /\ request[h] = Waiting /\ serial < MaxSerial /\ serial' = serial + 1
  /\ request' = [request EXCEPT ![h] =
                   [at |-> "commit", kind |-> kind, who |-> p, seen |-> account[p], new |-> new]]
  /\ UNCHANGED <<account, session, proven, resets, torn>>

\* Mutant: a changed address stays verified.
IssueKeepingVerified(row, e) == [row EXCEPT !.email = e, !.nonce = serial + 1]

\* A new nonce; the address is unverified until its link is followed.
IssueEmailVerificationToken(row, e) ==
  [row EXCEPT !.email = e, !.verified = FALSE, !.nonce = serial + 1]

\* The mail, or the task that sends it, leaves before the commit.
MailToken(p, e) ==
  mailed' = mailed \cup {[kind |-> "verify", who |-> p, email |-> e, key |-> serial + 1]}

NewUser == [NoAccount EXCEPT !.hash = serial + 1]

SignupTraveler(h, p, e) ==
  /\ ~HasAccount(p) /\ ~EmailTaken(p, e)
  /\ IF e = NoEmail
     THEN Handle(h, p, "signup", [NewUser EXCEPT !.verified = TRUE]) /\ UNCHANGED mailed
     ELSE Handle(h, p, "signup", IssueEmailVerificationToken(NewUser, e)) /\ MailToken(p, e)

SignupAgencyOwner(h, p, e) ==
  /\ e # NoEmail /\ ~HasAccount(p) /\ ~EmailTaken(p, e)
  /\ Handle(h, p, "signup", IssueEmailVerificationToken(NewUser, e)) /\ MailToken(p, e)

UpdateProfile(h, p, e) ==
  /\ HasAccount(p) /\ e \notin {NoEmail, account[p].email} /\ ~EmailTaken(p, e)
  /\ Handle(h, p, "profile", IssueEmailVerificationToken(account[p], e)) /\ MailToken(p, e)

ResendVerification(h, p) ==
  /\ account[p].email # NoEmail /\ ~account[p].verified
  /\ Handle(h, p, "resend", IssueEmailVerificationToken(account[p], account[p].email))
  /\ MailToken(p, account[p].email)

LinkFits(l, kind, stamp) == l.kind = kind /\ account[l.who].email = l.email /\ stamp = l.key

VerifyEmail(h, l) ==
  /\ LinkFits(l, "verify", account[l.who].nonce)
  /\ Handle(h, l.who, "verify", [account[l.who] EXCEPT !.verified = TRUE, !.nonce = 0])
  /\ UNCHANGED mailed

\* No state: the link is good while the password is the one it was issued on.
RequestPasswordReset(p) ==
  /\ account[p].email # NoEmail
  /\ mailed' = mailed \cup {[kind |-> "reset", who |-> p, email |-> account[p].email,
                             key |-> account[p].hash]}
  /\ UNCHANGED <<account, request, serial, session, proven, resets, torn>>

ResetPassword(h, l) ==
  /\ LinkFits(l, "reset", account[l.who].hash)
  /\ Handle(h, l.who, "reset", [account[l.who] EXCEPT !.hash = serial + 1])
  /\ UNCHANGED mailed

ChangePassword(h, p) ==
  /\ p \in session
  /\ Handle(h, p, "change", [account[p] EXCEPT !.hash = serial + 1])
  /\ UNCHANGED mailed

\* A row without a token, as from before verification, is let in.
Login(p) ==
  /\ HasAccount(p) /\ (account[p].verified \/ account[p].nonce = 0)
  /\ session' = session \cup {p}
  /\ UNCHANGED <<account, mailed, request, serial, proven, resets, torn>>

\* Tokens expire; a refresh asks for nothing but its own token.
TokensLapse(p) ==
  /\ p \in session /\ session' = session \ {p}
  /\ UNCHANGED <<account, mailed, request, serial, proven, resets, torn>>

Changed(r) == [c \in DOMAIN r.new |-> IF r.new[c] # r.seen[c] THEN r.new[c] ELSE account[r.who][c]]

\* The database has the address once: a request that comes second with it fails.
CommitAccount(h) ==
  LET r == request[h]
      clash == EmailTaken(r.who, Changed(r).email) \/ (r.kind = "signup" /\ HasAccount(r.who))
  IN /\ r.at = "commit" /\ request' = [request EXCEPT ![h] = Waiting]
     /\ IF clash THEN UNCHANGED <<account, proven, resets, torn>>
        ELSE /\ account' = [account EXCEPT ![r.who] = Changed(r)]
             /\ proven' = IF r.kind = "verify" THEN proven \cup {<<r.who, r.seen.email>>} ELSE proven
             /\ resets' = IF r.kind # "reset" THEN resets
                          ELSE resets \cup {[who |-> r.who, met |-> r.seen.hash, left |-> r.new.hash]}
             /\ torn' = IF account[r.who] # r.seen THEN torn \cup {r.who} ELSE torn
     /\ UNCHANGED <<mailed, serial, session>>

AccountsInit ==
  /\ account = [p \in People |-> NoAccount] /\ mailed = {}
  /\ request = [h \in Handlers |-> Waiting] /\ serial = 0 /\ session = {}
  /\ proven = {} /\ resets = {} /\ torn = {}

AccountsNext ==
  \/ \E h \in Handlers :
       \/ \E p \in People, e \in Emails \cup {NoEmail} :
            SignupTraveler(h, p, e) \/ SignupAgencyOwner(h, p, e) \/ UpdateProfile(h, p, e)
       \/ \E p \in People : ResendVerification(h, p) \/ ChangePassword(h, p)
       \/ \E l \in mailed : VerifyEmail(h, l) \/ ResetPassword(h, l)
       \/ CommitAccount(h)
  \/ \E p \in People : RequestPasswordReset(p) \/ Login(p) \/ TokensLapse(p)

AccountsSpec == AccountsInit /\ [][AccountsNext]_accountsVars

-----------------------------------------------------------------------------
(***************************************************************************)
(* Properties.                                                             *)
(***************************************************************************)
\* A verified address is one whose link was followed, across changes of the
\* address, resends and signups that fail; two requests that overlap on the
\* account break this, as columns are written one by one (update_profile,
\* verify_email).
VerifiedMeansProven ==
  \A p \in People \ torn :
    account[p].verified /\ account[p].email # NoEmail => <<p, account[p].email>> \in proven

\* A reset link changes the password once, unless two uses overlap
\* (_password_fingerprint, reset_password).
ResetLinkUsedOnce ==
  \A a, b \in resets : a.who = b.who /\ a.met = b.met => a = b \/ a.who \in torn

\* Both kinds of link (verify_email, reset_password).
LinksHold == VerifiedMeansProven /\ ResetLinkUsedOnce
=============================================================================
