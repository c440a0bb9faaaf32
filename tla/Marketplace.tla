---------------------------- MODULE Marketplace ----------------------------
(***************************************************************************)
(* One plan put out to tender (services/plans.py, services/offers.py and   *)
(* the expiry beats of workers/tasks.py): the plan's row, the offers of    *)
(* the agencies with their negotiation, and the trips (package, group and  *)
(* creator's member row) that accepted offers leave.                       *)
(*                                                                         *)
(* A request loads its rows, decides on what it loaded and writes at its   *)
(* commit: two steps, between which other requests commit (READ COMMITTED, *)
(* no row locks).  Only a column whose new value differs from the loaded   *)
(* one is written.  `raced' is a history variable: some request committed  *)
(* although a row it had decided on had changed since it was loaded.       *)
(***************************************************************************)
EXTENDS Integers, FiniteSets, Sequences

CONSTANTS Agencies,    \* agencies that bid
          OfferIds,    \* bound: the offers ever submitted, 1..n
          Prices,      \* prices per person
          Terms,       \* the values of an editable column of the plan
          Workers,     \* bound: the requests in flight at once
          MaxRounds,   \* bound: negotiation rounds per offer
          MaxRequests, \* bound: requests that are not reads or beats
          None

ASSUME MarketAssumption == /\ OfferIds \subseteq Nat /\ Prices # {} /\ Terms # {}
                           /\ MaxRounds \in Nat \ {0} /\ MaxRequests \in Nat
                           /\ Workers \subseteq Nat \ {0}
                           /\ None \notin OfferIds \cup Agencies

VARIABLES plan,   \* the plan's row
          due,    \* expires_at is set and has passed
          offer,  \* the offers' rows
          trips,  \* per offer, the packages accept_offer made of it
          req,    \* what each request in flight has loaded
          left,   \* requests the bound still admits
          raced   \* history: a request committed on rows changed under it

marketVars == <<plan, due, offer, trips, req, left, raced>>

PlanStatus == {"DRAFT", "OPEN", "CONFIRMED", "EXPIRED", "CANCELLED"}
OpenOfferStatus == {"PENDING", "COUNTERED"}
LiveOfferStatus == OpenOfferStatus \cup {"ACCEPTED"}
OfferStatus == LiveOfferStatus \cup {"REJECTED", "WITHDRAWN"}

PlanRow == [status : PlanStatus, confirmed : OfferIds \cup {None}, terms : Terms]
Talk == [round : 1..MaxRounds, price : Prices]
NoOffer == [agency |-> None, status |-> "none", price |-> 0, talks |-> <<>>]
OfferRow == [agency : Agencies, status : OfferStatus, price : Prices, talks : Seq(Talk)]
Trip == [price : Prices, terms : Terms]

Idle == [op |-> "idle"]
Beat == 0   \* the beat's own transaction, beside those of the workers

MarketTypeOK ==
  /\ plan \in PlanRow
  /\ due \in BOOLEAN
  /\ \A o \in OfferIds : offer[o] \in OfferRow \cup {NoOffer}
  /\ \A o \in OfferIds : \A i \in DOMAIN trips[o] : trips[o][i] \in Trip
  /\ \A w \in Workers \cup {Beat} : req[w] # Idle =>
       /\ req[w].plan \in PlanRow
       /\ req[w].offer \in OfferRow \cup {NoOffer}
  /\ left \in 0..MaxRequests
  /\ raced \in BOOLEAN

(***************************************************************************)
(* Loading and committing.                                                 *)
(***************************************************************************)
Row(o) == IF o = None THEN NoOffer ELSE offer[o]

Load(w, op, o, arg) ==
  /\ req[w] = Idle
  /\ w # Beat => \A v \in Workers : v < w => req[v] # Idle  \* workers are alike
  /\ req' = [req EXCEPT ![w] = [op |-> op, o |-> o, arg |-> arg,
                                plan |-> plan, offer |-> Row(o)]]
  /\ \/ w = Beat /\ left' = left
     \/ w # Beat /\ left > 0 /\ left' = left - 1
  /\ UNCHANGED <<plan, due, offer, trips, raced>>

Stale(w) == req[w].plan # plan \/ req[w].offer # Row(req[w].o)

\* An UPDATE names only the columns that differ from what was loaded.
Col(loaded, new, current) == IF new = loaded THEN current ELSE new

Done(w, alsoStale) ==
  /\ req' = [req EXCEPT ![w] = Idle]
  /\ raced' = (raced \/ Stale(w) \/ alsoStale)
  /\ left' = left

SetPlanStatus(w, s) ==
  plan' = [plan EXCEPT !.status = Col(req[w].plan.status, s, @)]

SetOfferStatus(w, s) ==
  offer' = [offer EXCEPT ![req[w].o].status = Col(req[w].offer.status, s, @)]

(***************************************************************************)
(* Offers.                                                                 *)
(***************************************************************************)
LiveOffersOf(a) == {o \in OfferIds : offer[o].agency = a /\ offer[o].status \in LiveOfferStatus}
Unused == {o \in OfferIds : offer[o] = NoOffer}

SubmitOffer(w, a, p, message) ==
  /\ plan.status = "OPEN"
  /\ LiveOffersOf(a) = {}
  /\ Load(w, "submit", None, [agency |-> a, price |-> p, message |-> message, live |-> LiveOffersOf(a)])

CommitSubmit(w) ==
  LET arg == req[w].arg IN
  \E o \in Unused :
    /\ req[w].op = "submit"
    /\ \A x \in Unused : o <= x
    /\ offer' = [offer EXCEPT ![o] =
         [agency |-> arg.agency, status |-> "PENDING", price |-> arg.price,
          talks |-> IF arg.message THEN <<[round |-> 1, price |-> arg.price]>> ELSE <<>>]]
    /\ Done(w, LiveOffersOf(arg.agency) # arg.live)
    /\ UNCHANGED <<plan, due, trips>>

\* Mutant: an offer that is closed can be countered.
CounterAnyOffer(w, o, p) ==
  /\ offer[o] # NoOffer
  /\ Len(offer[o].talks) < MaxRounds
  /\ Load(w, "counter", o, p)

\* By the plan's creator or by the offer's agency, with the same effect.
CounterOffer(w, o, p) ==
  /\ offer[o].status \in OpenOfferStatus
  /\ Len(offer[o].talks) < MaxRounds
  /\ Load(w, "counter", o, p)

CommitCounter(w) ==
  LET o == req[w].o
      old == req[w].offer
  IN  /\ req[w].op = "counter"
      /\ Len(offer[o].talks) < MaxRounds
      /\ offer' = [offer EXCEPT
           ![o].price = Col(old.price, req[w].arg, @),
           ![o].status = Col(old.status, "COUNTERED", @),
           ![o].talks = Append(@, [round |-> Len(old.talks) + 1, price |-> req[w].arg])]
      /\ Done(w, FALSE)
      /\ UNCHANGED <<plan, due, trips>>

\* By the plan's creator.  The plan's status is not looked at.
AcceptOffer(w, o) ==
  /\ offer[o].status \in OpenOfferStatus
  /\ Load(w, "accept", o, None)

CommitAccept(w) ==
  LET o == req[w].o
      old == req[w].plan
  IN  /\ req[w].op = "accept"
      /\ SetOfferStatus(w, "ACCEPTED")
      /\ plan' = [plan EXCEPT !.confirmed = Col(old.confirmed, o, @),
                              !.status = Col(old.status, "CONFIRMED", @)]
      /\ trips' = [trips EXCEPT ![o] =
           Append(@, [price |-> req[w].offer.price, terms |-> old.terms])]
      /\ Done(w, FALSE)
      /\ UNCHANGED due

\* Mutant: an offer that is closed can be withdrawn.
WithdrawAnyOffer(w, o) == offer[o] # NoOffer /\ Load(w, "withdraw", o, None)

RejectOffer(w, o) == offer[o].status \in OpenOfferStatus /\ Load(w, "reject", o, None)

WithdrawOffer(w, o) == offer[o].status \in OpenOfferStatus /\ Load(w, "withdraw", o, None)

CommitReject(w) ==
  /\ req[w].op = "reject"
  /\ SetOfferStatus(w, "REJECTED")
  /\ Done(w, FALSE)
  /\ UNCHANGED <<plan, due, trips>>

CommitWithdraw(w) ==
  /\ req[w].op = "withdraw"
  /\ SetOfferStatus(w, "WITHDRAWN")
  /\ Done(w, FALSE)
  /\ UNCHANGED <<plan, due, trips>>

(***************************************************************************)
(* The plan.                                                               *)
(***************************************************************************)
UpdatePlan(w, t) == plan.status \in {"DRAFT", "OPEN"} /\ Load(w, "update", None, t)
PublishPlan(w) == plan.status = "DRAFT" /\ Load(w, "publish", None, None)
CancelPlan(w) == plan.status \notin {"CONFIRMED", "COMPLETED"} /\ Load(w, "cancel", None, None)

CommitUpdate(w) ==
  /\ req[w].op = "update"
  /\ plan' = [plan EXCEPT !.terms = Col(req[w].plan.terms, req[w].arg, @)]
  /\ Done(w, FALSE)
  /\ UNCHANGED <<due, offer, trips>>

\* expires_at becomes thirty days from now.
CommitPublish(w) ==
  /\ req[w].op = "publish"
  /\ SetPlanStatus(w, "OPEN")
  /\ due' = FALSE
  /\ Done(w, FALSE)
  /\ UNCHANGED <<offer, trips>>

CommitCancel(w) ==
  /\ req[w].op = "cancel"
  /\ SetPlanStatus(w, "CANCELLED")
  /\ Done(w, FALSE)
  /\ UNCHANGED <<due, offer, trips>>

(***************************************************************************)
(* The beat that expires plans, the clock, and a request that fails: its   *)
(* transaction is rolled back.  (check_expired_offers never gets further   *)
(* than building its statement: Offer has no column expires_at.)           *)
(***************************************************************************)

\* Mutant: the beat queries drafts.
CheckExpiredDrafts == plan.status = "DRAFT" /\ due /\ Load(Beat, "expire", None, None)

CheckExpiredPlans == plan.status = "OPEN" /\ due /\ Load(Beat, "expire", None, None)

CommitExpired ==
  /\ req[Beat].op = "expire"
  /\ SetPlanStatus(Beat, "EXPIRED")
  /\ Done(Beat, FALSE)
  /\ UNCHANGED <<due, offer, trips>>

DeadlinePasses ==
  /\ plan.status # "DRAFT" /\ ~due
  /\ due' = TRUE
  /\ UNCHANGED <<plan, offer, trips, req, left, raced>>

RollBack(w) ==
  /\ req[w] # Idle
  /\ req' = [req EXCEPT ![w] = Idle]
  /\ UNCHANGED <<plan, due, offer, trips, left, raced>>

(***************************************************************************)
(* Reads: what confirm_plan_with_offer answers, what a plan's page shows   *)
(* as selected.                                                            *)
(***************************************************************************)
ConfirmPlanWithOffer(o) == plan.confirmed = o
SelectedOffer == IF plan.confirmed = None THEN NoOffer ELSE offer[plan.confirmed]

\* Bound: offers open at one price, and differ once they are countered.
OpeningPrice == CHOOSE p \in Prices : TRUE

MarketInit ==
  /\ plan \in [status : {"DRAFT", "OPEN"}, confirmed : {None}, terms : {CHOOSE t \in Terms : TRUE}]
  /\ due = FALSE
  /\ offer = [o \in OfferIds |-> NoOffer]
  /\ trips = [o \in OfferIds |-> <<>>]
  /\ req = [w \in Workers \cup {Beat} |-> Idle]
  /\ left = MaxRequests
  /\ raced = FALSE

MarketNext ==
  \/ \E w \in Workers :
       \/ \E a \in Agencies, m \in BOOLEAN : SubmitOffer(w, a, OpeningPrice, m)
       \/ \E o \in OfferIds, p \in Prices : CounterOffer(w, o, p)
       \/ \E o \in OfferIds : AcceptOffer(w, o) \/ RejectOffer(w, o) \/ WithdrawOffer(w, o)
       \/ \E t \in Terms : UpdatePlan(w, t)
       \/ PublishPlan(w) \/ CancelPlan(w)
       \/ CommitSubmit(w) \/ CommitCounter(w) \/ CommitAccept(w)
       \/ CommitReject(w) \/ CommitWithdraw(w)
       \/ CommitUpdate(w) \/ CommitPublish(w) \/ CommitCancel(w)
       \/ RollBack(w)
  \/ CheckExpiredPlans
  \/ CommitExpired
  \/ DeadlinePasses

MarketSpec == MarketInit /\ [][MarketNext]_marketVars

(***************************************************************************)
(* Properties.                                                             *)
(***************************************************************************)

\* Unless requests raced, each accepted offer has left exactly one trip, at
\* the price the offer shows and under the terms the plan shows, no other
\* offer has left one, and the offer the plan's page and
\* confirm_plan_with_offer name is an accepted one.  The price is copied
\* from the offer and the terms from the plan, which counter_offer and
\* update_plan go on changing until the acceptance.  A plan may have several
\* accepted offers, one after the other: accept_offer looks at no other offer.
TripMatchesDeal ==
  ~raced => /\ \A o \in OfferIds :
                 IF offer[o].status = "ACCEPTED"
                 THEN trips[o] = <<[price |-> offer[o].price, terms |-> plan.terms]>>
                 ELSE trips[o] = <<>>
            /\ \A o \in OfferIds : ConfirmPlanWithOffer(o) => SelectedOffer.status = "ACCEPTED"
            /\ plan.status = "CONFIRMED" <=> \E o \in OfferIds : trips[o] # <<>>

\* Whatever races: a plan only names an offer a trip was made of.
ConfirmedHasTrip == plan.confirmed # None => trips[plan.confirmed] # <<>>

\* An agency has one offer on the plan that is open or accepted, and the
\* last round of an offer's negotiation is numbered by its place and is what
\* the offer now costs: both rest on rows that submit_offer and counter_offer
\* counted before they wrote, so both hold only while no requests raced.
NegotiationInOrder ==
  ~raced => /\ \A a \in Agencies : Cardinality(LiveOffersOf(a)) <= 1
            /\ \A o \in OfferIds : LET n == Len(offer[o].talks) IN
                 n > 0 => offer[o].talks[n] = [round |-> n, price |-> offer[o].price]

\* The three together: what an acceptance leaves is the deal that was struck
\* (accept_offer, counter_offer, submit_offer).
DealsHold == TripMatchesDeal /\ ConfirmedHasTrip /\ NegotiationInOrder

\* A step that decides on rows nobody changed under it never reopens an offer
\* that is accepted, rejected or withdrawn, and never takes a confirmed plan
\* back: the beat, a cancellation or a late counter-offer may be in flight.
FinalStaysFinal ==
  [][raced' \/ /\ \A o \in OfferIds :
                    offer[o].status \in {"ACCEPTED", "REJECTED", "WITHDRAWN"} =>
                      offer'[o] = offer[o]
               /\ plan.status = "CONFIRMED" => plan'.status = "CONFIRMED"]_marketVars

\* A plan whose time has run out does not stay open: the beat runs every
\* fifteen minutes and is retried, whatever the requests do meanwhile.
MarketFairness == WF_marketVars(CheckExpiredPlans) /\ WF_marketVars(CommitExpired)
FairMarketSpec == MarketSpec /\ MarketFairness

DuePlanCloses == (plan.status = "OPEN" /\ due) ~> ~(plan.status = "OPEN" /\ due)
=============================================================================
