------------------------- MODULE MarketplaceProofs -------------------------
(***************************************************************************)
(* The deals of one plan, for any agencies, offers, prices, overlapping    *)
(* requests and number of them.                                            *)
(***************************************************************************)
EXTENDS MCMarketplace, CatalogueProofs, MailProofs, TLAPS, SequenceTheorems, FiniteSetTheorems

All == Workers \cup {Beat}
BidOps == {"counter", "accept", "reject", "withdraw"}
PlanOps == {"submit", "update", "publish", "cancel", "expire"}
Final == {"ACCEPTED", "REJECTED", "WITHDRAWN"}

Tables ==
  /\ plan \in PlanRow
  /\ offer \in [OfferIds -> OfferRow \cup {NoOffer}]
  /\ trips \in [OfferIds -> Seq(Trip)]
  /\ DOMAIN req = All

\* What a request in flight has checked on the rows it loaded.
RequestOK(r) ==
  /\ r.plan \in PlanRow
  /\ r.op \in BidOps \cup PlanOps
  /\ r.op \in BidOps =>
       /\ r.o \in OfferIds /\ offer[r.o] \in OfferRow
       /\ r.offer \in OfferRow /\ r.offer.status \in OpenOfferStatus
  /\ r.op = "counter" => r.arg \in Prices /\ Len(r.offer.talks) < MaxRounds
  /\ r.op = "submit" => r.arg \in [agency : Agencies, price : Prices, message : BOOLEAN, live : {{}}]
  /\ r.op = "update" => r.arg \in Terms /\ r.plan.status \in {"DRAFT", "OPEN"}
  /\ r.op = "publish" => r.plan.status = "DRAFT"
  /\ r.op = "cancel" => r.plan.status # "CONFIRMED"
  /\ r.op = "expire" => r.plan.status = "OPEN"

InFlight == \A w \in All : req[w] # Idle => RequestOK(req[w])

LiveAlone ==
  ~raced => \A o1, o2 \in OfferIds :
    /\ offer[o1] # NoOffer /\ offer[o2] # NoOffer /\ offer[o1].agency = offer[o2].agency
    /\ offer[o1].status \in LiveOfferStatus /\ offer[o2].status \in LiveOfferStatus
    => o1 = o2

TalksNumbered ==
  ~raced => \A o \in OfferIds : LET n == Len(offer[o].talks) IN
    n > 0 => offer[o].talks[n] = [round |-> n, price |-> offer[o].price]

\* One step's share of FinalStaysFinal.
FinalKept ==
  \/ raced'
  \/ /\ \A o \in OfferIds : offer[o].status \in Final => offer'[o] = offer[o]
     /\ plan.status = "CONFIRMED" => plan'.status = "CONFIRMED"

MarketInv ==
  /\ Tables /\ InFlight
  /\ TripMatchesDeal /\ ConfirmedHasTrip /\ LiveAlone /\ TalksNumbered

-----------------------------------------------------------------------------
\* An unused row is none of the offers.
LEMMA NoOfferIsNone == /\ NoOffer \notin OfferRow /\ NoOffer.status \notin OfferStatus
                       /\ NoOffer.talks = <<>> /\ None \notin OfferIds
<1>1. None \notin Agencies /\ None \notin OfferIds
  BY MarketAssumption
<1>2. NoOffer.status = "none" /\ NoOffer.agency = None /\ NoOffer.talks = <<>>
  BY DEF NoOffer
<1> QED
  BY <1>1, <1>2 DEF OfferRow, OfferStatus, LiveOfferStatus, OpenOfferStatus

\* One trip is some trip.
LEMMA OneIsNotNone == \A x : <<x>> # <<>>
<1> SUFFICES ASSUME NEW x
             PROVE  <<x>> # <<>>
  OBVIOUS
<1>1. Len(<<x>>) = 1 /\ Len(<<>>) = 0
  OBVIOUS
<1> QED
  BY <1>1

\* The counts of NegotiationInOrder.
LEMMA InOrder == Tables /\ LiveAlone /\ TalksNumbered => NegotiationInOrder
<1> SUFFICES ASSUME Tables, LiveAlone, TalksNumbered, ~raced, NEW a \in Agencies
             PROVE  Cardinality(LiveOffersOf(a)) <= 1
  BY DEF NegotiationInOrder, TalksNumbered
<1>1. \A o \in LiveOffersOf(a) : o \in OfferIds /\ offer[o] # NoOffer /\ offer[o].agency = a
                                 /\ offer[o].status \in LiveOfferStatus
  BY MarketAssumption DEF LiveOffersOf, NoOffer
<1>2. \A o1, o2 \in LiveOffersOf(a) : o1 = o2
  BY <1>1 DEF LiveAlone
<1>3. CASE LiveOffersOf(a) = {}
  <2>1. Cardinality(LiveOffersOf(a)) = 0
    BY <1>3, FS_EmptySet
  <2> QED
    BY <2>1
<1>4. CASE LiveOffersOf(a) # {}
  <2>1. PICK o : o \in LiveOffersOf(a)
    BY <1>4
  <2>2. LiveOffersOf(a) = {o}
    BY <1>2, <2>1
  <2>3. Cardinality(LiveOffersOf(a)) = 1
    BY <2>2, FS_Singleton
  <2> QED
    BY <2>3
<1> QED
  BY <1>3, <1>4

\* A draft plan without offers, and nobody at work.
LEMMA MarketStarts == MarketInit => MarketInv
<1> SUFFICES ASSUME MarketInit
             PROVE  MarketInv
  OBVIOUS
<1>1. (CHOOSE t \in Terms : TRUE) \in Terms
  BY MarketAssumption
<1>2. Tables
  BY <1>1 DEF MarketInit, Tables, PlanRow, PlanStatus, All
<1>3. InFlight
  BY DEF MarketInit, InFlight, All
<1>4. \A o \in OfferIds : offer[o] = NoOffer /\ trips[o] = <<>>
  BY DEF MarketInit
<1>5. plan.confirmed = None /\ plan.status \in {"DRAFT", "OPEN"}
  BY DEF MarketInit
<1>6. LiveAlone /\ TalksNumbered
  BY <1>4, NoOfferIsNone DEF LiveAlone, TalksNumbered
<1>7. TripMatchesDeal
  BY <1>4, <1>5, NoOfferIsNone DEF TripMatchesDeal, NoOffer, ConfirmPlanWithOffer
<1>8. ConfirmedHasTrip
  BY <1>5 DEF ConfirmedHasTrip
<1> QED
  BY <1>2, <1>3, <1>6, <1>7, <1>8 DEF MarketInv

-----------------------------------------------------------------------------
\* A request that starts writes nothing yet.
LEMMA LoadKeeps ==
  ASSUME MarketInv, NEW w \in All, NEW op, NEW o, NEW arg, Load(w, op, o, arg),
         RequestOK([op |-> op, o |-> o, arg |-> arg, plan |-> plan, offer |-> Row(o)])
  PROVE  MarketInv' /\ FinalKept
<1>1. UNCHANGED <<plan, due, offer, trips, raced>>
      /\ req' = [req EXCEPT ![w] = [op |-> op, o |-> o, arg |-> arg, plan |-> plan, offer |-> Row(o)]]
  BY DEF Load
<1>2. Tables'
  BY <1>1 DEF MarketInv, Tables
<1>3. InFlight'
  BY <1>1 DEF MarketInv, Tables, InFlight, RequestOK
<1>4. TripMatchesDeal' /\ ConfirmedHasTrip' /\ LiveAlone' /\ TalksNumbered'
  BY <1>1 DEF MarketInv, TripMatchesDeal, ConfirmedHasTrip, LiveAlone, TalksNumbered,
              ConfirmPlanWithOffer, SelectedOffer
<1>5. FinalKept
  BY <1>1 DEF FinalKept
<1> QED
  BY <1>2, <1>3, <1>4, <1>5 DEF MarketInv

\* Every load of a request keeps the invariant.
LEMMA LoadsKeep ==
  ASSUME MarketInv, NEW w \in Workers,
         \/ \E a \in Agencies, m \in BOOLEAN : SubmitOffer(w, a, OpeningPrice, m)
         \/ \E o \in OfferIds, p \in Prices : CounterOffer(w, o, p)
         \/ \E o \in OfferIds : AcceptOffer(w, o) \/ RejectOffer(w, o) \/ WithdrawOffer(w, o)
         \/ \E t \in Terms : UpdatePlan(w, t)
         \/ PublishPlan(w) \/ CancelPlan(w)
  PROVE  MarketInv' /\ FinalKept
<1> DEFINE Req(op, o, arg) == [op |-> op, o |-> o, arg |-> arg, plan |-> plan, offer |-> Row(o)]
<1>1. w \in All /\ plan \in PlanRow /\ OpeningPrice \in Prices
  BY MarketAssumption DEF MarketInv, Tables, All, OpeningPrice
<1>2. ASSUME NEW o \in OfferIds, offer[o].status \in OpenOfferStatus
      PROVE  offer[o] \in OfferRow /\ Row(o) = offer[o]
  <2>1. offer[o] # NoOffer
    BY <1>2, NoOfferIsNone DEF OfferStatus, LiveOfferStatus
  <2> QED
    BY <2>1, MarketAssumption DEF MarketInv, Tables, Row
<1>3. ASSUME NEW a \in Agencies, NEW m \in BOOLEAN, SubmitOffer(w, a, OpeningPrice, m)
      PROVE  MarketInv' /\ FinalKept
  <2>1. RequestOK(Req("submit", None, [agency |-> a, price |-> OpeningPrice, message |-> m, live |-> LiveOffersOf(a)]))
    BY <1>1, <1>3 DEF RequestOK, BidOps, PlanOps, SubmitOffer
  <2> QED
    BY <1>1, <1>3, <2>1, LoadKeeps DEF SubmitOffer
<1>4. ASSUME NEW o \in OfferIds, NEW p \in Prices, CounterOffer(w, o, p)
      PROVE  MarketInv' /\ FinalKept
  <2>1. RequestOK(Req("counter", o, p))
    BY <1>1, <1>2, <1>4 DEF RequestOK, BidOps, PlanOps, CounterOffer
  <2> QED
    BY <1>1, <1>4, <2>1, LoadKeeps DEF CounterOffer
<1>5. ASSUME NEW o \in OfferIds, NEW op \in {"accept", "reject", "withdraw"},
             offer[o].status \in OpenOfferStatus, Load(w, op, o, None)
      PROVE  MarketInv' /\ FinalKept
  <2>1. RequestOK(Req(op, o, None))
    BY <1>1, <1>2, <1>5 DEF RequestOK, BidOps, PlanOps
  <2> QED
    BY <1>1, <1>5, <2>1, LoadKeeps
<1>6. ASSUME NEW t \in Terms, UpdatePlan(w, t)
      PROVE  MarketInv' /\ FinalKept
  <2>1. RequestOK(Req("update", None, t))
    BY <1>1, <1>6 DEF RequestOK, BidOps, PlanOps, UpdatePlan
  <2> QED
    BY <1>1, <1>6, <2>1, LoadKeeps DEF UpdatePlan
<1>7. CASE PublishPlan(w)
  <2>1. RequestOK(Req("publish", None, None))
    BY <1>1, <1>7 DEF RequestOK, BidOps, PlanOps, PublishPlan
  <2> QED
    BY <1>1, <1>7, <2>1, LoadKeeps DEF PublishPlan
<1>8. CASE CancelPlan(w)
  <2>1. RequestOK(Req("cancel", None, None))
    BY <1>1, <1>8 DEF RequestOK, BidOps, PlanOps, CancelPlan
  <2> QED
    BY <1>1, <1>8, <2>1, LoadKeeps DEF CancelPlan
<1> QED
  BY <1>3, <1>4, <1>5, <1>6, <1>7, <1>8 DEF AcceptOffer, RejectOffer, WithdrawOffer

\* The beat that loads expired plans writes nothing yet.
LEMMA BeatLoads == MarketInv /\ CheckExpiredPlans => MarketInv' /\ FinalKept
<1> SUFFICES ASSUME MarketInv, CheckExpiredPlans
             PROVE  MarketInv' /\ FinalKept
  OBVIOUS
<1>1. RequestOK([op |-> "expire", o |-> None, arg |-> None, plan |-> plan, offer |-> Row(None)])
  BY DEF RequestOK, BidOps, PlanOps, CheckExpiredPlans, MarketInv, Tables
<1> QED
  BY <1>1, LoadKeeps DEF CheckExpiredPlans, All

-----------------------------------------------------------------------------
\* A commit keeps the tables well formed if it writes rows of theirs and
\* leaves no offer out.
LEMMA TablesKept ==
  ASSUME MarketInv, NEW w \in All, req' = [req EXCEPT ![w] = Idle],
         plan' \in PlanRow, offer' \in [OfferIds -> OfferRow \cup {NoOffer}],
         trips' \in [OfferIds -> Seq(Trip)],
         \A o \in OfferIds : offer[o] \in OfferRow => offer'[o] \in OfferRow
  PROVE  Tables' /\ InFlight'
<1>1. \A v \in All : req'[v] = Idle \/ req'[v] = req[v]
  BY DEF MarketInv, Tables
<1>2. Tables'
  BY DEF MarketInv, Tables
<1>3. InFlight'
  BY <1>1 DEF MarketInv, InFlight, RequestOK
<1> QED
  BY <1>2, <1>3

\* A commit that did not race wrote on the rows it had loaded.
LEMMA NotStale ==
  ASSUME MarketInv, NEW w \in All, req[w].op \in BidOps \cup PlanOps, NEW also, Done(w, also)
  PROVE  /\ RequestOK(req[w]) /\ req' = [req EXCEPT ![w] = Idle]
         /\ ~raced' => ~raced /\ ~also /\ req[w].plan = plan
         /\ ~raced' /\ req[w].op \in BidOps => req[w].offer = offer[req[w].o]
<1>1. req[w] # Idle
  BY DEF Idle, BidOps, PlanOps
<1>2. RequestOK(req[w])
  BY <1>1 DEF MarketInv, InFlight
<1>3. req[w].op \in BidOps => Row(req[w].o) = offer[req[w].o]
  BY <1>2, MarketAssumption DEF RequestOK, Row
<1> QED
  BY <1>2, <1>3 DEF Done, Stale

-----------------------------------------------------------------------------
\* Requests that write the plan alone: none of them decides on a plan that is
\* confirmed, nor leaves one confirmed.
LEMMA PlanWritesKeep ==
  ASSUME MarketInv, NEW w \in All, NEW also, Done(w, also),
         req[w].op \in {"update", "publish", "cancel", "expire"},
         UNCHANGED <<offer, trips>>,
         plan' \in PlanRow, plan'.confirmed = plan.confirmed,
         ~raced' => plan.status # "CONFIRMED" /\ plan'.status # "CONFIRMED"
  PROVE  MarketInv' /\ FinalKept
<1>1. req' = [req EXCEPT ![w] = Idle] /\ (~raced' => ~raced)
  BY NotStale DEF BidOps, PlanOps
<1>2. Tables' /\ InFlight'
  BY <1>1, TablesKept DEF MarketInv, Tables
<1>3. ConfirmedHasTrip'
  BY DEF MarketInv, ConfirmedHasTrip
<1>4. LiveAlone' /\ TalksNumbered'
  BY <1>1 DEF MarketInv, LiveAlone, TalksNumbered
<1>5. TripMatchesDeal'
  <2> SUFFICES ASSUME ~raced'
               PROVE  TripMatchesDeal'
    BY DEF TripMatchesDeal
  <2>1. \A o \in OfferIds : trips[o] = <<>>
    BY <1>1 DEF MarketInv, TripMatchesDeal
  <2>2. \A o \in OfferIds : offer[o].status # "ACCEPTED"
    BY <1>1, <2>1, OneIsNotNone DEF MarketInv, TripMatchesDeal
  <2>3. \A o \in OfferIds : plan.confirmed # o
    BY <2>1, NoOfferIsNone DEF MarketInv, ConfirmedHasTrip
  <2> QED
    BY <2>1, <2>2, <2>3 DEF TripMatchesDeal, ConfirmPlanWithOffer
<1>6. FinalKept
  BY DEF FinalKept
<1> QED
  BY <1>2, <1>3, <1>4, <1>5, <1>6 DEF MarketInv

\* The four handlers and the beat that write on the plan alone.
LEMMA PlanCommitsKeep ==
  ASSUME MarketInv, NEW w \in All,
         CommitUpdate(w) \/ CommitPublish(w) \/ CommitCancel(w) \/ (w = Beat /\ CommitExpired)
  PROVE  MarketInv' /\ FinalKept
<1>1. plan \in PlanRow /\ Beat \in All
  BY DEF MarketInv, Tables, All
<1>2. CASE CommitUpdate(w)
  <2>1. RequestOK(req[w]) /\ (~raced' => req[w].plan = plan)
    BY <1>2, NotStale DEF CommitUpdate, BidOps, PlanOps
  <2>2. /\ plan' \in PlanRow /\ plan'.confirmed = plan.confirmed /\ plan'.status = plan.status
    BY <1>1, <1>2, <2>1 DEF CommitUpdate, PlanRow, Col, RequestOK
  <2> QED
    BY <1>2, <2>1, <2>2, PlanWritesKeep DEF CommitUpdate, RequestOK
<1>3. ASSUME NEW op \in {"publish", "cancel", "expire"}, NEW s \in {"OPEN", "CANCELLED", "EXPIRED"},
             req[w].op = op, SetPlanStatus(w, s), Done(w, FALSE), UNCHANGED <<offer, trips>>
      PROVE  MarketInv' /\ FinalKept
  <2>1. RequestOK(req[w]) /\ (~raced' => req[w].plan = plan)
    BY <1>3, NotStale DEF BidOps, PlanOps
  <2>2. plan' = [plan EXCEPT !.status = Col(req[w].plan.status, s, plan.status)]
    BY <1>3 DEF SetPlanStatus
  <2>3. plan' \in PlanRow /\ plan'.confirmed = plan.confirmed
    BY <1>1, <2>2 DEF PlanRow, PlanStatus, Col
  <2>4. ~raced' => plan.status # "CONFIRMED" /\ plan'.status # "CONFIRMED"
    BY <1>1, <1>3, <2>1, <2>2 DEF PlanRow, Col, RequestOK
  <2> QED
    BY <1>3, <2>3, <2>4, PlanWritesKeep
<1> QED
  BY <1>2, <1>3 DEF CommitPublish, CommitCancel, CommitExpired

-----------------------------------------------------------------------------
\* Reject and withdraw.
LEMMA CloseKeeps ==
  ASSUME MarketInv, NEW w \in All, CommitReject(w) \/ CommitWithdraw(w)
  PROVE  MarketInv' /\ FinalKept
<1> DEFINE o == req[w].o
<1>1. PICK s \in {"REJECTED", "WITHDRAWN"} : SetOfferStatus(w, s)
  BY DEF CommitReject, CommitWithdraw
<1>2. /\ Done(w, FALSE) /\ req[w].op \in {"reject", "withdraw"} /\ UNCHANGED <<plan, due, trips>>
  BY DEF CommitReject, CommitWithdraw
<1>3. /\ RequestOK(req[w]) /\ req' = [req EXCEPT ![w] = Idle]
      /\ ~raced' => ~raced /\ req[w].offer = offer[o]
  BY <1>2, NotStale DEF BidOps, PlanOps
<1>4. o \in OfferIds /\ offer[o] \in OfferRow /\ req[w].offer.status \in OpenOfferStatus
  BY <1>2, <1>3 DEF RequestOK, BidOps
<1>5. offer' = [offer EXCEPT ![o].status = s]
  BY <1>1, <1>4 DEF SetOfferStatus, Col, OpenOfferStatus
<1>6. /\ offer'[o] \in OfferRow /\ offer'[o].status = s /\ offer'[o].price = offer[o].price
      /\ offer'[o].agency = offer[o].agency /\ offer'[o].talks = offer[o].talks
      /\ \A x \in OfferIds \ {o} : offer'[x] = offer[x]
      /\ offer' \in [OfferIds -> OfferRow \cup {NoOffer}]
  BY <1>4, <1>5 DEF MarketInv, Tables, OfferRow, OfferStatus, LiveOfferStatus, OpenOfferStatus
<1>7. Tables' /\ InFlight'
  BY <1>2, <1>3, <1>6, TablesKept DEF MarketInv, Tables
<1>8. ~raced' => offer[o].status \in OpenOfferStatus /\ offer[o].status \notin Final
  BY <1>3, <1>4 DEF OpenOfferStatus, Final
<1>9. LiveAlone' /\ TalksNumbered'
  <2>1. s \notin LiveOfferStatus
    BY DEF LiveOfferStatus, OpenOfferStatus
  <2>2. LiveAlone'
    BY <1>3, <1>6, <2>1 DEF MarketInv, LiveAlone
  <2>3. TalksNumbered'
    BY SMTT(30), <1>3, <1>6 DEF MarketInv, TalksNumbered
  <2> QED
    BY <2>2, <2>3
<1>10. TripMatchesDeal'
  <2> SUFFICES ASSUME ~raced'
               PROVE  TripMatchesDeal'
    BY DEF TripMatchesDeal
  <2>1. offer[o].status # "ACCEPTED" /\ s # "ACCEPTED"
    BY <1>8 DEF Final
  <2> QED
    BY <1>2, <1>3, <1>4, <1>6, <2>1 DEF MarketInv, TripMatchesDeal, ConfirmPlanWithOffer,
       SelectedOffer, ConfirmedHasTrip
<1>11. ConfirmedHasTrip' /\ FinalKept
  BY <1>2, <1>6, <1>8 DEF MarketInv, ConfirmedHasTrip, FinalKept
<1> QED
  BY <1>7, <1>9, <1>10, <1>11 DEF MarketInv

\* A counter-offer adds the next round with the price it names.
LEMMA CounterKeeps ==
  ASSUME MarketInv, NEW w \in All, CommitCounter(w)
  PROVE  MarketInv' /\ FinalKept
<1> DEFINE o == req[w].o
           old == req[w].offer
           talk == [round |-> Len(old.talks) + 1, price |-> req[w].arg]
<1>1. /\ Done(w, FALSE) /\ req[w].op = "counter" /\ UNCHANGED <<plan, due, trips>>
      /\ offer' = [offer EXCEPT ![o].price = Col(old.price, req[w].arg, @),
                                ![o].status = Col(old.status, "COUNTERED", @),
                                ![o].talks = Append(@, talk)]
  BY DEF CommitCounter
<1>2. /\ RequestOK(req[w]) /\ req' = [req EXCEPT ![w] = Idle]
      /\ ~raced' => ~raced /\ old = offer[o]
  BY <1>1, NotStale DEF BidOps, PlanOps
<1>3. /\ o \in OfferIds /\ offer[o] \in OfferRow /\ old \in OfferRow
      /\ old.status \in OpenOfferStatus /\ req[w].arg \in Prices /\ Len(old.talks) < MaxRounds
  BY <1>1, <1>2 DEF RequestOK, BidOps
<1>4. talk \in Talk
  BY <1>3, MarketAssumption DEF Talk, OfferRow
<1>5. /\ offer'[o].price = Col(old.price, req[w].arg, offer[o].price)
      /\ offer'[o].status = Col(old.status, "COUNTERED", offer[o].status)
      /\ offer'[o].talks = Append(offer[o].talks, talk)
      /\ offer'[o].agency = offer[o].agency
      /\ \A x \in OfferIds \ {o} : offer'[x] = offer[x]
  BY <1>1, <1>3 DEF MarketInv, Tables, OfferRow
<1>6. offer'[o] \in OfferRow /\ offer' \in [OfferIds -> OfferRow \cup {NoOffer}]
  <2>1. offer'[o] = [agency |-> offer[o].agency, status |-> offer'[o].status,
                     price |-> offer'[o].price, talks |-> offer'[o].talks]
    BY <1>1, <1>3 DEF MarketInv, Tables, OfferRow
  <2>2. offer'[o].talks \in Seq(Talk)
    BY SMTT(30), <1>3, <1>4, <1>5 DEF OfferRow
  <2>3. offer'[o].status \in OfferStatus /\ offer'[o].price \in Prices
    BY <1>3, <1>5 DEF Col, OfferRow, OfferStatus, LiveOfferStatus, OpenOfferStatus
  <2>4. offer'[o] \in OfferRow
    BY <1>3, <2>1, <2>2, <2>3 DEF OfferRow
  <2> QED
    BY <1>1, <1>3, <1>5, <2>4 DEF MarketInv, Tables
<1>7. Tables' /\ InFlight'
  BY <1>1, <1>2, <1>5, <1>6, TablesKept DEF MarketInv, Tables
<1>8. ~raced' => /\ offer[o].status \in OpenOfferStatus /\ offer'[o].status = "COUNTERED"
                 /\ offer'[o].price = req[w].arg
  BY <1>2, <1>3, <1>5 DEF Col, OpenOfferStatus
<1>9. LiveAlone'
  <2> SUFFICES ASSUME ~raced'
               PROVE  LiveAlone'
    BY DEF LiveAlone
  <2>1. /\ offer[o].status \in LiveOfferStatus /\ offer[o] # NoOffer
    BY <1>3, <1>8, NoOfferIsNone DEF LiveOfferStatus
  <2> QED
    BY SMTT(30), <1>2, <1>3, <1>5, <2>1 DEF MarketInv, LiveAlone
<1>10. TalksNumbered'
  <2> SUFFICES ASSUME ~raced', NEW x \in OfferIds, Len(offer'[x].talks) > 0
               PROVE  offer'[x].talks[Len(offer'[x].talks)]
                        = [round |-> Len(offer'[x].talks), price |-> offer'[x].price]
    BY DEF TalksNumbered
  <2>1. CASE x # o
    BY <1>2, <1>5, <2>1 DEF MarketInv, TalksNumbered
  <2>2. CASE x = o
    <3>1. offer[o].talks \in Seq(Talk) /\ old = offer[o]
      BY <1>2, <1>3 DEF OfferRow
    <3>2. Len(offer'[o].talks) = Len(offer[o].talks) + 1
          /\ offer'[o].talks[Len(offer[o].talks) + 1] = talk
      <4> HIDE DEF talk
      <4>1. \A before \in Seq(Talk) : /\ Len(Append(before, talk)) = Len(before) + 1
                                      /\ Append(before, talk)[Len(before) + 1] = talk
        BY <1>4, AppendProperties
      <4> QED
        BY <1>5, <3>1, <4>1
    <3> QED
      BY <1>8, <2>2, <3>1, <3>2
  <2> QED
    BY <2>1, <2>2
<1>11. TripMatchesDeal'
  <2> SUFFICES ASSUME ~raced'
               PROVE  TripMatchesDeal'
    BY DEF TripMatchesDeal
  <2>1. offer[o].status # "ACCEPTED" /\ offer'[o].status # "ACCEPTED"
    BY <1>8 DEF OpenOfferStatus
  <2> QED
    BY ZenonT(40), <1>1, <1>2, <1>3, <1>5, <2>1 DEF MarketInv, TripMatchesDeal, ConfirmPlanWithOffer,
       SelectedOffer, ConfirmedHasTrip
<1>12. ConfirmedHasTrip' /\ FinalKept
  BY <1>1, <1>5, <1>8 DEF MarketInv, ConfirmedHasTrip, FinalKept, Final, OpenOfferStatus
<1> QED
  BY <1>7, <1>9, <1>10, <1>11, <1>12 DEF MarketInv

\* An acceptance makes one trip and closes the other offers.
LEMMA AcceptKeeps ==
  ASSUME MarketInv, NEW w \in All, CommitAccept(w)
  PROVE  MarketInv' /\ FinalKept
<1> DEFINE o == req[w].o
           old == req[w].plan
           trip == [price |-> req[w].offer.price, terms |-> old.terms]
<1>1. /\ Done(w, FALSE) /\ req[w].op = "accept" /\ SetOfferStatus(w, "ACCEPTED")
      /\ plan' = [plan EXCEPT !.confirmed = Col(old.confirmed, o, @),
                              !.status = Col(old.status, "CONFIRMED", @)]
      /\ trips' = [trips EXCEPT ![o] = Append(@, trip)]
  BY DEF CommitAccept
<1>2. /\ RequestOK(req[w]) /\ req' = [req EXCEPT ![w] = Idle]
      /\ ~raced' => ~raced /\ req[w].offer = offer[o] /\ old = plan
  BY <1>1, NotStale DEF BidOps, PlanOps
<1>3. /\ o \in OfferIds /\ offer[o] \in OfferRow /\ req[w].offer \in OfferRow /\ old \in PlanRow
      /\ req[w].offer.status \in OpenOfferStatus
  BY <1>1, <1>2 DEF RequestOK, BidOps
<1>4. trip \in Trip /\ trips[o] \in Seq(Trip)
  BY <1>3 DEF Trip, OfferRow, PlanRow, MarketInv, Tables
<1>5. offer' = [offer EXCEPT ![o].status = "ACCEPTED"]
  BY <1>1, <1>3 DEF SetOfferStatus, Col, OpenOfferStatus
<1>6. /\ offer'[o] \in OfferRow /\ offer'[o].status = "ACCEPTED" /\ offer'[o].price = offer[o].price
      /\ offer'[o].agency = offer[o].agency /\ offer'[o].talks = offer[o].talks
      /\ \A x \in OfferIds \ {o} : offer'[x] = offer[x]
      /\ offer' \in [OfferIds -> OfferRow \cup {NoOffer}]
  BY <1>3, <1>5 DEF MarketInv, Tables, OfferRow, OfferStatus, LiveOfferStatus, OpenOfferStatus
<1>7. /\ trips' \in [OfferIds -> Seq(Trip)] /\ trips'[o] = Append(trips[o], trip) /\ trips'[o] # <<>>
      /\ \A x \in OfferIds \ {o} : trips'[x] = trips[x]
  <2>1. /\ trips'[o] = Append(trips[o], trip)
        /\ \A x \in OfferIds \ {o} : trips'[x] = trips[x]
        /\ DOMAIN trips' = OfferIds
        /\ trips' = [x \in OfferIds |-> trips'[x]]
    BY <1>1, <1>3 DEF MarketInv, Tables
  <2>2. trips'[o] \in Seq(Trip) /\ trips'[o] # <<>>
    <3> DEFINE before == trips[o]
    <3>1. trips'[o] = Append(before, trip) /\ before \in Seq(Trip)
      BY <1>4, <2>1
    <3> HIDE DEF before, trip
    <3> QED
      BY <1>4, <3>1
  <2>3. \A x \in OfferIds : trips'[x] \in Seq(Trip)
    BY <2>1, <2>2 DEF MarketInv, Tables
  <2> QED
    BY <2>1, <2>2, <2>3
<1>8. /\ plan' \in PlanRow /\ plan'.terms = plan.terms
      /\ plan'.confirmed = Col(old.confirmed, o, plan.confirmed)
      /\ plan'.status = Col(old.status, "CONFIRMED", plan.status)
  BY <1>1, <1>3 DEF MarketInv, Tables, PlanRow, PlanStatus, Col
<1>9. Tables' /\ InFlight'
  BY <1>2, <1>6, <1>7, <1>8, TablesKept DEF MarketInv, Tables
<1>10. ~raced' => /\ plan'.confirmed = o /\ plan'.status = "CONFIRMED"
                  /\ offer[o].status \in OpenOfferStatus
                  /\ trip = [price |-> offer[o].price, terms |-> plan.terms]
  BY <1>2, <1>3, <1>8 DEF Col
<1>11. LiveAlone' /\ TalksNumbered'
  <2>1. ~raced' => offer[o].status \in LiveOfferStatus /\ offer[o] # NoOffer
    BY <1>3, <1>10, NoOfferIsNone DEF LiveOfferStatus
  <2>2. LiveAlone'
    BY <1>2, <1>3, <1>6, <2>1 DEF MarketInv, LiveAlone
  <2>3. TalksNumbered'
    <3>1. \A x \in OfferIds : offer'[x].talks = offer[x].talks /\ offer'[x].price = offer[x].price
      BY <1>6
    <3> QED
      BY <1>2, <3>1 DEF MarketInv, TalksNumbered
  <2> QED
    BY <2>2, <2>3
<1>12. TripMatchesDeal'
  <2> SUFFICES ASSUME ~raced'
               PROVE  TripMatchesDeal'
    BY DEF TripMatchesDeal
  <2>1. trips[o] = <<>>
    BY <1>2, <1>3, <1>10 DEF MarketInv, TripMatchesDeal, OpenOfferStatus
  <2>2. trips'[o] = <<[price |-> offer'[o].price, terms |-> plan'.terms]>>
    BY <1>4, <1>6, <1>7, <1>8, <1>10, <2>1
  <2>3. \A x \in OfferIds \ {o} :
          IF offer'[x].status = "ACCEPTED"
          THEN trips'[x] = <<[price |-> offer'[x].price, terms |-> plan'.terms]>>
          ELSE trips'[x] = <<>>
    BY <1>2, <1>6, <1>7, <1>8 DEF MarketInv, TripMatchesDeal
  <2>4. \A x \in OfferIds : plan'.confirmed = x => offer'[x].status = "ACCEPTED"
    BY <1>6, <1>10
  <2>5. \A x \in OfferIds : ConfirmPlanWithOffer(x)' => (SelectedOffer.status = "ACCEPTED")'
    BY <2>4, NoOfferIsNone DEF ConfirmPlanWithOffer, SelectedOffer
  <2>6. \A x \in OfferIds :
          IF offer'[x].status = "ACCEPTED"
          THEN trips'[x] = <<[price |-> offer'[x].price, terms |-> plan'.terms]>>
          ELSE trips'[x] = <<>>
    BY <1>3, <1>6, <2>2, <2>3
  <2>7. plan'.status = "CONFIRMED" /\ \E x \in OfferIds : trips'[x] # <<>>
    BY <1>3, <1>7, <1>10
  <2> QED
    BY <2>5, <2>6, <2>7 DEF TripMatchesDeal
<1>13. ConfirmedHasTrip'
  <2>1. CASE plan'.confirmed = o
    BY <1>7, <2>1 DEF ConfirmedHasTrip
  <2>2. CASE plan'.confirmed = plan.confirmed /\ plan.confirmed # o
    BY <1>7, <2>2 DEF MarketInv, Tables, PlanRow, ConfirmedHasTrip
  <2> QED
    BY <1>8, <2>1, <2>2 DEF Col
<1>14. FinalKept
  BY <1>3, <1>6, <1>10 DEF FinalKept, Final, OpenOfferStatus
<1> QED
  BY <1>9, <1>11, <1>12, <1>13, <1>14 DEF MarketInv

\* A new offer of an agency that has no live one.
LEMMA SubmitKeeps ==
  ASSUME MarketInv, NEW w \in All, CommitSubmit(w)
  PROVE  MarketInv' /\ FinalKept
<1> DEFINE arg == req[w].arg
<1>1. PICK o \in Unused :
        /\ req[w].op = "submit"
        /\ offer' = [offer EXCEPT ![o] =
             [agency |-> arg.agency, status |-> "PENDING", price |-> arg.price,
              talks |-> IF arg.message THEN <<[round |-> 1, price |-> arg.price]>> ELSE <<>>]]
        /\ Done(w, LiveOffersOf(arg.agency) # arg.live)
        /\ UNCHANGED <<plan, due, trips>>
  BY DEF CommitSubmit
<1>2. /\ RequestOK(req[w]) /\ req' = [req EXCEPT ![w] = Idle]
      /\ ~raced' => ~raced /\ LiveOffersOf(arg.agency) = {}
  BY <1>1, NotStale DEF BidOps, PlanOps, RequestOK
<1>3. arg.agency \in Agencies /\ arg.price \in Prices /\ arg.message \in BOOLEAN
  BY <1>1, <1>2 DEF RequestOK
<1>4. o \in OfferIds /\ offer[o] = NoOffer
  BY DEF Unused
<1>5. /\ offer'[o].agency = arg.agency /\ offer'[o].status = "PENDING" /\ offer'[o].price = arg.price
      /\ offer'[o].talks = IF arg.message THEN <<[round |-> 1, price |-> arg.price]>> ELSE <<>>
      /\ \A x \in OfferIds \ {o} : offer'[x] = offer[x]
  BY <1>1, <1>4 DEF MarketInv, Tables
<1>6. offer'[o] \in OfferRow /\ offer' \in [OfferIds -> OfferRow \cup {NoOffer}]
  <2>1. [round |-> 1, price |-> arg.price] \in Talk
    BY <1>3, MarketAssumption DEF Talk
  <2>2. offer'[o].talks \in Seq(Talk)
    BY <1>5, <2>1
  <2>3. offer'[o] = [agency |-> arg.agency, status |-> "PENDING", price |-> arg.price,
                     talks |-> offer'[o].talks]
    BY <1>1, <1>4 DEF MarketInv, Tables
  <2>4. offer'[o] \in OfferRow
    BY <1>3, <2>2, <2>3 DEF OfferRow, OfferStatus, LiveOfferStatus, OpenOfferStatus
  <2> QED
    BY <1>1, <1>4, <1>5, <2>4 DEF MarketInv, Tables
<1>7. Tables' /\ InFlight'
  <2>1. \A x \in OfferIds : offer[x] \in OfferRow => offer'[x] \in OfferRow
    BY <1>5, <1>6
  <2> QED
    BY <1>1, <1>2, <1>6, <2>1, TablesKept DEF MarketInv, Tables
<1>8. LiveAlone'
  <2> SUFFICES ASSUME ~raced', NEW o1 \in OfferIds, NEW o2 \in OfferIds,
                      offer'[o1] # NoOffer, offer'[o2] # NoOffer, offer'[o1].agency = offer'[o2].agency,
                      offer'[o1].status \in LiveOfferStatus, offer'[o2].status \in LiveOfferStatus
               PROVE  o1 = o2
    BY DEF LiveAlone
  <2>1. \A x \in OfferIds \ {o} : offer[x].agency = arg.agency => offer[x].status \notin LiveOfferStatus
    BY <1>2 DEF LiveOffersOf
  <2>2. CASE o1 # o /\ o2 # o
    BY <1>2, <1>5, <2>2 DEF MarketInv, LiveAlone
  <2>3. CASE o1 = o \/ o2 = o
    BY <1>5, <2>1, <2>3
  <2> QED
    BY <2>2, <2>3
<1>9. TalksNumbered'
  <2> SUFFICES ASSUME ~raced', NEW x \in OfferIds, Len(offer'[x].talks) > 0
               PROVE  offer'[x].talks[Len(offer'[x].talks)]
                        = [round |-> Len(offer'[x].talks), price |-> offer'[x].price]
    BY DEF TalksNumbered
  <2>1. CASE x # o
    BY <1>2, <1>5, <2>1 DEF MarketInv, TalksNumbered
  <2>2. CASE x = o
    BY <1>5, <2>2
  <2> QED
    BY <2>1, <2>2
<1>10. TripMatchesDeal'
  <2> SUFFICES ASSUME ~raced'
               PROVE  TripMatchesDeal'
    BY DEF TripMatchesDeal
  <2>1. offer[o].status # "ACCEPTED"
    BY <1>4 DEF NoOffer
  <2>2. trips[o] = <<>>
    BY <1>2, <1>4, <2>1 DEF MarketInv, TripMatchesDeal
  <2>3. plan.confirmed # o
    BY <1>4, <2>2, NoOfferIsNone DEF MarketInv, ConfirmedHasTrip
  <2>4. \A x \in OfferIds : ConfirmPlanWithOffer(x)' => (SelectedOffer.status = "ACCEPTED")'
    BY <1>1, <1>2, <1>5, <2>3, NoOfferIsNone DEF MarketInv, TripMatchesDeal, ConfirmPlanWithOffer, SelectedOffer
  <2>5. \A x \in OfferIds :
          IF offer'[x].status = "ACCEPTED"
          THEN trips'[x] = <<[price |-> offer'[x].price, terms |-> plan'.terms]>>
          ELSE trips'[x] = <<>>
    BY <1>1, <1>2, <1>5, <2>2 DEF MarketInv, TripMatchesDeal
  <2>6. plan'.status = "CONFIRMED" <=> \E x \in OfferIds : trips'[x] # <<>>
    BY <1>1, <1>2 DEF MarketInv, TripMatchesDeal
  <2> QED
    BY <2>4, <2>5, <2>6 DEF TripMatchesDeal
<1>11. ConfirmedHasTrip' /\ FinalKept
  BY <1>1, <1>4, <1>5 DEF MarketInv, ConfirmedHasTrip, FinalKept, Final, NoOffer
<1> QED
  BY <1>7, <1>8, <1>9, <1>10, <1>11 DEF MarketInv

-----------------------------------------------------------------------------
\* Every step of the requests and the beat.
LEMMA MarketSteps == MarketInv /\ [MarketNext]_marketVars => MarketInv' /\ (FinalKept \/ UNCHANGED marketVars)
<1> SUFFICES ASSUME MarketInv, [MarketNext]_marketVars
             PROVE  MarketInv' /\ (FinalKept \/ UNCHANGED marketVars)
  OBVIOUS
<1>1. Workers \subseteq All /\ Beat \in All
  BY DEF All
<1>2. CASE \E w \in Workers : RollBack(w)
  <2>1. PICK w \in Workers : RollBack(w)
    BY <1>2
  <2>2. Tables' /\ InFlight'
    BY <1>1, <2>1, TablesKept DEF RollBack, MarketInv, Tables
  <2> QED
    BY <2>1, <2>2 DEF RollBack, MarketInv, TripMatchesDeal, ConfirmedHasTrip, LiveAlone, TalksNumbered,
       ConfirmPlanWithOffer, SelectedOffer, FinalKept
<1>3. CASE DeadlinePasses \/ UNCHANGED marketVars
  <2>1. UNCHANGED <<plan, offer, trips, req, left, raced>>
    BY <1>3 DEF DeadlinePasses, marketVars
  <2> QED
    BY <2>1 DEF MarketInv, Tables, InFlight, RequestOK, TripMatchesDeal, ConfirmedHasTrip, LiveAlone,
       TalksNumbered, ConfirmPlanWithOffer, SelectedOffer, FinalKept
<1>4. CASE \E w \in Workers :
             \/ CommitSubmit(w) \/ CommitCounter(w) \/ CommitAccept(w)
             \/ CommitReject(w) \/ CommitWithdraw(w)
  BY <1>1, <1>4, SubmitKeeps, CounterKeeps, AcceptKeeps, CloseKeeps
<1>5. CASE CommitExpired \/ \E w \in Workers : CommitUpdate(w) \/ CommitPublish(w) \/ CommitCancel(w)
  BY <1>1, <1>5, PlanCommitsKeep
<1>6. CASE CheckExpiredPlans
  BY <1>6, BeatLoads
<1> QED
  BY <1>2, <1>3, <1>4, <1>5, <1>6, LoadsKeep DEF MarketNext

\* The invariant holds in every reachable state.
LEMMA MarketKeepsInv == MarketSpec => []MarketInv
<1> QED
  BY MarketStarts, MarketSteps, PTL DEF MarketSpec

\* What an acceptance leaves is the deal that was struck (services/offers.py:
\* accept_offer, counter_offer, submit_offer), unless requests raced.
THEOREM DealsAreKept == MarketSpec => []DealsHold
<1>1. MarketInv => DealsHold
  BY InOrder DEF MarketInv, DealsHold
<1> QED
  BY <1>1, MarketKeepsInv, PTL

\* No request in flight, and no beat, reopens a final offer or takes a
\* confirmed plan back (check_expired_plans, cancel_plan, counter_offer).
THEOREM FinalIsFinal == MarketSpec => FinalStaysFinal
<1>1. MarketInv /\ [MarketNext]_marketVars =>
        [raced' \/ /\ \A o \in OfferIds :
                        offer[o].status \in {"ACCEPTED", "REJECTED", "WITHDRAWN"} =>
                          offer'[o] = offer[o]
                   /\ plan.status = "CONFIRMED" => plan'.status = "CONFIRMED"]_marketVars
  BY MarketSteps DEF FinalKept, Final
<1> QED
  BY <1>1, MarketKeepsInv, PTL DEF MarketSpec, FinalStaysFinal

-----------------------------------------------------------------------------
(***************************************************************************)
(* The types, here and in the run that steps in Marketplace, Catalogue and *)
(* Mail.                                                                   *)
(***************************************************************************)
MarketRest ==
  /\ due \in BOOLEAN /\ left \in 0..MaxRequests /\ raced \in BOOLEAN
  /\ \A w \in All : req[w] # Idle => req[w].offer \in OfferRow \cup {NoOffer}

\* A request that starts has loaded a row, or none.
LEMMA LoadTyped ==
  ASSUME MarketInv, MarketRest, NEW w \in All, NEW op, NEW o \in OfferIds \cup {None}, NEW arg,
         Load(w, op, o, arg)
  PROVE  MarketRest'
<1>1. Row(o) \in OfferRow \cup {NoOffer}
  BY DEF Row, MarketInv, Tables
<1>2. /\ req' = [req EXCEPT ![w] = [op |-> op, o |-> o, arg |-> arg, plan |-> plan, offer |-> Row(o)]]
      /\ UNCHANGED <<due, raced>>
  BY DEF Load
<1>3. left' \in 0..MaxRequests
  BY MarketAssumption DEF Load, MarketRest
<1>4. \A v \in All : req'[v] # Idle => req'[v].offer \in OfferRow \cup {NoOffer}
  <2>1. \A v \in All : req'[v] = req[v] \/ req'[v].offer = Row(o)
    BY <1>2 DEF MarketInv, Tables
  <2> QED
    BY <1>1, <2>1 DEF MarketRest
<1> QED
  BY <1>2, <1>3, <1>4 DEF MarketRest

\* One that ends, with a commit or without, leaves the others.
LEMMA EndTyped ==
  ASSUME MarketInv, MarketRest, NEW w \in All, req' = [req EXCEPT ![w] = Idle], left' = left,
         due' \in BOOLEAN, raced' \in BOOLEAN
  PROVE  MarketRest'
<1>1. \A v \in All : req'[v] = req[v] \/ req'[v] = Idle
  BY DEF MarketInv, Tables
<1> QED
  BY <1>1 DEF MarketRest

\* Every step keeps the rest of the types.
LEMMA MarketRestKept ==
  ASSUME MarketInv, MarketRest, MarketNext \/ UNCHANGED marketVars
  PROVE  MarketRest'
<1>1. None \in OfferIds \cup {None} /\ Workers \subseteq All /\ Beat \in All
  BY DEF All
<1>2. ASSUME NEW w \in Workers,
             \/ \E a \in Agencies, m \in BOOLEAN : SubmitOffer(w, a, OpeningPrice, m)
             \/ \E t \in Terms : UpdatePlan(w, t)
             \/ PublishPlan(w) \/ CancelPlan(w)
      PROVE  MarketRest'
  BY <1>1, <1>2, LoadTyped DEF SubmitOffer, UpdatePlan, PublishPlan, CancelPlan
<1>3. ASSUME NEW w \in Workers, NEW o \in OfferIds,
             \/ \E p \in Prices : CounterOffer(w, o, p)
             \/ AcceptOffer(w, o) \/ RejectOffer(w, o) \/ WithdrawOffer(w, o)
      PROVE  MarketRest'
  BY <1>1, <1>3, LoadTyped DEF CounterOffer, AcceptOffer, RejectOffer, WithdrawOffer
<1>4. ASSUME CheckExpiredPlans PROVE MarketRest'
  BY <1>1, <1>4, LoadTyped DEF CheckExpiredPlans
<1>5. ASSUME NEW w \in All, NEW also, Done(w, also), due' \in {due, FALSE} PROVE MarketRest'
  <2>1. raced' \in BOOLEAN
    BY <1>5 DEF Done
  <2>2. due' \in BOOLEAN
    BY <1>5 DEF MarketRest
  <2> QED
    BY <1>5, <2>1, <2>2, EndTyped DEF Done
<1>6. ASSUME NEW w \in Workers, CommitSubmit(w) PROVE MarketRest'
  <2>1. Done(w, LiveOffersOf(req[w].arg.agency) # req[w].arg.live) /\ due' = due
    BY <1>6 DEF CommitSubmit
  <2> QED
    BY <1>1, <1>5, <2>1
<1>7. ASSUME NEW w \in Workers,
             \/ CommitCounter(w) \/ CommitAccept(w) \/ CommitReject(w) \/ CommitWithdraw(w)
             \/ CommitUpdate(w) \/ CommitPublish(w) \/ CommitCancel(w)
      PROVE  MarketRest'
  <2>1. Done(w, FALSE) /\ due' \in {due, FALSE}
    BY <1>7 DEF CommitCounter, CommitAccept, CommitReject, CommitWithdraw, CommitUpdate,
                CommitPublish, CommitCancel
  <2> QED
    BY <1>1, <1>5, <2>1
<1>8. ASSUME CommitExpired PROVE MarketRest'
  BY <1>1, <1>5, <1>8 DEF CommitExpired
<1>9. ASSUME NEW w \in Workers, RollBack(w) PROVE MarketRest'
  BY <1>1, <1>9, EndTyped DEF RollBack, MarketRest
<1>10. CASE DeadlinePasses \/ UNCHANGED marketVars
  BY <1>10 DEF DeadlinePasses, marketVars, MarketRest
<1> QED
  BY <1>2, <1>3, <1>4, <1>6, <1>7, <1>8, <1>9, <1>10 DEF MarketNext

MarketplaceInv == MarketInv /\ MarketRest /\ CatalogueInv /\ MailInv

\* What the invariants say of the types.
LEMMA MarketplaceTyped == MarketplaceInv => MarketplaceTypeOK
<1> SUFFICES ASSUME MarketplaceInv PROVE MarketplaceTypeOK
  OBVIOUS
<1>1. MarketTypeOK
  <2>1. \A o \in OfferIds : \A i \in DOMAIN trips[o] : trips[o][i] \in Trip
    BY DEF MarketplaceInv, MarketInv, Tables
  <2>2. \A w \in All : req[w] # Idle => req[w].plan \in PlanRow
    BY DEF MarketplaceInv, MarketInv, InFlight, RequestOK
  <2> QED
    BY <2>1, <2>2 DEF MarketTypeOK, MarketplaceInv, MarketInv, Tables, MarketRest, All
<1>2. CatalogueTypeOK
  <2>1. ASSUME NEW g \in DOMAIN groups
        PROVE  groups[g].size \in Nat /\ \A i \in DOMAIN groups[g].rows : groups[g].rows[i] \in Member
    <3>1. groups[g] \in GroupRec
      BY DEF MarketplaceInv, CatalogueInv, CatalogueTables
    <3> QED
      BY <3>1 DEF GroupRec
  <2> QED
    BY <2>1 DEF MarketplaceInv, CatalogueInv, CatalogueTables, CatalogueTypeOK
<1>3. MailTypeOK
  BY DEF MarketplaceInv, MailInv
<1> QED
  BY <1>1, <1>2, <1>3 DEF MarketplaceTypeOK

\* Every state of the run is well typed, for any agencies, travellers, rows and
\* requests.
THEOREM MarketplaceTypesHold == Spec => []MarketplaceTypeOK
<1>1. Init => MarketplaceInv
  <2>1. MarketInit => MarketRest
    <3> SUFFICES ASSUME MarketInit PROVE MarketRest
      OBVIOUS
    <3>1. due \in BOOLEAN /\ raced \in BOOLEAN
      BY DEF MarketInit
    <3>2. left \in 0..MaxRequests
      BY MarketAssumption DEF MarketInit
    <3>3. \A w \in All : req[w] = Idle
      BY DEF MarketInit, All
    <3> QED
      BY <3>1, <3>2, <3>3 DEF MarketRest
  <2> QED
    BY <2>1, MarketStarts, CatalogueStarts, MailStarts DEF Init, MarketplaceInv
<1>2. MarketplaceInv /\ [Next]_vars => MarketplaceInv'
  <2> SUFFICES ASSUME MarketplaceInv, [Next]_vars PROVE MarketplaceInv'
    OBVIOUS
  <2>1. /\ MarketNext \/ UNCHANGED marketVars
        /\ CatalogueNext \/ UNCHANGED catalogueVars
        /\ MailNext \/ UNCHANGED mailVars
    BY DEF Next, vars
  <2> QED
    BY <2>1, MarketSteps, MarketRestKept, CatalogueSteps, MailSteps DEF MarketplaceInv
<1> QED
  BY <1>1, <1>2, MarketplaceTyped, PTL DEF Spec
=============================================================================
