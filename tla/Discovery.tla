----------------------------- MODULE Discovery -----------------------------
(***************************************************************************)
(* The listings travellers and agencies browse (services/discover.py): the *)
(* feed and the trending list with their Redis entries, the search and the *)
(* feed of what one follows; the social feeds and profiles that list them  *)
(* too (services/social.py).  Destination, budget and text filters select  *)
(* rows alike for every kind of viewer and are left out.                   *)
(***************************************************************************)
EXTENDS Integers, Sequences, FiniteSets, SequencesExt, Functions

CONSTANTS Stock,      \* every plan and package, newest first: a sequence of
                      \* [kind, type, owner, price, tiers]
          PageSizes, Viewers,
          AgencyViewers,   \* those of them that are agencies
          Nobody

VARIABLES live,       \* listings that are OPEN or CONFIRMING
          confirmed,  \* listings that are CONFIRMED
          joined,     \* active members of a listing's group
          follows,    \* pairs of viewer and owner
          redis,      \* the entry last filled, or Nobody (bound: one entry)
          shown       \* the answer on its way to the viewer, if any

discoveryVars == <<live, confirmed, joined, follows, redis, shown>>

Listings == DOMAIN Stock

ASSUME DiscoveryAssumption ==
  /\ Len(Stock) \in Nat /\ Listings = 1..Len(Stock)
  /\ \A i \in Listings :
       /\ Stock[i].kind \in {"plan", "package"} /\ Stock[i].price \in Nat
       /\ Stock[i].kind = "package" => Stock[i].type = "STANDARD"
       /\ \A t \in Stock[i].tiers : t.minPax \in Int /\ t.price \in Int
  /\ PageSizes \subseteq Nat /\ Nobody \notin {"plan", "package"}

Agency(v) == v \in AgencyViewers
MaxJoined == 2        \* bound on joined
MaxConfirmed == 1     \* bound on confirmed
NoEntry == [key |-> <<>>, page |-> <<>>]
NoAnswer == [via |-> "none", viewer |-> Nobody, page |-> <<>>, size |-> 0,
             origin |-> Nobody, fresh |-> FALSE]

DiscoveryTypeOK ==
  /\ live \subseteq Listings /\ confirmed \subseteq Listings \ live
  /\ joined \in [Listings -> 0..MaxJoined]
  /\ follows \subseteq Viewers \X {Stock[i].owner : i \in Listings}
  /\ shown.via \in {"none", "feed", "trending"}
  /\ \A i \in DOMAIN shown.page : shown.page[i].id \in Listings

(***************************************************************************)
(* Prices: the highest tier whose head count is reached, if its numbers    *)
(* are positive; struck through only when the tier is cheaper.             *)
(***************************************************************************)
ActivePackagePrice(base, tiers, count) ==
  LET reached == {t \in tiers : t.minPax > 0 /\ t.price > 0 /\ count >= t.minPax}
      active == CHOOSE t \in reached : \A u \in reached : t.minPax >= u.minPax
      price == IF reached = {} THEN base ELSE active.price
  IN  [price |-> price, struck |-> IF price < base THEN base ELSE 0]

\* What checkout asks a member of a package's group to pay.
CheckoutPrice(i) == Stock[i].price

Card(i) ==
  IF Stock[i].kind = "plan" THEN [id |-> i, price |-> Stock[i].price, struck |-> 0]
  ELSE LET active == ActivePackagePrice(Stock[i].price, Stock[i].tiers, joined[i])
       IN  [id |-> i, price |-> active.price, struck |-> active.struck]

(***************************************************************************)
(* Queries.                                                                *)
(***************************************************************************)
Least(m, n) == IF n < m THEN n ELSE m

\* How many of a set are newer than a listing.
Newer(set, i) == Cardinality({j \in set : j < i})

Newest(set, n) ==
  [k \in 1..Least(n, Cardinality(set)) |-> CHOOSE i \in set : Newer(set, i) = k - 1]

Trim(seq, n) == [k \in 1..Least(n, Len(seq)) |-> seq[k]]

\* One of each in turn, then what is left of the longer.
Alternate(s, t) ==
  LET both == Least(Len(s), Len(t)) IN
  [k \in 1..(Len(s) + Len(t)) |->
     IF k > 2 * both THEN IF Len(s) > both THEN s[k - both] ELSE t[k - both]
     ELSE IF k % 2 = 1 THEN s[(k + 1) \div 2] ELSE t[k \div 2]]

Of(kind) == {i \in live : Stock[i].kind = kind}
PlansFor(agency, type) ==
  {i \in Of("plan") : IF agency THEN type \in {Nobody, Stock[i].type} ELSE Stock[i].type = "STANDARD"}
PackagesFor(agency) == IF agency THEN {} ELSE Of("package")

\* Mutant: each kind of listing gets half of the page.
FeedHalves(agency, origin, type, n) ==
  LET plans == IF origin = "package" THEN <<>> ELSE Newest(PlansFor(agency, type), n \div 2)
      pkgs == IF origin = "plan" THEN <<>> ELSE Newest(PackagesFor(agency), n \div 2)
  IN  Trim(Alternate(plans, pkgs), n)

FeedPage(agency, origin, type, n) ==
  LET plans == IF origin = "package" THEN <<>> ELSE Newest(PlansFor(agency, type), n)
      pkgs == IF origin = "plan" THEN <<>> ELSE Newest(PackagesFor(agency), n)
  IN  Trim(IF origin = Nobody THEN Alternate(plans, pkgs) ELSE plans \o pkgs, n)

FollowingPage(v, n) ==
  Newest({i \in live : <<v, Stock[i].owner>> \in follows}, n)

Cards(ids) == [k \in DOMAIN ids |-> Card(ids[k])]

(***************************************************************************)
(* Requests.  Those that go by Redis are actions, as they may fill the     *)
(* entry: an empty list that was cached counts as a miss.                  *)
(***************************************************************************)
Answer(v, via, page, n, origin, fresh) ==
  [via |-> via, viewer |-> v, page |-> page, size |-> n, origin |-> origin, fresh |-> fresh]

ReadThrough(v, via, key, page, n, origin) ==
  /\ \/ /\ redis.key = key /\ redis.page # <<>>
        /\ shown' = Answer(v, via, redis.page, n, origin, FALSE)
        /\ redis' = redis
     \/ /\ redis.key # key \/ redis.page = <<>>
        /\ shown' = Answer(v, via, page, n, origin, TRUE)
        /\ redis' = [key |-> key, page |-> page]
  /\ UNCHANGED <<live, confirmed, joined, follows>>

GetDiscoverFeed(v, origin, type, n) ==
  ReadThrough(v, "feed", <<"feed", origin, type, n, Agency(v)>>,
              Cards(FeedPage(Agency(v), origin, type, n)), n, origin)

\* The key has no page size; an agency's list is empty.
GetTrending(v, n) ==
  /\ ~Agency(v)
  /\ ReadThrough(v, "trending", <<"trending", Nobody, Nobody, 0, FALSE>>,
                 Cards(Newest(PackagesFor(FALSE), n)), n, Nobody)

(***************************************************************************)
(* The others only read: what they would answer now.                       *)
(***************************************************************************)
Search(v, origin, n) ==
  Answer(v, "search", Cards(FeedPage(Agency(v), origin, Nobody, n)), n, origin, TRUE)

GetFollowingFeed(v, n) == Answer(v, "following", Cards(FollowingPage(v, n)), n, Nobody, TRUE)

\* Mutant: each kind of listing gets half of the feed.
BuildHalves(set, n) ==
  LET newest(kind) == Newest({i \in set : Stock[i].kind = kind}, n \div 2)
  IN  Newest(ToSet(newest("plan")) \cup ToSet(newest("package")), n)

\* services/social.py has feeds and profiles of its own, with what is
\* CONFIRMED, and a package at its own price.
BuildFeed(set, n) ==
  LET newest(kind) == Newest({i \in set : Stock[i].kind = kind}, n)
  IN  Newest(ToSet(newest("plan")) \cup ToSet(newest("package")), n)

FeedItems(ids) == [k \in DOMAIN ids |-> [id |-> ids[k], price |-> Stock[ids[k]].price, struck |-> 0]]

OnSocial == live \cup confirmed
OfOwners(owners) == {i \in OnSocial : Stock[i].owner \in owners}
FollowedBy(v) == {f[2] : f \in {g \in follows : g[1] = v}}

GetFeed(v, n) == Answer(v, "social", FeedItems(BuildFeed(OnSocial, n)), n, Nobody, TRUE)
GetSocialFollowingFeed(v, n) ==
  Answer(v, "circle", FeedItems(BuildFeed(OfOwners(FollowedBy(v)), n)), n, Nobody, TRUE)
GetPublicProfile(v, owner, n) ==
  Answer(v, "profile", FeedItems(BuildFeed(OfOwners({owner}), n)), n, owner, TRUE)

Reads(v, n) ==
  {Search(v, origin, n) : origin \in {Nobody, "plan", "package"}}
    \cup {GetFollowingFeed(v, n), GetFeed(v, n), GetSocialFollowingFeed(v, n)}
    \cup {GetPublicProfile(v, Stock[i].owner, n) : i \in Listings}

(***************************************************************************)
(* What changes underneath: publications clear discover:*, nothing else    *)
(* does.                                                                   *)
(***************************************************************************)
Publish(i) ==
  /\ live' = live \cup {i} /\ confirmed' = confirmed \ {i}
  /\ redis' = NoEntry
  /\ UNCHANGED <<shown, joined, follows>>

CloseListing(i) ==
  /\ live' = live \ {i} /\ confirmed' = confirmed \ {i}
  /\ UNCHANGED <<shown, joined, follows, redis>>

\* Everybody has paid.
ConfirmListing(i) ==
  /\ Cardinality(confirmed) < MaxConfirmed
  /\ i \in live /\ live' = live \ {i} /\ confirmed' = confirmed \cup {i}
  /\ UNCHANGED <<shown, joined, follows, redis>>

\* Only of a package with a tier to reach: no other card depends on it.
JoinTrip(i) ==
  /\ i \in live /\ (\E t \in Stock[i].tiers : t.minPax > 0) /\ joined[i] < MaxJoined
  /\ joined' = [joined EXCEPT ![i] = @ + 1]
  /\ UNCHANGED <<shown, live, confirmed, follows, redis>>

FollowOwner(v, i) ==
  /\ ~Agency(v)
  /\ follows' = follows \cup {<<v, Stock[i].owner>>}
  /\ UNCHANGED <<shown, live, confirmed, joined, redis>>

EntryExpires ==
  /\ redis' = NoEntry
  /\ UNCHANGED <<shown, live, confirmed, joined, follows>>

DiscoveryInit ==
  /\ live = {} /\ confirmed = {} /\ joined = [i \in Listings |-> 0] /\ follows = {}
  /\ redis = NoEntry
  /\ shown = NoAnswer

Deliver ==
  /\ shown # NoAnswer
  /\ shown' = NoAnswer
  /\ UNCHANGED <<live, confirmed, joined, follows, redis>>

DiscoveryNext ==
  \/ /\ shown = NoAnswer
     /\ \/ \E v \in Viewers, n \in PageSizes :
             \/ \E origin \in {Nobody, "plan", "package"},
                   type \in {Nobody} \cup {"CORPORATE" : x \in {v} \cap AgencyViewers} :
                  GetDiscoverFeed(v, origin, type, n)      \* a traveller's type is not looked at
             \/ GetTrending(v, n)
        \/ \E i \in Listings :
             \/ Publish(i) \/ ConfirmListing(i) \/ CloseListing(i) \/ JoinTrip(i)
             \/ \E v \in Viewers : FollowOwner(v, i)
        \/ EntryExpires
  \/ Deliver

DiscoverySpec == DiscoveryInit /\ [][DiscoveryNext]_discoveryVars

(***************************************************************************)
(* Properties.                                                             *)
(***************************************************************************)
\* While an answer is on its way nothing moves, and the reads are as before it;
\* without a listing they are empty.
Answers ==
  IF shown # NoAnswer THEN {shown}
  ELSE UNION {Reads(v, n) : v \in IF OnSocial = {} THEN {} ELSE Viewers, n \in PageSizes}
Ids(a) == [k \in DOMAIN a.page |-> a.page[k].id]
Showing(a) == ToSet(Ids(a))
CorporateIn(a) == {i \in Showing(a) : Stock[i].type = "CORPORATE"}

\* Feed, trending list and search keep the audiences apart, from the cache
\* too: no package for an agency, no corporate plan for a traveller.
AudienceKept(a) ==
  a.via \in {"feed", "trending", "search"} =>
    IF Agency(a.viewer) THEN \A i \in Showing(a) : Stock[i].kind = "plan" ELSE CorporateIn(a) = {}

\* A page of the feed or the search that was read just now lists nothing
\* twice and is as full as the stock allows: a kind of listing that is scarce
\* leaves its room to the other (discover.py:228-232).
Eligible(origin) ==
  (IF origin = "package" THEN {} ELSE PlansFor(FALSE, Nobody))
    \cup (IF origin = "plan" THEN {} ELSE PackagesFor(FALSE))

PageFills(a) ==
  (a.fresh /\ a.via \in {"feed", "search"} /\ ~Agency(a.viewer)) =>
    LET stock == Cardinality(Eligible(a.origin)) IN
    /\ IsInjective(Ids(a))
    /\ Len(a.page) = IF stock < a.size THEN stock ELSE a.size

\* A package's card shows what checkout will charge, or shows that price struck
\* through, or a dearer one: checkout charges the package's own price and does
\* not know of the tiers a card's price comes from.
ShownPriceIsCharged(a) ==
  \A c \in ToSet(a.page) : Stock[c.id].kind = "package" =>
    /\ c.struck # 0 => c.struck = CheckoutPrice(c.id) /\ c.price < c.struck
    /\ c.struck = 0 => c.price >= CheckoutPrice(c.id)
    /\ (\A t \in Stock[c.id].tiers : t.minPax <= 0 \/ t.price <= 0) =>
         c.price = CheckoutPrice(c.id)

\* The social feed fetches so many plans and so many packages and merges them:
\* it leaves out a listing only if it is full of newer ones, and a profile one
\* of its owner's (_build_feed, get_public_profile).
SocialShowsNewest(a) ==
  LET wanted == CASE a.via = "social" -> OnSocial
                  [] a.via = "profile" -> OfOwners({a.origin})
                  [] OTHER -> {}
  IN \A i \in wanted \ Showing(a) : Len(a.page) = a.size /\ \A k \in Showing(a) : k < i

\* The four together: what a list shows belongs there, all of it, at the price
\* to pay (get_discover_feed, get_trending, search_discover, _build_feed).
ListingsHold ==
  \A a \in Answers :
    AudienceKept(a) /\ PageFills(a) /\ ShownPriceIsCharged(a) /\ SocialShowsNewest(a)
=============================================================================
