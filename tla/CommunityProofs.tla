-------------------------- MODULE CommunityProofs --------------------------
(***************************************************************************)
(* Follows and feeds, the agency and its Route account, the chat, and the  *)
(* counters of a post, for any users, rows and requests that overlap.      *)
(***************************************************************************)
EXTENDS MCCommunity, TLAPS, SequenceTheorems, FunctionTheorems, FiniteSetTheorems,
        WellFoundedInduction

Typed ==
  /\ IsFiniteSet(follows)
  /\ \A f \in follows : f.by \in Travelers /\ f.whom \in Targets
  /\ blocks \subseteq Travelers \X Travelers
  /\ DOMAIN link = Links
  /\ \A l \in Links :
       /\ link[l].kind = "follow" =>
            link[l].by \in Travelers /\ link[l].whom \in Targets /\ link[l].rows = {}
       /\ link[l].kind = "block" => link[l].by \in Travelers /\ link[l].whom \in Travelers

Pair(f) == {f.by, f.whom}

\* No key says so: of two rows of one pair, one missed the other.
OneRowEach ==
  \A f, g \in follows :
    f.by = g.by /\ f.whom = g.whom /\ f.id \notin doubled /\ g.id \notin doubled => f = g

\* A block that is being made knows every row it has to cut.
BlocksKnowRows ==
  \A l \in Links : link[l].kind = "block" =>
    \A f \in follows : f.id \notin over /\ Pair(f) = Pair(link[l]) => f \in link[l].rows

BlockCuts == \A b \in blocks : \A f \in follows : f.id \notin over => Pair(f) # {b[1], b[2]}

SocialInv == Typed /\ OneRowEach /\ BlocksKnowRows /\ BlockCuts

\* What the invariant says of blocks gives the property.
LEMMA CutsFollows == BlockCuts => BlocksCutFollows
<1> SUFFICES ASSUME BlockCuts, NEW b \in blocks,
                    NEW f \in Between(b[1], b[2]) \cup Between(b[2], b[1])
             PROVE  f.id \in over
  BY DEF BlocksCutFollows
<1>1. f \in follows /\ Pair(f) = {b[1], b[2]}
  BY DEF Between, Pair
<1> QED
  BY <1>1 DEF BlockCuts

\* Equal pairs have equal members.
LEMMA TwoOfTwo == \A a, b, c, d : {a, b} = {c, d} => (a = c /\ b = d) \/ (a = d /\ b = c)
  BY Zenon

\* Rows that differ in who follows are as many as those who follow.
LEMMA CountedOnce == Typed /\ OneRowEach => FollowersCounted
<1> SUFFICES ASSUME Typed, OneRowEach, NEW v \in Targets,
                    \A f \in follows : f.whom = v => f.id \notin doubled
             PROVE  FollowerCount(v) = Cardinality({f.by : f \in {g \in follows : g.whom = v}})
  BY DEF FollowersCounted
<1> DEFINE rows == {f \in follows : f.whom = v}
           people == {f.by : f \in rows}
           by == [f \in rows |-> f.by]
<1>1. IsFiniteSet(rows)
  BY FS_Subset DEF Typed
<1>2. \A f, g \in rows : f.by = g.by => f = g
  BY DEF Typed, OneRowEach
<1>3. by \in Bijection(rows, people)
  <2>1. by \in [rows -> people]
    OBVIOUS
  <2>2. \A f, g \in rows : by[f] = by[g] => f = g
    BY <1>2
  <2>3. \A u \in people : \E f \in rows : by[f] = u
    OBVIOUS
  <2> QED
    BY <2>1, <2>2, <2>3 DEF Bijection, Injection, Surjection, IsInjective
<1> HIDE DEF by
<1>4. Cardinality(rows) = Cardinality(people)
  BY <1>1, <1>3, FS_Bijection DEF ExistsBijection
<1> QED
  BY <1>4 DEF FollowerCount

\* Nobody follows or blocks anybody.
LEMMA SocialStarts == SocialInit => SocialInv
<1> SUFFICES ASSUME SocialInit
             PROVE  SocialInv
  OBVIOUS
<1>1. IsFiniteSet({})
  BY FS_EmptySet
<1>2. \A l \in Links : link[l].kind = "none"
  BY DEF SocialInit, NoLink
<1> QED
  BY <1>1, <1>2 DEF SocialInit, SocialInv, Typed, OneRowEach, BlocksKnowRows, BlockCuts

\* A request that starts: a block knows the rows between the two.
LEMMA RequestKeeps ==
  ASSUME SocialInv, NEW l \in Links, NEW j, link' = [link EXCEPT ![l] = j],
         UNCHANGED <<follows, blocks, histories>>,
         j.kind = "follow" => j.by \in Travelers /\ j.whom \in Targets /\ j.rows = {},
         j.kind = "block" =>
           /\ j.by \in Travelers /\ j.whom \in Travelers
           /\ j.rows = Between(j.by, j.whom) \cup Between(j.whom, j.by)
  PROVE  SocialInv'
<1>1. \A k \in Links : link'[k] = IF k = l THEN j ELSE link[k]
  BY DEF SocialInv, Typed
<1>2. UNCHANGED <<doubled, over>>
  BY DEF histories
<1>3. Typed'
  BY <1>1 DEF SocialInv, Typed
<1>4. OneRowEach' /\ BlockCuts'
  BY <1>2 DEF SocialInv, OneRowEach, BlockCuts, Pair
<1>5. BlocksKnowRows'
  <2> SUFFICES ASSUME NEW k \in Links, link'[k].kind = "block",
                      NEW f \in follows, f.id \notin over, Pair(f) = Pair(link'[k])
               PROVE  f \in link'[k].rows
    BY <1>2 DEF BlocksKnowRows, Pair
  <2>1. CASE k = l
    <3>1. {f.by, f.whom} = {j.by, j.whom}
      BY <1>1, <2>1 DEF Pair
    <3>2. (f.by = j.by /\ f.whom = j.whom) \/ (f.by = j.whom /\ f.whom = j.by)
      BY <3>1, TwoOfTwo
    <3> QED
      BY <1>1, <2>1, <3>2 DEF Between
  <2>2. CASE k # l
    BY <1>1, <2>2 DEF SocialInv, BlocksKnowRows
  <2> QED
    BY <2>1, <2>2
<1> QED
  BY <1>3, <1>4, <1>5 DEF SocialInv

\* A request that ends and takes rows away.
LEMMA CutKeeps ==
  ASSUME SocialInv, NEW l \in Links, Answered(l), follows' \subseteq follows,
         UNCHANGED histories, blocks' \subseteq Travelers \X Travelers,
         \A b \in blocks' : b \in blocks \/
           \A f \in follows' : f.id \notin over => Pair(f) # {b[1], b[2]}
  PROVE  SocialInv'
<1>1. \A k \in Links : link'[k] = link[k] \/ link'[k].kind = "none"
  BY DEF SocialInv, Typed, Answered, NoLink
<1>2. UNCHANGED <<doubled, over>>
  BY DEF histories
<1>3. IsFiniteSet(follows')
  BY FS_Subset DEF SocialInv, Typed
<1>4. Typed'
  BY <1>1, <1>3 DEF SocialInv, Typed, Answered
<1>5. OneRowEach'
  BY <1>2 DEF SocialInv, OneRowEach
<1>6. BlocksKnowRows'
  BY <1>1, <1>2 DEF SocialInv, BlocksKnowRows, Pair
<1>7. BlockCuts'
  BY <1>2 DEF SocialInv, BlockCuts, Pair
<1> QED
  BY <1>4, <1>5, <1>6, <1>7 DEF SocialInv

\* A block that commits leaves no row between the two.
LEMMA CommitBlockKeeps ==
  ASSUME SocialInv, NEW l \in Links, CommitBlock(l)
  PROVE  SocialInv'
<1> DEFINE j == link[l]
<1>1. j.kind = "block" /\ Answered(l) /\ UNCHANGED histories
  BY DEF CommitBlock
<1>2. CASE UNCHANGED <<follows, blocks>>
  BY <1>1, <1>2, CutKeeps DEF SocialInv, Typed
<1>3. CASE follows' = follows \ j.rows /\ blocks' \subseteq blocks \cup {<<j.by, j.whom>>}
  <2>1. ASSUME NEW f \in follows', f.id \notin over
        PROVE  Pair(f) # Pair(j)
    BY <1>1, <1>3, <2>1 DEF SocialInv, BlocksKnowRows
  <2>2. ASSUME NEW b \in blocks', b \notin blocks, NEW f \in follows', f.id \notin over
        PROVE  Pair(f) # {b[1], b[2]}
    <3>1. {b[1], b[2]} = Pair(j)
      BY <1>3, <2>2 DEF Pair
    <3> QED
      BY <2>1, <2>2, <3>1
  <2>3. blocks' \subseteq Travelers \X Travelers
    BY <1>1, <1>3 DEF SocialInv, Typed
  <2> QED
    BY <1>1, <1>3, <2>2, <2>3, CutKeeps
<1> QED
  BY <1>2, <1>3 DEF CommitBlock

\* A follow that commits adds the row of its two.
LEMMA CommitFollowKeeps ==
  ASSUME SocialInv, NEW l \in Links, CommitFollow(l)
  PROVE  SocialInv'
<1> DEFINE u == link[l].by
           v == link[l].whom
           row == [id |-> link[l].id, by |-> u, whom |-> v]
<1>1. /\ link[l].kind = "follow" /\ Answered(l)
      /\ follows' = follows \cup {row}
      /\ doubled' = IF Between(u, v) \subseteq link[l].rows THEN doubled ELSE doubled \cup {link[l].id}
      /\ over' = IF Blocked(u, v) \/ BlockComing(u, v) THEN over \cup {link[l].id} ELSE over
      /\ blocks' = blocks
  BY DEF CommitFollow
<1>2. u \in Travelers /\ v \in Targets /\ link[l].rows = {}
  BY <1>1 DEF SocialInv, Typed
<1>3. \A k \in Links : link'[k] = link[k] \/ link'[k].kind = "none"
  BY <1>1 DEF SocialInv, Typed, Answered, NoLink
<1>4. row.by = u /\ row.whom = v /\ row.id = link[l].id
  OBVIOUS
<1> HIDE DEF row
<1>5. IsFiniteSet(follows')
  BY <1>1, FS_AddElement DEF SocialInv, Typed
<1>6. Typed'
  BY <1>1, <1>2, <1>3, <1>4, <1>5 DEF SocialInv, Typed, Answered
<1>7. OneRowEach'
  <2> SUFFICES ASSUME NEW f \in follows', NEW g \in follows',
                      f.by = g.by, f.whom = g.whom, f.id \notin doubled', g.id \notin doubled'
               PROVE  f = g
    BY DEF OneRowEach
  <2>1. f.id \notin doubled /\ g.id \notin doubled
    BY <1>1
  <2>2. CASE f \in follows /\ g \in follows
    BY <2>1, <2>2 DEF SocialInv, OneRowEach
  <2>3. ASSUME NEW h \in follows, h.by = u, h.whom = v
        PROVE  row.id \in doubled'
    BY <1>1, <1>2, <1>4, <2>3 DEF Between
  <2> QED
    BY <1>1, <1>4, <2>2, <2>3
<1>8. over \subseteq over' /\ Pair(row) = {u, v}
  BY <1>1, <1>4 DEF Pair
<1>9. BlocksKnowRows'
  <2> SUFFICES ASSUME NEW k \in Links, link'[k].kind = "block",
                      NEW f \in follows', f.id \notin over', Pair(f) = Pair(link'[k])
               PROVE  f \in link'[k].rows
    BY DEF BlocksKnowRows, Pair
  <2>1. link'[k] = link[k]
    BY <1>3
  <2>2. Pair(link[k]) = {u, v} => row.id \in over'
    BY <1>1, <1>4, <2>1 DEF BlockComing, Pair
  <2>3. f \in follows
    BY <1>1, <1>8, <2>1, <2>2
  <2> QED
    BY <1>8, <2>1, <2>3 DEF SocialInv, BlocksKnowRows
<1>10. BlockCuts'
  <2> SUFFICES ASSUME NEW b \in blocks, NEW f \in follows', f.id \notin over'
               PROVE  Pair(f) # {b[1], b[2]}
    BY <1>1 DEF BlockCuts, Pair
  <2>1. CASE f \in follows
    BY <1>8, <2>1 DEF SocialInv, BlockCuts
  <2>2. CASE f = row
    <3>1. SUFFICES ASSUME {b[1], b[2]} = {u, v}
                   PROVE  FALSE
      BY <1>8, <2>2
    <3>2. ~Blocked(u, v)
      BY <1>1, <1>4, <2>2
    <3>3. b = <<b[1], b[2]>>
      BY DEF SocialInv, Typed
    <3>4. b = <<u, v>> \/ b = <<v, u>>
      BY <3>1, <3>3
    <3> QED
      BY <3>2, <3>4 DEF Blocked
  <2> QED
    BY <1>1, <2>1, <2>2
<1> QED
  BY <1>6, <1>7, <1>9, <1>10 DEF SocialInv

\* Every step of the requests keeps the invariant.
LEMMA SocialSteps == SocialInv /\ [SocialNext]_socialVars => SocialInv'
<1> SUFFICES ASSUME SocialInv, [SocialNext]_socialVars
             PROVE  SocialInv'
  OBVIOUS
<1>1. ASSUME NEW l \in Links, NEW u \in Travelers, NEW v \in Targets,
             FollowUser(l, u, v) \/ UnfollowUser(l, u, v)
      PROVE  SocialInv'
  <2>1. CASE FollowUser(l, u, v)
    BY <2>1, RequestKeeps DEF FollowUser, Following, Follows, Request
  <2>2. CASE UnfollowUser(l, u, v)
    BY <2>2, RequestKeeps DEF UnfollowUser, Request
  <2> QED
    BY <1>1, <2>1, <2>2
<1>2. ASSUME NEW l \in Links, NEW u \in Travelers, NEW v \in Travelers, BlockUser(l, u, v)
      PROVE  SocialInv'
  BY <1>2, RequestKeeps DEF BlockUser, Request
<1>3. ASSUME NEW l \in Links, CommitUnfollow(l)
      PROVE  SocialInv'
  BY <1>3, CutKeeps DEF CommitUnfollow, SocialInv, Typed
<1>4. CASE \E u, v \in Travelers : UnblockUser(u, v)
  <2>1. /\ blocks' \subseteq blocks /\ UNCHANGED <<follows, link, doubled, over>>
    BY <1>4 DEF UnblockUser, histories
  <2> QED
    BY <2>1 DEF SocialInv, Typed, OneRowEach, BlocksKnowRows, BlockCuts, Pair
<1>5. CASE \/ \E u \in Travelers : CreatePost(u)
           \/ \E p \in posts : PostDeleted(p) \/ SavePost(p) \/ UnsavePost(p)
           \/ \E kind \in {"all", "following", "saved"} : OpenFeed(kind)
           \/ CursorPage \/ CloseFeed \/ UNCHANGED socialVars
  <2>1. UNCHANGED <<follows, blocks, link, doubled, over>>
    BY <1>5 DEF CreatePost, PostDeleted, SavePost, UnsavePost, OpenFeed, CursorPage, CloseFeed,
                socialVars, histories
  <2> QED
    BY <2>1 DEF SocialInv, Typed, OneRowEach, BlocksKnowRows, BlockCuts, Pair
<1> QED
  BY <1>1, <1>2, <1>3, <1>4, <1>5, CommitFollowKeeps, CommitBlockKeeps DEF SocialNext

\* A follower is counted once, but for a row whose request overlapped another
\* of the same two (services/social.py: follow_user), for any that overlap.
THEOREM FollowersAreCounted == SocialSpec => []FollowersCounted
<1>1. SocialInv => FollowersCounted
  BY CountedOnce DEF SocialInv
<1> QED
  BY SocialStarts, SocialSteps, <1>1, PTL DEF SocialSpec

\* A block leaves no follow between the two but those inserted over it
\* (services/social.py: block_user), for any requests that overlap.
THEOREM BlocksAreKept == SocialSpec => []BlocksCutFollows
<1>1. SocialInv => BlocksCutFollows
  BY CutsFollows DEF SocialInv
<1> QED
  BY SocialStarts, SocialSteps, <1>1, PTL DEF SocialSpec

-----------------------------------------------------------------------------
(* Social: the feeds. *)

FeedKinds == {"all", "following", "saved"}
CursorAt == [priority : {0, 1}, time : Nat]
Feed == [kind : FeedKinds, cursor : CursorAt, shown : SUBSET Nat, again : SUBSET Nat,
         due : SUBSET Nat, moved : BOOLEAN, done : BOOLEAN]

\* Posts and saves are named by when they were made.
PostsFit ==
  /\ moves \in 0..MaxMoves
  /\ IsFiniteSet(posts) /\ posts \subseteq [n : 1..moves, by : Travelers]
  /\ \A p, q \in posts : p.n = q.n => p = q
  /\ saves \subseteq [n : Nat, at : 1..moves]
  /\ \A s, t \in saves : s.at = t.at => s = t

\* An unfollow or a block takes only rows of the two it names.
RowsFit ==
  \A l \in Links :
    /\ link[l].kind = "unfollow" => \A f \in link[l].rows : f.by = link[l].by
    /\ link[l].kind = "block" => \A f \in link[l].rows : f.by \in {link[l].by, link[l].whom}

Listable(kind, p) == kind = "saved" => SavesOf(p.n) # {}

\* What was shown is not after the cursor, and what is due is, or was shown.
PagesFit(kind, cursor, shown, due) ==
  /\ kind = "saved" => cursor.priority = 0
  /\ shown # {} => cursor.time <= moves
  /\ \A p \in posts : p.n \in shown /\ Listable(kind, p) => ~Precedes(cursor, Cursor(kind, p))
  /\ \A n \in due : \E p \in ListOf(kind) :
       p.n = n /\ (n \in shown \/ Precedes(cursor, Cursor(kind, p)))

FeedFits ==
  feed # NoFeed =>
    /\ feed \in Feed
    /\ ~feed.moved => /\ feed.again = {} /\ feed.shown \subseteq 0..moves
                      /\ IF feed.done THEN feed.due \subseteq feed.shown
                         ELSE PagesFit(feed.kind, feed.cursor, feed.shown, feed.due)

FeedInv == SocialInv /\ PostsFit /\ RowsFit /\ FeedFits

\* One feed is another with no more due.
Same(f, g) ==
  /\ g \in Feed /\ g.kind = f.kind /\ g.cursor = f.cursor /\ g.shown = f.shown
  /\ g.again = f.again /\ g.moved = f.moved /\ g.done = f.done /\ g.due \subseteq f.due

-----------------------------------------------------------------------------
\* A set of numbers has a least one, and a bounded set a greatest.
LEMMA LeastOf ==
  ASSUME NEW T \in SUBSET Nat, T # {}
  PROVE  \E x \in T : \A y \in T : x <= y
<1> DEFINE below == {0..x : x \in T}
           R == StrictSubsetOrdering(Nat)
<1>1. below # {} /\ below \subseteq FiniteSubsetsOf(Nat)
  <2>1. \A x \in T : x \in Int /\ 0 \in Int
    OBVIOUS
  <2>2. \A x \in T : IsFiniteSet(0..x)
    BY <2>1, FS_Interval
  <2>3. ASSUME NEW x \in T PROVE 0..x \in FiniteSubsetsOf(Nat)
    <3>1. PICK I : I = 0..x
      OBVIOUS
    <3>2. I \subseteq Nat /\ IsFiniteSet(I)
      BY <2>2, <3>1
    <3>3. I \in FiniteSubsetsOf(Nat)
      BY <3>2 DEF FiniteSubsetsOf
    <3> QED
      BY <3>1, <3>3
  <2> QED
    BY <2>3
<1>2. PICK M \in below : \A N \in below : ~(<<N, M>> \in R)
  <2>1. IsWellFoundedOn(R, FiniteSubsetsOf(Nat))
    BY FS_StrictSubsetOrderingWellFounded
  <2> HIDE DEF below, R
  <2> QED
    BY <1>1, <2>1, WFMin
<1>3. PICK x \in T : M = 0..x
  BY <1>2
<1>4. ASSUME NEW y \in T PROVE x <= y
  <2>1. <<0..y, 0..x>> \notin R
    BY <1>2, <1>3
  <2>2. 0..y \in SUBSET Nat /\ 0..x \in SUBSET Nat
    OBVIOUS
  <2>3. ~(0..y \subseteq 0..x /\ 0..y # 0..x)
    BY <2>1, <2>2 DEF StrictSubsetOrdering
  <2>4. y < x => 0..y \subseteq 0..x /\ x \in 0..x /\ x \notin 0..y
    OBVIOUS
  <2> QED
    BY <2>3, <2>4
<1> QED
  BY <1>4

\* The page of a ranked list: those with fewer than K ahead.  Its last row is
\* the one that has all the others of the page ahead.
LEMMA PageHasLast ==
  ASSUME NEW S, IsFiniteSet(S), S # {}, NEW B \in Nat, NEW r \in [S -> 0..B],
         \A p, q \in S : r[p] = r[q] => p = q,
         NEW K \in Nat \ {0}
  PROVE  LET ahead(p) == {q \in S : r[q] > r[p]}
             page == {p \in S : Cardinality(ahead(p)) < K}
         IN  \E p \in page : ahead(p) = page \ {p}
<1> DEFINE ahead(p) == {q \in S : r[q] > r[p]}
           page == {p \in S : Cardinality(ahead(p)) < K}
<1>1. \A p \in S : r[p] \in Nat /\ r[p] <= B
  OBVIOUS
<1>2. \A p \in S : IsFiniteSet(ahead(p))
  BY FS_Subset
<1>3. \A p, q \in S : r[q] > r[p] => ahead(q) \subseteq ahead(p)
  BY <1>1
<1>4. PICK first \in S : \A q \in S : r[q] <= r[first]
  <2> DEFINE T == {B - r[p] : p \in S}
  <2>1. T \in SUBSET Nat /\ T # {}
    BY <1>1
  <2>2. PICK x \in T : \A y \in T : x <= y
    BY <2>1, LeastOf
  <2>3. PICK p \in S : x = B - r[p]
    BY <2>2
  <2>4. ASSUME NEW q \in S PROVE r[q] <= r[p]
    <3>1. x <= B - r[q]
      BY <2>2
    <3> QED
      BY <1>1, <2>3, <3>1
  <2> QED
    BY <2>4
<1>5. first \in page
  <2>1. ahead(first) = {}
    BY <1>1, <1>4
  <2>2. Cardinality(ahead(first)) = 0
    BY <2>1, FS_EmptySet
  <2> QED
    BY <2>2
<1>6. PICK last \in page : \A q \in page : r[last] <= r[q]
  <2> DEFINE T == {r[p] : p \in page}
  <2>1. T \in SUBSET Nat /\ T # {}
    <3>1. \A p \in page : p \in S
      OBVIOUS
    <3> HIDE DEF page
    <3> QED
      BY <1>1, <1>5, <3>1
  <2>2. PICK x \in T : \A y \in T : x <= y
    BY <2>1, LeastOf
  <2> HIDE DEF page
  <2>3. PICK p \in page : x = r[p]
    BY <2>2
  <2>4. \A q \in page : x <= r[q]
    BY <2>2
  <2> QED
    BY <2>3, <2>4
<1>7. page \ {last} \subseteq ahead(last)
  <2> SUFFICES ASSUME NEW q \in page, q # last PROVE r[q] > r[last]
    OBVIOUS
  <2>1. q \in S /\ last \in S
    OBVIOUS
  <2>2. r[q] # r[last]
    BY <2>1
  <2> QED
    BY <1>1, <1>6, <2>1, <2>2
<1>8. ahead(last) \subseteq page \ {last}
  <2> SUFFICES ASSUME NEW q \in S, r[q] > r[last] PROVE q \in page /\ q # last
    OBVIOUS
  <2>1. last \in S /\ Cardinality(ahead(last)) < K
    BY <1>6
  <2>2. ahead(q) \subseteq ahead(last)
    BY <1>3, <2>1
  <2>3. PICK A : A = ahead(q)
    OBVIOUS
  <2>4. PICK C : C = ahead(last)
    OBVIOUS
  <2>5. IsFiniteSet(C) /\ IsFiniteSet(A) /\ A \subseteq C
    BY <1>2, <2>1, <2>2, <2>3, <2>4
  <2>6. Cardinality(A) <= Cardinality(C)
    BY <2>5, FS_Subset
  <2>7. Cardinality(A) \in Nat /\ Cardinality(C) \in Nat
    BY <2>5, FS_CardinalityType
  <2>8. Cardinality(A) < K
    BY <2>1, <2>4, <2>6, <2>7
  <2>9. q # last
    BY <1>1, <2>1
  <2> QED
    BY <2>3, <2>8, <2>9
<1> QED
  BY <1>6, <1>7, <1>8

-----------------------------------------------------------------------------
\* A feed of three kinds, and no feed, differ.
LEMMA FeedIsFeed == FeedFits /\ feed # NoFeed => feed \in Feed /\ feed.kind \in FeedKinds
  BY DEF FeedFits, Feed

\* The cursor of a post that a feed may list: when it was posted or saved, and
\* no two have the same.
LEMMA CursorTyped ==
  ASSUME PostsFit, NEW kind \in FeedKinds, NEW p \in posts, Listable(kind, p)
  PROVE  /\ Cursor(kind, p).priority \in {0, 1} /\ Cursor(kind, p).time \in 1..moves
         /\ kind = "saved" => Cursor(kind, p).priority = 0
         /\ Cursor(kind, p) \in CursorAt
         /\ kind # "saved" => Cursor(kind, p).time = p.n
         /\ kind = "saved" => [n |-> p.n, at |-> Cursor(kind, p).time] \in saves
<1>1. Cursor(kind, p) = [priority |-> Priority(kind, p), time |-> Time(kind, p)]
  BY DEF Cursor
<1>2. Priority(kind, p) \in {0, 1} /\ (kind = "saved" => Priority(kind, p) = 0)
  BY DEF Priority
<1>3. CASE kind = "saved"
  <2>1. PICK s : s = CHOOSE x \in SavesOf(p.n) : TRUE
    OBVIOUS
  <2>2. s \in SavesOf(p.n)
    BY <1>3, <2>1 DEF Listable
  <2>3. s \in saves /\ s.n = p.n /\ Time(kind, p) = s.at
    BY <1>3, <2>1, <2>2 DEF SavesOf, Time
  <2>4. s \in [n : Nat, at : 1..moves] /\ moves \in Nat
    BY <2>3 DEF PostsFit
  <2>5. s = [n |-> p.n, at |-> Time(kind, p)]
    BY <2>3, <2>4
  <2>6. Time(kind, p) \in 1..moves
    BY <2>3, <2>4
  <2> QED
    BY <1>1, <1>2, <1>3, <2>3, <2>5, <2>6 DEF CursorAt
<1>4. CASE kind # "saved"
  <2>1. Time(kind, p) = p.n /\ p.n \in 1..moves
    BY <1>4 DEF Time, PostsFit
  <2> QED
    BY <1>1, <1>2, <1>4, <2>1 DEF CursorAt
<1> QED
  BY <1>3, <1>4

\* No two posts share the time of their cursors.
LEMMA TimesDiffer ==
  ASSUME PostsFit, NEW kind \in FeedKinds, NEW p \in posts, NEW q \in posts,
         Listable(kind, p), Listable(kind, q), Cursor(kind, p).time = Cursor(kind, q).time
  PROVE  p = q
<1>1. p.n = q.n
  <2>1. CASE kind = "saved"
    <3>1. PICK t : t = Cursor(kind, p).time
      OBVIOUS
    <3>2. [n |-> p.n, at |-> t] \in saves /\ [n |-> q.n, at |-> t] \in saves
      BY <2>1, <3>1, CursorTyped
    <3>3. [n |-> p.n, at |-> t] = [n |-> q.n, at |-> t]
      BY <3>2 DEF PostsFit
    <3> QED
      BY <3>3
  <2>2. CASE kind # "saved"
    BY <2>2, CursorTyped
  <2> QED
    BY <2>1, <2>2
<1> QED
  BY <1>1 DEF PostsFit

\* What a feed lists are posts, of those it may list.
LEMMA ListIsPosts ==
  ASSUME NEW kind \in FeedKinds, NEW p \in ListOf(kind)
  PROVE  p \in posts /\ Listable(kind, p) /\ <<Reader, p.by>> \notin blocks
<1>1. p \in Visible /\ (kind = "saved" => SavesOf(p.n) # {})
  <2>1. CASE kind = "all"
    BY <2>1 DEF ListOf
  <2>2. CASE kind = "following"
    BY <2>2 DEF ListOf
  <2>3. CASE kind = "saved"
    BY <2>3 DEF ListOf
  <2> QED
    BY <2>1, <2>2, <2>3 DEF FeedKinds
<1> QED
  BY <1>1 DEF Visible, Listable

\* A row is listed as long as what lists it stays.
LEMMA ListKept ==
  ASSUME NEW kind \in FeedKinds, NEW p \in ListOf(kind), p \in posts',
         <<Reader, p.by>> \in blocks' => <<Reader, p.by>> \in blocks,
         kind = "following" /\ Follows(Reader, p.by) => Follows(Reader, p.by)',
         kind = "saved" => SavesOf(p.n)' # {}
  PROVE  p \in ListOf(kind)'
<1>1. p \in Visible'
  BY ListIsPosts DEF Visible
<1>2. CASE kind = "all"
  BY <1>1, <1>2 DEF ListOf
<1>3. CASE kind = "following"
  <2>1. Follows(Reader, p.by)
    BY <1>3 DEF ListOf
  <2> QED
    BY <1>1, <1>3, <2>1 DEF ListOf
<1>4. CASE kind = "saved"
  BY <1>1, <1>4 DEF ListOf
<1> QED
  BY <1>2, <1>3, <1>4 DEF FeedKinds

\* A cursor changes only with the follows of the reader or the saves of the post.
LEMMA CursorKept ==
  ASSUME NEW kind \in FeedKinds, NEW p,
         kind = "all" => (Follows(Reader, p.by)' <=> Follows(Reader, p.by)),
         kind = "saved" => SavesOf(p.n)' = SavesOf(p.n)
  PROVE  Cursor(kind, p)' = Cursor(kind, p)
<1>1. Priority(kind, p)' = Priority(kind, p)
  BY DEF Priority
<1>2. Time(kind, p)' = Time(kind, p)
  <2>1. CASE kind = "saved"
    <3>1. Time(kind, p) = (CHOOSE s \in SavesOf(p.n) : TRUE).at
      BY <2>1 DEF Time
    <3>2. Time(kind, p)' = (CHOOSE s \in SavesOf(p.n)' : TRUE).at
      BY <2>1 DEF Time
    <3> QED
      BY <2>1, <3>1, <3>2, Zenon
  <2>2. CASE kind # "saved"
    BY <2>2 DEF Time
  <2> QED
    BY <2>1, <2>2
<1> QED
  BY <1>1, <1>2 DEF Cursor

-----------------------------------------------------------------------------
\* A feed that no step pages stays right while its list keeps what is due, and
\* what was shown is not listed again after the cursor.
LEMMA FeedStays ==
  ASSUME FeedInv, feed # NoFeed, Same(feed, feed'), moves' \in Nat, moves <= moves',
         NEW kind \in FeedKinds, kind = feed.kind,
         ~feed.moved =>
           /\ \A p \in ListOf(kind) :
                p.n \in feed'.due => p \in ListOf(kind)' /\ Cursor(kind, p)' = Cursor(kind, p)
           /\ \A p \in posts' : p.n \in feed.shown /\ Listable(kind, p)' =>
                \/ p \in posts /\ Listable(kind, p) /\ Cursor(kind, p)' = Cursor(kind, p)
                \/ /\ kind = "saved" /\ Cursor(kind, p)'.priority = 0
                   /\ Cursor(kind, p)'.time \in Nat /\ moves < Cursor(kind, p)'.time
  PROVE  FeedFits'
<1> SUFFICES ASSUME ~feed.moved
             PROVE  /\ feed'.again = {} /\ feed'.shown \subseteq 0..moves'
                    /\ IF feed'.done THEN feed'.due \subseteq feed'.shown
                       ELSE PagesFit(feed.kind, feed.cursor, feed.shown, feed.due)'
  BY DEF FeedFits, Same
<1>1. moves \in Nat /\ feed \in Feed
  BY FeedIsFeed DEF FeedInv, PostsFit
<1>2. /\ feed.again = {} /\ feed.shown \subseteq 0..moves
      /\ IF feed.done THEN feed.due \subseteq feed.shown
         ELSE PagesFit(feed.kind, feed.cursor, feed.shown, feed.due)
  BY DEF FeedInv, FeedFits
<1>3. feed'.again = {} /\ feed'.shown \subseteq 0..moves'
  BY <1>1, <1>2 DEF Same
<1>4. CASE feed.done
  BY <1>2, <1>3, <1>4 DEF Same
<1>5. CASE ~feed.done
  <2> PICK cursor, shown : cursor = feed.cursor /\ shown = feed.shown
    OBVIOUS
  <2>1. PagesFit(kind, cursor, shown, feed.due)
    BY <1>2, <1>5
  <2>2. cursor.priority \in {0, 1} /\ cursor.time \in Nat
    BY <1>1 DEF Feed, CursorAt
  <2>3. (kind = "saved" => cursor.priority = 0) /\ (shown # {} => cursor.time <= moves)
    BY <2>1 DEF PagesFit
  <2>4. ASSUME NEW p \in posts', p.n \in shown, Listable(kind, p)'
        PROVE  ~Precedes(cursor, Cursor(kind, p)')
    <3>1. CASE p \in posts /\ Listable(kind, p) /\ Cursor(kind, p)' = Cursor(kind, p)
      BY <2>1, <2>4, <3>1 DEF PagesFit
    <3>2. CASE /\ kind = "saved" /\ Cursor(kind, p)'.priority = 0
               /\ Cursor(kind, p)'.time \in Nat /\ moves < Cursor(kind, p)'.time
      <4>1. cursor.time <= moves /\ cursor.priority = 0
        BY <2>3, <2>4, <3>2
      <4>2. ~(cursor.time > Cursor(kind, p)'.time)
        BY <1>1, <2>2, <3>2, <4>1
      <4>3. ~(cursor.priority < Cursor(kind, p)'.priority)
        BY <3>2, <4>1
      <4> QED
        BY <4>2, <4>3 DEF Precedes
    <3> QED
      BY <2>4, <3>1, <3>2
  <2>5. ASSUME NEW n \in feed'.due
        PROVE  \E p \in ListOf(kind)' : p.n = n /\ (n \in shown \/ Precedes(cursor, Cursor(kind, p)'))
    <3>1. n \in feed.due
      BY DEF Same
    <3>2. PICK p \in ListOf(kind) : p.n = n /\ (n \in shown \/ Precedes(cursor, Cursor(kind, p)))
      BY <2>1, <3>1 DEF PagesFit
    <3>3. p \in ListOf(kind)' /\ Cursor(kind, p)' = Cursor(kind, p)
      BY <2>5, <3>2
    <3> QED
      BY <3>2, <3>3
  <2>6. /\ feed'.kind = kind /\ feed'.cursor = cursor /\ feed'.shown = shown /\ ~feed'.done
    BY <1>5 DEF Same
  <2>7. shown # {} => cursor.time <= moves'
    BY <1>1, <2>2, <2>3
  <2>8. PagesFit(feed.kind, feed.cursor, feed.shown, feed.due)'
    BY <2>3, <2>4, <2>5, <2>6, <2>7 DEF PagesFit, Precedes
  <2> QED
    BY <1>3, <2>6, <2>8
<1> QED
  BY <1>4, <1>5

\* A step that changes neither posts nor saves, nor what the reader sees or
\* follows but for what an unblock shows again.
LEMMA RestKeeps ==
  ASSUME FeedInv, UNCHANGED <<posts, saves, feed>>, moves' \in Nat, moves <= moves',
         \A u \in Travelers : <<Reader, u>> \in blocks' => <<Reader, u>> \in blocks,
         \A u \in Travelers : Follows(Reader, u)' <=> Follows(Reader, u)
  PROVE  FeedFits'
<1>1. CASE feed = NoFeed
  BY <1>1 DEF FeedFits
<1>2. CASE feed # NoFeed
  <2>1. feed \in Feed /\ feed.kind \in FeedKinds
    BY <1>2, FeedIsFeed DEF FeedInv
  <2>2. PICK kind \in FeedKinds : kind = feed.kind
    BY <2>1
  <2>3. Same(feed, feed')
    BY <2>1 DEF Same
  <2>4. \A p : SavesOf(p.n)' = SavesOf(p.n) /\ (Listable(kind, p)' <=> Listable(kind, p))
    BY DEF SavesOf, Listable
  <2>5. ASSUME NEW p \in posts PROVE Cursor(kind, p)' = Cursor(kind, p)
    <3>1. p.by \in Travelers
      BY DEF FeedInv, PostsFit
    <3> QED
      BY <2>4, <3>1, CursorKept
  <2>6. ASSUME NEW p \in ListOf(kind) PROVE p \in ListOf(kind)'
    <3>1. p \in posts /\ Listable(kind, p)
      BY ListIsPosts
    <3>2. p.by \in Travelers /\ p \in posts'
      BY <3>1 DEF FeedInv, PostsFit
    <3>3. kind = "saved" => SavesOf(p.n)' # {}
      BY <2>4, <3>1 DEF Listable
    <3> QED
      BY <3>2, <3>3, ListKept
  <2>7. \A p \in ListOf(kind) : p \in posts
    BY ListIsPosts
  <2> QED
    BY <1>2, <2>2, <2>3, <2>4, <2>5, <2>6, <2>7, FeedStays
<1> QED
  BY <1>1, <1>2

\* A feed whose order changed under it promises nothing more.
LEMMA MovedKeeps ==
  ASSUME FeedInv, NEW u, Moved(u), feed # NoFeed => u = Reader
  PROVE  FeedFits'
<1>1. CASE feed = NoFeed
  BY <1>1 DEF Moved, FeedFits
<1>2. CASE feed # NoFeed
  <2>1. PICK f \in Feed : f = feed
    BY <1>2, FeedIsFeed DEF FeedInv
  <2>2. feed' = [f EXCEPT !.moved = TRUE]
    BY <1>2, <2>1 DEF Moved
  <2>3. [f EXCEPT !.moved = TRUE] \in Feed /\ [f EXCEPT !.moved = TRUE].moved
    BY DEF Feed
  <2>4. feed' \in Feed /\ feed'.moved
    BY <2>2, <2>3
  <2> QED
    BY <2>4 DEF FeedFits
<1> QED
  BY <1>1, <1>2

\* A post that goes is no longer due.
LEMMA UndueIsSame ==
  ASSUME NEW f \in Feed, NEW n
  PROVE  /\ Same(f, [f EXCEPT !.due = @ \ {n}])
         /\ n \notin [f EXCEPT !.due = @ \ {n}].due
<1>1. PICK d \in SUBSET Nat : d = f.due \ {n}
  BY DEF Feed
<1>2. [f EXCEPT !.due = @ \ {n}] = [f EXCEPT !.due = d]
  BY <1>1
<1>3. [f EXCEPT !.due = d] \in Feed
  BY DEF Feed
<1>4. Same(f, [f EXCEPT !.due = d]) /\ [f EXCEPT !.due = d].due = d
  BY <1>1, <1>3 DEF Same, Feed
<1> QED
  BY <1>1, <1>2, <1>4

\* A new post is listed before the cursor or after it, but was never shown.
LEMMA CreatePostKeeps ==
  ASSUME FeedInv, NEW u \in Travelers, CreatePost(u)
  PROVE  PostsFit' /\ FeedFits'
<1> DEFINE row == [n |-> moves + 1, by |-> u]
<1>1. /\ moves' = moves + 1 /\ moves < MaxMoves /\ posts' = posts \cup {row}
      /\ UNCHANGED <<follows, blocks, saves, feed>>
  BY DEF CreatePost, Tick
<1>2. moves \in 0..MaxMoves /\ moves' \in 0..MaxMoves /\ moves \in Nat /\ moves' \in Nat
  BY <1>1, SocialAssumption DEF FeedInv, PostsFit
<1>3. row.n = moves + 1 /\ row.by = u /\ row \in [n : 1..moves', by : Travelers]
  BY <1>1, <1>2
<1> HIDE DEF row
<1>4. PostsFit'
  <2>1. IsFiniteSet(posts')
    BY <1>1, FS_AddElement DEF FeedInv, PostsFit
  <2>2. 1..moves \subseteq 1..moves'
    BY <1>1, <1>2
  <2>3. posts' \subseteq [n : 1..moves', by : Travelers] /\ saves' \subseteq [n : Nat, at : 1..moves']
    BY <1>1, <1>3, <2>2 DEF FeedInv, PostsFit
  <2>4. \A p \in posts : p.n # row.n
    BY <1>2, <1>3 DEF FeedInv, PostsFit
  <2>5. \A p, q \in posts' : p.n = q.n => p = q
    BY <1>1, <2>4 DEF FeedInv, PostsFit
  <2> QED
    BY <1>1, <1>2, <2>1, <2>3, <2>5 DEF FeedInv, PostsFit
<1>5. ASSUME feed = NoFeed PROVE FeedFits'
  <2>1. feed' = NoFeed
    BY <1>1, <1>5
  <2> QED
    BY <2>1 DEF FeedFits
<1>6. ASSUME feed # NoFeed PROVE FeedFits'
  <2>1. feed \in Feed /\ feed.kind \in FeedKinds
    BY <1>6, FeedIsFeed DEF FeedInv
  <2>2. PICK kind \in FeedKinds : kind = feed.kind
    BY <2>1
  <2>3. Same(feed, feed')
    BY <1>1, <2>1 DEF Same
  <2>4. \A p : SavesOf(p.n)' = SavesOf(p.n) /\ (Listable(kind, p)' <=> Listable(kind, p))
    BY <1>1 DEF SavesOf, Listable
  <2>5. \A x : Follows(Reader, x)' <=> Follows(Reader, x)
    BY <1>1 DEF Follows, Between
  <2>6. ASSUME NEW p PROVE Cursor(kind, p)' = Cursor(kind, p)
    BY <2>4, <2>5, CursorKept
  <2>7. ASSUME NEW p \in ListOf(kind) PROVE p \in ListOf(kind)'
    <3>1. p \in posts /\ Listable(kind, p)
      BY ListIsPosts
    <3>2. kind = "saved" => SavesOf(p.n)' # {}
      BY <2>4, <3>1 DEF Listable
    <3> QED
      BY <1>1, <2>5, <3>1, <3>2, ListKept
  <2>8. ~feed.moved => \A p \in posts' : p.n \in feed.shown => p \in posts
    <3>1. ~feed.moved => row.n \notin feed.shown
      BY <1>2, <1>3, <1>6 DEF FeedInv, FeedFits
    <3> QED
      BY <1>1, <3>1
  <2> QED
    BY <1>1, <1>2, <1>4, <1>6, <2>2, <2>3, <2>4, <2>6, <2>7, <2>8, FeedStays
<1> QED
  BY <1>4, <1>5, <1>6

\* Rows that go leave what is left as it was.
LEMMA PostsLeft ==
  ASSUME PostsFit, moves' = moves + 1, moves < MaxMoves, posts' \subseteq posts, saves' \subseteq saves
  PROVE  PostsFit'
<1>1. moves \in Nat /\ moves' \in 0..MaxMoves /\ 1..moves \subseteq 1..moves'
  BY SocialAssumption DEF PostsFit
<1>2. IsFiniteSet(posts')
  BY FS_Subset DEF PostsFit
<1>3. posts' \subseteq [n : 1..moves', by : Travelers] /\ saves' \subseteq [n : Nat, at : 1..moves']
  BY <1>1 DEF PostsFit
<1> QED
  BY <1>1, <1>2, <1>3 DEF PostsFit

\* A deleted post takes its saves along.
LEMMA PostDeletedKeeps ==
  ASSUME FeedInv, NEW p \in posts, PostDeleted(p)
  PROVE  PostsFit' /\ FeedFits'
<1>1. /\ moves' = moves + 1 /\ moves < MaxMoves /\ posts' = posts \ {p}
      /\ saves' = {s \in saves : s.n # p.n} /\ UNCHANGED <<follows, blocks>>
      /\ feed' = Undue(p.n)
  BY DEF PostDeleted, Tick
<1>2. PostsFit'
  BY <1>1, PostsLeft DEF FeedInv
<1>3. moves \in Nat /\ moves' \in Nat
  BY <1>1 DEF FeedInv, PostsFit
<1>4. ASSUME feed = NoFeed PROVE FeedFits'
  <2>1. feed' = NoFeed
    BY <1>1, <1>4 DEF Undue
  <2> QED
    BY <2>1 DEF FeedFits
<1>5. ASSUME feed # NoFeed PROVE FeedFits'
  <2>1. feed \in Feed /\ feed.kind \in FeedKinds
    BY <1>5, FeedIsFeed DEF FeedInv
  <2>2. PICK kind \in FeedKinds : kind = feed.kind
    BY <2>1
  <2>3. feed' = [feed EXCEPT !.due = @ \ {p.n}]
    BY <1>1, <1>5 DEF Undue
  <2>4. Same(feed, feed') /\ p.n \notin feed'.due
    BY <2>1, <2>3, UndueIsSame
  <2>5. \A q : q.n # p.n => SavesOf(q.n)' = SavesOf(q.n) /\ (Listable(kind, q)' <=> Listable(kind, q))
    BY <1>1 DEF SavesOf, Listable
  <2>6. \A x : Follows(Reader, x)' <=> Follows(Reader, x)
    BY <1>1 DEF Follows, Between
  <2>7. ASSUME NEW q, q.n # p.n PROVE Cursor(kind, q)' = Cursor(kind, q)
    BY <2>5, <2>6, <2>7, CursorKept
  <2>8. ASSUME NEW q \in ListOf(kind), q.n \in feed'.due PROVE q \in ListOf(kind)' /\ q.n # p.n
    <3>1. q \in posts /\ Listable(kind, q)
      BY ListIsPosts
    <3>2. q.n # p.n /\ q \in posts'
      BY <1>1, <2>4, <2>8, <3>1
    <3>3. kind = "saved" => SavesOf(q.n)' # {}
      BY <2>5, <3>1, <3>2 DEF Listable
    <3> QED
      BY <1>1, <2>6, <3>2, <3>3, ListKept
  <2>9. \A q \in posts' : q \in posts /\ q.n # p.n
    BY <1>1 DEF FeedInv, PostsFit
  <2> QED
    BY <1>1, <1>3, <1>5, <2>2, <2>4, <2>5, <2>7, <2>8, <2>9, FeedStays
<1> QED
  BY <1>2, <1>4, <1>5

\* A save puts its post before the cursor of the saved feed.
LEMMA SavePostKeeps ==
  ASSUME FeedInv, NEW p \in posts, SavePost(p)
  PROVE  PostsFit' /\ FeedFits'
<1> DEFINE row == [n |-> p.n, at |-> moves + 1]
<1>1. /\ moves' = moves + 1 /\ moves < MaxMoves /\ saves' = saves \cup {row}
      /\ SavesOf(p.n) = {} /\ UNCHANGED <<follows, blocks, posts, feed>>
  BY DEF SavePost, Tick
<1>2. moves \in Nat /\ moves' \in 0..MaxMoves /\ moves' \in Nat /\ p.n \in Nat
  BY <1>1, SocialAssumption DEF FeedInv, PostsFit
<1>3. row.n = p.n /\ row.at = moves + 1 /\ row \in [n : Nat, at : 1..moves']
  BY <1>1, <1>2
<1> HIDE DEF row
<1>4. PostsFit'
  <2>1. 1..moves \subseteq 1..moves'
    BY <1>1, <1>2
  <2>2. posts' \subseteq [n : 1..moves', by : Travelers] /\ saves' \subseteq [n : Nat, at : 1..moves']
    BY <1>1, <1>3, <2>1 DEF FeedInv, PostsFit
  <2>3. \A s \in saves : s.at # row.at
    BY <1>2, <1>3 DEF FeedInv, PostsFit
  <2>4. \A s, t \in saves' : s.at = t.at => s = t
    BY <1>1, <2>3 DEF FeedInv, PostsFit
  <2> QED
    BY <1>1, <1>2, <2>2, <2>4 DEF FeedInv, PostsFit
<1>5. ASSUME feed = NoFeed PROVE FeedFits'
  <2>1. feed' = NoFeed
    BY <1>1, <1>5
  <2> QED
    BY <2>1 DEF FeedFits
<1>6. ASSUME feed # NoFeed PROVE FeedFits'
  <2>1. feed \in Feed /\ feed.kind \in FeedKinds
    BY <1>6, FeedIsFeed DEF FeedInv
  <2>2. PICK kind \in FeedKinds : kind = feed.kind
    BY <2>1
  <2>3. Same(feed, feed')
    BY <1>1, <2>1 DEF Same
  <2>4. \A q : q.n # p.n => SavesOf(q.n)' = SavesOf(q.n)
    BY <1>1, <1>3 DEF SavesOf
  <2>5. \A x : Follows(Reader, x)' <=> Follows(Reader, x)
    BY <1>1 DEF Follows, Between
  <2>6. ASSUME NEW q, kind # "saved" \/ q.n # p.n
        PROVE  Cursor(kind, q)' = Cursor(kind, q) /\ (Listable(kind, q)' => Listable(kind, q))
    <3>1. kind = "saved" => SavesOf(q.n)' = SavesOf(q.n)
      BY <2>4, <2>6
    <3>2. Cursor(kind, q)' = Cursor(kind, q)
      BY <2>5, <3>1, CursorKept
    <3> QED
      BY <3>1, <3>2 DEF Listable
  <2>7. ASSUME NEW q \in ListOf(kind) PROVE q \in ListOf(kind)' /\ (kind # "saved" \/ q.n # p.n)
    <3>1. q \in posts /\ Listable(kind, q)
      BY ListIsPosts
    <3>2. kind # "saved" \/ q.n # p.n
      BY <1>1, <3>1 DEF Listable
    <3>3. kind = "saved" => SavesOf(q.n)' # {}
      BY <2>4, <3>1, <3>2 DEF Listable
    <3> QED
      BY <1>1, <2>5, <3>1, <3>2, <3>3, ListKept
  <2>8. ASSUME kind = "saved", NEW q, q.n = p.n
        PROVE  /\ Cursor(kind, q)'.priority = 0
               /\ Cursor(kind, q)'.time = moves + 1
    <3>1. SavesOf(q.n)' = {row}
      BY <1>1, <1>3, <2>8 DEF SavesOf
    <3>2. Time(kind, q)' = (CHOOSE s \in SavesOf(q.n)' : TRUE).at
      BY <2>8 DEF Time
    <3>3. (CHOOSE s \in {row} : TRUE) = row
      OBVIOUS
    <3>4. Time(kind, q)' = moves + 1
      BY <1>3, <3>1, <3>2, <3>3
    <3>5. Priority(kind, q)' = 0
      BY <2>8 DEF Priority
    <3> QED
      BY <3>4, <3>5 DEF Cursor
  <2>9. ASSUME NEW q \in posts', Listable(kind, q)'
        PROVE  \/ q \in posts /\ Listable(kind, q) /\ Cursor(kind, q)' = Cursor(kind, q)
               \/ /\ kind = "saved" /\ Cursor(kind, q)'.priority = 0
                  /\ Cursor(kind, q)'.time \in Nat /\ moves < Cursor(kind, q)'.time
    <3>1. CASE kind # "saved" \/ q.n # p.n
      BY <1>1, <2>6, <2>9, <3>1
    <3>2. CASE kind = "saved" /\ q.n = p.n
      <4>1. PICK t : t = Cursor(kind, q)'.time
        OBVIOUS
      <4>2. t \in Nat /\ moves < t
        BY <1>2, <2>8, <3>2, <4>1
      <4> QED
        BY <2>8, <3>2, <4>1, <4>2
    <3> QED
      BY <3>1, <3>2
  <2>10. \A q \in ListOf(kind) : q \in ListOf(kind)' /\ Cursor(kind, q)' = Cursor(kind, q)
    BY <2>6, <2>7
  <2> QED
    BY <1>1, <1>2, <1>6, <2>2, <2>3, <2>9, <2>10, FeedStays
<1> QED
  BY <1>4, <1>5, <1>6

\* An unsaved post is no longer due in the saved feed.
LEMMA UnsavePostKeeps ==
  ASSUME FeedInv, NEW p \in posts, UnsavePost(p)
  PROVE  PostsFit' /\ FeedFits'
<1>1. /\ moves' = moves + 1 /\ moves < MaxMoves /\ saves' = saves \ SavesOf(p.n)
      /\ UNCHANGED <<follows, blocks, posts>>
      /\ feed' = IF feed.kind = "saved" THEN Undue(p.n) ELSE feed
  BY DEF UnsavePost, Tick
<1>2. PostsFit'
  BY <1>1, PostsLeft DEF FeedInv
<1>3. moves \in Nat /\ moves' \in Nat
  BY <1>1 DEF FeedInv, PostsFit
<1>4. ASSUME feed = NoFeed PROVE FeedFits'
  <2>1. feed' = NoFeed
    BY <1>1, <1>4 DEF Undue
  <2> QED
    BY <2>1 DEF FeedFits
<1>5. ASSUME feed # NoFeed PROVE FeedFits'
  <2>1. feed \in Feed /\ feed.kind \in FeedKinds
    BY <1>5, FeedIsFeed DEF FeedInv
  <2>2. PICK kind \in FeedKinds : kind = feed.kind
    BY <2>1
  <2>3. Same(feed, feed') /\ (kind = "saved" => p.n \notin feed'.due)
    <3>1. CASE kind = "saved"
      <4>1. feed' = [feed EXCEPT !.due = @ \ {p.n}]
        BY <1>1, <1>5, <2>2, <3>1 DEF Undue
      <4> QED
        BY <2>1, <4>1, UndueIsSame
    <3>2. CASE kind # "saved"
      BY <1>1, <2>1, <2>2, <3>2 DEF Same
    <3> QED
      BY <3>1, <3>2
  <2>4. \A q : /\ q.n # p.n => SavesOf(q.n)' = SavesOf(q.n)
               /\ q.n = p.n => SavesOf(q.n)' = {}
    BY <1>1 DEF SavesOf
  <2>5. \A x : Follows(Reader, x)' <=> Follows(Reader, x)
    BY <1>1 DEF Follows, Between
  <2>6. ASSUME NEW q, kind # "saved" \/ q.n # p.n
        PROVE  Cursor(kind, q)' = Cursor(kind, q) /\ (Listable(kind, q)' => Listable(kind, q))
    <3>1. kind = "saved" => SavesOf(q.n)' = SavesOf(q.n)
      BY <2>4, <2>6
    <3>2. Cursor(kind, q)' = Cursor(kind, q)
      BY <2>5, <3>1, CursorKept
    <3> QED
      BY <3>1, <3>2 DEF Listable
  <2>7. ASSUME NEW q \in ListOf(kind), q.n \in feed'.due
        PROVE  q \in ListOf(kind)' /\ (kind # "saved" \/ q.n # p.n)
    <3>1. q \in posts /\ Listable(kind, q)
      BY ListIsPosts
    <3>2. kind # "saved" \/ q.n # p.n
      BY <2>3, <2>7
    <3>3. kind = "saved" => SavesOf(q.n)' # {}
      BY <2>4, <3>1, <3>2 DEF Listable
    <3> QED
      BY <1>1, <2>5, <3>1, <3>2, <3>3, ListKept
  <2>8. ASSUME NEW q \in posts', Listable(kind, q)'
        PROVE  q \in posts /\ Listable(kind, q) /\ Cursor(kind, q)' = Cursor(kind, q)
    <3>1. kind = "saved" => SavesOf(q.n)' # {}
      BY <2>8 DEF Listable
    <3>2. kind # "saved" \/ q.n # p.n
      BY <2>4, <3>1
    <3> QED
      BY <1>1, <2>6, <2>8, <3>2
  <2>9. \A q \in ListOf(kind) :
          q.n \in feed'.due => q \in ListOf(kind)' /\ Cursor(kind, q)' = Cursor(kind, q)
    BY <2>6, <2>7
  <2> QED
    BY <1>1, <1>3, <1>5, <2>2, <2>3, <2>8, <2>9, FeedStays
<1> QED
  BY <1>2, <1>4, <1>5

-----------------------------------------------------------------------------
\* A feed opens before its first row, with all its list due.
LEMMA OpenFeedFits ==
  ASSUME FeedInv, NEW kind \in FeedKinds, OpenFeed(kind)
  PROVE  FeedFits'
<1> DEFINE first == [priority |-> 0, time |-> MaxMoves + 1]
           due == {p.n : p \in ListOf(kind)}
           opened == [kind |-> kind, cursor |-> first, shown |-> {}, again |-> {}, due |-> due,
                      moved |-> FALSE, done |-> FALSE]
<1>1. feed' = opened /\ UNCHANGED <<follows, blocks, posts, saves, moves>>
  BY DEF OpenFeed
<1>2. MaxMoves \in Nat /\ moves \in 0..MaxMoves
  BY SocialAssumption DEF FeedInv, PostsFit
<1>3. first \in CursorAt /\ first.priority = 0 /\ first.time = MaxMoves + 1
  BY <1>2 DEF CursorAt
<1> HIDE DEF first
<1>4. due \subseteq Nat
  <2>1. ASSUME NEW p \in ListOf(kind) PROVE p.n \in Nat
    <3>1. p \in posts
      BY ListIsPosts
    <3>2. p.n \in 1..moves
      BY <3>1 DEF FeedInv, PostsFit
    <3> QED
      BY <1>2, <3>2
  <2> QED
    BY <2>1
<1>5. ASSUME NEW p \in ListOf(kind) PROVE Precedes(first, Cursor(kind, p))
  <2>1. p \in posts /\ Listable(kind, p)
    BY ListIsPosts
  <2>2. PICK t : t = Cursor(kind, p).time
    OBVIOUS
  <2>3. PICK k : k = Cursor(kind, p).priority
    OBVIOUS
  <2>4. k \in {0, 1} /\ t \in 1..moves
    BY <2>1, <2>2, <2>3, CursorTyped DEF FeedInv
  <2>5. 0 < k \/ (0 = k /\ MaxMoves + 1 > t)
    BY <1>2, <2>4
  <2> QED
    BY <1>3, <2>2, <2>3, <2>5 DEF Precedes
<1>6. PagesFit(kind, first, {}, due)
  BY <1>3, <1>5 DEF PagesFit
<1>7. \A p : /\ SavesOf(p.n)' = SavesOf(p.n) /\ (Listable(kind, p)' <=> Listable(kind, p))
             /\ Follows(Reader, p.by)' = Follows(Reader, p.by)
  BY <1>1 DEF SavesOf, Listable, Follows, Between
<1>8. ASSUME NEW p \in ListOf(kind) PROVE p \in ListOf(kind)' /\ Cursor(kind, p)' = Cursor(kind, p)
  <2>1. p \in posts /\ Listable(kind, p)
    BY ListIsPosts
  <2>2. kind = "saved" => SavesOf(p.n)' # {}
    BY <1>7, <2>1 DEF Listable
  <2> QED
    BY <1>1, <1>7, <2>1, <2>2, ListKept, CursorKept
<1>9. \A n \in due : \E p \in ListOf(kind)' : p.n = n /\ Precedes(first, Cursor(kind, p)')
  BY <1>5, <1>8
<1>10. opened \in Feed /\ opened.kind = kind /\ opened.cursor = first /\ opened.shown = {}
       /\ opened.again = {} /\ opened.due = due /\ ~opened.moved /\ ~opened.done
  BY <1>3, <1>4 DEF Feed
<1> HIDE DEF opened, due
<1>11. PagesFit(feed.kind, feed.cursor, feed.shown, feed.due)'
  BY <1>1, <1>3, <1>9, <1>10 DEF PagesFit, Precedes
<1> QED
  BY <1>1, <1>10, <1>11 DEF FeedFits

\* The order of a feed, as numbers: the rows of the first priority rank above
\* the others, and the newer ones above the older.
Rank(c) == (IF c.priority = 0 THEN moves + 1 ELSE 0) + c.time

\* The rank orders the rows of a feed.
LEMMA RankOrders ==
  ASSUME PostsFit, NEW kind \in FeedKinds, NEW p \in posts, NEW q \in posts,
         Listable(kind, p), Listable(kind, q)
  PROVE  /\ Rank(Cursor(kind, p)) \in 0..(2 * moves + 1)
         /\ Precedes(Cursor(kind, p), Cursor(kind, q)) <=> Rank(Cursor(kind, p)) > Rank(Cursor(kind, q))
         /\ Rank(Cursor(kind, p)) = Rank(Cursor(kind, q)) => p = q
<1>1. PICK k : k = Cursor(kind, p).priority
  OBVIOUS
<1>2. PICK t : t = Cursor(kind, p).time
  OBVIOUS
<1>3. PICK l : l = Cursor(kind, q).priority
  OBVIOUS
<1>4. PICK v : v = Cursor(kind, q).time
  OBVIOUS
<1>5. k \in {0, 1} /\ l \in {0, 1} /\ t \in 1..moves /\ v \in 1..moves /\ moves \in Nat
  <2>1. k \in {0, 1} /\ t \in 1..moves
    BY <1>1, <1>2, CursorTyped
  <2>2. l \in {0, 1} /\ v \in 1..moves
    BY <1>3, <1>4, CursorTyped
  <2> QED
    BY <2>1, <2>2 DEF PostsFit
<1>6. /\ Rank(Cursor(kind, p)) = (IF k = 0 THEN moves + 1 ELSE 0) + t
      /\ Rank(Cursor(kind, q)) = (IF l = 0 THEN moves + 1 ELSE 0) + v
  BY <1>1, <1>2, <1>3, <1>4 DEF Rank
<1>7. Precedes(Cursor(kind, p), Cursor(kind, q)) <=> k < l \/ (k = l /\ t > v)
  BY <1>1, <1>2, <1>3, <1>4 DEF Precedes
<1>8. t = v => p = q
  BY <1>2, <1>4, TimesDiffer
<1>9. CASE k = 0 /\ l = 0
  BY <1>5, <1>6, <1>7, <1>8, <1>9
<1>10. CASE k = 0 /\ l = 1
  BY <1>5, <1>6, <1>7, <1>8, <1>10
<1>11. CASE k = 1 /\ l = 0
  BY <1>5, <1>6, <1>7, <1>8, <1>11
<1>12. CASE k = 1 /\ l = 1
  BY <1>5, <1>6, <1>7, <1>8, <1>12
<1> QED
  BY <1>5, <1>9, <1>10, <1>11, <1>12

\* Being after a cursor is transitive.
LEMMA PrecedesThrough ==
  ASSUME NEW c \in CursorAt, NEW d \in CursorAt, NEW e \in CursorAt, Precedes(c, d), Precedes(d, e)
  PROVE  Precedes(c, e)
<1>1. c.priority \in {0, 1} /\ d.priority \in {0, 1} /\ e.priority \in {0, 1}
      /\ c.time \in Nat /\ d.time \in Nat /\ e.time \in Nat
  BY DEF CursorAt
<1> QED
  BY <1>1 DEF Precedes

Rest == {p \in ListOf(feed.kind) : Precedes(feed.cursor, Cursor(feed.kind, p))}
Ahead(p) == {q \in Rest : Precedes(Cursor(feed.kind, q), Cursor(feed.kind, p))}
Page == {p \in Rest : Cardinality(Ahead(p)) < PageLimit}

\* A page is finite, and its last row has all the others ahead.
LEMMA PageIsOrdered ==
  ASSUME FeedInv, feed # NoFeed
  PROVE  /\ IsFiniteSet(Rest) /\ \A p \in Rest : p \in posts /\ Listable(feed.kind, p)
         /\ Cardinality(Rest) \in Nat
         /\ Cardinality(Rest) > PageLimit => \E p \in Page : Ahead(p) = Page \ {p}
<1> PICK kind \in FeedKinds : kind = feed.kind
  BY FeedIsFeed DEF FeedInv
<1>1. \A p \in Rest : p \in posts /\ Listable(kind, p)
  BY ListIsPosts DEF Rest
<1>2. IsFiniteSet(Rest)
  <2>1. Rest \subseteq posts /\ IsFiniteSet(posts)
    BY <1>1 DEF FeedInv, PostsFit
  <2> QED
    BY <2>1, FS_Subset
<1>3. Cardinality(Rest) \in Nat
  BY <1>2, FS_CardinalityType
<1>4. ASSUME Cardinality(Rest) > PageLimit
      PROVE  \E p \in Page : Ahead(p) = Page \ {p}
  <2> DEFINE r == [p \in Rest |-> Rank(Cursor(kind, p))]
             ahead(p) == {q \in Rest : r[q] > r[p]}
             page == {p \in Rest : Cardinality(ahead(p)) < PageLimit}
  <2>1. PICK B \in Nat : B = 2 * moves + 1
    BY DEF FeedInv, PostsFit
  <2>2. PostsFit
    BY DEF FeedInv
  <2>3. ASSUME NEW p \in Rest, NEW q \in Rest
        PROVE  /\ r[p] = Rank(Cursor(kind, p)) /\ r[q] = Rank(Cursor(kind, q)) /\ r[p] \in 0..B
               /\ Precedes(Cursor(kind, p), Cursor(kind, q)) <=> r[p] > r[q]
               /\ r[p] = r[q] => p = q
    <3>1. r[p] = Rank(Cursor(kind, p)) /\ r[q] = Rank(Cursor(kind, q))
      OBVIOUS
    <3> HIDE DEF r
    <3> QED
      BY <1>1, <2>1, <2>2, <3>1, RankOrders
  <2>4. \A p \in Rest : ahead(p) = Ahead(p)
    <3> HIDE DEF r
    <3> QED
      BY <2>3 DEF Ahead
  <2>5. r \in [Rest -> 0..B]
    <3>1. \A p \in Rest : Rank(Cursor(kind, p)) \in 0..B
      BY <2>3
    <3> QED
      BY <3>1
  <2>6. Rest # {}
    <3>1. PageLimit \in Nat
      BY SocialAssumption
    <3>2. Rest = {} => Cardinality(Rest) = 0
      BY FS_EmptySet
    <3> QED
      BY <1>4, <3>1, <3>2
  <2>7. \A p, q \in Rest : r[p] = r[q] => p = q
    BY <2>3
  <2>8. \E p \in page : ahead(p) = page \ {p}
    <3>1. PageLimit \in Nat \ {0}
      BY SocialAssumption
    <3> HIDE DEF r
    <3> QED
      BY <1>2, <2>5, <2>6, <2>7, <3>1, PageHasLast
  <2> HIDE DEF r
  <2>9. page = Page
    BY <2>4 DEF Page
  <2> HIDE DEF page, ahead
  <2>10. \A p \in Page : p \in Rest
    BY DEF Page
  <2> QED
    BY <2>4, <2>8, <2>9, <2>10
<1> QED
  BY <1>1, <1>2, <1>3, <1>4

\* With more to come, what is not on the page comes after its last row.
LEMMA LastSplits ==
  ASSUME FeedInv, feed # NoFeed, NEW last \in Page, Ahead(last) = Page \ {last}, NEW p \in Rest
  PROVE  p \in Page \/ Precedes(Cursor(feed.kind, last), Cursor(feed.kind, p))
<1> PICK kind \in FeedKinds : kind = feed.kind
  BY FeedIsFeed DEF FeedInv
<1>1. p \in posts /\ last \in posts /\ Listable(kind, p) /\ Listable(kind, last) /\ last \in Rest
  BY PageIsOrdered DEF Page
<1>2. PostsFit
  BY DEF FeedInv
<1>3. ASSUME p # last, ~Precedes(Cursor(kind, last), Cursor(kind, p))
      PROVE  Precedes(Cursor(kind, p), Cursor(kind, last))
  <2>1. PICK r : r = Rank(Cursor(kind, p))
    OBVIOUS
  <2>2. PICK s : s = Rank(Cursor(kind, last))
    OBVIOUS
  <2>3. r \in 0..(2 * moves + 1) /\ r # s /\ (Precedes(Cursor(kind, p), Cursor(kind, last)) <=> r > s)
    BY <1>1, <1>2, <1>3, <2>1, <2>2, RankOrders
  <2>4. s \in 0..(2 * moves + 1) /\ ~(s > r)
    BY <1>1, <1>2, <1>3, <2>1, <2>2, RankOrders
  <2>5. moves \in Nat
    BY <1>2 DEF PostsFit
  <2> QED
    BY <2>3, <2>4, <2>5
<1> QED
  BY <1>3 DEF Ahead

\* Without, the page is all that is left.
LEMMA LastPageIsRest ==
  ASSUME FeedInv, feed # NoFeed, ~(Cardinality(Rest) > PageLimit)
  PROVE  Page = Rest
<1> SUFFICES ASSUME NEW p \in Rest PROVE Cardinality(Ahead(p)) < PageLimit
  BY DEF Page
<1> PICK kind \in FeedKinds : kind = feed.kind
  BY FeedIsFeed DEF FeedInv
<1>1. PICK R : R = Rest
  OBVIOUS
<1>2. PICK A : A = Ahead(p)
  OBVIOUS
<1>3. IsFiniteSet(R) /\ Cardinality(R) \in Nat /\ p \in R
  BY <1>1, PageIsOrdered
<1>4. A \subseteq R \ {p}
  <2>1. p \notin Ahead(p)
    <3>1. ~Precedes(Cursor(kind, p), Cursor(kind, p))
      <4>1. Cursor(kind, p).time \in Nat /\ Cursor(kind, p).priority \in {0, 1}
        <5>1. p \in posts /\ Listable(kind, p)
          BY PageIsOrdered
        <5>2. Cursor(kind, p).time \in 1..moves /\ Cursor(kind, p).priority \in {0, 1}
          BY <5>1, CursorTyped DEF FeedInv
        <5> QED
          BY <5>2 DEF FeedInv, PostsFit
      <4>2. PICK k : k = Cursor(kind, p).priority
        OBVIOUS
      <4>3. PICK t : t = Cursor(kind, p).time
        OBVIOUS
      <4>4. ~(k < k) /\ ~(t > t)
        BY <4>1, <4>2, <4>3
      <4> QED
        BY <4>2, <4>3, <4>4 DEF Precedes
    <3> QED
      BY <3>1 DEF Ahead
  <2> QED
    BY <1>1, <1>2, <2>1 DEF Ahead
<1>5. IsFiniteSet(R \ {p}) /\ Cardinality(R \ {p}) = Cardinality(R) - 1
  BY <1>3, FS_RemoveElement
<1>6. Cardinality(A) <= Cardinality(R \ {p})
  BY <1>4, <1>5, FS_Subset
<1>7. IsFiniteSet(A)
  BY <1>4, <1>5, FS_Subset
<1>8. Cardinality(A) \in Nat
  BY <1>7, FS_CardinalityType
<1>9. PageLimit \in Nat /\ ~(Cardinality(R) > PageLimit)
  BY <1>1, SocialAssumption
<1> QED
  BY <1>2, <1>3, <1>5, <1>6, <1>8, <1>9

\* A page: what it shows is new, and the next one starts after its last row.
LEMMA CursorPageKeeps ==
  ASSUME FeedInv, CursorPage
  PROVE  FeedFits'
<1> DEFINE items == {p.n : p \in Page}
           more == Cardinality(Rest) > PageLimit
           last == CHOOSE p \in Page : Ahead(p) = Page \ {p}
<1>1. /\ feed # NoFeed /\ ~feed.done
      /\ feed' = [feed EXCEPT !.shown = @ \cup items, !.again = @ \cup (feed.shown \cap items),
                  !.done = ~more,
                  !.cursor = IF more THEN Cursor(feed.kind, last) ELSE @]
      /\ UNCHANGED <<follows, blocks, posts, saves, moves>>
  BY DEF CursorPage, Page, Ahead, Rest
<1>2. PICK f \in Feed : f = feed
  BY <1>1, FeedIsFeed DEF FeedInv
<1>3. PICK kind \in FeedKinds : kind = feed.kind
  BY <1>1, FeedIsFeed DEF FeedInv
<1>4. \A p \in Page : p \in Rest /\ p \in posts /\ Listable(kind, p) /\ p.n \in 1..moves
  <2>1. \A p \in Rest : p \in posts /\ Listable(kind, p)
    BY <1>1, <1>3, PageIsOrdered
  <2>2. \A p \in posts : p.n \in 1..moves
    BY DEF FeedInv, PostsFit
  <2> QED
    BY <2>1, <2>2 DEF Page
<1>5. moves \in Nat /\ PostsFit
  BY DEF FeedInv, PostsFit
<1>6. items \subseteq 1..moves /\ items \subseteq Nat
  BY <1>4, <1>5
<1>7. more => last \in Page /\ Ahead(last) = Page \ {last}
  <2>1. more => \E p \in Page : Ahead(p) = Page \ {p}
    BY <1>1, PageIsOrdered
  <2> QED
    BY <2>1
<1> HIDE DEF last
<1>8. PICK c \in CursorAt : c = IF more THEN Cursor(kind, last) ELSE f.cursor
  <2>1. more => Cursor(kind, last) \in CursorAt
    BY <1>4, <1>5, <1>7, CursorTyped
  <2>2. f.cursor \in CursorAt
    BY DEF Feed
  <2> QED
    BY <2>1, <2>2
<1>9. PICK shown \in SUBSET Nat : shown = f.shown \cup items
  BY <1>6 DEF Feed
<1>10. PICK again \in SUBSET Nat : again = f.again \cup (f.shown \cap items)
  BY <1>6 DEF Feed
<1>11. PICK done \in BOOLEAN : done = ~more
  OBVIOUS
<1>12. feed' = [f EXCEPT !.shown = shown, !.again = again, !.done = done, !.cursor = c]
  BY <1>1, <1>2, <1>3, <1>8, <1>9, <1>10, <1>11
<1>13. /\ feed' \in Feed /\ feed'.kind = kind /\ feed'.cursor = c /\ feed'.shown = shown
       /\ feed'.again = again /\ feed'.due = f.due /\ feed'.moved = f.moved /\ feed'.done = done
  <2>1. [f EXCEPT !.shown = shown, !.again = again, !.done = done, !.cursor = c] \in Feed
    BY DEF Feed
  <2> QED
    BY <1>2, <1>3, <1>12, <2>1 DEF Feed
<1> SUFFICES ASSUME ~feed.moved
             PROVE  /\ feed'.again = {} /\ feed'.shown \subseteq 0..moves'
                    /\ IF feed'.done THEN feed'.due \subseteq feed'.shown
                       ELSE PagesFit(feed.kind, feed.cursor, feed.shown, feed.due)'
  BY <1>2, <1>13 DEF FeedFits
<1>14. /\ f.again = {} /\ f.shown \subseteq 0..moves
       /\ PagesFit(kind, f.cursor, f.shown, f.due)
  BY <1>1, <1>2, <1>3 DEF FeedInv, FeedFits
<1>15. f.shown \cap items = {}
  <2> SUFFICES ASSUME NEW p \in Page, p.n \in f.shown PROVE FALSE
    OBVIOUS
  <2>1. Precedes(f.cursor, Cursor(kind, p))
    BY <1>2, <1>3, <1>4 DEF Rest
  <2> QED
    BY <1>4, <1>14, <2>1 DEF PagesFit
<1>16. feed'.again = {} /\ feed'.shown \subseteq 0..moves'
  BY <1>1, <1>5, <1>6, <1>9, <1>10, <1>13, <1>14, <1>15
<1>17. ASSUME NEW n \in f.due, n \notin shown
       PROVE  \E p \in ListOf(kind) : p.n = n /\ p \in Rest /\ p \notin Page
  <2>1. PICK p \in ListOf(kind) : p.n = n /\ (n \in f.shown \/ Precedes(f.cursor, Cursor(kind, p)))
    BY <1>14 DEF PagesFit
  <2>2. p \in Rest
    BY <1>2, <1>3, <1>9, <1>17, <2>1 DEF Rest
  <2>3. p \notin Page
    BY <1>9, <1>17, <2>1
  <2> QED
    BY <2>1, <2>2, <2>3
<1>18. CASE ~more
  <2>1. Page = Rest
    BY <1>1, <1>18, LastPageIsRest
  <2>2. f.due \subseteq shown
    BY <1>17, <2>1
  <2> QED
    BY <1>11, <1>13, <1>16, <1>18, <2>2
<1>19. CASE more
  <2>1. last \in Page /\ Ahead(last) = Page \ {last} /\ c = Cursor(kind, last)
    BY <1>7, <1>8, <1>19
  <2>2. last \in Rest /\ last \in posts /\ Listable(kind, last)
    BY <1>4, <2>1
  <2>3. c.time \in 1..moves /\ (kind = "saved" => c.priority = 0) /\ c.priority \in {0, 1}
    BY <1>5, <2>1, <2>2, CursorTyped
  <2>4. ASSUME NEW p \in posts, p.n \in shown, Listable(kind, p)
        PROVE  ~Precedes(c, Cursor(kind, p))
    <3>1. Cursor(kind, p) \in CursorAt /\ f.cursor \in CursorAt
      BY <1>5, <2>4, CursorTyped DEF Feed
    <3>2. CASE p.n \in f.shown
      <4>1. ~Precedes(f.cursor, Cursor(kind, p))
        BY <1>14, <2>4, <3>2 DEF PagesFit
      <4>2. Precedes(f.cursor, c)
        BY <1>2, <1>3, <2>1, <2>2 DEF Rest
      <4> QED
        BY <3>1, <4>1, <4>2, PrecedesThrough
    <3>3. CASE p.n \in items
      <4>1. PICK q \in Page : q.n = p.n
        BY <3>3
      <4>2. p = q
        BY <1>4, <4>1 DEF FeedInv, PostsFit
      <4>3. p = last \/ Precedes(Cursor(kind, p), c)
        BY <1>3, <2>1, <4>2 DEF Ahead
      <4>4. ~Precedes(c, c)
        BY <2>3, <1>5 DEF Precedes
      <4>5. Precedes(Cursor(kind, p), c) /\ Precedes(c, Cursor(kind, p)) => Precedes(c, c)
        BY <3>1, PrecedesThrough
      <4> QED
        BY <2>1, <4>3, <4>4, <4>5
    <3> QED
      BY <1>9, <2>4, <3>2, <3>3
  <2>5. ASSUME NEW n \in f.due
        PROVE  \E p \in ListOf(kind) : p.n = n /\ (n \in shown \/ Precedes(c, Cursor(kind, p)))
    <3>1. CASE n \in shown
      BY <1>14, <3>1 DEF PagesFit
    <3>2. CASE n \notin shown
      <4>1. PICK p \in ListOf(kind) : p.n = n /\ p \in Rest /\ p \notin Page
        BY <1>17, <3>2
      <4>2. Precedes(c, Cursor(kind, p))
        BY <1>1, <1>3, <2>1, <4>1, LastSplits
      <4> QED
        BY <4>1, <4>2
    <3> QED
      BY <3>1, <3>2
  <2>6. \A p : /\ SavesOf(p.n)' = SavesOf(p.n) /\ (Listable(kind, p)' <=> Listable(kind, p))
               /\ Follows(Reader, p.by)' = Follows(Reader, p.by)
    BY <1>1 DEF SavesOf, Listable, Follows, Between
  <2>7. \A p : Cursor(kind, p)' = Cursor(kind, p)
    BY <2>6, CursorKept
  <2>8. ASSUME NEW p \in ListOf(kind) PROVE p \in ListOf(kind)'
    <3>1. p \in posts /\ Listable(kind, p)
      BY ListIsPosts
    <3>2. kind = "saved" => SavesOf(p.n)' # {}
      BY <2>6, <3>1 DEF Listable
    <3> QED
      BY <1>1, <2>6, <3>1, <3>2, ListKept
  <2>9. c.time <= moves'
    BY <1>1, <1>5, <2>3
  <2>10. PagesFit(feed.kind, feed.cursor, feed.shown, feed.due)'
    <3>1. \A p \in posts' : p.n \in shown /\ Listable(kind, p)' => ~Precedes(c, Cursor(kind, p)')
      BY <1>1, <2>4, <2>6, <2>7
    <3>2. \A n \in f.due : \E p \in ListOf(kind)' :
            p.n = n /\ (n \in shown \/ Precedes(c, Cursor(kind, p)'))
      BY <2>5, <2>7, <2>8
    <3> QED
      BY <1>13, <2>3, <2>9, <3>1, <3>2 DEF PagesFit, Precedes
  <2> QED
    BY <1>11, <1>13, <1>16, <1>19, <2>10
<1> QED
  BY <1>18, <1>19

-----------------------------------------------------------------------------
\* A clock that ticks leaves posts and saves behind it.
LEMMA PostsSame ==
  ASSUME PostsFit, UNCHANGED <<posts, saves>>, moves' \in moves..MaxMoves
  PROVE  PostsFit' /\ moves' \in Nat /\ moves <= moves'
<1>1. moves \in Nat /\ moves' \in 0..MaxMoves /\ 1..moves \subseteq 1..moves' /\ moves <= moves'
  BY SocialAssumption DEF PostsFit
<1>2. posts' \subseteq [n : 1..moves', by : Travelers] /\ saves' \subseteq [n : Nat, at : 1..moves']
  BY <1>1 DEF PostsFit
<1> QED
  BY <1>1, <1>2 DEF PostsFit

\* A request that starts has read its rows; the feeds stay.
LEMMA FeedRequestKeeps ==
  ASSUME FeedInv, NEW l \in Links, NEW j, Request(l, j),
         UNCHANGED <<follows, blocks, posts, saves, feed>>,
         j.kind = "unfollow" => \A f \in j.rows : f.by = j.by,
         j.kind = "block" => \A f \in j.rows : f.by \in {j.by, j.whom}
  PROVE  PostsFit' /\ RowsFit' /\ FeedFits'
<1>1. moves' \in moves..MaxMoves
  BY SocialAssumption DEF Request, Tick, FeedInv, PostsFit
<1>2. PostsFit' /\ moves' \in Nat /\ moves <= moves'
  BY <1>1, PostsSame DEF FeedInv
<1>3. \A u : Follows(Reader, u)' <=> Follows(Reader, u)
  BY DEF Follows, Between
<1>4. FeedFits'
  BY <1>2, <1>3, RestKeeps
<1>5. RowsFit'
  <2>1. \A k \in Links : link'[k] = IF k = l THEN j ELSE link[k]
    BY DEF Request, FeedInv, SocialInv, Typed
  <2> QED
    BY <2>1 DEF RowsFit, FeedInv
<1> QED
  BY <1>2, <1>4, <1>5

\* A request that ends: if it is the reader's the feed is no longer ordered as
\* it was, and if not the reader sees and follows what it did.
LEMMA FeedCommitKeeps ==
  ASSUME FeedInv, NEW l \in Links, Answered(l), UNCHANGED <<posts, saves, moves>>,
         \/ Moved(Reader)
         \/ /\ feed' = feed
            /\ \A u \in Travelers : <<Reader, u>> \in blocks' => <<Reader, u>> \in blocks
            /\ \A u \in Travelers : Follows(Reader, u)' <=> Follows(Reader, u)
  PROVE  PostsFit' /\ RowsFit' /\ FeedFits'
<1>1. moves' \in moves..MaxMoves
  BY SocialAssumption DEF FeedInv, PostsFit
<1>2. PostsFit' /\ moves' \in Nat /\ moves <= moves'
  BY <1>1, PostsSame DEF FeedInv
<1>3. FeedFits'
  <2>1. ASSUME Moved(Reader) PROVE FeedFits'
    BY <2>1, MovedKeeps
  <2>2. ASSUME ~Moved(Reader) PROVE FeedFits'
    BY <1>2, <2>2, RestKeeps
  <2> QED
    BY <2>1, <2>2
<1>4. RowsFit'
  <2>1. \A k \in Links : link'[k] = link[k] \/ link'[k].kind = "none"
    BY DEF Answered, NoLink, FeedInv, SocialInv, Typed
  <2> QED
    BY <2>1 DEF RowsFit, FeedInv
<1> QED
  BY <1>2, <1>3, <1>4

\* The rows of other people are not the reader's.
LEMMA OthersRows ==
  ASSUME \A f : f.by = Reader => (f \in follows' <=> f \in follows)
  PROVE  \A u : Follows(Reader, u)' <=> Follows(Reader, u)
  BY DEF Follows, Between

\* The commits of the follow and block requests.
LEMMA LinkCommitsKeep ==
  ASSUME FeedInv, NEW l \in Links, CommitFollow(l) \/ CommitUnfollow(l) \/ CommitBlock(l)
  PROVE  PostsFit' /\ RowsFit' /\ FeedFits'
<1>0. Answered(l) /\ UNCHANGED <<posts, saves, moves>>
  BY DEF CommitFollow, CommitUnfollow, CommitBlock
<1>1. CASE CommitFollow(l)
  <2> DEFINE row == [id |-> link[l].id, by |-> link[l].by, whom |-> link[l].whom]
  <2>1. follows' = follows \cup {row} /\ Moved(link[l].by) /\ blocks' = blocks
    BY <1>1 DEF CommitFollow
  <2>2. row.by = link[l].by
    OBVIOUS
  <2> HIDE DEF row
  <2>3. CASE link[l].by = Reader
    BY <1>0, <2>1, <2>3, FeedCommitKeeps
  <2>4. CASE link[l].by # Reader
    <3>1. feed' = feed
      BY <2>1, <2>4 DEF Moved
    <3>2. \A u : Follows(Reader, u)' <=> Follows(Reader, u)
      BY <2>1, <2>2, <2>4, OthersRows
    <3> QED
      BY <1>0, <2>1, <3>1, <3>2, FeedCommitKeeps
  <2> QED
    BY <2>3, <2>4
<1>2. CASE CommitUnfollow(l)
  <2>1. /\ follows' = follows \ link[l].rows /\ Moved(link[l].by) /\ blocks' = blocks
        /\ link[l].kind = "unfollow"
    BY <1>2 DEF CommitUnfollow
  <2>2. \A f \in link[l].rows : f.by = link[l].by
    BY <2>1 DEF FeedInv, RowsFit
  <2>3. CASE link[l].by = Reader
    BY <1>0, <2>1, <2>3, FeedCommitKeeps
  <2>4. CASE link[l].by # Reader
    <3>1. feed' = feed
      BY <2>1, <2>4 DEF Moved
    <3>2. \A u : Follows(Reader, u)' <=> Follows(Reader, u)
      BY <2>1, <2>2, <2>4, OthersRows
    <3> QED
      BY <1>0, <2>1, <3>1, <3>2, FeedCommitKeeps
  <2> QED
    BY <2>3, <2>4
<1>3. CASE CommitBlock(l)
  <2> DEFINE j == link[l]
  <2>1. CASE UNCHANGED <<follows, blocks, feed>>
    <3>1. \A u : Follows(Reader, u)' <=> Follows(Reader, u)
      BY <2>1 DEF Follows, Between
    <3> QED
      BY <1>0, <2>1, <3>1, FeedCommitKeeps
  <2>2. CASE /\ follows' = follows \ j.rows
             /\ blocks' = IF j.known THEN blocks ELSE blocks \cup {<<j.by, j.whom>>}
             /\ IF Reader \in {j.by, j.whom} THEN Moved(Reader) ELSE UNCHANGED feed
    <3>1. \A f \in j.rows : f.by \in {j.by, j.whom}
      BY <1>3 DEF CommitBlock, FeedInv, RowsFit
    <3>2. CASE Reader \in {j.by, j.whom}
      BY <1>0, <2>2, <3>2, FeedCommitKeeps
    <3>3. CASE Reader \notin {j.by, j.whom}
      <4>1. \A u : Follows(Reader, u)' <=> Follows(Reader, u)
        BY <2>2, <3>1, <3>3, OthersRows
      <4>2. \A u \in Travelers : <<Reader, u>> \in blocks' => <<Reader, u>> \in blocks
        BY <2>2, <3>3
      <4> QED
        BY <1>0, <2>2, <3>3, <4>1, <4>2, FeedCommitKeeps
    <3> QED
      BY <3>2, <3>3
  <2> QED
    BY <1>3, <2>1, <2>2 DEF CommitBlock
<1> QED
  BY <1>1, <1>2, <1>3

\* No feed is open on an empty platform.
LEMMA FeedStarts == SocialInit => FeedInv
<1> SUFFICES ASSUME SocialInit PROVE FeedInv
  OBVIOUS
<1>1. MaxMoves \in Nat /\ IsFiniteSet({})
  BY SocialAssumption, FS_EmptySet
<1>2. \A l \in Links : link[l].kind = "none"
  BY DEF SocialInit, NoLink
<1>3. moves \in 0..MaxMoves
  BY <1>1 DEF SocialInit
<1>4. PostsFit
  BY <1>1, <1>3 DEF SocialInit, PostsFit
<1>5. RowsFit /\ FeedFits
  BY <1>2 DEF SocialInit, RowsFit, FeedFits
<1> QED
  BY <1>4, <1>5, SocialStarts DEF FeedInv

\* Every step of the requests and of the reader keeps the feeds right.
LEMMA FeedSteps == FeedInv /\ [SocialNext]_socialVars => FeedInv'
<1> SUFFICES ASSUME FeedInv, [SocialNext]_socialVars PROVE PostsFit' /\ RowsFit' /\ FeedFits'
  BY SocialSteps DEF FeedInv
<1>1. ASSUME NEW l \in Links, NEW u \in Travelers, NEW v \in Targets, FollowUser(l, u, v)
      PROVE  PostsFit' /\ RowsFit' /\ FeedFits'
  BY <1>1, FeedRequestKeeps DEF FollowUser, Following
<1>2. ASSUME NEW l \in Links, NEW u \in Travelers, NEW v \in Targets, UnfollowUser(l, u, v)
      PROVE  PostsFit' /\ RowsFit' /\ FeedFits'
  <2>1. \A f \in Between(u, v) : f.by = u
    BY DEF Between
  <2> QED
    BY <1>2, <2>1, FeedRequestKeeps DEF UnfollowUser
<1>3. ASSUME NEW l \in Links, NEW u \in Travelers, NEW v \in Travelers, BlockUser(l, u, v)
      PROVE  PostsFit' /\ RowsFit' /\ FeedFits'
  <2>1. \A f \in Between(u, v) \cup Between(v, u) : f.by \in {u, v}
    BY DEF Between
  <2> QED
    BY <1>3, <2>1, FeedRequestKeeps DEF BlockUser
<1>4. ASSUME NEW u \in Travelers, NEW v \in Travelers, UnblockUser(u, v)
      PROVE  PostsFit' /\ RowsFit' /\ FeedFits'
  <2>1. /\ moves' = moves + 1 /\ moves < MaxMoves /\ blocks' \subseteq blocks
        /\ UNCHANGED <<follows, posts, saves, link, feed>>
    BY <1>4 DEF UnblockUser, Tick
  <2>2. moves' \in moves..MaxMoves
    BY <2>1, SocialAssumption DEF FeedInv, PostsFit
  <2>3. PostsFit' /\ moves' \in Nat /\ moves <= moves'
    BY <2>1, <2>2, PostsSame DEF FeedInv
  <2>4. \A x : Follows(Reader, x)' <=> Follows(Reader, x)
    BY <2>1 DEF Follows, Between
  <2>5. FeedFits'
    BY <2>1, <2>3, <2>4, RestKeeps
  <2> QED
    BY <2>1, <2>3, <2>5 DEF FeedInv, RowsFit
<1>5. ASSUME NEW u \in Travelers, CreatePost(u) PROVE PostsFit' /\ RowsFit' /\ FeedFits'
  <2>1. RowsFit'
    BY <1>5 DEF CreatePost, FeedInv, RowsFit
  <2> QED
    BY <1>5, <2>1, CreatePostKeeps
<1>6. ASSUME NEW p \in posts, PostDeleted(p) \/ SavePost(p) \/ UnsavePost(p)
      PROVE  PostsFit' /\ RowsFit' /\ FeedFits'
  <2>1. RowsFit'
    BY <1>6 DEF PostDeleted, SavePost, UnsavePost, FeedInv, RowsFit
  <2> QED
    BY <1>6, <2>1, PostDeletedKeeps, SavePostKeeps, UnsavePostKeeps
<1>7. ASSUME UNCHANGED <<posts, saves, moves, link>>, FeedFits'
      PROVE  PostsFit' /\ RowsFit' /\ FeedFits'
  BY <1>7 DEF FeedInv, PostsFit, RowsFit
<1>8. ASSUME NEW kind \in FeedKinds, OpenFeed(kind) PROVE PostsFit' /\ RowsFit' /\ FeedFits'
  <2>1. UNCHANGED <<posts, saves, moves, link>>
    BY <1>8 DEF OpenFeed
  <2> QED
    BY <1>7, <1>8, <2>1, OpenFeedFits
<1>9. ASSUME CursorPage PROVE PostsFit' /\ RowsFit' /\ FeedFits'
  <2>1. UNCHANGED <<posts, saves, moves, link>>
    BY <1>9 DEF CursorPage
  <2> QED
    BY <1>7, <1>9, <2>1, CursorPageKeeps
<1>10. ASSUME CloseFeed PROVE PostsFit' /\ RowsFit' /\ FeedFits'
  <2>1. UNCHANGED <<posts, saves, moves, link>> /\ FeedFits'
    BY <1>10 DEF CloseFeed, FeedFits
  <2> QED
    BY <1>7, <2>1
<1>11. ASSUME UNCHANGED socialVars PROVE PostsFit' /\ RowsFit' /\ FeedFits'
  <2>1. UNCHANGED <<follows, blocks, posts, saves, link, feed, moves>>
    BY <1>11 DEF socialVars
  <2>2. moves' \in Nat /\ moves <= moves'
    BY <2>1 DEF FeedInv, PostsFit
  <2>3. \A x : Follows(Reader, x)' <=> Follows(Reader, x)
    BY <2>1 DEF Follows, Between
  <2>4. FeedFits'
    BY <2>1, <2>2, <2>3, RestKeeps
  <2> QED
    BY <1>7, <2>1, <2>4
<1> QED
  BY <1>1, <1>2, <1>3, <1>4, <1>5, <1>6, <1>8, <1>9, <1>10, <1>11, LinkCommitsKeep
  DEF SocialNext, FeedKinds

\* Paging shows every post that was there throughout once, as long as the
\* reader's follows and blocks stay (_cursor_page, list_saved_posts), for any
\* page size, posts, saves and deletions meanwhile.
THEOREM FeedsShowOnce == SocialSpec => []FeedShowsOnce
<1>1. FeedInv => FeedShowsOnce
  BY DEF FeedInv, FeedFits, FeedShowsOnce
<1> QED
  BY <1>1, FeedStarts, FeedSteps, PTL DEF SocialSpec

-----------------------------------------------------------------------------
\* A follow in flight is numbered by when it was asked for.
RowIds == \A l \in Links : link[l].kind = "follow" => link[l].id \in 1..MaxMoves

SocialTypes == FeedInv /\ RowIds /\ SocialTypeOK

\* A step that is not a commit leaves the rows and the histories.
LEMMA OtherStepsTyped ==
  ASSUME SocialTypes, UNCHANGED <<doubled, over>>, follows' \subseteq follows,
         blocks' \subseteq Travelers \X Travelers,
         posts' \subseteq [n : 1..MaxMoves, by : Travelers],
         saves' \subseteq [n : 1..MaxMoves, at : 1..MaxMoves]
  PROVE  SocialTypeOK'
  BY DEF SocialTypes, SocialTypeOK

\* The one step that adds to the histories.
LEMMA CommitFollowTyped ==
  ASSUME SocialTypes, NEW l \in Links, CommitFollow(l)
  PROVE  SocialTypeOK'
<1> DEFINE u == link[l].by
           v == link[l].whom
           row == [id |-> link[l].id, by |-> u, whom |-> v]
<1>1. /\ link[l].kind = "follow"
      /\ follows' = follows \cup {row}
      /\ doubled' \subseteq doubled \cup {link[l].id} /\ over' \subseteq over \cup {link[l].id}
      /\ UNCHANGED <<blocks, posts, saves>>
  BY DEF CommitFollow
<1>2. u \in Travelers /\ v \in Targets /\ link[l].id \in 1..MaxMoves
  BY <1>1 DEF SocialTypes, FeedInv, SocialInv, Typed, RowIds
<1>3. row \in [id : 1..MaxMoves, by : Travelers, whom : Targets]
  BY <1>2
<1> HIDE DEF row
<1>5. follows' \subseteq [id : 1..MaxMoves, by : Travelers, whom : Targets]
  BY <1>1, <1>3 DEF SocialTypes, SocialTypeOK
<1>6. doubled' \subseteq 1..MaxMoves /\ over' \subseteq 1..MaxMoves
  BY <1>1, <1>2 DEF SocialTypes, SocialTypeOK
<1> QED
  BY <1>1, <1>5, <1>6 DEF SocialTypes, SocialTypeOK

\* Every step keeps the types.
LEMMA SocialTypesStep ==
  ASSUME SocialTypes, [SocialNext]_socialVars
  PROVE  SocialTypes'
<1>1. FeedInv'
  BY FeedSteps DEF SocialTypes
<1>2. posts' \subseteq [n : 1..MaxMoves, by : Travelers]
  <2>1. moves' \in 0..MaxMoves /\ posts' \subseteq [n : 1..moves', by : Travelers]
    BY <1>1 DEF FeedInv, PostsFit
  <2>2. 1..moves' \subseteq 1..MaxMoves
    BY <2>1, SocialAssumption
  <2> QED
    BY <2>1, <2>2
<1>3. /\ MaxMoves \in Nat /\ moves \in Nat
      /\ \A l \in Links : link[l].kind = "follow" => link[l].id \in 1..MaxMoves
      /\ DOMAIN link = Links
  BY SocialAssumption DEF SocialTypes, FeedInv, PostsFit, SocialInv, Typed, RowIds
<1>4. ASSUME NEW l \in Links, NEW j, Request(l, j), j.kind = "follow" => j.id = moves + 1
      PROVE  RowIds'
  <2>1. moves + 1 \in 1..MaxMoves
    BY <1>3, <1>4 DEF Request, Tick
  <2>2. \A k \in Links : link'[k] = IF k = l THEN j ELSE link[k]
    BY <1>3, <1>4 DEF Request
  <2> QED
    BY <1>3, <1>4, <2>1, <2>2 DEF RowIds
<1>5. ASSUME NEW l \in Links, Answered(l) PROVE RowIds'
  <2>1. \A k \in Links : link'[k] = link[k] \/ link'[k].kind = "none"
    BY <1>3, <1>5 DEF Answered, NoLink
  <2> QED
    BY <1>3, <2>1 DEF RowIds
<1>6. ASSUME UNCHANGED link PROVE RowIds'
  BY <1>3, <1>6 DEF RowIds
<1>7. ASSUME UNCHANGED <<doubled, over>>, follows' \subseteq follows,
             blocks' \subseteq Travelers \X Travelers,
             saves' \subseteq [n : 1..MaxMoves, at : 1..MaxMoves]
      PROVE  SocialTypeOK'
  BY <1>2, <1>7, OtherStepsTyped
<1>8. /\ blocks \subseteq Travelers \X Travelers
      /\ saves \subseteq [n : 1..MaxMoves, at : 1..MaxMoves]
      /\ posts \subseteq [n : 1..MaxMoves, by : Travelers]
  BY DEF SocialTypes, SocialTypeOK
<1>9. ASSUME NEW l \in Links, NEW u \in Travelers, NEW v \in Targets,
             FollowUser(l, u, v) \/ UnfollowUser(l, u, v)
      PROVE  RowIds' /\ SocialTypeOK'
  <2>1. UNCHANGED <<follows, blocks, posts, saves, doubled, over>>
    BY <1>9 DEF FollowUser, Following, UnfollowUser, histories
  <2>2. CASE FollowUser(l, u, v)
    BY <1>4, <1>7, <1>8, <2>1, <2>2 DEF FollowUser, Following
  <2>3. CASE UnfollowUser(l, u, v)
    BY <1>4, <1>7, <1>8, <2>1, <2>3 DEF UnfollowUser
  <2> QED
    BY <1>9, <2>2, <2>3
<1>10. ASSUME NEW l \in Links, NEW u \in Travelers, NEW v \in Travelers, BlockUser(l, u, v)
       PROVE  RowIds' /\ SocialTypeOK'
  <2>1. UNCHANGED <<follows, blocks, posts, saves, doubled, over>>
    BY <1>10 DEF BlockUser, histories
  <2> QED
    BY <1>4, <1>7, <1>8, <1>10, <2>1 DEF BlockUser
<1>11. ASSUME NEW l \in Links, CommitFollow(l) PROVE RowIds' /\ SocialTypeOK'
  BY <1>5, <1>11, CommitFollowTyped DEF CommitFollow
<1>12. ASSUME NEW l \in Links, CommitUnfollow(l) PROVE RowIds' /\ SocialTypeOK'
  BY <1>5, <1>7, <1>8, <1>12 DEF CommitUnfollow, histories
<1>13. ASSUME NEW l \in Links, CommitBlock(l) PROVE RowIds' /\ SocialTypeOK'
  <2>1. Answered(l) /\ UNCHANGED <<posts, saves, doubled, over>> /\ follows' \subseteq follows
    BY <1>13 DEF CommitBlock, histories
  <2>2. blocks' \subseteq Travelers \X Travelers
    BY <1>1 DEF FeedInv, SocialInv, Typed
  <2> QED
    BY <1>5, <1>7, <1>8, <2>1, <2>2
<1>14. ASSUME NEW u \in Travelers, CreatePost(u) PROVE RowIds' /\ SocialTypeOK'
  BY <1>6, <1>7, <1>8, <1>14 DEF CreatePost, histories
<1>15. ASSUME NEW u \in Travelers, NEW v \in Travelers, UnblockUser(u, v)
       PROVE  RowIds' /\ SocialTypeOK'
  BY <1>6, <1>7, <1>8, <1>15 DEF UnblockUser, histories
<1>16. ASSUME NEW p \in posts, PostDeleted(p) \/ UnsavePost(p) PROVE RowIds' /\ SocialTypeOK'
  <2>1. saves' \subseteq saves /\ UNCHANGED <<follows, blocks, link, doubled, over>>
    BY <1>16 DEF PostDeleted, UnsavePost, histories
  <2> QED
    BY <1>6, <1>7, <1>8, <2>1
<1>17. ASSUME NEW p \in posts, SavePost(p) PROVE RowIds' /\ SocialTypeOK'
  <2>1. /\ saves' = saves \cup {[n |-> p.n, at |-> moves + 1]} /\ moves < MaxMoves
        /\ UNCHANGED <<follows, blocks, link, doubled, over>>
    BY <1>17 DEF SavePost, Tick, histories
  <2>2. [n |-> p.n, at |-> moves + 1] \in [n : 1..MaxMoves, at : 1..MaxMoves]
    BY <1>3, <1>8, <2>1
  <2>3. saves' \subseteq [n : 1..MaxMoves, at : 1..MaxMoves]
    BY <1>8, <2>1, <2>2
  <2> QED
    BY <1>6, <1>7, <1>8, <2>1, <2>3
<1>18. ASSUME \/ \E kind \in {"all", "following", "saved"} : OpenFeed(kind)
              \/ CursorPage \/ CloseFeed \/ UNCHANGED socialVars
       PROVE  RowIds' /\ SocialTypeOK'
  <2>1. UNCHANGED <<follows, blocks, posts, saves, link, doubled, over>>
    BY <1>18 DEF OpenFeed, CursorPage, CloseFeed, socialVars, histories
  <2> QED
    BY <1>6, <1>7, <1>8, <2>1
<1> QED
  BY <1>1, <1>9, <1>10, <1>11, <1>12, <1>13, <1>14, <1>15, <1>16, <1>17, <1>18
  DEF SocialNext, SocialTypes

-----------------------------------------------------------------------------
(* Agencies: the row, its bank details and its Route account. *)

AgencyTables ==
  /\ agency \in AgencyRow \cup {None}
  /\ bank \in BankRow \cup {None}
  /\ razorpay \in Seq(Details \cup {None})
  /\ bank # None => bank.linked \in 0..Len(razorpay)
  /\ DOMAIN req = Workers
  /\ left \in 0..MaxRequests /\ dropped \in Nat /\ behind \subseteq BankColumns

\* An edit in flight was checked against the row it loaded.
EditFits(r) ==
  /\ r.seen \in AgencyRow /\ r.new \in AgencyRow
  /\ r.seen.gstin \in {None, Blank, r.new.gstin} \/ r.new.gstin = Blank
  /\ r.new.status = "APPROVED" /\ r.seen.status # "APPROVED" => r.seen.flags = Flags
  /\ agency # None

\* A bank request was checked against the bank row it loaded, which stays.
BankFits(r) ==
  /\ r.details \in Details /\ r.confirm \in BOOLEAN /\ agency # None
  /\ r.seen \in BankRow \cup {None}
  /\ r.seen # None => r.seen.linked \in 0..Len(razorpay) /\ bank # None
  /\ ~r.confirm => r.seen = None \/ r.seen.status = "FAILED"

\* The request that holds the bank row works on the loaded account, or on one
\* it opened since, which no row has.
HoldFits(r) ==
  /\ {"at", "account", "clean"} \subseteq DOMAIN r
  /\ r.status \in {"PENDING", "FAILED"} /\ r.account \in 0..Len(razorpay) /\ r.clean \in BOOLEAN
  /\ r.at = "linking" => r.account = SeenAccount(r) /\ ~r.clean
  /\ r.at = "configuring" => r.account # 0 /\ ~r.clean
  /\ r.account # SeenAccount(r) => SeenAccount(r) = 0 /\ (bank # None => bank.linked # r.account)
  /\ r.clean => r.account # 0 /\ razorpay[r.account] = r.details

Holding == {"linking", "configuring", "saving"}

RequestFits(w) ==
  /\ req[w] = Free \/ req[w].at \in {"edit", "ifsc"} \cup Holding
  /\ req[w].at = "edit" => EditFits(req[w])
  /\ req[w].at \in {"ifsc"} \cup Holding => BankFits(req[w])
  /\ req[w].at \in Holding => HoldFits(req[w])

OneHolder == \A v, w \in Workers : HoldsBank(v) /\ HoldsBank(w) => v = w

AgenciesInv ==
  /\ AgencyTables
  /\ \A w \in Workers : RequestFits(w)
  /\ OneHolder
  /\ RouteHolds

-----------------------------------------------------------------------------
OnRow(b) == IF b = None THEN {} ELSE {b.linked} \ {0}
Opened(rq) == {rq[w].account : w \in {v \in Workers : rq[v].at \in Holding
                                                     /\ rq[v].account # SeenAccount(rq[v])}}

\* How many accounts the row and the requests have.
LEMMA AccountsCounted ==
  /\ Cardinality({}) = 0
  /\ \A x : Cardinality({x}) = 1
  /\ \A x, y : x # y => Cardinality({x} \cup {y}) = 2
<1>1. ASSUME NEW x, NEW y, x # y PROVE Cardinality({x} \cup {y}) = 2
  <2>1. IsFiniteSet({x}) /\ Cardinality({x}) = 1
    BY FS_Singleton
  <2> QED
    BY <1>1, <2>1, FS_AddElement
<1> QED
  BY <1>1, FS_EmptySet, FS_Singleton

\* Only the holder has an account of its own.
LEMMA OpenedByHolder ==
  ASSUME NEW rq, NEW w \in Workers,
         \A v \in Workers : v # w => rq[v].at \notin Holding
  PROVE  Opened(rq) = IF rq[w].at \in Holding /\ rq[w].account # SeenAccount(rq[w])
                      THEN {rq[w].account} ELSE {}
  BY DEF Opened

\* The count of accounts (AccountsAccountedFor), in terms of sets that can be
\* written one request at a time.
LEMMA AccountsInSets ==
  AccountsAccountedFor <=> Len(razorpay) = dropped + Cardinality(OnRow(bank) \cup Opened(req))
  BY DEF AccountsAccountedFor, OnRow, Opened, HoldsBank, Holding

\* The same of the next state.
LEMMA AccountsInSetsNext ==
  AccountsAccountedFor' <=> Len(razorpay') = dropped' + Cardinality(OnRow(bank') \cup Opened(req'))
  BY DEF AccountsAccountedFor, OnRow, Opened, HoldsBank, Holding, SeenAccount

\* A row with one column written is a row.
LEMMA RowsTyped ==
  ASSUME NEW row \in AgencyRow
  PROVE  /\ row.gstin \in Filings /\ row.flags \subseteq Flags
         /\ \A g \in Filings :
              /\ [row EXCEPT !.gstin = g] \in AgencyRow
              /\ [row EXCEPT !.gstin = g].gstin = g /\ [row EXCEPT !.gstin = g].status = row.status
         /\ \A F \in SUBSET Flags :
              /\ [row EXCEPT !.flags = F] \in AgencyRow
              /\ [row EXCEPT !.flags = F].gstin = row.gstin
              /\ [row EXCEPT !.flags = F].status = row.status
         /\ \A x \in {"pending", "under_review", "verified", "rejected"} :
              /\ [row EXCEPT !.verification = x] \in AgencyRow
              /\ [row EXCEPT !.verification = x].gstin = row.gstin
              /\ [row EXCEPT !.verification = x].status = row.status
         /\ \A x \in {"PENDING", "APPROVED", "REJECTED", "PAUSED", "SUSPENDED"} :
              /\ [row EXCEPT !.status = x] \in AgencyRow
              /\ [row EXCEPT !.status = x].gstin = row.gstin
              /\ [row EXCEPT !.status = x].status = x
  BY DEF AgencyRow

\* An agency that signs up is a row.
LEMMA NewAgencyTyped == \A g \in Filings : NewAgency(g) \in AgencyRow
  BY DEF NewAgency, AgencyRow

\* What an edit writes is a row; over the row it loaded, it is the row it made.
LEMMA EditWritten ==
  ASSUME NEW r, agency \in AgencyRow, r.seen \in AgencyRow, r.new \in AgencyRow
  PROVE  /\ Written(r) \in AgencyRow
         /\ Written(r).gstin = IF r.new.gstin # r.seen.gstin THEN r.new.gstin ELSE agency.gstin
         /\ Written(r).status = IF r.new.status # r.seen.status THEN r.new.status ELSE agency.status
<1> DEFINE F == (agency.flags \ (r.seen.flags \ r.new.flags)) \cup (r.new.flags \ r.seen.flags)
           G == IF r.new.gstin # r.seen.gstin THEN r.new.gstin ELSE agency.gstin
           V == IF r.new.verification # r.seen.verification THEN r.new.verification ELSE agency.verification
           S == IF r.new.status # r.seen.status THEN r.new.status ELSE agency.status
           row == [gstin |-> G, flags |-> F, verification |-> V, status |-> S]
<1>1. DOMAIN agency = {"gstin", "flags", "verification", "status"}
  BY DEF AgencyRow
<1>2. /\ G \in Filings /\ F \in SUBSET Flags
      /\ V \in {"pending", "under_review", "verified", "rejected"}
      /\ S \in {"PENDING", "APPROVED", "REJECTED", "PAUSED", "SUSPENDED"}
  BY DEF AgencyRow
<1>3. Written(r) = row
  <2>1. Written(r) = [c \in DOMAIN agency |-> Written(r)[c]]
    BY DEF Written
  <2>2. row = [c \in DOMAIN agency |-> row[c]]
    BY <1>1
  <2>3. \A c \in DOMAIN agency : Written(r)[c] = row[c]
    <3> SUFFICES ASSUME NEW c \in DOMAIN agency PROVE Written(r)[c] = row[c]
      OBVIOUS
    <3>1. Written(r)[c] = IF c = "flags" THEN F
                          ELSE IF r.new[c] # r.seen[c] THEN r.new[c] ELSE agency[c]
      BY DEF Written
    <3> HIDE DEF F
    <3>2. row[c] = IF c = "flags" THEN F
                   ELSE IF r.new[c] # r.seen[c] THEN r.new[c] ELSE agency[c]
      BY <1>1
    <3> QED
      BY <3>1, <3>2
  <2> HIDE DEF row
  <2> QED
    BY <2>1, <2>2, <2>3
<1> HIDE DEF G, F, V, S
<1>4. row \in AgencyRow /\ row.gstin = G /\ row.status = S
  BY <1>2 DEF AgencyRow
<1> QED
  BY <1>3, <1>4 DEF G, S

-----------------------------------------------------------------------------
\* Nothing is filed and no request runs when the platform starts.
LEMMA AgenciesStart == AgenciesInit => AgenciesInv
<1> SUFFICES ASSUME AgenciesInit PROVE AgenciesInv
  OBVIOUS
<1>1. \A w \in Workers : req[w] = Free
  BY DEF AgenciesInit
<1>2. razorpay \in Seq(Details \cup {None}) /\ bank = None /\ agency = None
  BY DEF AgenciesInit
<1>3. left \in 0..MaxRequests /\ dropped \in Nat /\ DOMAIN req = Workers
  BY AgenciesAssumption DEF AgenciesInit
<1>4. behind \subseteq BankColumns
  BY DEF AgenciesInit
<1>5. AgencyTables
  BY <1>2, <1>3, <1>4 DEF AgencyTables
<1>6. \A w \in Workers : RequestFits(w) /\ ~HoldsBank(w)
  BY <1>1 DEF RequestFits, HoldsBank, Holding, Free
<1>7. Opened(req) = {} /\ OnRow(bank) = {}
  BY <1>2, <1>6 DEF Opened, OnRow, HoldsBank, Holding
<1>8. AccountsAccountedFor
  <2>1. Len(razorpay) = 0 /\ dropped = 0
    BY DEF AgenciesInit
  <2>2. Cardinality(OnRow(bank) \cup Opened(req)) = 0
    BY <1>7, AccountsCounted
  <2> QED
    BY <2>1, <2>2, AccountsInSets
<1>9. RouteFollowsBank
  BY <1>2 DEF RouteFollowsBank
<1> QED
  BY <1>1, <1>5, <1>6, <1>8, <1>9 DEF AgenciesInv, OneHolder, RouteHolds

\* A request that a step leaves alone still fits.
LEMMA OthersFit ==
  ASSUME AgenciesInv, NEW v \in Workers, req'[v] = req[v],
         Len(razorpay') \in Nat, Len(razorpay) <= Len(razorpay'),
         HoldsBank(v) => UNCHANGED <<bank, razorpay>>,
         agency' = None => agency = None, bank' = None => bank = None
  PROVE  RequestFits(v)'
<1>1. RequestFits(v) /\ Len(razorpay) \in Nat
  BY DEF AgenciesInv, AgencyTables
<1>2. CASE req[v] = Free
  BY <1>2 DEF RequestFits, Free, Holding
<1>3. CASE req[v] # Free
  <2>1. req[v].at = "edit" => EditFits(req[v])'
    BY <1>1, <1>3 DEF RequestFits, EditFits
  <2>2. req[v].at \in {"ifsc"} \cup Holding => BankFits(req[v])'
    BY <1>1, <1>3 DEF RequestFits, BankFits
  <2>3. req[v].at \in Holding => HoldFits(req[v])'
    BY <1>1 DEF RequestFits, HoldFits, SeenAccount, HoldsBank, Holding
  <2> QED
    BY <1>1, <2>1, <2>2, <2>3 DEF RequestFits, EditFits, BankFits, HoldFits, SeenAccount, Holding
<1> QED
  BY <1>2, <1>3

\* A step of one request.
LEMMA StepFits ==
  ASSUME AgenciesInv, AgencyTables', NEW w \in Workers,
         \A v \in Workers : v # w => req'[v] = req[v],
         RequestFits(w)', Len(razorpay) <= Len(razorpay'),
         \/ UNCHANGED <<bank, razorpay>>
         \/ HoldsBank(w),
         HoldsBank(w)' => HoldsBank(w) \/ \A v \in Workers : ~HoldsBank(v),
         agency' = None => agency = None, bank' = None => bank = None,
         RouteHolds'
  PROVE  AgenciesInv'
<1>1. Len(razorpay') \in Nat
  BY DEF AgencyTables
<1>2. \A v \in Workers : RequestFits(v)'
  <2> SUFFICES ASSUME NEW v \in Workers, v # w PROVE RequestFits(v)'
    OBVIOUS
  <2>1. HoldsBank(v) => UNCHANGED <<bank, razorpay>>
    BY DEF AgenciesInv, OneHolder
  <2> QED
    BY <1>1, <2>1, OthersFit
<1>3. OneHolder'
  BY DEF AgenciesInv, OneHolder, HoldsBank
<1> QED
  BY <1>2, <1>3 DEF AgenciesInv

\* A step that is no bank request's leaves the bank row and Route alone.
LEMMA RouteSame ==
  ASSUME RouteHolds, UNCHANGED <<bank, razorpay, dropped, behind>>, NEW w \in Workers,
         \A v \in Workers : v # w => req'[v] = req[v],
         ~HoldsBank(w), ~HoldsBank(w)'
  PROVE  RouteHolds'
<1>1. \A v \in Workers : HoldsBank(v)' <=> HoldsBank(v)
  BY DEF HoldsBank
<1>2. RouteFollowsBank'
  BY <1>1 DEF RouteHolds, RouteFollowsBank
<1>3. Opened(req') = Opened(req)
  BY DEF Opened, HoldsBank, Holding
<1> QED
  BY <1>2, <1>3, AccountsInSets, AccountsInSetsNext DEF RouteHolds

\* The agency is created, an edit starts, or one is committed.
LEMMA EditsStart ==
  ASSUME AgenciesInv, NEW w \in Workers, NEW new, Edit(w, new), agency # None, new \in AgencyRow,
         agency.gstin \in {None, Blank, new.gstin} \/ new.gstin = Blank,
         new.status = "APPROVED" /\ agency.status # "APPROVED" => agency.flags = Flags
  PROVE  AgenciesInv'
<1>1. /\ req[w] = Free /\ req' = [req EXCEPT ![w] = [at |-> "edit", seen |-> agency, new |-> new]]
      /\ UNCHANGED <<agency, bank, razorpay, dropped, behind>>
      /\ left > 0 /\ left' = left - 1
  BY DEF Edit, Start
<1>2. /\ req'[w] = [at |-> "edit", seen |-> agency, new |-> new]
      /\ \A v \in Workers : v # w => req'[v] = req[v]
  BY <1>1 DEF AgenciesInv, AgencyTables
<1>3. AgencyTables'
  BY <1>1, AgenciesAssumption DEF AgenciesInv, AgencyTables
<1>4. EditFits(req[w])' /\ req'[w].at = "edit"
  <2>1. agency \in AgencyRow /\ agency' = agency
    BY <1>1 DEF AgenciesInv, AgencyTables
  <2> QED
    BY <1>2, <2>1 DEF EditFits
<1>5. RequestFits(w)' /\ ~HoldsBank(w) /\ ~HoldsBank(w)'
  <2>1. RequestFits(w)'
    BY <1>4 DEF RequestFits, Holding
  <2> QED
    BY <1>1, <1>4, <2>1 DEF HoldsBank, Free
<1>6. RouteHolds'
  BY <1>1, <1>2, <1>5, RouteSame DEF AgenciesInv
<1>7. Len(razorpay) <= Len(razorpay')
  BY <1>1 DEF AgenciesInv, AgencyTables
<1> QED
  BY <1>1, <1>2, <1>3, <1>5, <1>6, <1>7, StepFits

\* A GSTIN that is filed is kept or erased, and goes on a row that has none.
FiledFits(g) ==
  /\ Filed(g) \in AgencyRow /\ Filed(g).status = agency.status
  /\ agency.gstin \in {None, Blank, Filed(g).gstin} \/ Filed(g).gstin = Blank

\* A filing that passes the GSTIN/PAN check keeps the row well formed.
LEMMA FiledIsRow ==
  ASSUME agency \in AgencyRow, NEW g \in Filings, GstinPanImmutable(agency, g)
  PROVE  FiledFits(g)
<1> DEFINE x == IF g = None THEN agency.gstin ELSE g
           row == [agency EXCEPT !.gstin = x]
<1>1. x \in Filings /\ (agency.gstin \in {None, Blank, x} \/ x = Blank)
  BY RowsTyped DEF GstinPanImmutable
<1>2. Filed(g) = row
  BY DEF Filed
<1> HIDE DEF x
<1>3. row \in AgencyRow /\ row.gstin = x /\ row.status = agency.status
  <2>1. \A y \in Filings :
          /\ [agency EXCEPT !.gstin = y] \in AgencyRow
          /\ [agency EXCEPT !.gstin = y].gstin = y
          /\ [agency EXCEPT !.gstin = y].status = agency.status
    BY RowsTyped
  <2> QED
    BY <1>1, <2>1, Zenon
<1> QED
  BY <1>1, <1>2, <1>3 DEF FiledFits

\* The agency is created, or one of its pages is submitted.
LEMMA AgencyRowsKeep ==
  ASSUME AgenciesInv, NEW w \in Workers,
         \/ \E g \in Filings :
              CreateAgency(w, g) \/ UpdateAgency(w, g) \/ SubmitVerification(w, g)
         \/ ApproveVerification(w)
         \/ RejectVerification(w)
         \/ \E F \in SUBSET Flags : SetVerificationFlags(w, F)
         \/ \E s \in {"PENDING", "APPROVED", "REJECTED", "PAUSED", "SUSPENDED"} :
              UpdateAgencyOperationalStatus(w, s)
  PROVE  AgenciesInv'
<1>1. agency # None => agency \in AgencyRow
  BY DEF AgenciesInv, AgencyTables
<1>2. ASSUME NEW g \in Filings, CreateAgency(w, g) PROVE AgenciesInv'
  <2>1. /\ agency' \in AgencyRow /\ UNCHANGED <<bank, razorpay, req, dropped, behind>>
        /\ left > 0 /\ left' = left - 1 /\ \A v \in Workers : req[v] = Free
    BY <1>2, NewAgencyTyped DEF CreateAgency
  <2>2. AgencyTables' /\ agency' # None
    BY <2>1, AgenciesAssumption, NoneIsNoRow DEF AgenciesInv, AgencyTables
  <2>3. ~HoldsBank(w) /\ ~HoldsBank(w)'
    BY <2>1 DEF HoldsBank, Free
  <2>4. RequestFits(w)'
    BY <2>1 DEF RequestFits, Free, Holding
  <2>5. RouteHolds'
    BY <2>1, <2>3, RouteSame DEF AgenciesInv
  <2>6. Len(razorpay) <= Len(razorpay')
    BY <2>1 DEF AgenciesInv, AgencyTables
  <2> QED
    BY <2>1, <2>2, <2>3, <2>4, <2>5, <2>6, StepFits
<1>3. ASSUME NEW g \in Filings, UpdateAgency(w, g) PROVE AgenciesInv'
  <2>1. agency # None /\ agency \in AgencyRow /\ Edit(w, Filed(g)) /\ GstinPanImmutable(agency, g)
    BY <1>1, <1>3 DEF UpdateAgency
  <2>2. FiledFits(g)
    BY <2>1, FiledIsRow
  <2> QED
    BY <2>1, <2>2, EditsStart DEF FiledFits
<1>4. ASSUME NEW g \in Filings, SubmitVerification(w, g) PROVE AgenciesInv'
  <2> DEFINE row == Filed(g)
  <2>1. /\ row \in AgencyRow /\ row.status = agency.status
        /\ agency.gstin \in {None, Blank, row.gstin} \/ row.gstin = Blank
    BY <1>1, <1>4, FiledIsRow DEF SubmitVerification, FiledFits
  <2> HIDE DEF row
  <2>2. agency # None /\ Edit(w, [row EXCEPT !.verification = "under_review"])
    BY <1>4 DEF SubmitVerification, row
  <2> DEFINE new == [row EXCEPT !.verification = "under_review"]
  <2>3. new \in AgencyRow /\ new.gstin = row.gstin /\ new.status = row.status
    BY <2>1, RowsTyped
  <2> HIDE DEF new
  <2>4. Edit(w, new)
    BY <2>2 DEF new
  <2> QED
    BY <2>1, <2>2, <2>3, <2>4, EditsStart
<1>5. CASE ApproveVerification(w)
  <2> DEFINE row == [agency EXCEPT !.verification = "verified"]
  <2>1. agency # None /\ Edit(w, row) /\ agency \in AgencyRow
    BY <1>1, <1>5 DEF ApproveVerification
  <2>2. row \in AgencyRow /\ row.gstin = agency.gstin /\ row.status = agency.status
    BY <2>1, RowsTyped
  <2> HIDE DEF row
  <2> QED
    BY <2>1, <2>2, EditsStart
<1>6. CASE RejectVerification(w)
  <2> DEFINE row == [agency EXCEPT !.verification = "rejected"]
  <2>1. agency # None /\ Edit(w, row) /\ agency \in AgencyRow
    BY <1>1, <1>6 DEF RejectVerification
  <2>2. row \in AgencyRow /\ row.gstin = agency.gstin /\ row.status = agency.status
    BY <2>1, RowsTyped
  <2> HIDE DEF row
  <2> QED
    BY <2>1, <2>2, EditsStart
<1>7. ASSUME NEW F \in SUBSET Flags, SetVerificationFlags(w, F) PROVE AgenciesInv'
  <2> DEFINE row == [agency EXCEPT !.flags = F]
  <2>1. agency # None /\ Edit(w, row) /\ agency \in AgencyRow
    BY <1>1, <1>7 DEF SetVerificationFlags
  <2>2. row \in AgencyRow /\ row.gstin = agency.gstin /\ row.status = agency.status
    BY ZenonT(40), <2>1, RowsTyped
  <2> HIDE DEF row
  <2> QED
    BY <2>1, <2>2, EditsStart
<1>8. ASSUME NEW s \in {"PENDING", "APPROVED", "REJECTED", "PAUSED", "SUSPENDED"},
             UpdateAgencyOperationalStatus(w, s)
      PROVE  AgenciesInv'
  <2> DEFINE row == [agency EXCEPT !.status = s]
  <2>1. agency # None /\ Edit(w, row) /\ agency \in AgencyRow
    BY <1>1, <1>8 DEF UpdateAgencyOperationalStatus
  <2>2. row \in AgencyRow /\ row.gstin = agency.gstin /\ row.status = s
    BY <2>1, RowsTyped
  <2>3. s = "APPROVED" => agency.flags = Flags
    BY <1>8 DEF UpdateAgencyOperationalStatus, AgencyAllFlagsVerified
  <2> HIDE DEF row
  <2> QED
    BY <2>1, <2>2, <2>3, EditsStart
<1> QED
  BY <1>2, <1>3, <1>4, <1>5, <1>6, <1>7, <1>8

\* A commit writes what was checked against the row its request loaded.
LEMMA CommitEditKeeps ==
  ASSUME AgenciesInv, NEW w \in Workers, CommitEdit(w)
  PROVE  AgenciesInv'
<1>1. /\ req[w].at = "edit" /\ EditFits(req[w]) /\ agency' = Written(req[w])
      /\ req' = [req EXCEPT ![w] = Free] /\ UNCHANGED <<bank, razorpay, left, dropped, behind>>
  BY DEF AgenciesInv, RequestFits, CommitEdit, Finish
<1>2. agency # None /\ agency \in AgencyRow /\ agency' \in AgencyRow /\ agency' # None
  BY <1>1, EditWritten, NoneIsNoRow DEF AgenciesInv, AgencyTables, EditFits
<1>3. req'[w] = Free /\ \A v \in Workers : v # w => req'[v] = req[v]
  BY <1>1 DEF AgenciesInv, AgencyTables
<1>4. AgencyTables'
  BY <1>1, <1>2 DEF AgenciesInv, AgencyTables
<1>5. RequestFits(w)' /\ ~HoldsBank(w) /\ ~HoldsBank(w)'
  BY <1>1, <1>3 DEF RequestFits, HoldsBank, Holding, Free
<1>6. RouteHolds'
  BY <1>1, <1>3, <1>5, RouteSame DEF AgenciesInv
<1>7. Len(razorpay) <= Len(razorpay')
  BY <1>1 DEF AgenciesInv, AgencyTables
<1> QED
  BY <1>1, <1>2, <1>3, <1>4, <1>5, <1>6, <1>7, StepFits

\* A bank request starts on the row it loaded.
LEMMA BankStarts ==
  ASSUME AgenciesInv, NEW w \in Workers,
         NEW d \in Details, NEW confirm \in BOOLEAN, VerifyBankAccount(w, d, confirm)
  PROVE  AgenciesInv'
<1>1. /\ req[w] = Free /\ left > 0 /\ left' = left - 1
      /\ req' = [req EXCEPT ![w] = [at |-> "ifsc", details |-> d, confirm |-> confirm, seen |-> bank]]
      /\ UNCHANGED <<agency, bank, razorpay, dropped, behind>> /\ agency # None
      /\ ~confirm => bank = None \/ bank.status = "FAILED"
  BY DEF VerifyBankAccount, Start, Locked
<1>2. /\ req'[w] = [at |-> "ifsc", details |-> d, confirm |-> confirm, seen |-> bank]
      /\ \A v \in Workers : v # w => req'[v] = req[v]
  BY <1>1 DEF AgenciesInv, AgencyTables
<1>3. AgencyTables'
  BY <1>1, AgenciesAssumption DEF AgenciesInv, AgencyTables
<1>4. bank \in BankRow \cup {None} /\ (bank # None => bank.linked \in 0..Len(razorpay))
  BY DEF AgenciesInv, AgencyTables
<1>5. BankFits(req[w])' /\ req'[w].at = "ifsc"
  BY <1>1, <1>2, <1>4 DEF BankFits
<1>6. RequestFits(w)' /\ ~HoldsBank(w) /\ ~HoldsBank(w)'
  <2>1. RequestFits(w)'
    BY <1>5 DEF RequestFits, Holding
  <2> QED
    BY <1>1, <1>5, <2>1 DEF HoldsBank, Free
<1>7. RouteHolds'
  BY <1>1, <1>2, <1>6, RouteSame DEF AgenciesInv
<1>8. Len(razorpay) <= Len(razorpay')
  BY <1>1 DEF AgenciesInv, AgencyTables
<1> QED
  BY <1>1, <1>2, <1>3, <1>6, <1>7, <1>8, StepFits

-----------------------------------------------------------------------------
\* A step of the holder of the bank row, or of the request that takes it.
LEMMA HolderStep ==
  ASSUME AgenciesInv, NEW w \in Workers, NEW r,
         \A v \in Workers : HoldsBank(v) => v = w,
         req[w] # Free, req' = [req EXCEPT ![w] = r], UNCHANGED <<agency, bank, left, behind>>,
         razorpay' \in Seq(Details \cup {None}), Len(razorpay) <= Len(razorpay'), dropped' \in Nat,
         razorpay' = razorpay \/ HoldsBank(w),
         r.at \in Holding, BankFits(r)', HoldFits(r)',
         Len(razorpay') = dropped' + Cardinality(OnRow(bank) \cup
                                       (IF r.account # SeenAccount(r) THEN {r.account} ELSE {}))
  PROVE  AgenciesInv'
<1>1. req'[w] = r /\ \A v \in Workers : v # w => req'[v] = req[v]
  BY DEF AgenciesInv, AgencyTables
<1>2. AgencyTables'
  BY DEF AgenciesInv, AgencyTables
<1>3. RequestFits(w)' /\ HoldsBank(w)'
  BY <1>1 DEF RequestFits, HoldsBank, Holding, BankFits, HoldFits, SeenAccount
<1>4. RouteFollowsBank'
  BY <1>3 DEF RouteFollowsBank
<1>5. AccountsAccountedFor'
  <2>1. \A v \in Workers : v # w => req'[v].at \notin Holding
    BY <1>1 DEF HoldsBank, Holding
  <2>2. Opened(req') = IF r.account # SeenAccount(r) THEN {r.account} ELSE {}
    <3>1. Opened(req') = IF req'[w].at \in Holding /\ req'[w].account # SeenAccount(req'[w])
                         THEN {req'[w].account} ELSE {}
      BY <2>1, OpenedByHolder
    <3>2. req'[w] = r /\ r.at \in Holding
      BY <1>1
    <3> QED
      BY <3>1, <3>2
  <2> QED
    BY <2>2, AccountsInSetsNext
<1>6. HoldsBank(w) \/ \A v \in Workers : ~HoldsBank(v)
  OBVIOUS
<1> QED
  BY <1>1, <1>2, <1>3, <1>4, <1>5, <1>6, StepFits DEF RouteHolds

\* What the counts say of a holder, and of nobody.
LEMMA HeldCount ==
  ASSUME AgenciesInv, NEW w \in Workers, \A v \in Workers : HoldsBank(v) => v = w
  PROVE  Len(razorpay) = dropped + Cardinality(OnRow(bank) \cup
            (IF HoldsBank(w) /\ req[w].account # SeenAccount(req[w]) THEN {req[w].account} ELSE {}))
<1>1. Opened(req) = IF HoldsBank(w) /\ req[w].account # SeenAccount(req[w]) THEN {req[w].account} ELSE {}
  BY OpenedByHolder DEF HoldsBank, Holding
<1> QED
  BY <1>1, AccountsInSets DEF AgenciesInv, RouteHolds

\* The bank row is taken: what the request works on is what it had loaded.
LEMMA FlushKeeps ==
  ASSUME AgenciesInv, NEW w \in Workers, FlushBank(w)
  PROVE  AgenciesInv'
<1> DEFINE x == req[w]
<1>1. /\ x.at = "ifsc" /\ x # Free /\ BankFits(x) /\ \A v \in Workers : ~HoldsBank(v)
      /\ UNCHANGED <<agency, bank, razorpay, left, dropped, behind>>
  <2>1. x.at = "ifsc" /\ x # Free
    BY DEF FlushBank, Free
  <2> QED
    BY <2>1 DEF FlushBank, AgenciesInv, RequestFits
<1>2. CASE Finish(w)
  <2>1. req' = [req EXCEPT ![w] = Free]
    BY <1>2 DEF Finish
  <2>2. req'[w] = Free /\ \A v \in Workers : v # w => req'[v] = req[v]
    BY <2>1 DEF AgenciesInv, AgencyTables
  <2>3. AgencyTables' /\ Len(razorpay) <= Len(razorpay')
    BY <1>1, <2>1 DEF AgenciesInv, AgencyTables
  <2>4. RequestFits(w)' /\ ~HoldsBank(w)'
    BY <2>2 DEF RequestFits, HoldsBank, Holding, Free
  <2>5. RouteHolds'
    BY <1>1, <2>2, <2>4, RouteSame DEF AgenciesInv
  <2> QED
    BY <1>1, <2>2, <2>3, <2>4, <2>5, StepFits
<1>3. ASSUME NEW valid \in BOOLEAN,
             req' = [req EXCEPT ![w] =
               [at |-> IF valid THEN "linking" ELSE "saving",
                status |-> IF valid THEN "PENDING" ELSE "FAILED",
                details |-> x.details, confirm |-> x.confirm, seen |-> x.seen,
                account |-> SeenAccount(x), clean |-> FALSE]]
      PROVE  AgenciesInv'
  <2> DEFINE r == [at |-> IF valid THEN "linking" ELSE "saving",
                   status |-> IF valid THEN "PENDING" ELSE "FAILED",
                   details |-> x.details, confirm |-> x.confirm, seen |-> x.seen,
                   account |-> SeenAccount(x), clean |-> FALSE]
  <2>1. PICK q : q = r
    OBVIOUS
  <2>2. req' = [req EXCEPT ![w] = q]
    BY <1>3, <2>1
  <2>3. /\ q.at \in {"linking", "saving"} /\ q.status \in {"PENDING", "FAILED"}
        /\ q.details = x.details /\ q.confirm = x.confirm /\ q.seen = x.seen
        /\ q.account = SeenAccount(x) /\ q.clean = FALSE /\ {"at", "account", "clean"} \subseteq DOMAIN q
    BY <2>1
  <2> HIDE DEF r, x
  <2>4. BankFits(q)'
    BY <1>1, <2>3 DEF BankFits
  <2>5. SeenAccount(q) = SeenAccount(x) /\ SeenAccount(x) \in 0..Len(razorpay)
    BY <1>1, <2>3 DEF SeenAccount, BankFits, AgenciesInv, AgencyTables
  <2>6. HoldFits(q)'
    BY <1>1, <2>3, <2>5 DEF HoldFits, SeenAccount
  <2>7. Len(razorpay) = dropped + Cardinality(OnRow(bank) \cup {})
    BY <1>1, HeldCount
  <2>8. razorpay \in Seq(Details \cup {None}) /\ dropped \in Nat
    BY DEF AgenciesInv, AgencyTables
  <2>9. Len(razorpay) <= Len(razorpay')
    BY <1>1, <2>8
  <2> QED
    BY <1>1, <2>2, <2>3, <2>4, <2>5, <2>6, <2>7, <2>8, <2>9, HolderStep DEF Holding, x
<1> QED
  BY <1>2, <1>3 DEF FlushBank

\* What the holder may change of its request.
Continues(q, x) ==
  /\ {"at", "account", "clean"} \subseteq DOMAIN q
  /\ q.status = x.status /\ q.details = x.details /\ q.confirm = x.confirm
  /\ q.seen = x.seen

\* The ways it does: its place; and its account; and its success.
LEMMA HolderFields ==
  ASSUME NEW x, {"at", "account", "clean"} \subseteq DOMAIN x, NEW at, NEW account
  PROVE  /\ LET q == [x EXCEPT !.at = at]
            IN  Continues(q, x) /\ q.at = at /\ q.account = x.account /\ q.clean = x.clean
         /\ LET q == [x EXCEPT !.at = at, !.account = account]
            IN  Continues(q, x) /\ q.at = at /\ q.account = account /\ q.clean = x.clean
         /\ LET q == [x EXCEPT !.at = at, !.clean = TRUE]
            IN  Continues(q, x) /\ q.at = at /\ q.account = x.account /\ q.clean = TRUE
  BY DEF Continues

\* A step of the holder that changes its place, its account or its success.
LEMMA HolderMoves ==
  ASSUME AgenciesInv, NEW w \in Workers, HoldsBank(w), NEW q,
         req' = [req EXCEPT ![w] = q], Continues(q, req[w]),
         q.at \in Holding, q.account \in 0..Len(razorpay'), q.clean \in BOOLEAN,
         UNCHANGED <<agency, bank, left, behind>>, dropped' \in Nat,
         razorpay' \in Seq(Details \cup {None}), Len(razorpay) <= Len(razorpay'),
         q.at = "linking" => q.account = SeenAccount(req[w]) /\ ~q.clean,
         q.at = "configuring" => q.account # 0 /\ ~q.clean,
         q.account # SeenAccount(req[w]) =>
           SeenAccount(req[w]) = 0 /\ (bank # None => bank.linked # q.account),
         q.clean => q.account # 0 /\ razorpay'[q.account] = req[w].details,
         Len(razorpay') = dropped' + Cardinality(OnRow(bank) \cup
                                (IF q.account # SeenAccount(req[w]) THEN {q.account} ELSE {}))
  PROVE  AgenciesInv'
<1> DEFINE x == req[w]
<1>1. BankFits(x) /\ HoldFits(x) /\ x # Free
  BY DEF AgenciesInv, AgencyTables, RequestFits, HoldsBank, Holding, Free
<1> HIDE DEF x
<1>2. BankFits(q)'
  BY <1>1 DEF BankFits, AgenciesInv, AgencyTables, Continues, x
<1>3. SeenAccount(q) = SeenAccount(x)
  BY DEF SeenAccount, Continues, x
<1>4. SeenAccount(q)' = SeenAccount(q)
  BY DEF SeenAccount
<1>5. HoldFits(q)'
  <2>1. q.details = x.details /\ q.status = x.status /\ {"at", "account", "clean"} \subseteq DOMAIN q
    BY DEF Continues, x
  <2> QED
    BY <1>1, <1>3, <1>4, <2>1 DEF HoldFits, x
<1>6. \A v \in Workers : HoldsBank(v) => v = w
  BY DEF AgenciesInv, OneHolder
<1>7. Len(razorpay') = dropped' + Cardinality(OnRow(bank) \cup
                                (IF q.account # SeenAccount(q) THEN {q.account} ELSE {}))
  BY <1>3 DEF x
<1>8. req[w] # Free
  BY <1>1 DEF x
<1> QED
  BY <1>2, <1>5, <1>6, <1>7, <1>8, HolderStep

\* What a holder in place is: its row's account is a row's, its own is new.
LEMMA HolderIs ==
  ASSUME AgenciesInv, NEW w \in Workers, HoldsBank(w)
  PROVE  /\ BankFits(req[w]) /\ HoldFits(req[w]) /\ req[w].at \in Holding
         /\ {"at", "account", "clean"} \subseteq DOMAIN req[w]
         /\ razorpay \in Seq(Details \cup {None}) /\ Len(razorpay) \in Nat /\ dropped \in Nat
         /\ req[w].details \in Details /\ req[w].account \in 0..Len(razorpay)
         /\ SeenAccount(req[w]) \in 0..Len(razorpay)
         /\ bank # None => bank.linked \in 0..Len(razorpay)
         /\ Len(razorpay) = dropped + Cardinality(OnRow(bank) \cup
              (IF req[w].account # SeenAccount(req[w]) THEN {req[w].account} ELSE {}))
<1>1. BankFits(req[w]) /\ HoldFits(req[w]) /\ req[w].at \in Holding
  BY DEF AgenciesInv, RequestFits, HoldsBank, Holding
<1>2. razorpay \in Seq(Details \cup {None}) /\ Len(razorpay) \in Nat /\ dropped \in Nat
  BY DEF AgenciesInv, AgencyTables
<1>3. \A v \in Workers : HoldsBank(v) => v = w
  BY DEF AgenciesInv, OneHolder
<1>4. SeenAccount(req[w]) \in 0..Len(razorpay)
  BY <1>1, <1>2 DEF SeenAccount, BankFits
<1>5. /\ req[w].details \in Details /\ req[w].account \in 0..Len(razorpay)
      /\ {"at", "account", "clean"} \subseteq DOMAIN req[w]
  BY <1>1 DEF BankFits, HoldFits
<1>6. bank # None => bank.linked \in 0..Len(razorpay)
  BY DEF AgenciesInv, AgencyTables
<1> QED
  BY <1>1, <1>2, <1>3, <1>4, <1>5, <1>6, HeldCount

\* The row has an account or none, and one more is one more.
LEMMA OnRowCounted ==
  /\ Cardinality(OnRow(bank)) \in Nat
  /\ \A a : a \notin OnRow(bank) =>
       Cardinality(OnRow(bank) \cup {a}) = Cardinality(OnRow(bank)) + 1
<1>1. IsFiniteSet(OnRow(bank))
  <2>1. IsFiniteSet({}) /\ IsFiniteSet({bank.linked})
    BY FS_EmptySet, FS_Singleton
  <2>2. OnRow(bank) = {} \/ OnRow(bank) = {bank.linked}
    BY DEF OnRow
  <2> QED
    BY <2>1, <2>2
<1> QED
  BY <1>1, FS_CardinalityType, FS_AddElement

\* Without Route, the details are saved.
LEMMA SkipKeeps ==
  ASSUME AgenciesInv, NEW w \in Workers, SkipSync(w)
  PROVE  AgenciesInv'
<1> DEFINE x == req[w]
<1>1. /\ x.at = "linking" /\ req' = [req EXCEPT ![w].at = "saving"]
      /\ UNCHANGED <<agency, bank, razorpay, left, dropped, behind>> /\ HoldsBank(w)
  BY DEF SkipSync, Goto, HoldsBank
<1>2. PICK q : q = [x EXCEPT !.at = "saving"]
  OBVIOUS
<1>3. req' = [req EXCEPT ![w] = q]
  BY <1>1, <1>2
<1>4. Continues(q, x) /\ q.at = "saving" /\ q.account = x.account /\ q.clean = x.clean
  BY <1>1, <1>2, HolderIs, HolderFields
<1>5. q.account = SeenAccount(req[w]) /\ ~q.clean /\ q.clean \in BOOLEAN
  BY <1>1, <1>4, HolderIs DEF HoldFits
<1> HIDE DEF x
<1>6. /\ razorpay' \in Seq(Details \cup {None}) /\ Len(razorpay) <= Len(razorpay') /\ dropped' \in Nat
      /\ q.account \in 0..Len(razorpay')
  <2>1. razorpay \in Seq(Details \cup {None}) /\ Len(razorpay) \in Nat /\ dropped \in Nat
    BY <1>1, HolderIs
  <2>2. x.account \in 0..Len(razorpay)
    BY <1>1, HolderIs DEF x
  <2>3. razorpay' = razorpay /\ dropped' = dropped
    BY <1>1
  <2> QED
    BY <1>4, <2>1, <2>2, <2>3
<1>7. Len(razorpay') = dropped' + Cardinality(OnRow(bank) \cup
                                (IF q.account # SeenAccount(req[w]) THEN {q.account} ELSE {}))
  BY <1>1, <1>4, HolderIs DEF x
<1> QED
  BY <1>1, <1>3, <1>4, <1>5, <1>6, <1>7, HolderMoves DEF Holding, x

\* The account of the loaded row, or one more at Razorpay.
LEMMA LinkedAccountKeeps ==
  ASSUME AgenciesInv, NEW w \in Workers, CreateLinkedAccount(w)
  PROVE  AgenciesInv'
<1> DEFINE x == req[w]
<1>1. /\ x.at = "linking" /\ HoldsBank(w) /\ UNCHANGED <<agency, bank, left, behind>>
      /\ x.account = SeenAccount(x) /\ ~x.clean
  <2>1. x.at = "linking" /\ HoldsBank(w) /\ UNCHANGED <<agency, bank, left, behind>>
    BY DEF CreateLinkedAccount, HoldsBank
  <2> QED
    BY <2>1, HolderIs DEF HoldFits
<1>2. CASE x.account # 0 /\ Goto(w, "configuring") /\ UNCHANGED <<razorpay, dropped>>
  <2>1. PICK q : q = [x EXCEPT !.at = "configuring"]
    OBVIOUS
  <2>2. req' = [req EXCEPT ![w] = q]
    BY <1>2, <2>1 DEF Goto
  <2>3. Continues(q, x) /\ q.at = "configuring" /\ q.account = x.account /\ q.clean = x.clean
    BY <1>1, <2>1, HolderIs, HolderFields
  <2>4. q.clean \in BOOLEAN
    BY <1>1, <2>3, HolderIs DEF HoldFits
  <2> HIDE DEF x
  <2>5. /\ razorpay' \in Seq(Details \cup {None}) /\ Len(razorpay) <= Len(razorpay') /\ dropped' \in Nat
        /\ q.account \in 0..Len(razorpay')
    <3>1. razorpay \in Seq(Details \cup {None}) /\ Len(razorpay) \in Nat /\ dropped \in Nat
      BY <1>1, HolderIs
    <3>2. x.account \in 0..Len(razorpay)
      BY <1>1, HolderIs DEF x
    <3>3. razorpay' = razorpay /\ dropped' = dropped
      BY <1>2
    <3> QED
      BY <2>3, <3>1, <3>2, <3>3
  <2>6. Len(razorpay') = dropped' + Cardinality(OnRow(bank) \cup
                                (IF q.account # SeenAccount(req[w]) THEN {q.account} ELSE {}))
    BY <1>1, <1>2, <2>3, HolderIs DEF x
  <2> QED
    BY <1>1, <1>2, <2>2, <2>3, <2>4, <2>5, <2>6, HolderMoves DEF Holding, x
<1>3. CASE x.account = 0 /\ razorpay' = Append(razorpay, None)
  <2>1. /\ razorpay \in Seq(Details \cup {None}) /\ razorpay' \in Seq(Details \cup {None})
        /\ Len(razorpay) \in Nat /\ Len(razorpay') = Len(razorpay) + 1 /\ dropped \in Nat
    <3>1. razorpay \in Seq(Details \cup {None}) /\ dropped \in Nat
      BY <1>1, HolderIs
    <3>2. razorpay' = Append(razorpay, None)
      BY <1>3
    <3> HIDE DEF x
    <3> QED
      BY <3>1, <3>2
  <2>2. Len(razorpay) = dropped + Cardinality(OnRow(bank)) /\ Cardinality(OnRow(bank)) \in Nat
    <3>1. Len(razorpay) = dropped + Cardinality(OnRow(bank) \cup {})
      BY <1>1, HolderIs
    <3>2. OnRow(bank) \cup {} = OnRow(bank)
      OBVIOUS
    <3>3. Cardinality(OnRow(bank)) \in Nat
      BY OnRowCounted
    <3> QED
      BY <3>1, <3>2, <3>3
  <2>3. ASSUME NEW q, req' = [req EXCEPT ![w] = q], Continues(q, x), q.at = "configuring",
               q.account = Len(razorpay'), q.clean = x.clean, UNCHANGED dropped
        PROVE  AgenciesInv'
    <3>1. q.account # 0 /\ q.account # SeenAccount(x) /\ SeenAccount(x) = 0
          /\ q.account \in 0..Len(razorpay')
      BY <1>1, <1>3, <2>1, <2>3
    <3>2. bank # None => bank.linked \in Nat /\ bank.linked <= Len(razorpay)
      <4>1. bank # None => bank.linked \in 0..Len(razorpay)
        BY <1>1, HolderIs
      <4> QED
        BY <2>1, <4>1
    <3>3. bank # None => bank.linked # q.account
      BY <2>1, <2>3, <3>2
    <3>4. q.account \notin OnRow(bank)
      BY <3>3 DEF OnRow
    <3>5. Cardinality(OnRow(bank) \cup {q.account}) = Cardinality(OnRow(bank)) + 1
      <4>1. PICK a : a = q.account
        OBVIOUS
      <4>2. a \notin OnRow(bank)
        BY <3>4, <4>1
      <4>3. Cardinality(OnRow(bank) \cup {a}) = Cardinality(OnRow(bank)) + 1
        BY <4>2, OnRowCounted
      <4> QED
        BY <4>1, <4>3
    <3>6. Len(razorpay') = dropped' + Cardinality(OnRow(bank) \cup
                                (IF q.account # SeenAccount(req[w]) THEN {q.account} ELSE {}))
      <4>1. Len(razorpay') = dropped' + Cardinality(OnRow(bank) \cup {q.account})
        BY <2>1, <2>2, <2>3, <3>5
      <4> QED
        BY <3>1, <4>1
    <3>7. ~q.clean /\ q.clean \in BOOLEAN
      BY <1>1, <2>3, HolderIs DEF HoldFits
    <3> HIDE DEF x
    <3>8. Len(razorpay) <= Len(razorpay') /\ dropped' \in Nat
      BY <2>1, <2>3
    <3> QED
      BY <1>1, <2>1, <2>3, <3>1, <3>3, <3>6, <3>7, <3>8, HolderMoves DEF Holding, x
  <2>4. CASE req' = [req EXCEPT ![w].at = "configuring", ![w].account = Len(razorpay')]
             /\ UNCHANGED dropped
    <3>1. PICK q : q = [x EXCEPT !.at = "configuring", !.account = Len(razorpay')]
      OBVIOUS
    <3>2. req' = [req EXCEPT ![w] = q]
      BY <2>4, <3>1
    <3>3. Continues(q, x) /\ q.at = "configuring" /\ q.account = Len(razorpay') /\ q.clean = x.clean
      BY <1>1, <3>1, HolderIs, HolderFields
    <3> QED
      BY <2>3, <2>4, <3>2, <3>3
  <2>5. CASE Goto(w, "saving") /\ dropped' = dropped + 1
    <3>1. PICK q : q = [x EXCEPT !.at = "saving"]
      OBVIOUS
    <3>2. req' = [req EXCEPT ![w] = q]
      BY <2>5, <3>1 DEF Goto
    <3>3. Continues(q, x) /\ q.at = "saving" /\ q.account = x.account /\ q.clean = x.clean
      BY <1>1, <3>1, HolderIs, HolderFields
    <3>4. ~q.clean /\ q.clean \in BOOLEAN
      BY <1>1, <3>3, HolderIs DEF HoldFits
    <3> HIDE DEF x
    <3>6. Len(razorpay') = dropped' + Cardinality(OnRow(bank) \cup {})
      <4>1. Len(razorpay') = dropped' + Cardinality(OnRow(bank))
        BY <2>1, <2>2, <2>5
      <4>2. OnRow(bank) \cup {} = OnRow(bank)
        OBVIOUS
      <4> QED
        BY <4>1, <4>2, Zenon
    <3>7. Len(razorpay') = dropped' + Cardinality(OnRow(bank) \cup
                                (IF q.account # SeenAccount(req[w]) THEN {q.account} ELSE {}))
      BY <1>1, <3>3, <3>6 DEF x
    <3>8. q.account \in 0..Len(razorpay') /\ Len(razorpay) <= Len(razorpay') /\ dropped' \in Nat
      BY <1>1, <1>3, <2>1, <2>5, <3>3
    <3> QED
      BY <1>1, <2>1, <3>2, <3>3, <3>4, <3>7, <3>8, HolderMoves DEF Holding, x
  <2> QED
    BY <1>1, <1>2, <1>3, <2>4, <2>5 DEF CreateLinkedAccount
<1> QED
  BY <1>2, <1>3 DEF CreateLinkedAccount

\* Where the account settles, or its id given up.
LEMMA RouteSettlementKeeps ==
  ASSUME AgenciesInv, NEW w \in Workers, ConfigureRouteSettlement(w)
  PROVE  AgenciesInv'
<1> DEFINE x == req[w]
           settled == [razorpay EXCEPT ![x.account] = x.details]
<1>1. x.at = "configuring" /\ HoldsBank(w) /\ UNCHANGED <<agency, bank, left, behind>>
  BY DEF ConfigureRouteSettlement, HoldsBank
<1>2. /\ razorpay \in Seq(Details \cup {None}) /\ Len(razorpay) \in Nat /\ dropped \in Nat
      /\ x.details \in Details /\ x.account \in 0..Len(razorpay)
      /\ {"at", "account", "clean"} \subseteq DOMAIN x /\ SeenAccount(x) \in 0..Len(razorpay)
  BY <1>1, HolderIs
<1>3. /\ x.account # 0 /\ ~x.clean /\ x.clean \in BOOLEAN
      /\ x.account # SeenAccount(x) => SeenAccount(x) = 0 /\ (bank # None => bank.linked # x.account)
  BY <1>1, HolderIs DEF HoldFits
<1>4. Len(razorpay) = dropped + Cardinality(OnRow(bank) \cup
              (IF x.account # SeenAccount(x) THEN {x.account} ELSE {}))
  BY <1>1, HolderIs
<1>5. /\ settled \in Seq(Details \cup {None}) /\ Len(settled) = Len(razorpay)
      /\ settled[x.account] = x.details
  <2>1. x.account \in 1..Len(razorpay)
    BY <1>2, <1>3
  <2> HIDE DEF x
  <2>2. settled \in Seq(Details \cup {None}) /\ Len(settled) = Len(razorpay)
    BY <1>2, <2>1
  <2>3. settled[x.account] = x.details
    BY <1>2, <2>1
  <2> QED
    BY <2>2, <2>3
<1> HIDE DEF settled
<1>6. ASSUME razorpay' \in {razorpay, settled}
      PROVE  /\ razorpay' \in Seq(Details \cup {None}) /\ Len(razorpay') = Len(razorpay)
             /\ Len(razorpay) <= Len(razorpay')
  BY <1>2, <1>5, <1>6
<1>7. CASE /\ razorpay' = settled /\ UNCHANGED dropped
           /\ req' = [req EXCEPT ![w].at = "saving", ![w].clean = TRUE]
  <2>1. PICK q : q = [x EXCEPT !.at = "saving", !.clean = TRUE]
    OBVIOUS
  <2>2. req' = [req EXCEPT ![w] = q]
    BY <1>7, <2>1
  <2>3. Continues(q, x) /\ q.at = "saving" /\ q.account = x.account /\ q.clean = TRUE
    BY <1>2, <2>1, HolderFields
  <2> HIDE DEF x
  <2>4. /\ razorpay' \in Seq(Details \cup {None}) /\ Len(razorpay') = Len(razorpay)
        /\ Len(razorpay) <= Len(razorpay') /\ dropped' \in Nat
        /\ q.account \in 0..Len(razorpay') /\ q.clean \in BOOLEAN
    BY <1>2, <1>6, <1>7, <2>3
  <2>5. q.account # 0 /\ razorpay'[q.account] = x.details
    BY <1>3, <1>5, <1>7, <2>3
  <2>6. Len(razorpay') = dropped' + Cardinality(OnRow(bank) \cup
                                (IF q.account # SeenAccount(x) THEN {q.account} ELSE {}))
    BY <1>4, <1>7, <2>3, <2>4
  <2> QED
    BY <1>1, <1>3, <2>2, <2>3, <2>4, <2>5, <2>6, HolderMoves DEF Holding, x
<1>8. CASE /\ razorpay' \in {razorpay, settled}
           /\ req' = [req EXCEPT ![w].at = "saving", ![w].account = SeenAccount(x)]
           /\ dropped' = IF SeenAccount(x) = 0 THEN dropped + 1 ELSE dropped
  <2>1. PICK q : q = [x EXCEPT !.at = "saving", !.account = SeenAccount(x)]
    OBVIOUS
  <2>2. req' = [req EXCEPT ![w] = q]
    BY <1>8, <2>1
  <2>3. Continues(q, x) /\ q.at = "saving" /\ q.account = SeenAccount(x) /\ q.clean = x.clean
    BY <1>2, <2>1, HolderFields
  <2> HIDE DEF x
  <2>4. /\ razorpay' \in Seq(Details \cup {None}) /\ Len(razorpay') = Len(razorpay)
        /\ Len(razorpay) <= Len(razorpay') /\ dropped' \in Nat
        /\ q.account \in 0..Len(razorpay') /\ q.clean \in BOOLEAN /\ ~q.clean
    BY <1>2, <1>3, <1>6, <1>8, <2>3
  <2>5. Len(razorpay) = dropped' + Cardinality(OnRow(bank))
    <3>1. CASE SeenAccount(x) = 0
      <4>1. x.account \notin OnRow(bank)
        BY <1>3, <3>1 DEF OnRow
      <4>2. Cardinality(OnRow(bank) \cup {x.account}) = Cardinality(OnRow(bank)) + 1
        <5>1. PICK a : a = x.account
          OBVIOUS
        <5> QED
          BY <4>1, <5>1, OnRowCounted
      <4>3. Len(razorpay) = dropped + Cardinality(OnRow(bank) \cup {x.account})
        BY <1>3, <1>4, <3>1
      <4> QED
        BY <1>2, <1>8, <3>1, <4>2, <4>3, OnRowCounted
    <3>2. CASE SeenAccount(x) # 0
      <4>1. Len(razorpay) = dropped + Cardinality(OnRow(bank) \cup {})
        BY <1>3, <1>4, <3>2
      <4>2. OnRow(bank) \cup {} = OnRow(bank)
        OBVIOUS
      <4> QED
        BY <1>8, <3>2, <4>1, <4>2
    <3> QED
      BY <3>1, <3>2
  <2>6. Len(razorpay') = dropped' + Cardinality(OnRow(bank) \cup
                                (IF q.account # SeenAccount(x) THEN {q.account} ELSE {}))
    <3>1. Len(razorpay') = dropped' + Cardinality(OnRow(bank))
      BY <2>4, <2>5
    <3>2. OnRow(bank) = OnRow(bank) \cup (IF q.account # SeenAccount(x) THEN {q.account} ELSE {})
      BY <2>3
    <3> QED
      BY <3>1, <3>2
  <2> QED
    BY <1>1, <2>2, <2>3, <2>4, <2>6, HolderMoves DEF Holding, x
<1> QED
  BY <1>7, <1>8 DEF ConfigureRouteSettlement, settled

\* The details are on file, with the account the request worked on, or the row's.
LEMMA CommitBankKeeps ==
  ASSUME AgenciesInv, NEW w \in Workers, CommitBank(w)
  PROVE  AgenciesInv'
<1> DEFINE x == req[w]
           k == KeptAccount(x)
<1>1. /\ x.at = "saving" /\ HoldsBank(w) /\ req' = [req EXCEPT ![w] = Free]
      /\ bank' = Stored(x)
      /\ behind' = IF ~x.clean \/ x.account # k THEN BankColumns
                   ELSE IF x.seen # bank THEN {"branch"} ELSE {}
      /\ dropped' = (IF bank # None /\ bank.linked \notin {0, k} THEN dropped + 1 ELSE dropped)
      /\ UNCHANGED <<agency, razorpay, left>>
  BY DEF CommitBank, HoldsBank, Finish
<1>2. BankFits(x) /\ HoldFits(x)
  BY <1>1, HolderIs
<1>3. /\ razorpay \in Seq(Details \cup {None}) /\ Len(razorpay) \in Nat /\ dropped \in Nat
      /\ x.details \in Details /\ x.account \in 0..Len(razorpay)
      /\ bank # None => bank.linked \in 0..Len(razorpay)
  BY <1>1, HolderIs
<1>4. Len(razorpay) = dropped + Cardinality(OnRow(bank) \cup
              (IF x.account # SeenAccount(x) THEN {x.account} ELSE {}))
  BY <1>1, HolderIs
<1>5. req'[w] = Free /\ \A v \in Workers : v # w => req'[v] = req[v]
  BY <1>1 DEF AgenciesInv, AgencyTables
<1>6. \A v \in Workers : ~HoldsBank(v)'
  BY <1>1, <1>5 DEF AgenciesInv, OneHolder, HoldsBank, Free
<1>8. k \in 0..Len(razorpay)
  BY <1>3 DEF KeptAccount
<1>9. /\ bank' \in BankRow /\ bank'.linked = k /\ bank' # None
      /\ bank'.details.number = x.details.number
      /\ x.seen = bank => bank'.details.branch = x.details.branch
  <2>1. x.status \in {"PENDING", "FAILED"} /\ (x.seen # None => x.seen \in BankRow /\ bank \in BankRow)
    BY <1>2 DEF HoldFits, BankFits, AgenciesInv, AgencyTables
  <2> HIDE DEF x, k
  <2>2. CASE x.seen = None
    <3>1. bank' = [details |-> x.details, status |-> x.status, linked |-> k]
      BY <1>1, <2>2 DEF Stored, k
    <3>2. bank' \in BankRow /\ bank'.linked = k /\ bank'.details = x.details
      BY <1>3, <1>8, <2>1, <3>1 DEF BankRow
    <3> QED
      BY <3>2, NoneIsNoRow
  <2>3. CASE x.seen # None
    <3> DEFINE b == Changed(x.details.branch, x.seen.details.branch, bank.details.branch)
               d == [x.details EXCEPT !.branch = b]
               s == Changed(x.status, x.seen.status, bank.status)
    <3>1. bank' = [details |-> d, status |-> s, linked |-> k]
      BY <1>1, <2>3 DEF Stored, k
    <3>2. b \in Branches /\ s \in {"PENDING", "FAILED"} /\ (x.seen = bank => b = x.details.branch)
      BY <1>3, <2>1, <2>3 DEF Changed, BankRow, Details
    <3> HIDE DEF b, s
    <3>3. d \in Details /\ d.number = x.details.number /\ d.branch = b
      BY <1>3, <3>2 DEF Details
    <3> HIDE DEF d
    <3>4. bank' \in BankRow /\ bank'.linked = k /\ bank'.details = d
      BY <1>8, <3>1, <3>2, <3>3 DEF BankRow
    <3> QED
      BY <3>2, <3>3, <3>4, NoneIsNoRow
  <2> QED
    BY <2>2, <2>3
<1>10. behind' \subseteq BankColumns
  BY <1>1 DEF BankColumns
<1>11. AgencyTables'
  <2>1. dropped' \in Nat
    BY <1>1, <1>3
  <2> HIDE DEF x, k
  <2> QED
    BY <1>1, <1>3, <1>8, <1>9, <1>10, <2>1 DEF AgenciesInv, AgencyTables
<1>12. RouteFollowsBank'
  <2> SUFFICES ASSUME NEW c \in BankColumns, c \notin behind'
               PROVE  bank'.linked # 0 /\ razorpay'[bank'.linked] # None
                      /\ razorpay'[bank'.linked][c] = bank'.details[c]
    BY DEF RouteFollowsBank
  <2>1. x.clean /\ x.account = k /\ (c = "branch" => x.seen = bank)
    BY <1>1
  <2>2. x.account # 0 /\ razorpay[x.account] = x.details
    BY <1>2, <2>1 DEF HoldFits
  <2> HIDE DEF x, k
  <2>3. bank'.linked # 0 /\ razorpay'[bank'.linked] = x.details
    BY <1>1, <1>9, <2>1, <2>2
  <2>4. bank'.details[c] = x.details[c]
    BY <1>9, <2>1 DEF BankColumns
  <2> QED
    BY <1>3, <2>3, <2>4, AgenciesAssumption
<1>13. AccountsAccountedFor'
  <2>1. Opened(req') = {}
    BY <1>6 DEF Opened, HoldsBank, Holding
  <2>2. Len(razorpay) = dropped' + Cardinality(OnRow(bank'))
    <3>1. CASE x.account = SeenAccount(x)
      <4>1. OnRow(bank') = OnRow(bank) /\ dropped' = dropped
        BY <1>1, <1>9, <3>1 DEF OnRow, KeptAccount
      <4>2. Len(razorpay) = dropped + Cardinality(OnRow(bank) \cup {})
        BY <1>4, <3>1
      <4>3. OnRow(bank) \cup {} = OnRow(bank)
        OBVIOUS
      <4> QED
        BY <4>1, <4>2, <4>3
    <3>2. CASE x.account # SeenAccount(x)
      <4>1. k = x.account /\ k # 0 /\ (bank # None => bank.linked # k)
        BY <1>2, <3>2 DEF KeptAccount, HoldFits
      <4>2. OnRow(bank') = {k} /\ k \notin OnRow(bank)
        BY <1>9, <4>1 DEF OnRow
      <4>3. Len(razorpay) = dropped + Cardinality(OnRow(bank) \cup {k})
        BY <1>4, <3>2, <4>1
      <4>4. Cardinality(OnRow(bank) \cup {k}) = Cardinality(OnRow(bank)) + 1
        <5>1. PICK a : a = k
          OBVIOUS
        <5> QED
          BY <4>2, <5>1, OnRowCounted
      <4>5. Cardinality(OnRow(bank')) = 1
        <5>1. PICK a : a = k
          OBVIOUS
        <5> QED
          BY <4>2, <5>1, AccountsCounted
      <4>6. dropped' = dropped + Cardinality(OnRow(bank))
        <5>1. CASE OnRow(bank) = {}
          <6>1. Cardinality(OnRow(bank)) = 0 /\ dropped' = dropped
            BY <1>1, <5>1, AccountsCounted DEF OnRow
          <6> QED
            BY <1>3, <6>1
        <5>2. CASE OnRow(bank) # {}
          <6>1. OnRow(bank) = {bank.linked} /\ bank # None /\ bank.linked # 0
            BY <5>2 DEF OnRow
          <6>2. Cardinality(OnRow(bank)) = 1
            BY <6>1, AccountsCounted
          <6>3. dropped' = dropped + 1
            BY <1>1, <4>1, <6>1
          <6> QED
            BY <6>2, <6>3
        <5> QED
          BY <5>1, <5>2
      <4> QED
        BY <1>3, <4>3, <4>4, <4>5, <4>6, OnRowCounted
    <3> QED
      BY <3>1, <3>2
  <2>3. OnRow(bank') \cup Opened(req') = OnRow(bank')
    BY <2>1
  <2>4. Len(razorpay') = Len(razorpay)
    BY <1>1
  <2> QED
    BY <2>2, <2>3, <2>4, AccountsInSetsNext
<1>14. RequestFits(w)' /\ Len(razorpay) <= Len(razorpay')
  BY <1>1, <1>3, <1>5 DEF RequestFits, Free, Holding
<1> QED
  BY <1>1, <1>5, <1>6, <1>9, <1>11, <1>12, <1>13, <1>14, StepFits DEF RouteHolds

\* The request is gone; an account it had opened is lost.
LEMMA RollbackBankKeeps ==
  ASSUME AgenciesInv, NEW w \in Workers, RollbackBank(w)
  PROVE  AgenciesInv'
<1>1. /\ req' = [req EXCEPT ![w] = Free] /\ UNCHANGED <<agency, bank, razorpay, left>>
      /\ behind' = IF HoldsBank(w) THEN BankColumns ELSE behind
      /\ dropped' = IF HoldsBank(w) /\ req[w].account # SeenAccount(req[w]) THEN dropped + 1 ELSE dropped
      /\ req[w] # Free
  <2>1. req[w] # Free
    BY DEF RollbackBank, Free
  <2> QED
    BY <2>1 DEF RollbackBank, Finish
<1>2. req'[w] = Free /\ \A v \in Workers : v # w => req'[v] = req[v]
  BY <1>1 DEF AgenciesInv, AgencyTables
<1>3. ~HoldsBank(w)' /\ RequestFits(w)'
  BY <1>2 DEF RequestFits, HoldsBank, Free, Holding
<1>4. /\ razorpay \in Seq(Details \cup {None}) /\ Len(razorpay) \in Nat /\ dropped \in Nat
      /\ behind \subseteq BankColumns
  BY DEF AgenciesInv, AgencyTables
<1>5. behind' \subseteq BankColumns
  BY <1>1, <1>4
<1>6. AgencyTables' /\ Len(razorpay) <= Len(razorpay')
  <2>1. dropped' \in Nat
    BY <1>1, <1>4
  <2> QED
    BY <1>1, <1>4, <1>5, <2>1 DEF AgenciesInv, AgencyTables
<1>7. CASE ~HoldsBank(w)
  <2>1. behind' = behind
    BY <1>1, <1>7
  <2>2. dropped' = dropped
    BY <1>1, <1>7
  <2>3. RouteHolds'
    BY <1>1, <1>2, <1>3, <1>7, <2>1, <2>2, RouteSame DEF AgenciesInv
  <2> QED
    BY <1>1, <1>2, <1>3, <1>6, <2>3, StepFits
<1>8. CASE HoldsBank(w)
  <2>1. \A v \in Workers : HoldsBank(v) => v = w
    BY <1>8 DEF AgenciesInv, OneHolder
  <2>2. behind' = BankColumns
    BY <1>1, <1>8
  <2>3. RouteFollowsBank'
    BY <2>2 DEF RouteFollowsBank
  <2>4. Opened(req') = {}
    BY <1>2, <1>3, <2>1 DEF Opened, HoldsBank, Holding
  <2>5. Len(razorpay) = dropped' + Cardinality(OnRow(bank))
    <3>1. CASE req[w].account = SeenAccount(req[w])
      <4>1. Len(razorpay) = dropped + Cardinality(OnRow(bank) \cup {})
        BY <1>8, <3>1, HolderIs
      <4>2. OnRow(bank) \cup {} = OnRow(bank)
        OBVIOUS
      <4>3. dropped' = dropped
        BY <1>1, <3>1
      <4> QED
        BY <4>1, <4>2, <4>3
    <3>2. CASE req[w].account # SeenAccount(req[w])
      <4>1. PICK a : a = req[w].account
        OBVIOUS
      <4>2. Len(razorpay) = dropped + Cardinality(OnRow(bank) \cup {a})
        BY <1>8, <3>2, <4>1, HolderIs
      <4>3. SeenAccount(req[w]) = 0 /\ (bank # None => bank.linked # a)
        BY <1>8, <3>2, <4>1, HolderIs DEF HoldFits
      <4>4. a \notin OnRow(bank)
        BY <4>3 DEF OnRow
      <4>5. Cardinality(OnRow(bank) \cup {a}) = Cardinality(OnRow(bank)) + 1
        BY <4>4, OnRowCounted
      <4>6. dropped' = dropped + 1
        BY <1>1, <1>8, <3>2
      <4> QED
        BY <1>4, <4>2, <4>5, <4>6, OnRowCounted
    <3> QED
      BY <3>1, <3>2
  <2>6. AccountsAccountedFor'
    <3>1. OnRow(bank') \cup Opened(req') = OnRow(bank) /\ Len(razorpay') = Len(razorpay)
      BY <1>1, <2>4
    <3> QED
      BY <2>5, <3>1, AccountsInSetsNext
  <2> QED
    BY <1>1, <1>2, <1>3, <1>6, <1>8, <2>3, <2>6, StepFits DEF RouteHolds
<1> QED
  BY <1>7, <1>8

\* A step that leaves every variable alone.
LEMMA AgenciesIdle == AgenciesInv /\ UNCHANGED agenciesVars => AgenciesInv'
<1> SUFFICES ASSUME AgenciesInv, UNCHANGED agenciesVars PROVE AgenciesInv'
  OBVIOUS
<1>1. UNCHANGED <<agency, bank, razorpay, req, left, dropped, behind>>
  BY DEF agenciesVars
<1>2. AgencyTables'
  BY <1>1 DEF AgenciesInv, AgencyTables
<1>3. \A v \in Workers : RequestFits(v)'
  BY <1>1 DEF AgenciesInv, RequestFits, EditFits, BankFits, HoldFits, SeenAccount
<1>4. OneHolder'
  BY <1>1 DEF AgenciesInv, OneHolder, HoldsBank
<1>5. RouteHolds'
  <2>1. RouteFollowsBank'
    BY <1>1 DEF AgenciesInv, RouteHolds, RouteFollowsBank, HoldsBank
  <2>2. AccountsAccountedFor'
    BY <1>1, AccountsInSets, AccountsInSetsNext DEF AgenciesInv, RouteHolds
  <2> QED
    BY <2>1, <2>2 DEF RouteHolds
<1> QED
  BY <1>2, <1>3, <1>4, <1>5 DEF AgenciesInv

\* Every step of every request keeps the invariant.
LEMMA AgenciesKeep == AgenciesInv /\ [AgenciesNext]_agenciesVars => AgenciesInv'
<1> SUFFICES ASSUME AgenciesInv, AgenciesNext PROVE AgenciesInv'
  BY AgenciesIdle
<1>1. PICK w \in Workers :
    \/ \E g \in Filings : CreateAgency(w, g) \/ UpdateAgency(w, g) \/ SubmitVerification(w, g)
    \/ ApproveVerification(w)
    \/ RejectVerification(w)
    \/ \E F \in SUBSET Flags : SetVerificationFlags(w, F)
    \/ \E s \in {"PENDING", "APPROVED", "REJECTED", "PAUSED", "SUSPENDED"} :
         UpdateAgencyOperationalStatus(w, s)
    \/ \E d \in Details, confirm \in BOOLEAN : VerifyBankAccount(w, d, confirm)
    \/ CommitEdit(w)
    \/ FlushBank(w)
    \/ SkipSync(w)
    \/ CreateLinkedAccount(w)
    \/ ConfigureRouteSettlement(w)
    \/ CommitBank(w)
    \/ RollbackBank(w)
  BY DEF AgenciesNext
<1>2. ASSUME NEW g \in Filings,
             CreateAgency(w, g) \/ UpdateAgency(w, g) \/ SubmitVerification(w, g)
      PROVE  AgenciesInv'
  BY <1>2, AgencyRowsKeep
<1>4. CASE \/ ApproveVerification(w)
           \/ RejectVerification(w)
           \/ \E F \in SUBSET Flags : SetVerificationFlags(w, F)
           \/ \E s \in {"PENDING", "APPROVED", "REJECTED", "PAUSED", "SUSPENDED"} :
                UpdateAgencyOperationalStatus(w, s)
  BY <1>4, AgencyRowsKeep
<1>5. ASSUME NEW d \in Details, NEW confirm \in BOOLEAN, VerifyBankAccount(w, d, confirm)
      PROVE  AgenciesInv'
  BY <1>5, BankStarts
<1>6. CASE CommitEdit(w)
  BY <1>6, CommitEditKeeps
<1>7. CASE FlushBank(w) \/ SkipSync(w)
  BY <1>7, FlushKeeps, SkipKeeps
<1>8. CASE CreateLinkedAccount(w) \/ ConfigureRouteSettlement(w)
  BY <1>8, LinkedAccountKeeps, RouteSettlementKeeps
<1>9. CASE CommitBank(w) \/ RollbackBank(w)
  BY <1>9, CommitBankKeeps, RollbackBankKeeps
<1> QED
  BY <1>1, <1>2, <1>4, <1>5, <1>6, <1>7, <1>8, <1>9

\* The invariant holds of every reachable state.
LEMMA AgenciesInvariant == AgenciesSpec => []AgenciesInv
  BY AgenciesStart, AgenciesKeep, PTL DEF AgenciesSpec

-----------------------------------------------------------------------------
\* The agency's one Route account settles to the account number on file once
\* the last bank request got through, and to the IFSC code and holder too when
\* it overlapped no other; every account opened is on the row, in a request's
\* hands, or dropped by a failure or an overlap
\* (_sync_razorpay_linked_account), for any requests.
THEOREM RouteAccountsHold == AgenciesSpec => []RouteHolds
<1>1. AgenciesInv => RouteHolds
  BY DEF AgenciesInv
<1> QED
  BY <1>1, AgenciesInvariant, PTL

\* Only an edit's commit changes an agency that exists, and a bank request's
\* commit its bank row.
LEMMA RowsChange ==
  ASSUME AgenciesInv, AgenciesNext
  PROVE  /\ agency # None /\ agency' # agency => \E w \in Workers : CommitEdit(w)
         /\ bank' # bank => \E w \in Workers : CommitBank(w)
<1>2. agency # None /\ agency' # agency => \E w \in Workers : CommitEdit(w)
  BY DEF AgenciesNext, CreateAgency, UpdateAgency, SubmitVerification, CommitBank,
     ApproveVerification, RejectVerification, SetVerificationFlags, UpdateAgencyOperationalStatus,
     VerifyBankAccount, Edit, FlushBank, SkipSync, CreateLinkedAccount,
     ConfigureRouteSettlement, RollbackBank
<1>3. bank' # bank => \E w \in Workers : CommitBank(w)
  BY DEF AgenciesNext, CreateAgency, UpdateAgency, SubmitVerification,
     ApproveVerification, RejectVerification, SetVerificationFlags, UpdateAgencyOperationalStatus,
     VerifyBankAccount, Edit, CommitEdit, FlushBank, SkipSync, CreateLinkedAccount,
     ConfigureRouteSettlement, RollbackBank
<1> QED
  BY <1>2, <1>3

\* A GSTIN on file is replaced only after it was erased, and an agency approved
\* only on every flag, unless the column the request goes by changed after its
\* load; details that are locked change only by a request that confirmed or
\* loaded another row (_assert_gstin_pan_immutable,
\* update_agency_operational_status, verify_bank_account), for any requests.
THEOREM ReviewedAndLockedStay == AgenciesSpec => AgencyHolds
<1>1. ASSUME AgenciesInv, AgenciesNext, agency # None, agency' # agency
      PROVE  \E w \in Workers :
               /\ req[w].at = "edit" /\ req'[w] = Free
               /\ \/ agency.gstin \in {None, Blank, agency'.gstin} \/ agency'.gstin = Blank
                  \/ req[w].seen.gstin # agency.gstin
               /\ agency'.status = "APPROVED" /\ agency.status # "APPROVED"
                    => agency.flags = Flags \/ req[w].seen.flags # agency.flags
  <2>1. PICK w \in Workers : CommitEdit(w)
    BY <1>1, RowsChange
  <2>2. /\ req[w].at = "edit" /\ EditFits(req[w]) /\ agency' = Written(req[w]) /\ req'[w] = Free
        /\ agency \in AgencyRow
    BY <1>1, <2>1 DEF CommitEdit, Finish, AgenciesInv, AgencyTables, RequestFits
  <2> DEFINE r == req[w]
  <2>3. /\ agency'.gstin = IF r.new.gstin # r.seen.gstin THEN r.new.gstin ELSE agency.gstin
        /\ agency'.status = IF r.new.status # r.seen.status THEN r.new.status ELSE agency.status
    BY <2>2, EditWritten DEF EditFits
  <2>4. /\ r.seen.gstin \in {None, Blank, r.new.gstin} \/ r.new.gstin = Blank
        /\ r.new.status = "APPROVED" /\ r.seen.status # "APPROVED" => r.seen.flags = Flags
    BY <2>2 DEF EditFits
  <2> HIDE DEF r
  <2>5. \/ agency.gstin \in {None, Blank, agency'.gstin} \/ agency'.gstin = Blank
        \/ r.seen.gstin # agency.gstin
    BY <2>3, <2>4
  <2>6. agency'.status = "APPROVED" /\ agency.status # "APPROVED"
          => agency.flags = Flags \/ r.seen.flags # agency.flags
    BY <2>3, <2>4
  <2> QED
    BY <2>2, <2>5, <2>6 DEF r
<1>2. ASSUME AgenciesInv, AgenciesNext, bank # None, bank' # bank, bank.status # "FAILED",
             bank'.details # bank.details
      PROVE  \E w \in Workers : req[w].at = "saving" /\ req'[w] = Free
                                /\ (req[w].confirm \/ req[w].seen # bank)
  <2>1. PICK w \in Workers : CommitBank(w)
    BY <1>2, RowsChange
  <2>2. req[w].at = "saving" /\ req'[w] = Free /\ HoldsBank(w)
    BY <1>2, <2>1 DEF CommitBank, Finish, HoldsBank, AgenciesInv, AgencyTables
  <2>3. ~req[w].confirm => req[w].seen = None \/ req[w].seen.status = "FAILED"
    BY <1>2, <2>2, HolderIs DEF BankFits
  <2>4. req[w].confirm \/ req[w].seen # bank
    BY <1>2, <2>3
  <2> QED
    BY <2>2, <2>4
<1>3. AgenciesInv /\ [AgenciesNext]_agenciesVars =>
        [agency # None /\ agency' # agency =>
           \E w \in Workers :
             /\ req[w].at = "edit" /\ req'[w] = Free
             /\ \/ agency.gstin \in {None, Blank, agency'.gstin} \/ agency'.gstin = Blank
                \/ req[w].seen.gstin # agency.gstin
             /\ agency'.status = "APPROVED" /\ agency.status # "APPROVED"
                  => agency.flags = Flags \/ req[w].seen.flags # agency.flags]_agenciesVars
  BY <1>1
<1>4. AgenciesInv /\ [AgenciesNext]_agenciesVars =>
        [bank # None /\ bank' # bank /\ bank.status # "FAILED" /\ bank'.details # bank.details
           => \E w \in Workers : req[w].at = "saving" /\ req'[w] = Free
                                 /\ (req[w].confirm \/ req[w].seen # bank)]_agenciesVars
  BY <1>2
<1>5. AgenciesSpec => ReviewHolds
  BY <1>3, AgenciesInvariant, PTL DEF AgenciesSpec, ReviewHolds
<1>6. AgenciesSpec => LockedDetailsKept
  BY <1>4, AgenciesInvariant, PTL DEF AgenciesSpec, LockedDetailsKept
<1> QED
  BY <1>5, <1>6 DEF AgencyHolds

\* Every table of the agency holds values of its columns.
LEMMA AgenciesTyped == AgenciesInv => AgenciesTypeOK
<1> SUFFICES ASSUME AgenciesInv PROVE AgenciesTypeOK
  OBVIOUS
<1>1. \A i \in DOMAIN razorpay : razorpay[i] \in Details \cup {None}
  BY DEF AgenciesInv, AgencyTables
<1> QED
  BY <1>1 DEF AgenciesInv, AgencyTables, AgenciesTypeOK

-----------------------------------------------------------------------------
(* Chat: the poll, the reminders and the screens. *)

Sending == [at : {"send"}, message : Message]
Sent == [at : {"counted", "emitted"}, message : Message, alert : BOOLEAN]
Voting == [at : {"vote"}, user : Users, option : Options, seen : [Options -> SUBSET Users]]

AtMessage(w) == job[w].at \in {"send", "counted", "emitted"}

\* Messages are named by when their requests began.
MessagesFit ==
  /\ now \in 0..MaxCalls
  /\ DOMAIN job = Calls /\ \A w \in Calls : job[w] \in {NoJob} \cup Sending \cup Sent \cup Voting
  /\ IsFiniteSet(stored) /\ stored \subseteq Message
  /\ \A m \in stored : m.created <= now
  /\ \A m, n \in stored : m.created = n.created => m = n
  /\ \A w \in Calls : AtMessage(w) =>
       job[w].message.created <= now /\ \A m \in stored : m.created # job[w].message.created
  /\ \A v, w \in Calls : v # w /\ AtMessage(v) /\ AtMessage(w) =>
       job[v].message.created # job[w].message.created

FlaggedAt(w, u) == Flushed(w) /\ job[w].message.flagged /\ job[w].message.sender = u

\* A flagged send in flight is its sender's only one, and it knows whether it
\* reaches the threshold, but for those that overlapped another.
RemindersFit ==
  /\ alerts \in [Users -> Nat] /\ raced \subseteq Users
  /\ \A w \in Calls : Flushed(w) /\ job[w].alert => job[w].message.flagged
  /\ \A u \in Users \ raced, w \in Calls : FlaggedAt(w, u) =>
       /\ job[w].alert <=> Cardinality(FlaggedOf(u)) + 1 = Threshold
       /\ \A v \in Calls : FlaggedAt(v, u) => v = w
  /\ RemindedAtThreshold

\* Each user is under one option.
Single(table) ==
  /\ table \in [Options -> SUBSET Users]
  /\ \A u \in Users, o, p \in Options : u \in table[o] /\ u \in table[p] => o = p

\* What a vote in flight loaded was such a table.
PollFits ==
  /\ Single(votes) /\ ballots \in [Users -> Options \cup {"none"}]
  /\ \A w \in Calls : job[w].at = "vote" => Single(job[w].seen)
  /\ unsure \subseteq Users
  /\ \A u \in Users \ unsure, o \in Options : u \in votes[o] <=> ballots[u] = o

\* What the screen's room was sent reached it.
ScreenFits ==
  /\ client \in [room : {"none"} \cup Rooms, loaded : BOOLEAN, seen : SUBSET Message]
  /\ client.loaded => client.room # "none"
  /\ \A w \in Calls : job[w].at = "emitted" /\ job[w].message.room = client.room
       => job[w].message \in client.seen \cup slipped
  /\ ScreenComplete

ChatInv ==
  /\ MessagesFit /\ RemindersFit /\ PollFits /\ ScreenFits
  /\ member \subseteq Users \ {Owner} /\ trip \in {"open", "agreed"} /\ open \in BOOLEAN
  /\ lastRead \in [Users -> 0..MaxCalls]

-----------------------------------------------------------------------------
\* A step that stores nothing and begins no send.
LEMMA MessagesSame ==
  ASSUME MessagesFit, stored' = stored, now' \in 0..MaxCalls, now <= now', DOMAIN job' = Calls,
         \A w \in Calls : job'[w] \in {NoJob} \cup Sending \cup Sent \cup Voting,
         \A w \in Calls : AtMessage(w)' => AtMessage(w) /\ job'[w].message = job[w].message
  PROVE  MessagesFit'
<1>1. \A w \in Calls : AtMessage(w) => job[w].message.created \in Int
  BY DEF MessagesFit, AtMessage, Sending, Sent, Voting, NoJob, Message
<1>2. now \in Int /\ now' \in Int /\ \A m \in stored : m.created \in Int
  BY DEF MessagesFit, Message
<1>3. \A w \in Calls : AtMessage(w)' =>
         job'[w].message.created <= now' /\ \A m \in stored' : m.created # job'[w].message.created
  BY <1>1, <1>2 DEF MessagesFit
<1>4. \A m \in stored' : m.created <= now'
  BY <1>2 DEF MessagesFit
<1>5. \A v, w \in Calls : v # w /\ AtMessage(v)' /\ AtMessage(w)' =>
        job'[v].message.created # job'[w].message.created
  BY DEF MessagesFit
<1> QED
  BY <1>3, <1>4, <1>5 DEF MessagesFit

\* A step that stores nothing, reminds nobody and flushes no send.
LEMMA RemindersSame ==
  ASSUME RemindersFit, UNCHANGED <<stored, alerts>>, raced \subseteq raced', raced' \subseteq Users,
         \A w \in Calls : Flushed(w)' => /\ Flushed(w)
                                         /\ job'[w].message = job[w].message
                                         /\ job'[w].alert = job[w].alert
  PROVE  RemindersFit'
<1>1. \A u : FlaggedOf(u)' = FlaggedOf(u)
  BY DEF FlaggedOf
<1>2. \A u, w : w \in Calls /\ FlaggedAt(w, u)' => FlaggedAt(w, u) /\ job'[w].alert = job[w].alert
  BY DEF FlaggedAt
<1>3. \A u \in Users \ raced', w \in Calls : FlaggedAt(w, u)' =>
       /\ job'[w].alert <=> Cardinality(FlaggedOf(u)') + 1 = Threshold
       /\ \A v \in Calls : FlaggedAt(v, u)' => v = w
  <2> SUFFICES ASSUME NEW u \in Users \ raced', NEW w \in Calls, FlaggedAt(w, u)'
               PROVE  /\ job'[w].alert <=> Cardinality(FlaggedOf(u)') + 1 = Threshold
                      /\ \A v \in Calls : FlaggedAt(v, u)' => v = w
    OBVIOUS
  <2>1. /\ job[w].alert <=> Cardinality(FlaggedOf(u)) + 1 = Threshold
        /\ \A v \in Calls : FlaggedAt(v, u) => v = w
    BY <1>2 DEF RemindersFit
  <2> QED
    BY <1>1, <1>2, <2>1, Zenon
<1>4. RemindedAtThreshold'
  BY <1>1 DEF RemindersFit, RemindedAtThreshold
<1>5. \A w \in Calls : Flushed(w)' /\ job'[w].alert => job'[w].message.flagged
  BY DEF RemindersFit
<1> QED
  BY <1>3, <1>4, <1>5 DEF RemindersFit

\* A step that begins no vote and writes none.
LEMMA PollSame ==
  ASSUME PollFits, UNCHANGED <<votes, ballots, unsure>>,
         \A w \in Calls : job'[w].at = "vote" => job'[w] = job[w]
  PROVE  PollFits'
  BY DEF PollFits, Single

\* A step that neither stores nor emits, and leaves the screen.
LEMMA ScreenSame ==
  ASSUME ScreenFits, UNCHANGED <<stored, client, slipped>>,
         \A w \in Calls : job'[w].at = "emitted" =>
           job[w].at = "emitted" /\ job'[w].message = job[w].message
  PROVE  ScreenFits'
  BY DEF ScreenFits, ScreenComplete

\* What else the chat keeps: who is in it, and how far each has read.
RoomFits ==
  /\ member \subseteq Users \ {Owner} /\ trip \in {"open", "agreed"} /\ open \in BOOLEAN
  /\ lastRead \in [Users -> 0..MaxCalls]

\* A request in flight is a send, a flushed one, or a vote.
LEMMA JobsTyped ==
  ASSUME MessagesFit, NEW w \in Calls
  PROVE  /\ job[w].at = "send" => job[w] \in Sending
         /\ Flushed(w) => job[w] \in Sent
         /\ job[w].at = "vote" => job[w] \in Voting
         /\ job[w] \in {NoJob} \cup Sending \cup Sent \cup Voting
         /\ DOMAIN job = Calls
  BY DEF MessagesFit, Flushed, Sending, Sent, Voting, NoJob

\* An empty chat satisfies the invariant.
LEMMA ChatStart == ChatInit => ChatInv
<1> SUFFICES ASSUME ChatInit PROVE ChatInv
  OBVIOUS
<1>1. /\ DOMAIN job = Calls /\ \A w \in Calls : job[w] = NoJob
      /\ now = 0 /\ MaxCalls \in Nat /\ stored = {}
  BY ChatAssumption DEF ChatInit
<1>2. \A w \in Calls : ~AtMessage(w) /\ ~Flushed(w) /\ job[w].at \notin {"vote", "emitted"}
  BY <1>1 DEF AtMessage, Flushed, NoJob
<1>3. MessagesFit
  BY <1>1, <1>2, FS_EmptySet DEF MessagesFit
<1>4. RemindersFit
  <2>1. raced = {} /\ alerts = [u \in Users |-> 0]
    BY DEF ChatInit
  <2>2. \A u : FlaggedOf(u) = {}
    BY <1>1 DEF FlaggedOf
  <2>3. RemindedAtThreshold
    <3>1. \A u : Cardinality(FlaggedOf(u)) = 0
      BY <2>2, FS_EmptySet
    <3>2. ~(0 >= Threshold)
      BY ChatAssumption
    <3> QED
      BY <2>1, <3>1, <3>2 DEF RemindedAtThreshold
  <2> QED
    BY <1>2, <2>1, <2>3 DEF RemindersFit, FlaggedAt
<1>5. PollFits
  <2>1. votes = [o \in Options |-> {}] /\ ballots = [u \in Users |-> "none"] /\ unsure = {}
    BY DEF ChatInit
  <2> QED
    BY <1>2, <2>1, ChatAssumption DEF PollFits, Single
<1>6. ScreenFits
  <2>1. client = [room |-> "none", loaded |-> FALSE, seen |-> {}]
    BY DEF ChatInit
  <2> QED
    BY <1>2, <2>1 DEF ScreenFits, ScreenComplete
<1>7. RoomFits
  <2>1. lastRead \in [Users -> 0..MaxCalls]
    BY <1>1 DEF ChatInit
  <2>2. open \in BOOLEAN
    BY Zenon DEF ChatInit
  <2> QED
    BY <2>1, <2>2 DEF ChatInit, RoomFits
<1> QED
  BY <1>3, <1>4, <1>5, <1>6, <1>7 DEF ChatInv, RoomFits

\* The group changes, or a conversation opens or is read.
LEMMA RoomStepKeeps ==
  ASSUME ChatInv,
         \/ GroupChanges
         \/ \E u, v \in Users : CreateOrGetConversation(u, v)
         \/ \E u \in Users : MarkConversationRead(u)
  PROVE  ChatInv'
<1>1. /\ UNCHANGED <<stored, votes, alerts, job, client, ballots, slipped, raced, unsure>>
      /\ now' = now \/ (now < MaxCalls /\ now' = now + 1)
  BY DEF GroupChanges, CreateOrGetConversation, MarkConversationRead, history, room
<1>2. now \in 0..MaxCalls /\ MaxCalls \in Nat /\ DOMAIN job = Calls
      /\ \A w \in Calls : job[w] \in {NoJob} \cup Sending \cup Sent \cup Voting
  BY ChatAssumption DEF ChatInv, MessagesFit
<1>3. now' \in 0..MaxCalls /\ now <= now'
  BY <1>1, <1>2
<1>4. MessagesFit'
  BY <1>1, <1>2, <1>3, MessagesSame DEF ChatInv, AtMessage
<1>5. RemindersFit'
  BY <1>1, RemindersSame DEF ChatInv, Flushed, RemindersFit
<1>6. PollFits' /\ ScreenFits'
  BY <1>1, PollSame, ScreenSame DEF ChatInv
<1>7. RoomFits'
  <2>1. lastRead' \in [Users -> 0..MaxCalls]
    BY <1>2 DEF ChatInv, GroupChanges, CreateOrGetConversation, MarkConversationRead, room
  <2>2. open' \in BOOLEAN
    BY DEF ChatInv, GroupChanges, CreateOrGetConversation, MarkConversationRead, room
  <2>3. member' \subseteq Users \ {Owner} /\ trip' \in {"open", "agreed"}
    BY DEF ChatInv, GroupChanges, CreateOrGetConversation, MarkConversationRead
  <2> QED
    BY <2>1, <2>2, <2>3 DEF RoomFits
<1> QED
  BY <1>4, <1>5, <1>6, <1>7 DEF ChatInv, RoomFits

\* A request begins: a message, named by this moment, or a vote.
LEMMA BeginKeeps ==
  ASSUME ChatInv, NEW w \in Calls, NEW j, Begin(w, j),
         \/ j \in Sending /\ j.message.created = now + 1
         \/ j \in Voting /\ Single(j.seen),
         UNCHANGED <<member, trip, room, votes, alerts, client, history>>
  PROVE  ChatInv'
<1>1. /\ job[w] = NoJob /\ now < MaxCalls /\ now' = now + 1 /\ job' = [job EXCEPT ![w] = j]
      /\ UNCHANGED <<stored, votes, alerts, client, ballots, slipped, raced, unsure, member, trip, open, lastRead>>
  BY DEF Begin, room, history
<1>2. /\ job'[w] = j /\ DOMAIN job' = Calls /\ \A v \in Calls : v # w => job'[v] = job[v]
      /\ now \in 0..MaxCalls /\ MaxCalls \in Nat
  BY <1>1, ChatAssumption DEF ChatInv, MessagesFit
<1>3. now' \in 0..MaxCalls /\ now <= now'
  BY <1>1, <1>2
<1>4. \A v \in Calls : job'[v] \in {NoJob} \cup Sending \cup Sent \cup Voting
  BY <1>2, JobsTyped DEF ChatInv
<1>5. MessagesFit'
  <2>1. CASE j \in Voting
    <3>1. \A v \in Calls : AtMessage(v)' => AtMessage(v) /\ job'[v].message = job[v].message
      BY <1>2, <2>1 DEF AtMessage, Voting
    <3> QED
      BY <1>1, <1>2, <1>3, <1>4, <3>1, MessagesSame DEF ChatInv
  <2>2. CASE j \in Sending /\ j.message.created = now + 1
    <3>1. \A v \in Calls : v # w /\ AtMessage(v)' =>
            job[v].message.created <= now /\ job'[v].message = job[v].message
            /\ job[v].message.created \in Int /\ AtMessage(v)
            /\ \A m \in stored : m.created # job[v].message.created
      BY <1>2 DEF ChatInv, MessagesFit, AtMessage, Sending, Sent, Voting, NoJob, Message
    <3>2. \A m \in stored : m.created <= now /\ m.created \in Int
      BY DEF ChatInv, MessagesFit, Message
    <3>3. \A v \in Calls : AtMessage(v)' =>
            job'[v].message.created <= now' /\ \A m \in stored : m.created # job'[v].message.created
      BY <1>1, <1>2, <2>2, <3>1, <3>2
    <3>4. \A v, x \in Calls : v # x /\ AtMessage(v)' /\ AtMessage(x)' =>
            job'[v].message.created # job'[x].message.created
      BY <1>2, <2>2, <3>1 DEF ChatInv, MessagesFit
    <3>5. \A m \in stored : m.created <= now'
      BY <1>1, <1>2, <3>2
    <3> QED
      BY <1>1, <1>2, <1>3, <1>4, <3>3, <3>4, <3>5 DEF ChatInv, MessagesFit
  <2> QED
    BY <2>1, <2>2
<1>6. RemindersFit'
  <2>1. \A v \in Calls : Flushed(v)' => Flushed(v) /\ job'[v] = job[v]
    BY <1>2 DEF Flushed, Sending, Voting
  <2> QED
    BY <1>1, <2>1, RemindersSame DEF ChatInv, RemindersFit
<1>7. PollFits'
  <2>1. CASE j \in Sending
    <3>1. \A v \in Calls : job'[v].at = "vote" => job'[v] = job[v]
      BY <1>2, <2>1 DEF Sending
    <3> QED
      BY <1>1, <3>1, PollSame DEF ChatInv
  <2>2. CASE Single(j.seen)
    <3>1. \A v \in Calls : job'[v].at = "vote" => Single(job'[v].seen)
      BY <1>2, <2>2 DEF ChatInv, PollFits
    <3> QED
      BY <1>1, <3>1 DEF ChatInv, PollFits, Single
  <2> QED
    BY <2>1, <2>2
<1>8. ScreenFits'
  <2>1. \A v \in Calls : job'[v].at = "emitted" => job'[v] = job[v]
    BY <1>2 DEF Sending, Voting
  <2> QED
    BY <1>1, <2>1, ScreenSame DEF ChatInv
<1> QED
  BY <1>1, <1>5, <1>6, <1>7, <1>8 DEF ChatInv

\* A message is sent, or a vote cast.
LEMMA StartsKeep ==
  ASSUME ChatInv, NEW w \in Calls, NEW u \in Users,
         \/ \E flagged \in BOOLEAN :
              SendGroupMessage(w, u, flagged) \/ SendDirectMessage(w, u, flagged)
         \/ \E o \in Options : VoteOnPoll(w, u, o)
  PROVE  ChatInv'
<1>1. ASSUME NEW where \in Rooms, NEW flagged \in BOOLEAN, Send(w, u, where, flagged)
      PROVE  ChatInv'
  <2> DEFINE m == [room |-> where, sender |-> u, flagged |-> flagged, created |-> now + 1]
  <2>1. now + 1 \in 1..MaxCalls
    BY <1>1, ChatAssumption DEF Send, Begin, ChatInv, MessagesFit
  <2>2. m \in Message /\ m.created = now + 1
    BY <2>1 DEF Message
  <2> HIDE DEF m
  <2>3. [at |-> "send", message |-> m] \in Sending /\ [at |-> "send", message |-> m].message = m
    BY <2>2 DEF Sending
  <2>4. Begin(w, [at |-> "send", message |-> m])
        /\ UNCHANGED <<member, trip, room, votes, alerts, client, history>>
    BY <1>1 DEF Send, m
  <2> QED
    BY <2>2, <2>3, <2>4, BeginKeeps
<1>2. ASSUME NEW o \in Options, VoteOnPoll(w, u, o)
      PROVE  ChatInv'
  <2> DEFINE j == [at |-> "vote", user |-> u, option |-> o, seen |-> votes]
  <2>1. Single(votes)
    BY DEF ChatInv, PollFits
  <2>2. j \in Voting /\ j.seen = votes
    BY <2>1 DEF Voting, Single
  <2>3. Begin(w, j) /\ UNCHANGED <<member, trip, room, votes, alerts, client, history>>
    BY <1>2 DEF VoteOnPoll
  <2> HIDE DEF j
  <2> QED
    BY <2>1, <2>2, <2>3, BeginKeeps
<1> QED
  BY <1>1, <1>2 DEF SendGroupMessage, SendDirectMessage, Rooms

\* A flagged send that overlaps another of its sender takes it out of the count.
LEMMA FlushMessageKeeps ==
  ASSUME ChatInv, NEW w \in Calls, FlushMessage(w)
  PROVE  ChatInv'
<1> DEFINE m == job[w].message
           due == m.flagged /\ Cardinality(FlaggedOf(m.sender)) + 1 = Threshold
           beside == \E v \in Calls : Flushed(v) /\ job[v].message.sender = m.sender
                                      /\ job[v].message.flagged /\ m.flagged
<1>1. /\ job[w].at = "send" /\ job' = [job EXCEPT ![w] = [at |-> "counted", message |-> m, alert |-> due]]
      /\ raced' = IF beside THEN raced \cup {m.sender} ELSE raced
      /\ UNCHANGED <<member, trip, open, lastRead, stored, votes, alerts, client, now, ballots, slipped, unsure>>
  BY DEF FlushMessage, room
<1>2. m \in Message /\ DOMAIN job = Calls
  BY <1>1, JobsTyped DEF ChatInv, Sending
<1>3. due \in BOOLEAN
  BY Zenon
<1> DEFINE j == [at |-> "counted", message |-> m, alert |-> due]
<1> HIDE DEF due, beside, m
<1>4. j \in Sent /\ j.message = m /\ j.alert = due /\ j.at = "counted"
  BY <1>2, <1>3 DEF Sent
<1> HIDE DEF j
<1>5. job'[w] = j /\ DOMAIN job' = Calls /\ \A v \in Calls : v # w => job'[v] = job[v]
  BY <1>1, <1>2 DEF j
<1>6. raced \subseteq raced' /\ raced' \subseteq Users
  BY <1>1, <1>2 DEF ChatInv, RemindersFit, Message
<1>7. MessagesFit'
  <2>1. \A v \in Calls : AtMessage(v)' => AtMessage(v) /\ job'[v].message = job[v].message
    BY <1>1, <1>4, <1>5 DEF AtMessage, m
  <2>2. \A v \in Calls : job'[v] \in {NoJob} \cup Sending \cup Sent \cup Voting
    BY <1>4, <1>5, JobsTyped DEF ChatInv
  <2>3. now' \in 0..MaxCalls /\ now <= now'
    BY <1>1, ChatAssumption DEF ChatInv, MessagesFit
  <2> QED
    BY <1>1, <1>5, <2>1, <2>2, <2>3, MessagesSame DEF ChatInv
<1>8. PollFits' /\ ScreenFits'
  <2>1. \A v \in Calls : job'[v].at \in {"vote", "emitted"} => job'[v] = job[v]
    BY <1>4, <1>5
  <2> QED
    BY <1>1, <1>6, <2>1, PollSame, ScreenSame DEF ChatInv
<1>9. RemindersFit'
  <2>1. \A v, u : v \in Calls /\ v # w /\ FlaggedAt(v, u)' => FlaggedAt(v, u) /\ job'[v] = job[v]
    BY <1>5 DEF FlaggedAt, Flushed
  <2>2. \A u : FlaggedAt(w, u)' => u = m.sender /\ m.flagged
    BY <1>4, <1>5 DEF FlaggedAt
  <2>3. \A u : FlaggedOf(u)' = FlaggedOf(u)
    BY <1>1 DEF FlaggedOf
  <2>4. ASSUME NEW u \in Users \ raced', FlaggedAt(w, u)', NEW v \in Calls, FlaggedAt(v, u)'
        PROVE  v = w
    <3> SUFFICES ASSUME v # w PROVE FALSE
      OBVIOUS
    <3>1. FlaggedAt(v, u) /\ u = m.sender /\ m.flagged
      BY <2>1, <2>2, <2>4
    <3>2. beside
      BY <3>1 DEF FlaggedAt, beside
    <3> QED
      BY <1>1, <2>4, <3>1, <3>2
  <2>5. ASSUME NEW u \in Users \ raced', NEW x \in Calls, FlaggedAt(x, u)'
        PROVE  /\ job'[x].alert <=> Cardinality(FlaggedOf(u)') + 1 = Threshold
               /\ \A v \in Calls : FlaggedAt(v, u)' => v = x
    <3>1. CASE x = w
      <4>1. job'[x].alert <=> Cardinality(FlaggedOf(u)') + 1 = Threshold
        <5>1. m.flagged /\ u = m.sender /\ job'[x].alert = due
          BY <1>4, <1>5, <2>2, <2>5, <3>1
        <5>2. due <=> Cardinality(FlaggedOf(u)) + 1 = Threshold
          BY <5>1 DEF due
        <5>3. FlaggedOf(u)' = FlaggedOf(u)
          BY <2>3
        <5> QED
          BY <5>1, <5>2, <5>3, Zenon
      <4> QED
        BY <2>4, <2>5, <3>1, <4>1
    <3>2. CASE x # w
      <4>1. FlaggedAt(x, u) /\ u \in Users \ raced /\ job'[x] = job[x]
        BY <1>6, <2>1, <2>5, <3>2
      <4>2. /\ job[x].alert <=> Cardinality(FlaggedOf(u)) + 1 = Threshold
            /\ \A v \in Calls : FlaggedAt(v, u) => v = x
        BY <4>1 DEF ChatInv, RemindersFit
      <4>3. FlaggedOf(u)' = FlaggedOf(u)
        BY <2>3
      <4>4. ~FlaggedAt(w, u)'
        BY <2>4, <2>5, <3>2
      <4> QED
        BY <2>1, <4>1, <4>2, <4>3, <4>4, Zenon
    <3> QED
      BY <3>1, <3>2
  <2>6. RemindedAtThreshold'
    BY <1>1, <1>6, <2>3 DEF ChatInv, RemindersFit, RemindedAtThreshold
  <2>7. \A v \in Calls : Flushed(v)' /\ job'[v].alert => job'[v].message.flagged
    <3>1. job'[w].alert => job'[w].message.flagged
      BY <1>4, <1>5 DEF due
    <3> QED
      BY <1>5, <3>1 DEF ChatInv, RemindersFit, Flushed
  <2> QED
    BY <1>1, <1>6, <2>5, <2>6, <2>7 DEF ChatInv, RemindersFit
<1> QED
  BY <1>1, <1>7, <1>8, <1>9 DEF ChatInv

\* The live event.
LEMMA EmitKeeps ==
  ASSUME ChatInv, NEW w \in Calls, Emit(w)
  PROVE  ChatInv'
<1> DEFINE m == job[w].message
<1>1. /\ job[w].at = "counted" /\ job' = [job EXCEPT ![w].at = "emitted"]
      /\ client' = IF m.room = client.room THEN [client EXCEPT !.seen = @ \cup {m}] ELSE client
      /\ UNCHANGED <<member, trip, open, lastRead, stored, votes, alerts, now, ballots, slipped, raced, unsure>>
  BY DEF Emit, room, history
<1>2. job[w] \in Sent /\ DOMAIN job = Calls /\ m \in Message
  BY <1>1, JobsTyped DEF ChatInv, Flushed, Sent
<1>3. PICK j : j = [job[w] EXCEPT !.at = "emitted"]
  OBVIOUS
<1>4. j \in Sent /\ j.at = "emitted" /\ j.message = m /\ j.alert = job[w].alert
  BY <1>2, <1>3 DEF Sent
<1>5. job'[w] = j /\ DOMAIN job' = Calls /\ \A v \in Calls : v # w => job'[v] = job[v]
  BY <1>1, <1>2, <1>3
<1>6. MessagesFit'
  <2>1. \A v \in Calls : AtMessage(v)' => AtMessage(v) /\ job'[v].message = job[v].message
    BY <1>1, <1>4, <1>5 DEF AtMessage
  <2>2. \A v \in Calls : job'[v] \in {NoJob} \cup Sending \cup Sent \cup Voting
    BY <1>4, <1>5, JobsTyped DEF ChatInv
  <2>3. now' \in 0..MaxCalls /\ now <= now'
    BY <1>1, ChatAssumption DEF ChatInv, MessagesFit
  <2> QED
    BY <1>1, <1>5, <2>1, <2>2, <2>3, MessagesSame DEF ChatInv
<1>7. RemindersFit'
  <2>1. \A v \in Calls : Flushed(v)' => /\ Flushed(v) /\ job'[v].message = job[v].message
                                        /\ job'[v].alert = job[v].alert
    BY <1>1, <1>4, <1>5 DEF Flushed
  <2> QED
    BY <1>1, <2>1, RemindersSame DEF ChatInv, RemindersFit
<1>8. PollFits'
  <2>1. \A v \in Calls : job'[v].at = "vote" => job'[v] = job[v]
    BY <1>4, <1>5
  <2> QED
    BY <1>1, <2>1, PollSame DEF ChatInv
<1>9. ScreenFits'
  <2> HIDE DEF m
  <2>1. client \in [room : {"none"} \cup Rooms, loaded : BOOLEAN, seen : SUBSET Message]
    BY DEF ChatInv, ScreenFits
  <2>2. /\ client' \in [room : {"none"} \cup Rooms, loaded : BOOLEAN, seen : SUBSET Message]
        /\ client'.room = client.room /\ client'.loaded = client.loaded
        /\ client.seen \subseteq client'.seen /\ (m.room = client.room => m \in client'.seen)
    <3>1. CASE m.room # client.room
      BY <1>1, <2>1, <3>1
    <3>2. CASE m.room = client.room
      <4>1. client.seen \cup {m} \in SUBSET Message
        BY <1>2, <2>1
      <4>2. client' = [client EXCEPT !.seen = client.seen \cup {m}]
        BY <1>1, <3>2
      <4> QED
        BY <2>1, <4>1, <4>2
    <3> QED
      BY <3>1, <3>2
  <2>3. \A v \in Calls : job'[v].at = "emitted" /\ job'[v].message.room = client'.room
          => job'[v].message \in client'.seen \cup slipped'
    BY ZenonT(40), <1>1, <1>4, <1>5, <2>2 DEF ChatInv, ScreenFits
  <2>4. ScreenComplete'
    BY <1>1, <2>2 DEF ChatInv, ScreenFits, ScreenComplete
  <2> QED
    BY <2>2, <2>3, <2>4 DEF ChatInv, ScreenFits
<1> QED
  BY <1>1, <1>6, <1>7, <1>8, <1>9 DEF ChatInv

\* The row is there, and the reminder if it was due.
LEMMA CommitMessageKeeps ==
  ASSUME ChatInv, NEW w \in Calls, CommitMessage(w)
  PROVE  ChatInv'
<1> DEFINE m == job[w].message
<1>1. /\ job[w].at = "emitted" /\ job' = [job EXCEPT ![w] = NoJob] /\ stored' = stored \cup {m}
      /\ alerts' = [alerts EXCEPT ![m.sender] = IF job[w].alert THEN @ + 1 ELSE @]
      /\ UNCHANGED <<member, trip, open, lastRead, votes, client, now, ballots, slipped, raced, unsure>>
  BY DEF CommitMessage, End, history
<1>2. /\ job[w] \in Sent /\ DOMAIN job = Calls /\ m \in Message /\ AtMessage(w) /\ Flushed(w)
      /\ m.sender \in Users /\ job[w].alert \in BOOLEAN
  <2>1. Flushed(w) /\ AtMessage(w)
    BY <1>1 DEF Flushed, AtMessage
  <2> QED
    BY <2>1, JobsTyped DEF ChatInv, Sent, Message
<1>3. job'[w] = NoJob /\ DOMAIN job' = Calls /\ \A v \in Calls : v # w => job'[v] = job[v]
  BY <1>1, <1>2
<1>4. m \notin stored /\ \A n \in stored : n.created # m.created
  BY <1>2 DEF ChatInv, MessagesFit
<1>5. MessagesFit'
  <2>1. IsFiniteSet(stored')
    BY <1>1, FS_AddElement DEF ChatInv, MessagesFit
  <2>2. \A v \in Calls : AtMessage(v)' => v # w /\ AtMessage(v) /\ job'[v] = job[v]
    BY <1>3 DEF AtMessage, NoJob
  <2>3. \A v \in Calls : AtMessage(v)' =>
          job'[v].message.created <= now /\ \A n \in stored' : n.created # job'[v].message.created
    BY <1>1, <1>2, <2>2 DEF ChatInv, MessagesFit
  <2>4. \A v, x \in Calls : v # x /\ AtMessage(v)' /\ AtMessage(x)' =>
          job'[v].message.created # job'[x].message.created
    BY <2>2 DEF ChatInv, MessagesFit
  <2>5. /\ \A n \in stored' : n.created <= now
        /\ \A n, o \in stored' : n.created = o.created => n = o
    BY <1>1, <1>2, <1>4 DEF ChatInv, MessagesFit
  <2>6. \A v \in Calls : job'[v] \in {NoJob} \cup Sending \cup Sent \cup Voting
    BY <1>3, JobsTyped DEF ChatInv
  <2>7. now' = now /\ now \in 0..MaxCalls /\ stored' \subseteq Message
    BY <1>1, <1>2 DEF ChatInv, MessagesFit
  <2> QED
    BY <1>3, <2>1, <2>3, <2>4, <2>5, <2>6, <2>7 DEF MessagesFit
<1>6. RemindersFit'
  <2> HIDE DEF m
  <2>1. \A v, u : v \in Calls /\ FlaggedAt(v, u)' => v # w /\ FlaggedAt(v, u) /\ job'[v] = job[v]
    BY <1>3 DEF FlaggedAt, Flushed, NoJob
  <2>2. \A u : FlaggedOf(u)' = IF m.sender = u /\ m.flagged THEN FlaggedOf(u) \cup {m} ELSE FlaggedOf(u)
    BY <1>1 DEF FlaggedOf
  <2>3. \A u : FlaggedAt(w, u) <=> m.sender = u /\ m.flagged
    BY <1>2, Zenon DEF FlaggedAt, m, Message
  <2>4. ASSUME NEW u \in Users \ raced, NEW v \in Calls, FlaggedAt(v, u)'
        PROVE  /\ job'[v].alert <=> Cardinality(FlaggedOf(u)') + 1 = Threshold
               /\ \A x \in Calls : FlaggedAt(x, u)' => x = v
    <3>1. v # w /\ FlaggedAt(v, u) /\ job'[v] = job[v]
      BY <2>1, <2>4
    <3>2. /\ job[v].alert <=> Cardinality(FlaggedOf(u)) + 1 = Threshold
          /\ \A x \in Calls : FlaggedAt(x, u) => x = v
      BY <3>1 DEF ChatInv, RemindersFit
    <3>3. FlaggedOf(u)' = FlaggedOf(u)
      BY <2>2, <2>3, <3>1, <3>2
    <3> QED
      BY <2>1, <3>1, <3>2, <3>3, Zenon
  <2>5. alerts \in [Users -> Nat]
    BY DEF ChatInv, RemindersFit
  <2>6. /\ alerts' \in [Users -> Nat]
        /\ alerts'[m.sender] = (IF job[w].alert THEN alerts[m.sender] + 1 ELSE alerts[m.sender])
        /\ \A u \in Users : u # m.sender => alerts'[u] = alerts[u]
    <3>1. m.sender \in Users
      BY <1>2 DEF m
    <3> QED
      BY <1>1, <2>5, <3>1
  <2>7. ASSUME NEW u \in Users \ raced
        PROVE  alerts'[u] = IF Cardinality(FlaggedOf(u)') >= Threshold THEN 1 ELSE 0
    <3>1. alerts[u] = IF Cardinality(FlaggedOf(u)) >= Threshold THEN 1 ELSE 0
      BY DEF ChatInv, RemindersFit, RemindedAtThreshold
    <3>2. CASE FlaggedAt(w, u)
      <4>1. u = m.sender /\ FlaggedOf(u)' = FlaggedOf(u) \cup {m} /\ m \notin FlaggedOf(u)
        <5>1. m \notin stored
          BY <1>4 DEF m
        <5> QED
          BY <2>2, <2>3, <3>2, <5>1 DEF FlaggedOf
      <4>2. job[w].alert <=> Cardinality(FlaggedOf(u)) + 1 = Threshold
        BY <3>2 DEF ChatInv, RemindersFit
      <4>3. IsFiniteSet(FlaggedOf(u)) /\ Cardinality(FlaggedOf(u)) \in Nat
        BY FS_Subset, FS_CardinalityType DEF ChatInv, MessagesFit, FlaggedOf
      <4>4. Cardinality(FlaggedOf(u) \cup {m}) = Cardinality(FlaggedOf(u)) + 1
        BY <4>1, <4>3, FS_AddElement
      <4>5. alerts'[u] = IF Cardinality(FlaggedOf(u)) + 1 = Threshold THEN alerts[u] + 1 ELSE alerts[u]
        BY <2>6, <4>1, <4>2
      <4>6. alerts'[u] = IF Cardinality(FlaggedOf(u)) + 1 >= Threshold THEN 1 ELSE 0
        BY <3>1, <4>3, <4>5, ChatAssumption
      <4> QED
        BY <4>1, <4>4, <4>6, Zenon
    <3>3. CASE ~FlaggedAt(w, u)
      <4>1. FlaggedOf(u)' = FlaggedOf(u)
        BY <2>2, <2>3, <3>3
      <4>2. alerts'[u] = alerts[u]
        <5>1. CASE u # m.sender
          BY <2>6, <5>1
        <5>2. CASE u = m.sender
          <6>1. ~job[w].alert
            BY <1>2, <2>3, <3>3, <5>2 DEF ChatInv, RemindersFit, m
          <6> QED
            BY <2>6, <5>2, <6>1
        <5> QED
          BY <5>1, <5>2
      <4> QED
        BY <3>1, <4>1, <4>2, Zenon
    <3> QED
      BY <3>2, <3>3
  <2>8. RemindedAtThreshold'
    BY <1>1, <2>7 DEF RemindedAtThreshold
  <2>9. \A v \in Calls : Flushed(v)' /\ job'[v].alert => job'[v].message.flagged
    BY <1>3 DEF ChatInv, RemindersFit, Flushed, NoJob
  <2> QED
    BY <1>1, <2>4, <2>6, <2>8, <2>9 DEF ChatInv, RemindersFit
<1>7. PollFits'
  <2>1. \A v \in Calls : job'[v].at = "vote" => job'[v] = job[v]
    BY <1>3 DEF NoJob
  <2> QED
    BY <1>1, <2>1, PollSame DEF ChatInv
<1>8. ScreenFits'
  <2>1. \A v \in Calls : job'[v].at = "emitted" => job'[v] = job[v]
    BY <1>3 DEF NoJob
  <2>2. ScreenComplete'
    BY <1>1 DEF ChatInv, ScreenFits, ScreenComplete
  <2> QED
    BY <1>1, <2>1, <2>2 DEF ChatInv, ScreenFits
<1> QED
  BY <1>1, <1>5, <1>6, <1>7, <1>8 DEF ChatInv

\* A send that comes to nothing.
LEMMA RollbackMessageKeeps ==
  ASSUME ChatInv, NEW w \in Calls, RollbackMessage(w)
  PROVE  ChatInv'
<1>1. /\ job' = [job EXCEPT ![w] = NoJob]
      /\ UNCHANGED <<member, trip, open, lastRead, stored, votes, alerts, client, now,
                     ballots, slipped, raced, unsure>>
  BY DEF RollbackMessage, End, room, history
<1>2. job'[w] = NoJob /\ DOMAIN job' = Calls /\ \A v \in Calls : v # w => job'[v] = job[v]
  BY <1>1, JobsTyped DEF ChatInv
<1>3. MessagesFit'
  <2>1. \A v \in Calls : AtMessage(v)' => AtMessage(v) /\ job'[v].message = job[v].message
    BY <1>2 DEF AtMessage, NoJob
  <2>2. \A v \in Calls : job'[v] \in {NoJob} \cup Sending \cup Sent \cup Voting
    BY <1>2, JobsTyped DEF ChatInv
  <2>3. now' \in 0..MaxCalls /\ now <= now'
    BY <1>1, ChatAssumption DEF ChatInv, MessagesFit
  <2> QED
    BY <1>1, <1>2, <2>1, <2>2, <2>3, MessagesSame DEF ChatInv
<1>4. RemindersFit'
  <2>1. \A v \in Calls : Flushed(v)' => Flushed(v) /\ job'[v] = job[v]
    BY <1>2 DEF Flushed, NoJob
  <2> QED
    BY <1>1, <2>1, RemindersSame DEF ChatInv, RemindersFit
<1>5. PollFits' /\ ScreenFits'
  <2>1. \A v \in Calls : job'[v].at \in {"vote", "emitted"} => job'[v] = job[v]
    BY <1>2 DEF NoJob
  <2> QED
    BY <1>1, <2>1, PollSame, ScreenSame DEF ChatInv
<1> QED
  BY <1>1, <1>3, <1>4, <1>5 DEF ChatInv

\* The table a vote writes has its voter under the option chosen alone.
LEMMA VoteWritten ==
  ASSUME NEW seen, Single(seen), NEW u \in Users, NEW o \in Options
  PROVE  /\ Single(UpdatedOptions(seen, u, o))
         /\ \A p \in Options : u \in UpdatedOptions(seen, u, o)[p] <=> p = o
         /\ \A v \in Users, p \in Options : v # u => (v \in UpdatedOptions(seen, u, o)[p] <=> v \in seen[p])
  BY DEF UpdatedOptions, Single

\* A vote is committed on the votes it locked, so it takes nobody else's away.
LEMMA CommitVoteKeeps ==
  ASSUME ChatInv, NEW w \in Calls, CommitVote(w)
  PROVE  ChatInv'
<1> DEFINE j == job[w]
           table == UpdatedOptions(j.seen, j.user, j.option)
<1>1. /\ j.at = "vote" /\ job' = [job EXCEPT ![w] = NoJob]
      /\ votes' = (IF table = j.seen THEN votes ELSE table)
      /\ ballots' = [ballots EXCEPT ![j.user] = j.option]
      /\ unsure' = (IF votes' = votes THEN unsure \cup Overtaken(j.seen)
                    ELSE (unsure \cup Overtaken(j.seen)) \ {j.user})
      /\ UNCHANGED <<member, trip, open, lastRead, stored, alerts, client, now, slipped, raced>>
  BY DEF CommitVote, End, room
<1>2. j.user \in Users /\ j.option \in Options /\ Single(j.seen) /\ DOMAIN job = Calls
  BY <1>1, JobsTyped DEF ChatInv, Voting, PollFits
<1> HIDE DEF j
<1>3. job'[w] = NoJob /\ DOMAIN job' = Calls /\ \A v \in Calls : v # w => job'[v] = job[v]
  BY <1>1, <1>2
<1>4. raced \subseteq raced' /\ raced' \subseteq Users /\ unsure' \subseteq Users
  BY <1>1 DEF ChatInv, RemindersFit, PollFits, Overtaken
<1>5. MessagesFit'
  <2>1. \A v \in Calls : AtMessage(v)' => AtMessage(v) /\ job'[v].message = job[v].message
    BY <1>3 DEF AtMessage, NoJob
  <2>2. \A v \in Calls : job'[v] \in {NoJob} \cup Sending \cup Sent \cup Voting
    BY <1>3, JobsTyped DEF ChatInv
  <2>3. now' \in 0..MaxCalls /\ now <= now'
    BY <1>1, ChatAssumption DEF ChatInv, MessagesFit
  <2> QED
    BY <1>1, <1>3, <2>1, <2>2, <2>3, MessagesSame DEF ChatInv
<1>6. RemindersFit'
  <2>1. \A v \in Calls : Flushed(v)' => Flushed(v) /\ job'[v] = job[v]
    BY <1>3 DEF Flushed, NoJob
  <2> QED
    BY <1>1, <1>4, <2>1, RemindersSame DEF ChatInv, RemindersFit
<1>7. ScreenFits'
  <2>1. \A v \in Calls : job'[v].at = "emitted" => job'[v] = job[v]
    BY <1>3 DEF NoJob
  <2> QED
    BY <1>1, <2>1, ScreenSame DEF ChatInv
<1>8. PollFits'
  <2>1. /\ Single(table) /\ \A p \in Options : j.user \in table[p] <=> p = j.option
        /\ \A v \in Users, p \in Options : v # j.user => (v \in table[p] <=> v \in j.seen[p])
    BY <1>2, VoteWritten
  <2> HIDE DEF table
  <2>2. Single(votes)'
    BY <1>1, <2>1 DEF ChatInv, PollFits, Single
  <2>3. ballots \in [Users -> Options \cup {"none"}]
    BY DEF ChatInv, PollFits
  <2>4. /\ ballots' \in [Users -> Options \cup {"none"}] /\ ballots'[j.user] = j.option
        /\ \A u \in Users : u # j.user => ballots'[u] = ballots[u]
    BY <1>1, <1>2, <2>3
  <2>5. \A v \in Calls : job'[v].at = "vote" => Single(job'[v].seen)
    BY <1>3 DEF ChatInv, PollFits, NoJob
  <2>6. ASSUME NEW u \in Users \ unsure', NEW p \in Options
        PROVE  u \in votes'[p] <=> ballots'[u] = p
    <3>1. CASE votes' # votes /\ u = j.user
      BY <1>1, <2>1, <2>4, <3>1
    <3>2. CASE votes' = votes \/ u # j.user
      <4>1. u \notin unsure /\ u \notin Overtaken(j.seen)
        BY <1>1, <2>6, <3>2
      <4>2. /\ u \in votes[p] <=> ballots[u] = p
            /\ \A o \in Options : u \in votes[o] <=> u \in j.seen[o]
        BY <4>1 DEF ChatInv, PollFits, Overtaken
      <4>3. u # j.user => (u \in votes'[p] <=> u \in votes[p])
        BY <1>1, <2>1, <4>2
      <4>4. u # j.user => (u \in votes'[p] <=> ballots'[u] = p)
        BY <2>4, <4>2, <4>3
      <4>5. ASSUME u = j.user PROVE u \in votes'[p] <=> p = j.option
        <5>1. votes' = votes
          BY <3>2, <4>5
        <5>2. CASE table = j.seen
          BY <2>1, <4>2, <4>5, <5>1, <5>2
        <5>3. CASE table # j.seen
          BY <1>1, <2>1, <4>5, <5>3
        <5> QED
          BY <5>2, <5>3
      <4> QED
        BY <2>4, <4>4, <4>5
    <3> QED
      BY <3>1, <3>2
  <2> QED
    BY <1>4, <2>2, <2>4, <2>5, <2>6 DEF PollFits, Single
<1> QED
  BY <1>1, <1>5, <1>6, <1>7, <1>8 DEF ChatInv

-----------------------------------------------------------------------------
\* Fewer than MaxCalls messages are newer than one: the pages back to the
\* start are the whole room.
LEMMA PagesAreWhole ==
  ASSUME MessagesFit
  PROVE  /\ GetGroupMessages(now + 1, MaxCalls) = {m \in stored : m.room = "group"}
         /\ GetDirectMessages(now + 1, MaxCalls) = {m \in stored : m.room = "direct"}
<1>1. ASSUME NEW S \in SUBSET stored, NEW m \in S
      PROVE  Cardinality({n \in S : n.created > m.created}) < MaxCalls
  <2> DEFINE N == {n \in S : n.created > m.created}
             f == [n \in N |-> n.created]
  <2>1. m.created \in 1..MaxCalls /\ MaxCalls \in Nat /\ \A n \in N : n.created \in 2..MaxCalls
    BY ChatAssumption DEF MessagesFit, Message
  <2>2. f \in Injection(N, 2..MaxCalls)
    <3>1. f \in [N -> 2..MaxCalls]
      BY <2>1
    <3>2. \A n, o \in N : f[n] = f[o] => n = o
      BY DEF MessagesFit
    <3> QED
      BY <3>1, <3>2 DEF Injection, IsInjective
  <2> HIDE DEF f, N
  <2>3. IsFiniteSet(2..MaxCalls) /\ Cardinality(2..MaxCalls) = IF 2 > MaxCalls THEN 0 ELSE MaxCalls - 2 + 1
    BY <2>1, FS_Interval
  <2>4. Cardinality(N) <= Cardinality(2..MaxCalls) /\ IsFiniteSet(N)
    BY <2>2, <2>3, FS_Injection
  <2>5. Cardinality(N) \in Nat
    BY <2>4, FS_CardinalityType
  <2>6. Cardinality(N) < MaxCalls
    BY <2>1, <2>3, <2>4, <2>5
  <2> QED
    BY <2>6 DEF N
<1>2. \A m \in stored : m.created < now + 1
  BY DEF MessagesFit, Message
<1>3. GetGroupMessages(now + 1, MaxCalls) = {m \in stored : m.room = "group"}
  <2> DEFINE S == {m \in stored : m.room = "group" /\ m.created < now + 1}
  <2>1. S = {m \in stored : m.room = "group"}
    BY <1>2
  <2>2. \A m \in S : Cardinality({n \in S : n.created > m.created}) < MaxCalls
    BY <1>1
  <2> QED
    BY <2>1, <2>2 DEF GetGroupMessages
<1>4. GetDirectMessages(now + 1, MaxCalls) = {m \in stored : m.room = "direct"}
  <2> DEFINE S == {m \in Direct : m.created < now + 1}
  <2>1. S = {m \in stored : m.room = "direct"}
    BY <1>2 DEF Direct
  <2>2. \A m \in S : Cardinality({n \in S : n.created > m.created}) < MaxCalls
    BY <1>1 DEF Direct
  <2> QED
    BY <2>1, <2>2 DEF GetDirectMessages
<1> QED
  BY <1>3, <1>4

\* The screen joins a room, or loads its history.
LEMMA ScreenStepKeeps ==
  ASSUME ChatInv, (\E where \in Rooms : Subscribe(where)) \/ LoadHistory
  PROVE  ChatInv'
<1>1. UNCHANGED <<member, trip, open, lastRead, stored, votes, alerts, job, now, ballots, raced, unsure>>
  BY DEF Subscribe, LoadHistory, room, history
<1>2. MessagesFit'
  BY <1>1, ChatAssumption, MessagesSame DEF ChatInv, AtMessage, MessagesFit
<1>3. RemindersFit'
  BY <1>1, RemindersSame DEF ChatInv, Flushed, RemindersFit
<1>4. PollFits'
  BY <1>1, PollSame DEF ChatInv
<1>5. client \in [room : {"none"} \cup Rooms, loaded : BOOLEAN, seen : SUBSET Message]
  BY DEF ChatInv, ScreenFits
<1>6. ASSUME NEW where \in Rooms, Subscribe(where)
      PROVE  ScreenFits'
  <2>1. /\ client.room = "none" /\ client' = [client EXCEPT !.room = where]
        /\ slipped' = {job[v].message : v \in {x \in Calls : job[x].at = "emitted"}}
    BY <1>6 DEF Subscribe
  <2>2. ~client.loaded
    BY <2>1 DEF ChatInv, ScreenFits
  <2>3. client' \in [room : {"none"} \cup Rooms, loaded : BOOLEAN, seen : SUBSET Message]
        /\ client'.loaded = client.loaded
    BY <1>5, <2>1
  <2> QED
    BY <1>1, <2>1, <2>2, <2>3 DEF ScreenFits, ScreenComplete
<1>7. ASSUME LoadHistory
      PROVE  ScreenFits'
  <2> DEFINE page == IF client.room = "group" THEN GetGroupMessages(now + 1, MaxCalls)
                     ELSE GetDirectMessages(now + 1, MaxCalls)
  <2>1. /\ client.room # "none" /\ slipped' = slipped
        /\ client' = [client EXCEPT !.seen = @ \cup page, !.loaded = TRUE]
    BY <1>7 DEF LoadHistory, history
  <2>2. page = {m \in stored : m.room = client.room}
    BY <1>5, <2>1, PagesAreWhole DEF ChatInv, Rooms
  <2> HIDE DEF page
  <2>3. page \subseteq Message
    BY <2>2 DEF ChatInv, MessagesFit
  <2>4. /\ client' \in [room : {"none"} \cup Rooms, loaded : BOOLEAN, seen : SUBSET Message]
        /\ client'.room = client.room /\ client'.seen = client.seen \cup page
    BY <1>5, <2>1, <2>3
  <2>5. ScreenComplete'
    BY <1>1, <2>2, <2>4 DEF ScreenComplete
  <2>6. \A v \in Calls : job'[v].at = "emitted" /\ job'[v].message.room = client'.room
          => job'[v].message \in client'.seen \cup slipped'
    BY <1>1, <2>1, <2>4 DEF ChatInv, ScreenFits
  <2>7. client'.room # "none"
    BY <2>1, <2>4
  <2>8. client' \in [room : {"none"} \cup Rooms, loaded : BOOLEAN, seen : SUBSET Message]
    BY <2>4
  <2> QED
    BY <2>5, <2>6, <2>7, <2>8 DEF ScreenFits
<1> QED
  BY <1>1, <1>2, <1>3, <1>4, <1>6, <1>7 DEF ChatInv

\* Every step of every request and client keeps the invariant.
LEMMA ChatSteps == ChatInv /\ [ChatNext]_chatVars => ChatInv'
<1>1. ASSUME ChatInv, UNCHANGED chatVars
      PROVE  ChatInv'
  <2>1. UNCHANGED <<member, trip, open, lastRead, stored, votes, alerts, job, client,
                    now, ballots, slipped, raced, unsure>>
    BY <1>1 DEF chatVars
  <2>2. MessagesFit'
    BY <1>1, <2>1, ChatAssumption, MessagesSame DEF ChatInv, AtMessage, MessagesFit
  <2>3. RemindersFit'
    BY <1>1, <2>1, RemindersSame DEF ChatInv, Flushed, RemindersFit
  <2>4. PollFits' /\ ScreenFits'
    BY <1>1, <2>1, PollSame, ScreenSame DEF ChatInv
  <2> QED
    BY <1>1, <2>1, <2>2, <2>3, <2>4 DEF ChatInv
<1>2. ASSUME ChatInv, ChatNext
      PROVE  ChatInv'
  <2>1. ASSUME NEW w \in Calls, FlushMessage(w) \/ Emit(w) \/ CommitMessage(w)
                                \/ RollbackMessage(w) \/ CommitVote(w)
        PROVE  ChatInv'
    BY <1>2, <2>1, FlushMessageKeeps, EmitKeeps, CommitMessageKeeps, RollbackMessageKeeps,
       CommitVoteKeeps
  <2>2. ASSUME NEW w \in Calls, NEW u \in Users,
               \/ \E flagged \in BOOLEAN :
                    SendGroupMessage(w, u, flagged) \/ SendDirectMessage(w, u, flagged)
               \/ \E o \in Options : VoteOnPoll(w, u, o)
        PROVE  ChatInv'
    BY <1>2, <2>2, StartsKeep
  <2> QED
    BY <1>2, <2>1, <2>2, RoomStepKeeps, ScreenStepKeeps DEF ChatNext
<1> QED
  BY <1>1, <1>2

\* The invariant holds of every reachable state.
LEMMA ChatInvariant == ChatSpec => []ChatInv
  BY ChatStart, ChatSteps, PTL DEF ChatSpec

\* The inbox counts what the open conversation counts.
LEMMA InboxCounts ==
  ASSUME ChatInv
  PROVE  InboxAgrees
<1> SUFFICES ASSUME NEW u \in Users
             PROVE  GetConversations(u) = ConversationPayload(u)
  BY DEF InboxAgrees
<1> DEFINE S == {m \in Direct : m.sender # u /\ m.created > lastRead[u]}
           T == {r \in Direct \X {u} : r[1].sender # r[2] /\ r[1].created > lastRead[r[2]]}
           f == [m \in S |-> <<m, u>>]
<1>1. f \in [S -> T]
  OBVIOUS
<1>2. \A m, n \in S : f[m] = f[n] => m = n
  OBVIOUS
<1>3. \A r \in T : r[1] \in S /\ f[r[1]] = r
  OBVIOUS
<1>4. IsFiniteSet(S)
  BY FS_Subset DEF ChatInv, MessagesFit, Direct
<1>5. f \in Bijection(S, T)
  <2> HIDE DEF f, S, T
  <2>1. f \in Injection(S, T)
    BY <1>1, <1>2 DEF Injection, IsInjective
  <2>2. f \in Surjection(S, T)
    BY <1>1, <1>3 DEF Surjection
  <2> QED
    BY <2>1, <2>2 DEF Bijection
<1> HIDE DEF f
<1>6. Cardinality(T) = Cardinality(S)
  BY <1>4, <1>5, FS_Bijection DEF ExistsBijection
<1>7. {m \in Direct : ~\E n \in Direct : n.created > m.created}
        = {m \in Direct : \A n \in Direct : n.created <= m.created}
  <2>1. \A m \in Direct : m.created \in Int
    BY DEF ChatInv, MessagesFit, Direct, Message
  <2> QED
    BY <2>1
<1> HIDE DEF S, T
<1>8. GetConversations(u) = [unread |-> Cardinality(T),
        last |-> {m \in Direct : ~\E n \in Direct : n.created > m.created}]
  BY DEF GetConversations, T
<1>9. ConversationPayload(u) = [unread |-> Cardinality(S),
        last |-> {m \in Direct : \A n \in Direct : n.created <= m.created}]
  BY DEF ConversationPayload, S
<1> QED
  BY <1>6, <1>7, <1>8, <1>9

\* A voter stands under one option, the one last chosen unless a vote loaded
\* before it was committed after it (vote_on_poll), for any users and options.
THEOREM PollIsKept == ChatSpec => []PollKeepsVotes
<1>1. ASSUME ChatInv PROVE PollKeepsVotes
  <2>1. ASSUME NEW u \in Users PROVE Cardinality({o \in Options : u \in votes[o]}) <= 1
    <3>1. CASE {o \in Options : u \in votes[o]} = {}
      BY <3>1, FS_EmptySet
    <3>2. ASSUME NEW o \in Options, u \in votes[o]
          PROVE  Cardinality({p \in Options : u \in votes[p]}) <= 1
      <4>1. {p \in Options : u \in votes[p]} = {o}
        BY <1>1, <3>2 DEF ChatInv, PollFits, Single
      <4>2. Cardinality({o}) = 1
        BY FS_Singleton
      <4> QED
        BY <4>1, <4>2
    <3> QED
      BY <3>1, <3>2
  <2> QED
    BY <1>1, <2>1 DEF PollKeepsVotes, ChatInv, PollFits
<1> QED
  BY <1>1, ChatInvariant, PTL

\* The compliance reminder comes once, with the message that reaches the
\* threshold, to a sender whose flagged sends do not overlap
\* (_notify_if_repeated_leakage_attempts), for any number of them.
THEOREM RemindersComeOnce == ChatSpec => []RemindedAtThreshold
<1>1. ChatInv => RemindedAtThreshold
  BY DEF ChatInv, RemindersFit
<1> QED
  BY <1>1, ChatInvariant, PTL

\* A screen that joined and loaded shows what is stored, and the inbox counts
\* what the conversation counts (get_*_messages, _conversation_payload,
\* get_conversations), for any sends in flight.
THEOREM ScreensShowWhatIsStored == ChatSpec => []ScreensAgree
<1>1. ChatInv => ScreensAgree
  BY InboxCounts DEF ChatInv, ScreenFits, ScreensAgree
<1> QED
  BY <1>1, ChatInvariant, PTL

\* Every table of the chat holds values of its columns.
LEMMA ChatTyped == ChatInv => ChatTypeOK
  BY DEF ChatInv, ChatTypeOK, MessagesFit, RemindersFit, PollFits, ScreenFits, Single

-----------------------------------------------------------------------------
(* Posts: the counters and the comments. *)

Kinds == {"like", "unlike", "share", "comment", "uncomment", "unpost"}
Act == [kind : Kinds, by : Fans, item : CommentIds \cup {0}, column : Columns,
        seen : Nat, new : Nat, rows : SUBSET CommentIds, stale : BOOLEAN]

LikesOf(i) == {p \in likes : p[1] = i}

PostTables ==
  /\ published \in BOOLEAN /\ counts \in [Columns -> Nat]
  /\ likes \subseteq (CommentIds \cup {0}) \X Fans /\ IsFiniteSet(likes)
  /\ DOMAIN comments = CommentIds
  /\ \A c \in CommentIds : \/ comments[c].at \in {"new", "gone"}
                           \/ comments[c].at = "live" /\ comments[c].row \in Comment
  /\ IsFiniteSet(Live) /\ (~published => Live = {})
  /\ reports \subseteq Fans \ {Author} /\ shares \in Nat /\ clashed \subseteq Columns
  /\ act \in [Tabs -> {NoAct} \cup Act]

\* What a request in flight loaded is there still, while its counter is.
ActFits(a) ==
  /\ ~a.stale => a.seen = counts[a.column]
  /\ a.item # 0 => comments[a.item].at # "new"
  /\ a.kind \in {"like", "unlike"} => a.column = <<"like", a.item>>
  /\ a.kind \in {"comment", "uncomment"} => a.column = <<"comment", 0>>
  /\ a.kind = "share" => a.column = <<"share", 0>>
  /\ a.kind \in {"like", "comment", "share"} => a.new = a.seen + 1
  /\ a.kind = "unlike" => a.new = Less(a.seen, 1)
  /\ a.kind = "unlike" /\ ~a.stale /\ a.item \in Items => <<a.item, a.by>> \in likes
  /\ a.kind = "comment" /\ a.item \in Live => comments[a.item].row.parent = 0
  /\ a.kind = "uncomment" => IsFiniteSet(a.rows) /\ a.new = Less(a.seen, Cardinality(a.rows))
  /\ a.kind = "uncomment" /\ ~a.stale => a.rows \subseteq Live

LikesCounted ==
  \A i \in Items : <<"like", i>> \notin clashed => counts[<<"like", i>>] = Cardinality(LikesOf(i))
CommentsCounted == <<"comment", 0>> \notin clashed => counts[<<"comment", 0>>] = Cardinality(Live)
SharesCounted == <<"share", 0>> \notin clashed => counts[<<"share", 0>>] = shares

\* An id that no comment has had yet has no likes.
NewUntouched ==
  \A c \in CommentIds : comments[c].at = "new" => counts[<<"like", c>>] = 0 /\ LikesOf(c) = {}

PostsInv ==
  /\ PostTables /\ RepliesAnswerComments
  /\ published => /\ \A t \in Tabs : act[t] # NoAct => ActFits(act[t])
                  /\ LikesCounted /\ CommentsCounted /\ SharesCounted /\ NewUntouched

-----------------------------------------------------------------------------
\* The counters are a post's likes, comments and shares and each comment's likes.
LEMMA ColumnsAre ==
  /\ <<"like", 0>> \in Columns /\ <<"comment", 0>> \in Columns /\ <<"share", 0>> \in Columns
  /\ \A c \in CommentIds : <<"like", c>> \in Columns
  /\ \A k \in Columns : \/ k = <<"like", 0>> \/ k = <<"comment", 0>> \/ k = <<"share", 0>>
                        \/ \E c \in CommentIds : k = <<"like", c>>
  BY DEF Columns

\* The floor at zero of a decrement.
LEMMA LessIsLess ==
  ASSUME NEW n \in Nat, NEW k \in Nat
  PROVE  Less(n, k) \in Nat /\ (k <= n => Less(n, k) = n - k)
  BY DEF Less

\* The counters' rows.
LEMMA CountsAreRows ==
  ASSUME PostsInv
  PROVE  CountsMatch
<1> SUFFICES ASSUME published, NEW k \in Columns, k[2] \in Items, k \notin clashed
             PROVE  counts[k] = Rows(k)
  BY DEF CountsMatch
<1>1. CASE k[1] = "like"
  <2>1. k = <<"like", k[2]>>
    BY <1>1, ColumnsAre
  <2>2. counts[k] = Cardinality(LikesOf(k[2]))
    BY <2>1 DEF PostsInv, LikesCounted
  <2> QED
    BY <1>1, <2>2 DEF Rows, LikesOf
<1>2. CASE k[1] = "comment"
  <2>1. k = <<"comment", 0>>
    BY <1>2, ColumnsAre
  <2>2. counts[k] = Cardinality(Live)
    BY <2>1 DEF PostsInv, CommentsCounted
  <2> QED
    BY <1>2, <2>2 DEF Rows
<1>3. CASE k[1] = "share"
  <2>1. k = <<"share", 0>>
    BY <1>3, ColumnsAre
  <2>2. counts[k] = shares
    BY <2>1 DEF PostsInv, SharesCounted
  <2> QED
    BY <1>3, <2>2 DEF Rows
<1> QED
  BY <1>1, <1>2, <1>3, ColumnsAre

\* A new post with no rows has its counters at zero.
LEMMA PostsStart == PostsInit => PostsInv
<1> SUFFICES ASSUME PostsInit PROVE PostsInv
  OBVIOUS
<1>1. /\ published = TRUE /\ comments = [c \in CommentIds |-> [at |-> "new"]] /\ likes = {}
      /\ counts = [k \in Columns |-> 0] /\ reports = {} /\ act = [t \in Tabs |-> NoAct]
      /\ shares = 0 /\ clashed = {}
  BY DEF PostsInit
<1>2. Live = {} /\ \A i : LikesOf(i) = {}
  BY <1>1 DEF Live, LikesOf
<1>3. IsFiniteSet({}) /\ Cardinality({}) = 0
  BY FS_EmptySet
<1>4. PostTables
  BY <1>1, <1>2, <1>3 DEF PostTables
<1>5. RepliesAnswerComments
  BY <1>2 DEF RepliesAnswerComments
<1>6. LikesCounted /\ CommentsCounted /\ SharesCounted /\ NewUntouched
  <2>1. \A i : Cardinality(LikesOf(i)) = 0
    BY <1>2, <1>3
  <2>2. Cardinality(Live) = 0
    BY <1>2, <1>3
  <2> QED
    BY <1>1, <1>2, <2>1, <2>2, ColumnsAre DEF LikesCounted, CommentsCounted, SharesCounted,
       NewUntouched, Items
<1> QED
  BY <1>1, <1>4, <1>5, <1>6 DEF PostsInv

\* Nothing of the post changes: the other requests still fit.
LEMMA PostSame ==
  ASSUME PostsInv, UNCHANGED <<published, comments, likes, counts, shares, clashed>>,
         reports' \subseteq Fans \ {Author}, act' \in [Tabs -> {NoAct} \cup Act],
         published => \A t \in Tabs : act'[t] # NoAct /\ act'[t] # act[t] => ActFits(act'[t])
  PROVE  PostsInv'
<1>1. Live' = Live /\ Items' = Items
  BY DEF Live, Items
<1>2. PostTables'
  BY <1>1 DEF PostsInv, PostTables
<1>3. RepliesAnswerComments'
  BY <1>1 DEF PostsInv, RepliesAnswerComments
<1>4. ASSUME published, NEW t \in Tabs, act'[t] # NoAct PROVE ActFits(act[t])'
  <2>1. ActFits(act'[t])
    BY <1>4 DEF PostsInv
  <2> QED
    BY <1>1, <2>1 DEF ActFits
<1>5. published => LikesCounted' /\ CommentsCounted' /\ SharesCounted' /\ NewUntouched'
  <2>1. \A x : LikesOf(x)' = LikesOf(x)
    BY DEF LikesOf
  <2> QED
    BY <1>1, <2>1 DEF PostsInv, LikesCounted, CommentsCounted, SharesCounted, NewUntouched
<1> QED
  BY <1>2, <1>3, <1>4, <1>5 DEF PostsInv

\* A request opens with what it loaded.
LEMMA OpenKeeps ==
  ASSUME PostsInv, NEW t \in Tabs, NEW kind \in Kinds, NEW u \in Fans, NEW item \in CommentIds \cup {0},
         NEW column \in Columns, NEW new \in Nat, NEW rows \in SUBSET CommentIds,
         Open(t, kind, u, item, column, new, rows),
         item # 0 => comments[item].at # "new",
         kind \in {"like", "unlike"} => column = <<"like", item>>,
         kind \in {"comment", "uncomment"} => column = <<"comment", 0>>,
         kind = "share" => column = <<"share", 0>>,
         kind \in {"like", "comment", "share"} => new = counts[column] + 1,
         kind = "unlike" => new = Less(counts[column], 1) /\ <<item, u>> \in likes,
         kind = "comment" /\ item \in Live => comments[item].row.parent = 0,
         kind = "uncomment" => IsFiniteSet(rows) /\ new = Less(counts[column], Cardinality(rows))
                               /\ rows \subseteq Live
  PROVE  PostsInv'
<1> DEFINE r == [kind |-> kind, by |-> u, item |-> item, column |-> column, seen |-> counts[column],
                 new |-> new, rows |-> rows, stale |-> FALSE]
<1>1. /\ published /\ act[t] = NoAct /\ act' = [act EXCEPT ![t] = r]
      /\ UNCHANGED <<published, comments, likes, counts, reports, shares, clashed>>
  BY DEF Open
<1>2. counts[column] \in Nat /\ act \in [Tabs -> {NoAct} \cup Act] /\ reports \subseteq Fans \ {Author}
  BY DEF PostsInv, PostTables
<1>3. r \in Act
  BY <1>2 DEF Act
<1>4. /\ r.kind = kind /\ r.by = u /\ r.item = item /\ r.column = column /\ r.seen = counts[column]
      /\ r.new = new /\ r.rows = rows /\ r.stale = FALSE
  OBVIOUS
<1> HIDE DEF r
<1>5. ActFits(r)
  BY <1>4 DEF ActFits
<1>6. act' \in [Tabs -> {NoAct} \cup Act] /\ act'[t] = r /\ \A v \in Tabs : v # t => act'[v] = act[v]
  BY <1>1, <1>2, <1>3
<1> QED
  BY <1>1, <1>2, <1>5, <1>6, PostSame

\* The replies of a comment, and itself.
LEMMA RepliesCounted ==
  ASSUME PostsInv, NEW c \in Live, c # 0
  PROVE  /\ IsFiniteSet(Replies(c) \cup {c}) /\ Replies(c) \cup {c} \subseteq Live
         /\ Cardinality(Replies(c) \cup {c}) = 1 + Cardinality(Replies(c))
         /\ Cardinality(Replies(c)) \in Nat
<1>1. IsFiniteSet(Replies(c))
  BY FS_Subset DEF PostsInv, PostTables, Replies
<1>2. c \notin Replies(c)
  BY DEF PostsInv, RepliesAnswerComments, Replies
<1>3. Cardinality(Replies(c)) \in Nat
  BY <1>1, FS_CardinalityType
<1> QED
  BY <1>1, <1>2, <1>3, FS_AddElement DEF Replies

\* The ways a request opens.
LEMMA RequestsOpen ==
  ASSUME PostsInv, NEW t \in Tabs, NEW u \in Fans,
         \/ LikePost(t, u) \/ UnlikePost(t, u) \/ RecordShare(t, u) \/ DeletePost(t, u)
         \/ \E c \in CommentIds : LikeComment(t, u, c) \/ UnlikeComment(t, u, c) \/ DeleteComment(t, u, c)
         \/ \E parent \in CommentIds \cup {0} : AddComment(t, u, parent)
  PROVE  PostsInv'
<1>1. \A k \in Columns : counts[k] \in Nat /\ counts[k] + 1 \in Nat /\ Less(counts[k], 1) \in Nat
  <2> SUFFICES ASSUME NEW k \in Columns
               PROVE  counts[k] \in Nat /\ counts[k] + 1 \in Nat /\ Less(counts[k], 1) \in Nat
    OBVIOUS
  <2>1. counts[k] \in Nat
    BY DEF PostsInv, PostTables
  <2> QED
    BY <2>1 DEF Less
<1>2. {} \in SUBSET CommentIds /\ Live \subseteq CommentIds /\ 0 \notin CommentIds
  BY PostsAssumption DEF Live
<1>3. CASE LikePost(t, u)
  BY <1>1, <1>2, <1>3, ColumnsAre, OpenKeeps DEF LikePost, Kinds
<1>4. CASE UnlikePost(t, u)
  BY <1>1, <1>2, <1>4, ColumnsAre, OpenKeeps DEF UnlikePost, Kinds
<1>5. CASE RecordShare(t, u)
  BY <1>1, <1>2, <1>5, ColumnsAre, OpenKeeps DEF RecordShare, Kinds
<1>6. CASE DeletePost(t, u)
  BY <1>1, <1>2, <1>6, ColumnsAre, OpenKeeps DEF DeletePost, Kinds
<1>7. ASSUME NEW c \in CommentIds, LikeComment(t, u, c) PROVE PostsInv'
  BY <1>1, <1>2, <1>7, ColumnsAre, OpenKeeps DEF LikeComment, Kinds, Live
<1>8. ASSUME NEW c \in CommentIds, UnlikeComment(t, u, c) PROVE PostsInv'
  BY <1>1, <1>2, <1>8, ColumnsAre, OpenKeeps DEF UnlikeComment, Kinds, Live
<1>9. ASSUME NEW c \in CommentIds, DeleteComment(t, u, c) PROVE PostsInv'
  <2> DEFINE rows == Replies(c) \cup {c}
             new == Less(counts[<<"comment", 0>>], 1 + Cardinality(Replies(c)))
  <2>1. c \in Live /\ c # 0 /\ Open(t, "uncomment", u, c, <<"comment", 0>>, new, rows)
    BY <1>2, <1>9 DEF DeleteComment
  <2>2. /\ IsFiniteSet(rows) /\ rows \subseteq Live /\ Cardinality(rows) = 1 + Cardinality(Replies(c))
        /\ 1 + Cardinality(Replies(c)) \in Nat
    BY <2>1, RepliesCounted
  <2>3. new \in Nat /\ new = Less(counts[<<"comment", 0>>], Cardinality(rows)) /\ rows \in SUBSET CommentIds
    <3>1. new \in Nat
      BY <1>1, <2>2, ColumnsAre, LessIsLess
    <3> QED
      BY <1>2, <2>2, <3>1
  <2>4. comments[c].at # "new" /\ "uncomment" \in Kinds /\ <<"comment", 0>> \in Columns
    BY <2>1, ColumnsAre DEF Live, Kinds
  <2> HIDE DEF rows, new
  <2> QED
    BY <1>2, <2>1, <2>2, <2>3, <2>4, OpenKeeps
<1>10. ASSUME NEW parent \in CommentIds \cup {0}, AddComment(t, u, parent) PROVE PostsInv'
  BY <1>1, <1>2, <1>10, ColumnsAre, OpenKeeps DEF AddComment, Kinds, Live
<1> QED
  BY <1>3, <1>4, <1>5, <1>6, <1>7, <1>8, <1>9, <1>10

-----------------------------------------------------------------------------
\* A commit writes one counter, and whoever else loaded it is stale.
LEMMA CounterWritten ==
  ASSUME PostsInv, published, NEW t \in Tabs, act[t] # NoAct, WriteCounter(t)
  PROVE  /\ act[t] \in Act
         /\ counts' \in [Columns -> Nat]
         /\ ~act[t].stale => counts'[act[t].column] = act[t].new
         /\ \A k \in Columns : k # act[t].column => counts'[k] = counts[k]
         /\ clashed \subseteq clashed' /\ clashed' \subseteq clashed \cup {act[t].column}
         /\ act[t].stale => act[t].column \in clashed'
         /\ act' \in [Tabs -> {NoAct} \cup Act] /\ act'[t] = NoAct
         /\ \A v \in Tabs : act'[v] # NoAct =>
              /\ v # t /\ act[v] \in Act /\ act'[v] \in Act /\ act[v] # NoAct
              /\ act'[v].kind = act[v].kind /\ act'[v].by = act[v].by /\ act'[v].item = act[v].item
              /\ act'[v].column = act[v].column /\ act'[v].seen = act[v].seen
              /\ act'[v].new = act[v].new /\ act'[v].rows = act[v].rows
              /\ ~act'[v].stale => ~act[v].stale /\ act[v].column # act[t].column
         /\ UNCHANGED <<published, reports, acts>>
<1> DEFINE a == act[t]
<1>1. /\ act \in [Tabs -> {NoAct} \cup Act] /\ a \in Act /\ counts \in [Columns -> Nat]
      /\ clashed \subseteq Columns
  BY DEF PostsInv, PostTables
<1>2. /\ counts' = IF a.new = a.seen THEN counts ELSE [counts EXCEPT ![a.column] = a.new]
      /\ clashed' = IF a.stale THEN clashed \cup {a.column} ELSE clashed
      /\ act' = [v \in Tabs |-> IF v # t /\ act[v] # NoAct /\ act[v].column = a.column
                                THEN [act[v] EXCEPT !.stale = TRUE]
                                ELSE [act EXCEPT ![t] = NoAct][v]]
      /\ UNCHANGED <<published, reports, acts>>
  BY DEF WriteCounter, Closed
<1>3. a.column \in Columns /\ a.new \in Nat /\ a.stale \in BOOLEAN
  BY <1>1 DEF Act
<1>4. ~a.stale => counts[a.column] = a.seen
  BY <1>1 DEF PostsInv, ActFits
<1>5. ASSUME NEW x \in Act
      PROVE  LET y == [x EXCEPT !.stale = TRUE]
             IN  /\ y \in Act /\ y.kind = x.kind /\ y.by = x.by /\ y.item = x.item
                 /\ y.column = x.column /\ y.seen = x.seen /\ y.new = x.new /\ y.rows = x.rows
                 /\ y.stale = TRUE
  BY DEF Act
<1> HIDE DEF a
<1>6. /\ counts' \in [Columns -> Nat]
      /\ ~a.stale => counts'[a.column] = a.new
      /\ \A k \in Columns : k # a.column => counts'[k] = counts[k]
  BY <1>1, <1>2, <1>3, <1>4
<1>7. /\ clashed \subseteq clashed' /\ clashed' \subseteq clashed \cup {a.column}
      /\ a.stale => a.column \in clashed'
  BY <1>2
<1>8. ASSUME NEW v \in Tabs
      PROVE  /\ act'[v] \in {NoAct} \cup Act /\ (v = t => act'[v] = NoAct)
             /\ act'[v] # NoAct =>
                  /\ v # t /\ act[v] \in Act /\ act'[v] \in Act /\ act[v] # NoAct
                  /\ act'[v].kind = act[v].kind /\ act'[v].by = act[v].by /\ act'[v].item = act[v].item
                  /\ act'[v].column = act[v].column /\ act'[v].seen = act[v].seen
                  /\ act'[v].new = act[v].new /\ act'[v].rows = act[v].rows
                  /\ ~act'[v].stale => ~act[v].stale /\ act[v].column # a.column
  <2>1. CASE v # t /\ act[v] # NoAct /\ act[v].column = a.column
    <3>1. act[v] \in Act
      BY <1>1, <2>1
    <3>2. PICK x \in Act : x = act[v]
      BY <3>1
    <3>3. act'[v] = [x EXCEPT !.stale = TRUE]
      BY <1>2, <2>1, <3>2
    <3> DEFINE y == [x EXCEPT !.stale = TRUE]
    <3>4. /\ y \in Act /\ y.kind = x.kind /\ y.by = x.by /\ y.item = x.item
          /\ y.column = x.column /\ y.seen = x.seen /\ y.new = x.new /\ y.rows = x.rows
          /\ y.stale = TRUE
      BY <1>5
    <3> HIDE DEF y
    <3>5. act'[v] = y
      BY <3>3 DEF y
    <3> QED
      BY <2>1, <3>2, <3>4, <3>5
  <2>2. CASE ~(v # t /\ act[v] # NoAct /\ act[v].column = a.column)
    <3>1. act'[v] = IF v = t THEN NoAct ELSE act[v]
      BY <1>1, <1>2, <2>2
    <3> QED
      BY <1>1, <2>2, <3>1
  <2> QED
    BY <2>1, <2>2
<1>9. act' \in [Tabs -> {NoAct} \cup Act]
  <2>1. DOMAIN act' = Tabs /\ act' = [v \in Tabs |-> act'[v]]
    BY <1>2
  <2> QED
    BY <1>8, <2>1
<1> QED
  BY <1>1, <1>2, <1>6, <1>7, <1>8, <1>9 DEF a

\* What the others loaded is there still, or they are stale.
LEMMA OthersStill ==
  ASSUME PostsInv, published, NEW t \in Tabs, act[t] # NoAct, WriteCounter(t),
         \A c \in CommentIds : comments[c].at # "new" =>
           comments'[c].at # "new" /\ (comments'[c].at = "live" => comments'[c] = comments[c]),
         \A p \in likes : p[1] \in Items' /\ <<"like", p[1]>> # act[t].column => p \in likes',
         act[t].column # <<"comment", 0>> => Live' = Live
  PROVE  \A v \in Tabs : act'[v] # NoAct => ActFits(act[v])'
<1> SUFFICES ASSUME NEW v \in Tabs, act'[v] # NoAct PROVE ActFits(act[v])'
  OBVIOUS
<1> DEFINE a == act[v]
           b == act'[v]
<1>1. /\ a \in Act /\ b \in Act /\ b.kind = a.kind /\ b.by = a.by /\ b.item = a.item
      /\ b.column = a.column /\ b.seen = a.seen /\ b.new = a.new /\ b.rows = a.rows
      /\ ~b.stale => ~a.stale /\ a.column # act[t].column
      /\ a # NoAct
  BY CounterWritten
<1>2. ActFits(a)
  BY <1>1 DEF PostsInv
<1> HIDE DEF a, b
<1>3. a.column \in Columns /\ a.item \in CommentIds \cup {0} /\ 0 \notin CommentIds
  BY <1>1, PostsAssumption DEF Act
<1>4. ~b.stale => b.seen = counts'[b.column]
  <2>1. \A k \in Columns : k # act[t].column => counts'[k] = counts[k]
    BY CounterWritten
  <2>2. ~b.stale => a.seen = counts[a.column] /\ a.column # act[t].column
    BY <1>1, <1>2 DEF ActFits
  <2> QED
    BY <1>1, <1>3, <2>1, <2>2
<1>5. /\ b.item # 0 => comments'[b.item].at # "new"
      /\ b.item \in Live' => b.item \in Live /\ comments'[b.item] = comments[b.item]
      /\ b.item \in Items' => b.item \in Items
  BY <1>1, <1>2, <1>3 DEF ActFits, Live, Items, PostsInv, PostTables
<1>6. b.kind = "unlike" /\ ~b.stale /\ b.item \in Items' => <<b.item, b.by>> \in likes'
  BY <1>1, <1>2, <1>5 DEF ActFits
<1>7. b.kind = "comment" /\ b.item \in Live' => comments'[b.item].row.parent = 0
  BY <1>1, <1>2, <1>5 DEF ActFits
<1>8. b.kind = "uncomment" /\ ~b.stale => b.rows \subseteq Live'
  BY <1>1, <1>2 DEF ActFits
<1>9. /\ b.kind \in {"like", "unlike"} => b.column = <<"like", b.item>>
      /\ b.kind \in {"comment", "uncomment"} => b.column = <<"comment", 0>>
      /\ b.kind = "share" => b.column = <<"share", 0>>
      /\ b.kind \in {"like", "comment", "share"} => b.new = b.seen + 1
      /\ b.kind = "unlike" => b.new = Less(b.seen, 1)
      /\ b.kind = "uncomment" => IsFiniteSet(b.rows) /\ b.new = Less(b.seen, Cardinality(b.rows))
  BY <1>1, <1>2 DEF ActFits
<1> QED
  BY <1>4, <1>5, <1>6, <1>7, <1>8, <1>9 DEF ActFits, b

\* Who commits has its keys, and fits.
LEMMA Committing ==
  ASSUME PostsInv, NEW t \in Tabs, NEW kinds, "none" \notin kinds, Ready(t, kinds)
  PROVE  /\ published /\ act[t] # NoAct /\ act[t] \in Act /\ ActFits(act[t])
         /\ act[t].kind \in kinds /\ KeysHold(act[t])
  BY DEF Ready, KeysHold, NoAct, PostsInv, PostTables

\* Nobody's likes but the pair's change.
LEMMA CommitLikeKeeps ==
  ASSUME PostsInv, NEW t \in Tabs, CommitLike(t)
  PROVE  PostsInv'
<1> DEFINE a == act[t]
           pair == <<a.item, a.by>>
<1>1. /\ published /\ a # NoAct /\ a \in Act /\ ActFits(a) /\ a.kind \in {"like", "unlike"}
      /\ KeysHold(a) /\ WriteCounter(t) /\ UNCHANGED <<comments, shares>>
      /\ likes' = IF a.kind = "like" THEN likes \cup {pair} ELSE likes \ {pair}
  BY Committing DEF CommitLike
<1> HIDE DEF a
<1>2. /\ a.item \in Items /\ a.item \in CommentIds \cup {0} /\ a.by \in Fans
      /\ a.column = <<"like", a.item>> /\ a.column \in Columns
      /\ a.kind = "like" => pair \notin likes
      /\ comments[a.item].at # "new" \/ a.item = 0
  BY <1>1 DEF KeysHold, ActFits, Act
<1>3. Live' = Live /\ Items' = Items
  BY <1>1 DEF Live, Items
<1>4. \A v \in Tabs : act'[v] # NoAct => ActFits(act[v])'
  <2>1. \A p \in likes : <<"like", p[1]>> # act[t].column => p \in likes'
    BY <1>1, <1>2 DEF a
  <2> QED
    BY <1>1, <1>3, <2>1, OthersStill DEF a
<1>5. IsFiniteSet(likes') /\ likes' \subseteq (CommentIds \cup {0}) \X Fans
  <2>1. IsFiniteSet(likes) /\ likes \subseteq (CommentIds \cup {0}) \X Fans
    BY DEF PostsInv, PostTables
  <2>2. IsFiniteSet(likes \cup {pair}) /\ IsFiniteSet(likes \ {pair})
    BY <2>1, FS_AddElement, FS_RemoveElement
  <2> QED
    BY <1>1, <1>2, <2>1, <2>2
<1>6. /\ counts' \in [Columns -> Nat] /\ clashed' \subseteq Columns
      /\ act' \in [Tabs -> {NoAct} \cup Act] /\ UNCHANGED <<published, reports>>
      /\ a.stale => a.column \in clashed'
      /\ ~a.stale => counts'[a.column] = a.new
      /\ \A k \in Columns : k # a.column => counts'[k] = counts[k]
      /\ clashed \subseteq clashed'
  BY <1>1, <1>2, CounterWritten DEF PostsInv, PostTables, a
<1>7. PostTables'
  BY <1>1, <1>3, <1>5, <1>6 DEF PostsInv, PostTables
<1>8. RepliesAnswerComments'
  BY <1>1, <1>3 DEF PostsInv, RepliesAnswerComments
<1>9. \A i : i # a.item => LikesOf(i)' = LikesOf(i)
  BY <1>1 DEF LikesOf
<1>10. LikesCounted'
  <2> SUFFICES ASSUME NEW i \in Items, <<"like", i>> \notin clashed'
               PROVE  counts'[<<"like", i>>] = Cardinality(LikesOf(i)')
    BY <1>3 DEF LikesCounted
  <2>1. <<"like", i>> \in Columns /\ counts[<<"like", i>>] = Cardinality(LikesOf(i))
    BY <1>1, <1>6, ColumnsAre DEF PostsInv, LikesCounted, Items, Live
  <2>2. CASE i # a.item
    <3>1. <<"like", i>> # a.column
      BY <1>2, <2>2
    <3>2. LikesOf(i)' = LikesOf(i)
      BY <1>9, <2>2
    <3> QED
      BY <1>6, <2>1, <3>1, <3>2
  <2>3. CASE i = a.item
    <3>1. ~a.stale /\ counts'[a.column] = a.new /\ a.seen = counts[a.column]
      BY <1>1, <1>2, <1>6, <2>3 DEF ActFits
    <3>2. IsFiniteSet(LikesOf(i)) /\ Cardinality(LikesOf(i)) \in Nat
      <4>1. IsFiniteSet(LikesOf(i))
        BY FS_Subset DEF PostsInv, PostTables, LikesOf
      <4> QED
        BY <4>1, FS_CardinalityType
    <3>3. CASE a.kind = "like"
      <4>1. LikesOf(i)' = LikesOf(i) \cup {pair} /\ pair \notin LikesOf(i)
        BY <1>1, <1>2, <2>3, <3>3 DEF LikesOf
      <4>2. Cardinality(LikesOf(i) \cup {pair}) = Cardinality(LikesOf(i)) + 1
        BY <3>2, <4>1, FS_AddElement
      <4>3. a.new = a.seen + 1
        BY <1>1, <3>3 DEF ActFits
      <4> QED
        BY <1>2, <2>1, <2>3, <3>1, <4>1, <4>2, <4>3
    <3>4. CASE a.kind = "unlike"
      <4>1. pair \in likes
        BY <1>1, <1>2, <3>1, <3>4 DEF ActFits
      <4>2. LikesOf(i)' = LikesOf(i) \ {pair} /\ pair \in LikesOf(i)
        BY <1>1, <2>3, <3>4, <4>1 DEF LikesOf
      <4>3. Cardinality(LikesOf(i) \ {pair}) = Cardinality(LikesOf(i)) - 1
        <5>1. PICK p : p = pair
          OBVIOUS
        <5>2. PICK S : S = LikesOf(i)
          OBVIOUS
        <5>3. IsFiniteSet(S) /\ p \in S
          BY <3>2, <4>2, <5>1, <5>2
        <5>4. Cardinality(S \ {p}) = Cardinality(S) - 1
          BY <5>3, FS_RemoveElement
        <5> QED
          BY <5>1, <5>2, <5>4
      <4>4. a.new = Less(a.seen, 1)
        BY <1>1, <3>4 DEF ActFits
      <4>5. Cardinality(LikesOf(i)) # 0
        BY <3>2, <4>2, FS_EmptySet
      <4>6. a.new = a.seen - 1
        BY <1>2, <2>1, <2>3, <3>1, <3>2, <4>4, <4>5 DEF Less
      <4> QED
        BY <1>2, <2>1, <2>3, <3>1, <4>2, <4>3, <4>6
    <3> QED
      BY <1>1, <3>3, <3>4
  <2> QED
    BY <2>2, <2>3
<1>11. CommentsCounted' /\ SharesCounted'
  <2>1. <<"comment", 0>> # a.column /\ <<"share", 0>> # a.column
    BY <1>2
  <2> QED
    BY <1>1, <1>3, <1>6, <2>1, ColumnsAre DEF PostsInv, CommentsCounted, SharesCounted
<1>12. NewUntouched'
  <2> SUFFICES ASSUME NEW c \in CommentIds, comments[c].at = "new"
               PROVE  counts'[<<"like", c>>] = 0 /\ LikesOf(c)' = {}
    BY <1>1 DEF NewUntouched
  <2>1. c # a.item
    BY <1>2, PostsAssumption
  <2>2. <<"like", c>> # a.column /\ <<"like", c>> \in Columns
    BY <1>2, <2>1, ColumnsAre
  <2>3. counts[<<"like", c>>] = 0 /\ LikesOf(c) = {}
    BY <1>1 DEF PostsInv, NewUntouched
  <2> QED
    BY <1>6, <1>9, <2>1, <2>2, <2>3
<1> QED
  BY <1>4, <1>6, <1>7, <1>8, <1>10, <1>11, <1>12 DEF PostsInv

\* A share: its row is a count alone.
LEMMA CommitShareKeeps ==
  ASSUME PostsInv, NEW t \in Tabs, CommitShare(t)
  PROVE  PostsInv'
<1> DEFINE a == act[t]
<1>1. /\ published /\ a # NoAct /\ a \in Act /\ ActFits(a) /\ a.kind = "share"
      /\ WriteCounter(t) /\ UNCHANGED <<comments, likes>> /\ shares' = shares + 1
  BY Committing DEF CommitShare
<1> HIDE DEF a
<1>2. a.column = <<"share", 0>> /\ a.column \in Columns /\ a.new = a.seen + 1
  BY <1>1, ColumnsAre DEF ActFits
<1>3. Live' = Live /\ Items' = Items /\ \A i : LikesOf(i)' = LikesOf(i)
  BY <1>1 DEF Live, Items, LikesOf
<1>4. \A v \in Tabs : act'[v] # NoAct => ActFits(act[v])'
  BY <1>1, <1>3, OthersStill DEF a
<1>5. /\ counts' \in [Columns -> Nat] /\ clashed' \subseteq Columns
      /\ act' \in [Tabs -> {NoAct} \cup Act] /\ UNCHANGED <<published, reports>>
      /\ a.stale => a.column \in clashed'
      /\ ~a.stale => counts'[a.column] = a.new
      /\ \A k \in Columns : k # a.column => counts'[k] = counts[k]
      /\ clashed \subseteq clashed'
  BY ZenonT(40), <1>1, <1>2, CounterWritten DEF PostsInv, PostTables, a
<1>6. PostTables'
  BY <1>1, <1>3, <1>5 DEF PostsInv, PostTables
<1>7. RepliesAnswerComments'
  BY <1>1, <1>3 DEF PostsInv, RepliesAnswerComments
<1>8. LikesCounted' /\ CommentsCounted' /\ NewUntouched'
  <2>1. \A i : <<"like", i>> # a.column
    BY <1>2
  <2>2. <<"comment", 0>> # a.column
    BY <1>2
  <2>3. CommentsCounted'
    BY <1>1, <1>3, <1>5, <2>2, ColumnsAre DEF PostsInv, CommentsCounted
  <2>4. LikesCounted' /\ NewUntouched'
    BY <1>1, <1>3, <1>5, <2>1, ColumnsAre DEF PostsInv, LikesCounted, NewUntouched, Items, Live
  <2> QED
    BY <2>3, <2>4
<1>9. SharesCounted'
  <2> SUFFICES ASSUME <<"share", 0>> \notin clashed'
               PROVE  counts'[<<"share", 0>>] = shares'
    BY DEF SharesCounted
  <2>1. ~a.stale /\ counts'[a.column] = a.new /\ a.seen = counts[a.column]
    BY <1>1, <1>2, <1>5 DEF ActFits
  <2>2. counts[<<"share", 0>>] = shares
    BY <1>1, <1>5 DEF PostsInv, SharesCounted
  <2> QED
    BY <1>1, <1>2, <2>1, <2>2
<1> QED
  BY <1>4, <1>5, <1>6, <1>7, <1>8, <1>9 DEF PostsInv

\* A comment takes an id that no comment had.
LEMMA CommitCommentKeeps ==
  ASSUME PostsInv, NEW t \in Tabs, CommitComment(t)
  PROVE  PostsInv'
<1> DEFINE a == act[t]
<1>1. /\ published /\ a # NoAct /\ a \in Act /\ ActFits(a) /\ a.kind = "comment" /\ KeysHold(a)
      /\ WriteCounter(t) /\ UNCHANGED <<likes, shares>>
  BY Committing DEF CommitComment
<1>2. PICK c \in CommentIds :
        /\ comments[c].at = "new"
        /\ comments' = [comments EXCEPT ![c] =
                          [at |-> "live", row |-> [by |-> a.by, parent |-> a.item]]]
  BY DEF CommitComment
<1> HIDE DEF a
<1>3. /\ a.column = <<"comment", 0>> /\ a.column \in Columns /\ a.new = a.seen + 1
      /\ a.by \in Fans /\ a.item \in CommentIds \cup {0} /\ a.item \in Items
      /\ a.item \in Live => comments[a.item].row.parent = 0
  BY <1>1, ColumnsAre DEF ActFits, Act, KeysHold
<1>4. /\ comments'[c].at = "live" /\ comments'[c].row \in Comment /\ comments'[c].row.parent = a.item
      /\ DOMAIN comments' = CommentIds
      /\ \A d \in CommentIds : d # c => comments'[d] = comments[d]
  BY <1>2, <1>3 DEF Comment, PostsInv, PostTables
<1>5. /\ Live' = Live \cup {c} /\ c \notin Live /\ Items' = Items \cup {c}
      /\ \A i : LikesOf(i)' = LikesOf(i)
  BY <1>1, <1>2, <1>4 DEF Live, Items, LikesOf
<1>6. \A v \in Tabs : act'[v] # NoAct => ActFits(act[v])'
  <2>1. \A d \in CommentIds : comments[d].at # "new" =>
           comments'[d].at # "new" /\ (comments'[d].at = "live" => comments'[d] = comments[d])
    BY <1>2, <1>4
  <2>2. act[t].column = <<"comment", 0>> /\ likes' = likes
    BY <1>1, <1>3 DEF a
  <2> QED
    BY <1>1, <2>1, <2>2, OthersStill DEF a
<1>7. /\ counts' \in [Columns -> Nat] /\ clashed' \subseteq Columns
      /\ act' \in [Tabs -> {NoAct} \cup Act] /\ UNCHANGED <<published, reports>>
      /\ a.stale => a.column \in clashed'
      /\ ~a.stale => counts'[a.column] = a.new
      /\ \A k \in Columns : k # a.column => counts'[k] = counts[k]
      /\ clashed \subseteq clashed'
  BY <1>1, <1>3, CounterWritten DEF PostsInv, PostTables, a
<1>8. IsFiniteSet(Live) /\ IsFiniteSet(Live') /\ Cardinality(Live') = Cardinality(Live) + 1
  BY <1>5, FS_AddElement DEF PostsInv, PostTables
<1>9. PostTables'
  BY <1>1, <1>4, <1>7, <1>8 DEF PostsInv, PostTables
<1>10. RepliesAnswerComments'
  <2> SUFFICES ASSUME NEW d \in Live', comments'[d].row.parent # 0
               PROVE  /\ comments'[d].row.parent \in Live'
                      /\ comments'[comments'[d].row.parent].row.parent = 0
    BY DEF RepliesAnswerComments
  <2>1. CASE d = c
    <3>1. a.item \in Live
      BY <1>3, <1>4, <2>1 DEF Items
    <3> QED
      BY <1>3, <1>4, <1>5, <2>1, <3>1 DEF Live
  <2>2. CASE d # c
    <3>1. d \in Live /\ comments'[d] = comments[d]
      BY <1>4, <1>5, <2>2 DEF Live
    <3> QED
      BY <1>4, <1>5, <3>1 DEF PostsInv, RepliesAnswerComments, Live
  <2> QED
    BY <2>1, <2>2
<1>11. LikesCounted' /\ NewUntouched' /\ SharesCounted'
  <2>1. \A i : <<"like", i>> # a.column
    BY <1>3
  <2>2. <<"share", 0>> # a.column
    BY <1>3
  <2>3. SharesCounted'
    BY <1>1, <1>7, <2>2, ColumnsAre DEF PostsInv, SharesCounted
  <2>4. NewUntouched'
    BY <1>1, <1>4, <1>5, <1>7, <2>1, ColumnsAre DEF PostsInv, NewUntouched
  <2>5. ASSUME NEW i \in Items', <<"like", i>> \notin clashed'
        PROVE  counts'[<<"like", i>>] = Cardinality(LikesOf(i)')
    <3>1. <<"like", i>> \in Columns /\ counts'[<<"like", i>>] = counts[<<"like", i>>]
      BY <1>5, <1>7, <2>1, ColumnsAre DEF Items, Live
    <3>2. CASE i \in Items
      <4>1. counts[<<"like", i>>] = Cardinality(LikesOf(i))
        BY <1>1, <1>7, <2>5, <3>2 DEF PostsInv, LikesCounted
      <4> QED
        BY <1>5, <3>1, <4>1
    <3>3. CASE i = c
      <4>1. counts[<<"like", i>>] = 0 /\ LikesOf(i) = {}
        BY <1>1, <1>2, <3>3 DEF PostsInv, NewUntouched
      <4>2. Cardinality(LikesOf(i)') = 0
        BY <1>5, <4>1, FS_EmptySet
      <4> QED
        BY <3>1, <4>1, <4>2
    <3> QED
      BY <1>5, <3>2, <3>3
  <2> QED
    BY <2>3, <2>4, <2>5 DEF LikesCounted
<1>12. CommentsCounted'
  <2> SUFFICES ASSUME <<"comment", 0>> \notin clashed'
               PROVE  counts'[<<"comment", 0>>] = Cardinality(Live')
    BY DEF CommentsCounted
  <2>1. ~a.stale /\ counts'[a.column] = a.new /\ a.seen = counts[a.column]
    BY <1>1, <1>3, <1>7 DEF ActFits
  <2>2. counts[<<"comment", 0>>] = Cardinality(Live)
    BY <1>1, <1>7 DEF PostsInv, CommentsCounted
  <2> QED
    BY <1>3, <1>8, <2>1, <2>2
<1> QED
  BY <1>6, <1>7, <1>9, <1>10, <1>11, <1>12 DEF PostsInv

\* The loaded replies go with their comment; one that came since keeps both.
LEMMA CommitDeleteCommentKeeps ==
  ASSUME PostsInv, NEW t \in Tabs, CommitDeleteComment(t)
  PROVE  PostsInv'
<1> DEFINE a == act[t]
<1>1. /\ published /\ a # NoAct /\ a \in Act /\ ActFits(a) /\ a.kind = "uncomment" /\ KeysHold(a)
      /\ WriteCounter(t) /\ shares' = shares
      /\ comments' = [c \in CommentIds |-> IF c \in a.rows THEN [at |-> "gone"] ELSE comments[c]]
      /\ likes' = {p \in likes : p[1] \notin a.rows}
  BY Committing DEF CommitDeleteComment
<1> HIDE DEF a
<1>2. /\ a.column = <<"comment", 0>> /\ a.column \in Columns /\ a.rows \subseteq CommentIds
      /\ IsFiniteSet(a.rows) /\ a.new = Less(a.seen, Cardinality(a.rows)) /\ 0 \notin a.rows
      /\ \A c \in a.rows \cap Live, r \in Live : r \in Replies(c) => r \in a.rows
  BY <1>1, ColumnsAre, PostsAssumption DEF ActFits, Act, KeysHold
<1>3. /\ DOMAIN comments' = CommentIds /\ \A c \in CommentIds \ a.rows : comments'[c] = comments[c]
      /\ \A c \in a.rows : comments'[c].at = "gone"
  BY <1>1, <1>2
<1>4. /\ Live' = Live \ a.rows /\ Items' = Items \ a.rows
      /\ \A i : i \notin a.rows => LikesOf(i)' = LikesOf(i)
      /\ \A i : LikesOf(i)' \subseteq LikesOf(i)
  BY <1>1, <1>2, <1>3 DEF Live, Items, LikesOf
<1>5. \A v \in Tabs : act'[v] # NoAct => ActFits(act[v])'
  <2>1. \A d \in CommentIds : comments[d].at # "new" =>
           comments'[d].at # "new" /\ (comments'[d].at = "live" => comments'[d] = comments[d])
    BY <1>3
  <2>2. act[t].column = <<"comment", 0>> /\ \A p \in likes : p[1] \in Items' => p \in likes'
    BY <1>1, <1>2, <1>4 DEF a
  <2> QED
    BY <1>1, <2>1, <2>2, OthersStill DEF a
<1>6. /\ counts' \in [Columns -> Nat] /\ clashed' \subseteq Columns
      /\ act' \in [Tabs -> {NoAct} \cup Act] /\ UNCHANGED <<published, reports>>
      /\ a.stale => a.column \in clashed'
      /\ ~a.stale => counts'[a.column] = a.new
      /\ \A k \in Columns : k # a.column => counts'[k] = counts[k]
      /\ clashed \subseteq clashed'
  BY <1>1, <1>2, CounterWritten DEF PostsInv, PostTables, a
<1>7. IsFiniteSet(Live) /\ IsFiniteSet(Live') /\ IsFiniteSet(likes')
  BY <1>1, <1>4, FS_Subset DEF PostsInv, PostTables
<1>8. PostTables'
  <2>1. likes' \subseteq (CommentIds \cup {0}) \X Fans
    BY <1>1 DEF PostsInv, PostTables
  <2>2. \A c \in CommentIds : \/ comments'[c].at \in {"new", "gone"}
                              \/ comments'[c].at = "live" /\ comments'[c].row \in Comment
    BY <1>3 DEF PostsInv, PostTables
  <2> QED
    BY <1>1, <1>3, <1>6, <1>7, <2>1, <2>2 DEF PostsInv, PostTables
<1>9. RepliesAnswerComments'
  <2> SUFFICES ASSUME NEW d \in Live', comments'[d].row.parent # 0
               PROVE  /\ comments'[d].row.parent \in Live'
                      /\ comments'[comments'[d].row.parent].row.parent = 0
    BY DEF RepliesAnswerComments
  <2>1. d \in Live /\ d \notin a.rows /\ comments'[d] = comments[d]
    BY <1>3, <1>4 DEF Live
  <2> DEFINE p == comments[d].row.parent
  <2>2. p \in Live /\ comments[p].row.parent = 0
    BY <2>1 DEF PostsInv, RepliesAnswerComments
  <2>3. p \notin a.rows
    BY <1>2, <2>1, <2>2 DEF Replies
  <2> QED
    BY <1>3, <1>4, <2>1, <2>2, <2>3 DEF Live
<1>10. LikesCounted' /\ NewUntouched' /\ SharesCounted'
  <2>1. \A i : <<"like", i>> # a.column
    BY <1>2
  <2>2. <<"share", 0>> # a.column
    BY <1>2
  <2>3. SharesCounted'
    BY <1>1, <1>6, <2>2, ColumnsAre DEF PostsInv, SharesCounted
  <2>4. NewUntouched'
    <3> SUFFICES ASSUME NEW c \in CommentIds, comments'[c].at = "new"
                 PROVE  counts'[<<"like", c>>] = 0 /\ LikesOf(c)' = {}
      BY DEF NewUntouched
    <3>1. comments[c].at = "new"
      BY <1>3
    <3>2. counts[<<"like", c>>] = 0 /\ LikesOf(c) = {}
      BY <1>1, <3>1 DEF PostsInv, NewUntouched
    <3> QED
      BY <1>4, <1>6, <2>1, <3>2, ColumnsAre
  <2>5. ASSUME NEW i \in Items', <<"like", i>> \notin clashed'
        PROVE  counts'[<<"like", i>>] = Cardinality(LikesOf(i)')
    <3>1. i \in Items /\ i \notin a.rows /\ <<"like", i>> \in Columns
      BY <1>4, ColumnsAre DEF Items, Live
    <3>2. counts[<<"like", i>>] = Cardinality(LikesOf(i))
      BY <1>1, <1>6, <2>5, <3>1 DEF PostsInv, LikesCounted
    <3> QED
      BY <1>4, <1>6, <2>1, <3>1, <3>2
  <2> QED
    BY <2>3, <2>4, <2>5 DEF LikesCounted
<1>11. CommentsCounted'
  <2> SUFFICES ASSUME <<"comment", 0>> \notin clashed'
               PROVE  counts'[<<"comment", 0>>] = Cardinality(Live')
    BY DEF CommentsCounted
  <2>1. ~a.stale /\ counts'[a.column] = a.new /\ a.seen = counts[a.column] /\ a.rows \subseteq Live
    BY <1>1, <1>2, <1>6 DEF ActFits
  <2>2. counts[<<"comment", 0>>] = Cardinality(Live)
    BY <1>1, <1>6 DEF PostsInv, CommentsCounted
  <2>3. Cardinality(a.rows) <= Cardinality(Live) /\ Cardinality(Live) \in Nat /\ Cardinality(a.rows) \in Nat
    BY <1>2, <1>7, <2>1, FS_Subset, FS_CardinalityType
  <2>4. Cardinality(Live \ a.rows) = Cardinality(Live) - Cardinality(a.rows)
    <3>1. Live \cap a.rows = a.rows
      BY <2>1
    <3>2. Cardinality(Live \ a.rows) = Cardinality(Live) - Cardinality(Live \cap a.rows)
      BY <1>7, FS_Difference
    <3> QED
      BY <3>1, <3>2
  <2>5. a.new = Cardinality(Live) - Cardinality(a.rows)
    BY <1>2, <2>1, <2>2, <2>3 DEF Less
  <2> QED
    BY <1>2, <1>4, <2>1, <2>4, <2>5
<1> QED
  BY <1>5, <1>6, <1>8, <1>9, <1>10, <1>11 DEF PostsInv

\* Everything goes with the post.
LEMMA CommitDeletePostKeeps ==
  ASSUME PostsInv, NEW t \in Tabs, CommitDeletePost(t)
  PROVE  PostsInv'
<1>1. /\ published' = FALSE /\ likes' = {} /\ reports' = {}
      /\ comments' = [c \in CommentIds |-> [at |-> "gone"]]
      /\ act' = [act EXCEPT ![t] = NoAct] /\ UNCHANGED <<counts, shares, clashed>>
  BY DEF CommitDeletePost, Closed
<1>2. Live' = {}
  BY <1>1 DEF Live
<1>3. act' \in [Tabs -> {NoAct} \cup Act]
  BY <1>1 DEF PostsInv, PostTables
<1>4. published' \in BOOLEAN
  BY <1>1
<1>5. PostTables'
  BY <1>1, <1>2, <1>3, <1>4, FS_EmptySet DEF PostsInv, PostTables
<1>6. RepliesAnswerComments'
  BY <1>2 DEF RepliesAnswerComments
<1> QED
  BY <1>1, <1>5, <1>6 DEF PostsInv

\* Every step of every request keeps the invariant.
LEMMA PostsSteps == PostsInv /\ [PostsNext]_postsVars => PostsInv'
<1> SUFFICES ASSUME PostsInv, [PostsNext]_postsVars PROVE PostsInv'
  OBVIOUS
<1>1. act \in [Tabs -> {NoAct} \cup Act] /\ reports \subseteq Fans \ {Author}
  BY DEF PostsInv, PostTables
<1>2. CASE UNCHANGED postsVars
  BY <1>1, <1>2, PostSame DEF postsVars
<1>3. ASSUME NEW u \in Fans, ReportPost(u) PROVE PostsInv'
  BY <1>1, <1>3, PostSame DEF ReportPost
<1>4. ASSUME NEW t \in Tabs, RollbackAct(t) PROVE PostsInv'
  BY <1>1, <1>4, PostSame DEF RollbackAct, Closed
<1>5. ASSUME NEW t \in Tabs, NEW u \in Fans,
         \/ LikePost(t, u) \/ UnlikePost(t, u) \/ RecordShare(t, u) \/ DeletePost(t, u)
         \/ \E c \in CommentIds : LikeComment(t, u, c) \/ UnlikeComment(t, u, c) \/ DeleteComment(t, u, c)
         \/ \E parent \in CommentIds \cup {0} : AddComment(t, u, parent)
      PROVE  PostsInv'
  BY <1>5, RequestsOpen
<1>6. ASSUME NEW t \in Tabs, \/ CommitLike(t) \/ CommitShare(t) \/ CommitComment(t)
                             \/ CommitDeleteComment(t) \/ CommitDeletePost(t)
      PROVE  PostsInv'
  BY <1>6, CommitLikeKeeps, CommitShareKeeps, CommitCommentKeeps, CommitDeleteCommentKeeps,
     CommitDeletePostKeeps
<1> QED
  BY <1>2, <1>3, <1>4, <1>5, <1>6 DEF PostsNext

\* The invariant holds of every reachable state.
LEMMA PostsInvariant == PostsSpec => []PostsInv
  BY PostsStart, PostsSteps, PTL DEF PostsSpec

\* Every counter that no two requests raced on is the number of its rows, and
\* no reply outlives its comment (like_post, add_comment, delete_comment,
\* record_share), for any users, comments and requests.
THEOREM PostsAddUp == PostsSpec => []PostHolds
<1>1. PostsInv => PostHolds
  BY CountsAreRows DEF PostHolds, PostsInv
<1> QED
  BY <1>1, PostsInvariant, PTL

\* Every table of the post holds values of its columns.
LEMMA PostsTyped == PostsInv => PostsTypeOK
  BY DEF PostsInv, PostTables, PostsTypeOK

-----------------------------------------------------------------------------
(* The community run's types. *)

CommunityInv == SocialTypes /\ AgenciesInv /\ ChatInv /\ PostsInv

\* What the invariants say of the types.
LEMMA CommunityTypes == CommunityInv => CommunityTypeOK
  BY AgenciesTyped, ChatTyped, PostsTyped DEF CommunityInv, SocialTypes, CommunityTypeOK

\* In the run that steps in one component at a time every state is well typed,
\* for any users, agencies, rows and requests.
THEOREM CommunityTypesHold == CommunitySpec => []CommunityTypeOK
<1>1. CommunityInit => CommunityInv
  <2>1. SocialInit => SocialTypes
    BY FeedStarts DEF SocialInit, SocialTypes, SocialTypeOK, RowIds, NoLink
  <2> QED
    BY <2>1, AgenciesStart, ChatStart, PostsStart DEF CommunityInit, CommunityInv
<1>2. CommunityInv /\ [CommunityNext]_communityVars => CommunityInv'
  <2> SUFFICES ASSUME CommunityInv, [CommunityNext]_communityVars PROVE CommunityInv'
    OBVIOUS
  <2>1. /\ AgenciesNext \/ UNCHANGED agenciesVars
        /\ ChatNext \/ UNCHANGED chatVars
        /\ PostsNext \/ UNCHANGED postsVars
        /\ SocialNext \/ UNCHANGED socialVars
    BY DEF CommunityNext, communityVars
  <2> QED
    BY <2>1, AgenciesKeep, ChatSteps, PostsSteps, SocialTypesStep DEF CommunityInv
<1> QED
  BY <1>1, <1>2, CommunityTypes, PTL DEF CommunitySpec
=============================================================================
