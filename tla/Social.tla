-------------------------------- MODULE Social --------------------------------
(***************************************************************************)
(* Follows, blocks, saved posts and the feeds that read them               *)
(* (services/social.py, services/posts.py, models/social.py).              *)
(*                                                                         *)
(* A follow is checked, then inserted, and no key keeps it single; a feed  *)
(* is read page by page from a cursor while posts, follows and saves go on. *)
(***************************************************************************)
EXTENDS Integers, FiniteSets

CONSTANTS Travelers,   \* the users
          Reader,      \* the user whose feed is paged
          Shop,        \* an agency; followed like a user
          Keeper,      \* its owner
          Links,       \* the requests that overlap
          PageLimit,   \* posts per page
          MaxMoves     \* bound: requests

ASSUME SocialAssumption ==
  /\ {Reader, Keeper} \subseteq Travelers /\ Shop \notin Travelers
  /\ PageLimit \in Nat \ {0} /\ MaxMoves \in Nat

VARIABLES follows, \* rows [id, by, whom]
          blocks,  \* pairs <<who blocks, whom>>
          posts,   \* rows [n, by]: n is when it was created
          saves,   \* the reader's saves, [n, at]
          link,    \* the follow and block requests in flight
          feed,    \* the reader's paging: the posts shown, the cursor, and what was due
          moves,   \* requests so far: a clock
          doubled, \* history: rows inserted beside one committed since the request read
          over     \* history: rows inserted over a block between the two

socialVars == <<follows, blocks, posts, saves, link, feed, moves, doubled, over>>

NoLink == [kind |-> "none"]
Targets == Travelers \cup {Shop}
NoFeed == [kind |-> "none"]

SocialTypeOK ==
  /\ follows \subseteq [id : 1..MaxMoves, by : Travelers, whom : Targets]
  /\ blocks \subseteq Travelers \X Travelers
  /\ posts \subseteq [n : 1..MaxMoves, by : Travelers]
  /\ saves \subseteq [n : 1..MaxMoves, at : 1..MaxMoves]
  /\ doubled \subseteq 1..MaxMoves /\ over \subseteq 1..MaxMoves

Tick == moves < MaxMoves /\ moves' = moves + 1

Request(l, j) == link[l] = NoLink /\ Tick /\ link' = [link EXCEPT ![l] = j]
Answered(l) == link' = [link EXCEPT ![l] = NoLink]
histories == <<doubled, over>>

Between(u, v) == {f \in follows : f.by = u /\ f.whom = v}
Follows(u, v) == Between(u, v) # {}

(***************************************************************************)
(* Follows and blocks: the rows are read, then written at the commit.      *)
(***************************************************************************)
Following(l, u, v) ==
  /\ u # v /\ ~(v = Shop /\ u = Keeper)
  /\ Request(l, [kind |-> "follow", by |-> u, whom |-> v, rows |-> Between(u, v), id |-> moves + 1])
  /\ UNCHANGED <<follows, blocks, posts, saves, feed, histories>>

\* Mutant: it does not look for a row of the two.
FollowAgain(l, u, v) == Following(l, u, v)

FollowUser(l, u, v) == ~Follows(u, v) /\ Following(l, u, v)

\* Every row between the two that it reads.
UnfollowUser(l, u, v) ==
  /\ Follows(u, v)
  /\ Request(l, [kind |-> "unfollow", by |-> u, whom |-> v, rows |-> Between(u, v)])
  /\ UNCHANGED <<follows, blocks, posts, saves, feed, histories>>

\* Mutant: a block cuts only the follow of who blocks.
BlockOneWay(l, u, v) ==
  /\ u # v
  /\ Request(l, [kind |-> "block", by |-> u, whom |-> v, rows |-> Between(u, v),
                 known |-> <<u, v>> \in blocks])
  /\ UNCHANGED <<follows, blocks, posts, saves, feed, histories>>

BlockUser(l, u, v) ==
  /\ u # v
  /\ Request(l, [kind |-> "block", by |-> u, whom |-> v, rows |-> Between(u, v) \cup Between(v, u),
                 known |-> <<u, v>> \in blocks])
  /\ UNCHANGED <<follows, blocks, posts, saves, feed, histories>>

UnblockUser(u, v) ==
  /\ <<u, v>> \in blocks /\ Tick /\ blocks' = blocks \ {<<u, v>>}
  /\ UNCHANGED <<follows, posts, saves, link, feed, histories>>

\* A change of whom the reader follows or blocks changes the order of the feed.
Moved(u) == feed' = IF u = Reader /\ feed # NoFeed THEN [feed EXCEPT !.moved = TRUE] ELSE feed

Blocked(u, v) == {<<u, v>>, <<v, u>>} \cap blocks # {}
BlockComing(u, v) == \E k \in Links : link[k].kind = "block" /\ {link[k].by, link[k].whom} = {u, v}

CommitFollow(l) ==
  LET j == link[l] IN
  /\ j.kind = "follow" /\ Answered(l)
  /\ follows' = follows \cup {[id |-> j.id, by |-> j.by, whom |-> j.whom]}
  /\ doubled' = IF Between(j.by, j.whom) \subseteq j.rows THEN doubled ELSE doubled \cup {j.id}
  /\ over' = IF Blocked(j.by, j.whom) \/ BlockComing(j.by, j.whom) THEN over \cup {j.id} ELSE over
  /\ Moved(j.by)
  /\ UNCHANGED <<blocks, posts, saves, moves>>

CommitUnfollow(l) ==
  /\ link[l].kind = "unfollow" /\ Answered(l)
  /\ follows' = follows \ link[l].rows /\ Moved(link[l].by)
  /\ UNCHANGED <<blocks, posts, saves, moves, histories>>

\* The pair is unique: a second insert fails, and its deletes with it.
CommitBlock(l) ==
  LET j == link[l] IN
  /\ j.kind = "block" /\ Answered(l)
  /\ IF ~j.known /\ <<j.by, j.whom>> \in blocks
     THEN UNCHANGED <<follows, blocks, feed>>
     ELSE /\ follows' = follows \ j.rows
          /\ blocks' = IF j.known THEN blocks ELSE blocks \cup {<<j.by, j.whom>>}
          /\ IF Reader \in {j.by, j.whom} THEN Moved(Reader) ELSE UNCHANGED feed
  /\ UNCHANGED <<posts, saves, moves, histories>>

(***************************************************************************)
(* Posts, saves and the cursor feeds.                                      *)
(***************************************************************************)
CreatePost(u) ==
  /\ Tick /\ posts' = posts \cup {[n |-> moves + 1, by |-> u]}
  /\ UNCHANGED <<follows, blocks, saves, link, feed, histories>>

Undue(n) == IF feed = NoFeed THEN feed ELSE [feed EXCEPT !.due = @ \ {n}]

\* Saves go with their post.
PostDeleted(p) ==
  /\ Tick /\ posts' = posts \ {p} /\ saves' = {s \in saves : s.n # p.n} /\ feed' = Undue(p.n)
  /\ UNCHANGED <<follows, blocks, link, histories>>

Visible == {p \in posts : <<Reader, p.by>> \notin blocks}
SavesOf(n) == {s \in saves : s.n = n}

SavePost(p) ==
  /\ p \in Visible /\ SavesOf(p.n) = {} /\ Tick
  /\ saves' = saves \cup {[n |-> p.n, at |-> moves + 1]}
  /\ UNCHANGED <<follows, blocks, posts, link, feed, histories>>
UnsavePost(p) ==
  /\ SavesOf(p.n) # {} /\ Tick /\ saves' = saves \ SavesOf(p.n)
  /\ feed' = IF feed.kind = "saved" THEN Undue(p.n) ELSE feed
  /\ UNCHANGED <<follows, blocks, posts, link, histories>>

\* What each feed lists: everybody's posts, the followed authors', or the saved.
ListOf(kind) ==
  CASE kind = "all" -> Visible
    [] kind = "following" -> {p \in Visible : Follows(Reader, p.by)}
    [] kind = "saved" -> {p \in Visible : SavesOf(p.n) # {}}

\* Everybody's posts come with the followed authors' first.
Priority(kind, p) == IF kind = "all" /\ ~Follows(Reader, p.by) THEN 1 ELSE 0
Time(kind, p) == IF kind = "saved" THEN (CHOOSE s \in SavesOf(p.n) : TRUE).at ELSE p.n
Cursor(kind, p) == [priority |-> Priority(kind, p), time |-> Time(kind, p)]
\* Mutant: a page starts with the row at the cursor.
PrecedesOrTies(c, d) == c.priority < d.priority \/ (c.priority = d.priority /\ c.time >= d.time)

Precedes(c, d) == c.priority < d.priority \/ (c.priority = d.priority /\ c.time > d.time)

OpenFeed(kind) ==
  /\ feed = NoFeed
  /\ feed' = [kind |-> kind, cursor |-> [priority |-> 0, time |-> MaxMoves + 1], shown |-> {}, again |-> {},
              due |-> {p.n : p \in ListOf(kind)}, moved |-> FALSE, done |-> FALSE]
  /\ UNCHANGED <<follows, blocks, posts, saves, link, moves, histories>>

\* One more row than the page says whether there is a next one.
CursorPage ==
  LET kind == feed.kind
      rest == {p \in ListOf(kind) : Precedes(feed.cursor, Cursor(kind, p))}
      ahead(p) == {q \in rest : Precedes(Cursor(kind, q), Cursor(kind, p))}
      page == {p \in rest : Cardinality(ahead(p)) < PageLimit}
      items == {p.n : p \in page}
      more == Cardinality(rest) > PageLimit
  IN /\ feed # NoFeed /\ ~feed.done
     /\ feed' = [feed EXCEPT !.shown = @ \cup items, !.again = @ \cup (feed.shown \cap items),
                  !.done = ~more,
                  !.cursor = IF more THEN Cursor(kind, CHOOSE p \in page : ahead(p) = page \ {p}) ELSE @]
     /\ UNCHANGED <<follows, blocks, posts, saves, link, moves, histories>>

CloseFeed ==
  /\ feed # NoFeed /\ feed' = NoFeed
  /\ UNCHANGED <<follows, blocks, posts, saves, link, moves, histories>>

SocialInit ==
  /\ follows = {} /\ blocks = {} /\ posts = {} /\ saves = {} /\ feed = NoFeed /\ moves = 0
  /\ link = [l \in Links |-> NoLink] /\ doubled = {} /\ over = {}

SocialNext ==
  \/ \E l \in Links :
       \/ \E u \in Travelers, v \in Targets : FollowUser(l, u, v) \/ UnfollowUser(l, u, v)
       \/ \E u, v \in Travelers : BlockUser(l, u, v)
       \/ CommitFollow(l) \/ CommitUnfollow(l) \/ CommitBlock(l)
  \/ \E u, v \in Travelers : UnblockUser(u, v)
  \/ \E u \in Travelers : CreatePost(u)
  \/ \E p \in posts : PostDeleted(p) \/ SavePost(p) \/ UnsavePost(p)
  \/ \E kind \in {"all", "following", "saved"} : OpenFeed(kind)
  \/ CursorPage
  \/ CloseFeed

SocialSpec == SocialInit /\ [][SocialNext]_socialVars

-----------------------------------------------------------------------------
(***************************************************************************)
(* Properties.                                                             *)
(***************************************************************************)
FollowerCount(v) == Cardinality({f \in follows : f.whom = v})

\* The follower count is the number of people who follow, unless a row is left
\* of a request that read the pair before another one wrote it
\* (follow_user, get_follow_state).
FollowersCounted ==
  \A v \in Targets :
    (\A f \in follows : f.whom = v => f.id \notin doubled)
      => FollowerCount(v) = Cardinality({f.by : f \in {g \in follows : g.whom = v}})

\* Under a block the only follows between the two are those inserted over it,
\* while it was being made or after it, which nothing refuses; the next block
\* cuts them too (block_user, follow_user).
BlocksCutFollows ==
  \A b \in blocks : \A f \in Between(b[1], b[2]) \cup Between(b[2], b[1]) : f.id \in over

\* Paging a feed from its first page to its last shows every post that was
\* there throughout, and none twice, whatever is posted, deleted or saved
\* meanwhile; a change of the reader's follows and blocks reorders it
\* (_cursor_page, list_saved_posts).
FeedShowsOnce ==
  feed # NoFeed => (~feed.moved => feed.again = {} /\ (feed.done => feed.due \subseteq feed.shown))
=============================================================================
