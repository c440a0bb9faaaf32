-------------------------------- MODULE Posts --------------------------------
(***************************************************************************)
(* A post with its likes, comments, replies, comment likes and shares      *)
(* (services/posts.py, models/social.py, migrations 20260801_01,           *)
(* 20260903_01).                                                           *)
(*                                                                         *)
(* A counter is a column a request loads, changes and writes back as an    *)
(* absolute value, beside the row it inserts or deletes.  The rows' unique *)
(* and foreign keys decide which of two overlapping requests fails.        *)
(***************************************************************************)
EXTENDS Integers, FiniteSets

CONSTANTS Fans,        \* the users
          Author,      \* the post's author
          CommentIds,  \* comment ids, in the order of their primary keys
          Tabs,        \* the requests that overlap
          MaxActs      \* bound: requests

ASSUME PostsAssumption == Author \in Fans /\ CommentIds \subseteq Nat \ {0} /\ MaxActs \in Nat

VARIABLES published, \* the post is there
          comments,  \* the post's comments by id: "new" ids are unused, "gone" ones deleted
          likes,     \* <<0, user>> likes the post, <<c, user>> the comment c
          counts,    \* like_count, comment_count and share_count
          reports,   \* who reported the post
          act,       \* the requests in flight
          acts,      \* requests so far
          shares,    \* history: shares committed
          clashed    \* history: counters written by a request under which they had been

postsVars == <<published, comments, likes, counts, reports, act, acts, shares, clashed>>

NoAct == [kind |-> "none"]

\* The counters: of the post (item 0) and of each comment.
Columns == ({"like", "comment", "share"} \X {0}) \cup ({"like"} \X CommentIds)
Comment == [by : Fans, parent : CommentIds \cup {0}]
Live == {c \in CommentIds : comments[c].at = "live"}
Items == {0} \cup Live
Replies(c) == {r \in Live : comments[r].row.parent = c}

PostsTypeOK ==
  /\ published \in BOOLEAN /\ counts \in [Columns -> Nat]
  /\ likes \subseteq (CommentIds \cup {0}) \X Fans
  /\ \A c \in CommentIds : comments[c].at \in {"new", "gone"} \/ comments[c].row \in Comment
  /\ reports \subseteq Fans \ {Author} /\ shares \in Nat /\ clashed \subseteq Columns

\* A request loads the counter it will write.
Open(t, kind, u, item, column, new, rows) ==
  /\ published /\ act[t] = NoAct /\ acts < MaxActs /\ acts' = acts + 1
  /\ act' = [act EXCEPT ![t] =
       [kind |-> kind, by |-> u, item |-> item, column |-> column, seen |-> counts[column],
        new |-> new, rows |-> rows, stale |-> FALSE]]
  /\ UNCHANGED <<published, comments, likes, counts, reports, shares, clashed>>

\* Mutant: a counter without its floor at zero.
Subtract(n, k) == n - k

Less(n, k) == IF n > k THEN n - k ELSE 0

LikePost(t, u) ==
  /\ <<0, u>> \notin likes
  /\ Open(t, "like", u, 0, <<"like", 0>>, counts[<<"like", 0>>] + 1, {})
UnlikePost(t, u) ==
  /\ <<0, u>> \in likes
  /\ Open(t, "unlike", u, 0, <<"like", 0>>, Less(counts[<<"like", 0>>], 1), {})
LikeComment(t, u, c) ==
  /\ c \in Live /\ <<c, u>> \notin likes
  /\ Open(t, "like", u, c, <<"like", c>>, counts[<<"like", c>>] + 1, {})
UnlikeComment(t, u, c) ==
  /\ c \in Live /\ <<c, u>> \in likes
  /\ Open(t, "unlike", u, c, <<"like", c>>, Less(counts[<<"like", c>>], 1), {})

RecordShare(t, u) ==
  Open(t, "share", u, 0, <<"share", 0>>, counts[<<"share", 0>>] + 1, {})

\* parent 0: a comment of the post itself.  Replies are one level deep.
AddComment(t, u, parent) ==
  /\ parent # 0 => parent \in Live /\ comments[parent].row.parent = 0
  /\ Open(t, "comment", u, parent, <<"comment", 0>>, counts[<<"comment", 0>>] + 1, {})

\* Mutant: the replies deleted are not counted.
DeleteCommentOnly(t, u, c) ==
  /\ c \in Live /\ u \in {comments[c].row.by, Author}
  /\ Open(t, "uncomment", u, c, <<"comment", 0>>,
          Less(counts[<<"comment", 0>>], 1), Replies(c) \cup {c})

\* The rows deleted are those loaded: a comment's replies and itself.
DeleteComment(t, u, c) ==
  /\ c \in Live /\ u \in {comments[c].row.by, Author}
  /\ Open(t, "uncomment", u, c, <<"comment", 0>>,
          Less(counts[<<"comment", 0>>], 1 + Cardinality(Replies(c))), Replies(c) \cup {c})

DeletePost(t, u) == u = Author /\ Open(t, "unpost", u, 0, <<"share", 0>>, counts[<<"share", 0>>], {})

ReportPost(u) ==
  /\ published /\ u # Author /\ u \notin reports /\ acts < MaxActs /\ acts' = acts + 1
  /\ reports' = reports \cup {u}
  /\ UNCHANGED <<published, comments, likes, counts, act, shares, clashed>>

\* What the keys ask of a commit.  A comment's replies refer to it with no
\* cascade, and the rows are deleted one by one in key order.
KeysHold(a) ==
  /\ published
  /\ a.kind \in {"like", "unlike", "comment"} => a.item \in Items
  /\ a.kind = "like" => <<a.item, a.by>> \notin likes
  /\ a.kind = "uncomment" => \A c \in a.rows \cap Live, r \in Live :
                               r \in Replies(c) => r \in a.rows /\ r < c

Closed(t) == [act EXCEPT ![t] = NoAct]

\* IntegrityError or StaleDataError: nothing is left of the request.
RollbackAct(t) ==
  /\ act[t] # NoAct /\ ~KeysHold(act[t]) /\ act' = Closed(t)
  /\ UNCHANGED <<published, comments, likes, counts, reports, acts, shares, clashed>>

\* The counter is written when the request changed it; the others that loaded
\* it are stale from here on.
WriteCounter(t) ==
  LET a == act[t] IN
  /\ counts' = IF a.new = a.seen THEN counts ELSE [counts EXCEPT ![a.column] = a.new]
  /\ clashed' = IF a.stale THEN clashed \cup {a.column} ELSE clashed
  /\ act' = [v \in Tabs |-> IF v # t /\ act[v] # NoAct /\ act[v].column = a.column
                            THEN [act[v] EXCEPT !.stale = TRUE] ELSE Closed(t)[v]]
  /\ UNCHANGED <<published, reports, acts>>

Ready(t, kinds) == act[t].kind \in kinds /\ KeysHold(act[t])

CommitLike(t) ==
  LET pair == {<<act[t].item, act[t].by>>} IN
  /\ Ready(t, {"like", "unlike"}) /\ WriteCounter(t)
  /\ likes' = IF act[t].kind = "like" THEN likes \cup pair ELSE likes \ pair
  /\ UNCHANGED <<comments, shares>>

CommitShare(t) ==
  /\ Ready(t, {"share"}) /\ WriteCounter(t) /\ shares' = shares + 1
  /\ UNCHANGED <<comments, likes>>

CommitComment(t) ==
  /\ Ready(t, {"comment"}) /\ WriteCounter(t)
  /\ \E c \in {n \in CommentIds : comments[n].at = "new"} :
       comments' = [comments EXCEPT ![c] =
                      [at |-> "live", row |-> [by |-> act[t].by, parent |-> act[t].item]]]
  /\ UNCHANGED <<likes, shares>>

CommitDeleteComment(t) ==
  LET gone == act[t].rows IN
  /\ Ready(t, {"uncomment"}) /\ WriteCounter(t)
  /\ comments' = [c \in CommentIds |-> IF c \in gone THEN [at |-> "gone"] ELSE comments[c]]
  /\ likes' = {p \in likes : p[1] \notin gone}
  /\ UNCHANGED shares

\* Likes, comments, saves and reports go with the post (ON DELETE CASCADE).
CommitDeletePost(t) ==
  /\ Ready(t, {"unpost"}) /\ act' = Closed(t)
  /\ published' = FALSE /\ likes' = {} /\ reports' = {}
  /\ comments' = [c \in CommentIds |-> [at |-> "gone"]]
  /\ UNCHANGED <<counts, acts, shares, clashed>>

PostsInit ==
  /\ published = TRUE /\ comments = [c \in CommentIds |-> [at |-> "new"]] /\ likes = {}
  /\ counts = [k \in Columns |-> 0] /\ reports = {} /\ act = [t \in Tabs |-> NoAct]
  /\ acts = 0 /\ shares = 0 /\ clashed = {}

PostsNext ==
  \/ \E u \in Fans : ReportPost(u)
  \/ \E t \in Tabs :
       \/ \E u \in Fans :
            \/ LikePost(t, u) \/ UnlikePost(t, u) \/ RecordShare(t, u) \/ DeletePost(t, u)
            \/ \E c \in CommentIds : LikeComment(t, u, c) \/ UnlikeComment(t, u, c) \/ DeleteComment(t, u, c)
            \/ \E parent \in CommentIds \cup {0} : AddComment(t, u, parent)
       \/ CommitLike(t) \/ CommitShare(t) \/ CommitComment(t) \/ CommitDeleteComment(t)
       \/ CommitDeletePost(t) \/ RollbackAct(t)

PostsSpec == PostsInit /\ [][PostsNext]_postsVars

-----------------------------------------------------------------------------
(***************************************************************************)
(* Properties.                                                             *)
(***************************************************************************)
Rows(column) ==
  CASE column[1] = "like" -> Cardinality({p \in likes : p[1] = column[2]})
    [] column[1] = "comment" -> Cardinality(Live)
    [] column[1] = "share" -> shares

\* Every counter is the number of its rows, through likes, replies and the
\* deletion of a comment with its replies, unless two requests overlapped on
\* the counter (like_post, add_comment, delete_comment, record_share).
CountsMatch ==
  published => \A k \in Columns : k[2] \in Items /\ k \notin clashed => counts[k] = Rows(k)

\* No reply outlives the comment it answers, and none answers a reply, however
\* a reply and a deletion overlap (add_comment, delete_comment).
RepliesAnswerComments ==
  \A c \in Live : LET p == comments[c].row.parent
                  IN p # 0 => p \in Live /\ comments[p].row.parent = 0

\* Both: the post shows the rows it has.
PostHolds == CountsMatch /\ RepliesAnswerComments
=============================================================================
