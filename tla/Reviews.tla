------------------------------- MODULE Reviews -------------------------------
(***************************************************************************)
(* Reviews of an agency and of co-travellers once a trip is over, the      *)
(* aggregates kept on the reviewed rows, and the notices they send         *)
(* (api/v1/reviews.py, services/notifications.py).                         *)
(*                                                                         *)
(* A submission checks for its duplicate, inserts, reads the aggregate of  *)
(* the committed reviews and its own, and writes the columns of the        *)
(* target's row that this changes from what it had loaded.                 *)
(***************************************************************************)
EXTENDS Integers, FiniteSets, Functions

CONSTANTS Reviewers,   \* the travellers
          Firm,        \* the agency; its owner is not one of them
          Groups,      \* the trips, all of the agency and over
          Travelled,   \* <<user, group>>: members APPROVED or COMMITTED
          Ratings,     \* overall ratings
          Forms,       \* the submissions that overlap
          MaxForms     \* bound: submissions

ASSUME ReviewsAssumption ==
  /\ Firm \notin Reviewers /\ Ratings \subseteq Nat /\ MaxForms \in 0..6
  /\ Travelled \subseteq Reviewers \X Groups

VARIABLES reviews,   \* the rows
          rated,     \* per target: avg_rating and review_count, of the aggregate
          notices,   \* review_received notifications, by target
          form,      \* the submissions in flight
          forms,     \* submissions so far
          overlaid   \* history: targets whose last review overlapped another

reviewsVars == <<reviews, rated, notices, form, forms, overlaid>>

NoForm == [at |-> "none"]
Reviewed == Reviewers \cup {Firm}
Review == [id : 1..MaxForms, by : Reviewers, group : Groups, target : Reviewed, rating : Ratings]

ReviewsTypeOK ==
  /\ reviews \subseteq Review /\ overlaid \subseteq Reviewed
  /\ rated \in [Reviewed -> [avg : Nat, count : Nat]] /\ notices \in [Reviewed -> Nat]

\* avg and count of a target's reviews; the average in sixtieths, exact for
\* up to six.  A traveller's row has no count.
Aggregate(rows, t) ==
  LET mine == {r \in rows : r.target = t}
      count == Cardinality(mine)
  IN [avg |-> IF mine = {} THEN 0 ELSE (60 * SumFunction([r \in mine |-> r.rating])) \div count,
      count |-> IF t = Firm THEN count ELSE 0]

AssertMember(u, g) == <<u, g>> \in Travelled
Duplicate(u, g, t) == \E r \in reviews : r.by = u /\ r.group = g /\ r.target = t

\* A co-traveller is a member of the same group, and not oneself.
SubmitReview(f, u, g, t, rating) ==
  /\ form[f] = NoForm /\ forms < MaxForms /\ forms' = forms + 1
  /\ AssertMember(u, g) /\ ~Duplicate(u, g, t)
  /\ t # Firm => AssertMember(t, g) /\ t # u
  /\ form' = [form EXCEPT ![f] =
       [at |-> "checked", seen |-> rated[t], stale |-> FALSE,
        row |-> [id |-> forms + 1, by |-> u, group |-> g, target |-> t, rating |-> rating]]]
  /\ UNCHANGED <<reviews, rated, notices, overlaid>>

\* Mutant: the aggregate is read before the insert.
FlushAfterAggregate(f) ==
  LET row == form[f].row IN
  /\ form[f].at = "checked"
  /\ form' = [form EXCEPT ![f] =
       [at |-> "flushed", row |-> row, stale |-> @.stale /\ row.target = Firm,
        seen |-> IF row.target = Firm THEN @.seen ELSE rated[row.target],
        sum |-> Aggregate(reviews, row.target)]]
  /\ UNCHANGED <<reviews, rated, notices, forms, overlaid>>

\* The insert, and the aggregate of what is committed and of this row.  The
\* firm's row was loaded with the group, a traveller's is loaded here.
FlushReview(f) ==
  LET row == form[f].row IN
  /\ form[f].at = "checked"
  /\ form' = [form EXCEPT ![f] =
       [at |-> "flushed", row |-> row, stale |-> @.stale /\ row.target = Firm,
        seen |-> IF row.target = Firm THEN @.seen ELSE rated[row.target],
        sum |-> Aggregate(reviews \cup {row}, row.target)]]
  /\ UNCHANGED <<reviews, rated, notices, forms, overlaid>>

\* Pushed to the target's sockets before the commit, and only there if it fails.
CreateNotification(t) == notices' = [notices EXCEPT ![t] = @ + 1]

\* The row, the aggregate and the target's notice commit together.
CommitReview(f) ==
  LET row == form[f].row
      target == row.target
      new == form[f].sum
      Staled(x) == x # NoForm /\ x.row.target = target
  IN /\ form[f].at = "flushed"
     /\ reviews' = reviews \cup {row}
     /\ rated' = [rated EXCEPT ![target] = [c \in DOMAIN new |-> IF new[c] # form[f].seen[c] THEN new[c] ELSE @[c]]]
     /\ CreateNotification(target)
     /\ overlaid' = IF form[f].stale THEN overlaid \cup {target} ELSE overlaid \ {target}
     /\ form' = [g \in Forms |-> IF g = f THEN NoForm
                                 ELSE IF Staled(form[g]) THEN [form[g] EXCEPT !.stale = TRUE] ELSE form[g]]
     /\ UNCHANGED forms

RollbackReview(f) ==
  /\ form[f].at = "flushed" /\ form' = [form EXCEPT ![f] = NoForm]
  /\ UNCHANGED <<reviews, rated, notices, forms, overlaid>>

ReviewsInit ==
  /\ reviews = {} /\ overlaid = {}
  /\ rated = [t \in Reviewed |-> [avg |-> 0, count |-> 0]]
  /\ notices = [t \in Reviewed |-> 0] /\ form = [f \in Forms |-> NoForm] /\ forms = 0

ReviewsNext ==
  \E f \in Forms :
    \/ \E u \in Reviewers, g \in Groups, t \in Reviewed, r \in Ratings : SubmitReview(f, u, g, t, r)
    \/ FlushReview(f)
    \/ CommitReview(f)
    \/ RollbackReview(f)

ReviewsSpec == ReviewsInit /\ [][ReviewsNext]_reviewsVars

-----------------------------------------------------------------------------
(***************************************************************************)
(* Properties.                                                             *)
(***************************************************************************)
\* The rating and the count on a target's row are those of its reviews, and
\* the next review that overlaps no other repairs one that did (submit_review).
AggregatesMatch == \A t \in Reviewed \ overlaid : rated[t] = Aggregate(reviews, t)

=============================================================================
