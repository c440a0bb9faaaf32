----------------------------- MODULE Catalogue -----------------------------
(***************************************************************************)
(* One catalogue package (services/packages.py): its row, the groups that  *)
(* bookings made for it with their member rows, and the entry that         *)
(* get_package_by_slug keeps in Redis (core/cache.py).                     *)
(*                                                                         *)
(* A booking, an edit or a publication loads its rows, deletes the cached  *)
(* entry and only then commits; leaving the group (api/v1/groups.py) does  *)
(* not touch the cache.  A reader that misses reads the database first and *)
(* fills the entry later.  `raced' is a history variable: a request        *)
(* committed although the rows it decided on had changed.  `window' is     *)
(* another: the entry or a fill may date from before a commit.             *)
(***************************************************************************)
EXTENDS Integers, FiniteSets, Sequences

CONSTANTS Users, Sizes,       \* values of group_size_max
          MaxWrites           \* bound: writing requests
ASSUME CatalogueAssumption == Sizes \subseteq Nat \ {0} /\ MaxWrites \in Nat

VARIABLES pkg,      \* the package's row, with its agency's approval
          groups,   \* the groups with this package_id, each with its member rows
          entry,    \* the cached detail, or None
          fill,     \* what a reader that missed is about to store, or None
          job,      \* the requests in flight, by slot
          writes,   \* requests the bound still admits
          crossed,  \* history: see above, raced
          window    \* history: see above

catalogueVars == <<pkg, groups, entry, fill, job, writes, crossed, window>>

Nothing == [kind |-> "nothing"]
Slots == 1..2   \* bound: writing requests in flight at once

PackageRow == [status : {"none", "DRAFT", "OPEN", "CONFIRMING"}, max : Sizes]
Member == [user : Users, role : {"CREATOR", "MEMBER"}, in : BOOLEAN]

CatalogueTypeOK ==
  /\ pkg \in PackageRow
  /\ \A g \in DOMAIN groups :
       /\ groups[g].size \in Nat
       /\ \A i \in DOMAIN groups[g].rows : groups[g].rows[i] \in Member
  /\ writes \in 0..MaxWrites
  /\ crossed \in BOOLEAN /\ window \in BOOLEAN

Active(g) == {i \in DOMAIN groups[g].rows : groups[g].rows[i].in}
RowsOfUser(g, u) == {i \in DOMAIN groups[g].rows : groups[g].rows[i].user = u}

\* What a reader makes of the rows: the package, and one of its groups.
Details ==
  IF groups = <<>> THEN {[kind |-> "detail", pkg |-> pkg, size |-> 0, in |-> {}]}
  ELSE {[kind |-> "detail", pkg |-> pkg, size |-> groups[g].size,
         in |-> {groups[g].rows[i].user : i \in Active(g)}] : g \in DOMAIN groups}

(***************************************************************************)
(* Requests: load, delete the entry, commit.                               *)
(***************************************************************************)
GroupRow(g) == IF g = 0 THEN Nothing ELSE groups[g]

LoadRows(s, op, g, u, arg) ==
  /\ writes > 0 /\ writes' = writes - 1
  /\ job[s] = Nothing
  /\ \A r \in Slots : r < s => job[r] # Nothing      \* slots are alike
  /\ job' = [job EXCEPT ![s] = [kind |-> op, g |-> g, user |-> u, arg |-> arg,
                                pkg |-> pkg, row |-> GroupRow(g), deleted |-> FALSE]]
  /\ UNCHANGED <<pkg, groups, entry, fill, crossed, window>>

\* Mutant: the delete names another key.
InvalidateAnother(s) ==
  /\ job[s] # Nothing /\ job[s].kind # "leave" /\ ~job[s].deleted
  /\ job' = [job EXCEPT ![s].deleted = TRUE]
  /\ window' = (window \/ fill # Nothing)
  /\ UNCHANGED <<pkg, groups, entry, fill, writes, crossed>>

\* A DELETE that fails is logged and forgotten.
InvalidateDetail(s) ==
  /\ job[s] # Nothing /\ job[s].kind # "leave" /\ ~job[s].deleted
  /\ job' = [job EXCEPT ![s].deleted = TRUE]
  /\ \/ entry' = Nothing /\ window' = (window \/ fill # Nothing)
     \/ entry' = entry /\ window' = TRUE
  /\ UNCHANGED <<pkg, groups, fill, writes, crossed>>

Commit(s) ==
  /\ job[s] # Nothing
  /\ job[s].deleted \/ job[s].kind = "leave"
  /\ job' = [job EXCEPT ![s] = Nothing]
  /\ crossed' = (crossed \/ pkg # job[s].pkg \/ GroupRow(job[s].g) # job[s].row
                         \/ (job[s].g = 0 /\ job[s].kind = "book" /\ groups # <<>>))
  /\ window' = (window \/ (job[s].kind = "leave" /\ <<entry, fill>> # <<Nothing, Nothing>>))
  /\ UNCHANGED <<entry, fill, writes>>

Abandon(s) ==
  /\ job[s] # Nothing
  /\ job' = [job EXCEPT ![s] = Nothing]
  /\ UNCHANGED <<pkg, groups, entry, fill, writes, crossed, window>>

(***************************************************************************)
(* The agency: create, update at any time and in any status, publish.      *)
(***************************************************************************)
CreatePackage(n) ==
  /\ pkg.status = "none"
  /\ pkg' = [status |-> "DRAFT", max |-> n]
  /\ entry' = Nothing                            \* invalidate_pattern("package:*")
  /\ UNCHANGED <<groups, fill, job, writes, crossed, window>>

UpdatePackage(s, n) == pkg.status # "none" /\ n # pkg.max /\ LoadRows(s, "update", 0, 0, n)

\* For an agency the platform approved; from whatever status the package has.
PublishPackage(s) == pkg.status # "none" /\ LoadRows(s, "publish", 0, 0, 0)

CommitUpdatePackage(s) ==
  /\ job[s].kind = "update"
  /\ pkg' = [pkg EXCEPT !.max = job[s].arg]
  /\ Commit(s)
  /\ UNCHANGED groups

CommitPublishPackage(s) ==
  /\ job[s].kind = "publish"
  /\ pkg' = [pkg EXCEPT !.status = IF job[s].pkg.status = "OPEN" THEN @ ELSE "OPEN"]
  /\ Commit(s)
  /\ UNCHANGED groups

\* The first captured payment of the group (services/payments.py).
FirstCapture ==
  /\ pkg.status = "OPEN" /\ groups # <<>>
  /\ pkg' = [pkg EXCEPT !.status = "CONFIRMING"]
  /\ window' = (window \/ <<entry, fill>> # <<Nothing, Nothing>>)
  /\ UNCHANGED <<groups, entry, fill, job, writes, crossed>>

(***************************************************************************)
(* Travellers: book, and leave again.                                      *)
(***************************************************************************)
\* Mutant: a full group admits one more.
BookPackageWhenFull(s, u) ==
  /\ pkg.status \in {"OPEN", "CONFIRMING"}
  /\ \/ groups = <<>> /\ LoadRows(s, "book", 0, u, 0)
     \/ \E g \in DOMAIN groups :
          /\ groups[g].size <= pkg.max
          /\ RowsOfUser(g, u) = {} /\ LoadRows(s, "book", g, u, 0)

BookPackage(s, u) ==
  /\ pkg.status \in {"OPEN", "CONFIRMING"}
  /\ \/ groups = <<>> /\ LoadRows(s, "book", 0, u, 0)
     \/ \E g \in DOMAIN groups :
          /\ groups[g].size < pkg.max
          /\ \E i \in IF RowsOfUser(g, u) = {} THEN {0} ELSE RowsOfUser(g, u) :
               /\ i # 0 => ~groups[g].rows[i].in
               /\ LoadRows(s, "book", g, u, i)

NewMember(u, size) == [user |-> u, role |-> IF size = 0 THEN "CREATOR" ELSE "MEMBER", in |-> TRUE]

CommitBooking(s) ==
  LET j == job[s] IN
  /\ j.kind = "book"
  /\ groups' =
       IF j.g = 0 THEN Append(groups, [size |-> 1, rows |-> <<NewMember(j.user, 0)>>])
       ELSE [groups EXCEPT ![j.g].size = j.row.size + 1,
                           ![j.g].rows = IF j.arg = 0 THEN Append(@, NewMember(j.user, j.row.size))
                                         ELSE [@ EXCEPT ![j.arg].in = TRUE]]
  /\ Commit(s)
  /\ UNCHANGED pkg

LeaveGroup(s, u) ==
  \E g \in DOMAIN groups : \E i \in RowsOfUser(g, u) :
    /\ groups[g].rows[i].role # "CREATOR" /\ groups[g].rows[i].in
    /\ LoadRows(s, "leave", g, u, i)

CommitLeaving(s) ==
  LET j == job[s] IN
  /\ j.kind = "leave"
  /\ groups' = [groups EXCEPT ![j.g].size = IF j.row.size > 0 THEN j.row.size - 1 ELSE 0,
                              ![j.g].rows[j.arg].in = FALSE]
  /\ Commit(s)
  /\ UNCHANGED pkg

(***************************************************************************)
(* Readers and Redis.  A hit changes nothing.                              *)
(***************************************************************************)
Invalidating == \E s \in Slots : job[s] # Nothing /\ job[s].kind # "leave" /\ job[s].deleted

ReadMiss ==
  /\ pkg.status # "none" /\ entry = Nothing /\ fill = Nothing
  /\ fill' \in Details
  /\ window' = Invalidating
  /\ UNCHANGED <<pkg, groups, entry, job, writes, crossed>>

SetCached ==
  /\ fill # Nothing
  /\ entry' = fill /\ fill' = Nothing
  /\ UNCHANGED <<pkg, groups, job, writes, crossed, window>>

TtlExpires ==
  /\ entry # Nothing
  /\ entry' = Nothing
  /\ window' = (fill # Nothing /\ window)
  /\ UNCHANGED <<pkg, groups, fill, job, writes, crossed>>

CatalogueInit ==
  /\ pkg \in [status : {"none"}, max : Sizes]
  /\ groups = <<>>
  /\ entry = Nothing /\ fill = Nothing
  /\ job = [s \in Slots |-> Nothing]
  /\ writes = MaxWrites
  /\ crossed = FALSE /\ window = FALSE

CatalogueNext ==
  \/ \E n \in Sizes : CreatePackage(n)
  \/ \E s \in Slots :
       \/ \E n \in Sizes : UpdatePackage(s, n)
       \/ PublishPackage(s)
       \/ \E u \in Users : BookPackage(s, u) \/ LeaveGroup(s, u)
       \/ InvalidateDetail(s) \/ Abandon(s)
       \/ CommitUpdatePackage(s) \/ CommitPublishPackage(s)
       \/ CommitBooking(s) \/ CommitLeaving(s)
  \/ FirstCapture \/ ReadMiss \/ SetCached \/ TtlExpires

CatalogueSpec == CatalogueInit /\ [][CatalogueNext]_catalogueVars

\* A reader stores what it read, and an entry lives fifteen minutes at most.
CatalogueFairness == WF_catalogueVars(SetCached) /\ WF_catalogueVars(TtlExpires)

(***************************************************************************)
(* Properties.                                                             *)
(***************************************************************************)

\* Bookings and departures that do not overlap leave one group, whose
\* current_size is its number of active rows, with one row per traveller and
\* one creator, who is still in.  The counter is read, changed in Python and
\* written back, and the group, the row and the role are decided on what was
\* read.
HeadcountMatches ==
  ~crossed => /\ Len(groups) <= 1
              /\ \A g \in DOMAIN groups :
                   /\ groups[g].size = Cardinality(Active(g))
                   /\ \A u \in Users : Cardinality(RowsOfUser(g, u)) <= 1
                   /\ \E c \in Active(g) : \A i \in DOMAIN groups[g].rows :
                        groups[g].rows[i].role = "CREATOR" <=> i = c

\* A group grows only within the limit the package has at that moment, unless
\* the booking was decided on rows that changed before it committed.
NoOverbooking ==
  [][crossed' \/ \A g \in DOMAIN groups' :
       Cardinality(Active(g)') > (IF g \in DOMAIN groups THEN Cardinality(Active(g)) ELSE 0)
         => Cardinality(Active(g)') <= pkg'.max]_catalogueVars

\* The cached detail is what the database holds, except in the window the
\* order of steps leaves open: a reader read between the delete and the
\* commit or stored after the delete, the delete failed, or the writer does
\* not touch the cache (leaving, the first capture).
DetailFollowsCommits == window \/ entry \in Details \cup {Nothing}

\* When writes stop, what is served becomes what is stored: a stale entry
\* lives no longer than its time to live.
DetailConverges == <>[](entry \in Details \cup {Nothing})

\* The group is the one its rows describe, and get_package_by_slug serves what
\* is stored, but for that window.
CatalogueHolds == HeadcountMatches /\ DetailFollowsCommits
=============================================================================
