-------------------------- MODULE CatalogueProofs --------------------------
(***************************************************************************)
(* Bookings and slots stay within the package, for any groups, travellers  *)
(* and requests that overlap.                                              *)
(***************************************************************************)
EXTENDS Catalogue, TLAPS, SequenceTheorems, FiniteSetTheorems

GroupRec == [size : Nat, rows : Seq(Member)]

\* The package, its groups, and the slots.
CatalogueTables ==
  /\ pkg \in PackageRow
  /\ groups \in Seq(GroupRec)
  /\ DOMAIN job = Slots
  /\ writes \in 0..MaxWrites
  /\ crossed \in BOOLEAN /\ window \in BOOLEAN

\* What a request checked on the rows it loaded; rows are never deleted.
Checked(j) ==
  /\ j.kind \in {"book", "leave", "update", "publish"}
  /\ j.pkg \in PackageRow
  /\ j.kind = "update" => j.arg \in Sizes
  /\ j.kind = "book" =>
       /\ j.user \in Users
       /\ j.g # 0 => /\ j.g \in DOMAIN groups /\ j.row \in GroupRec /\ j.row.size < j.pkg.max
                     /\ IF j.arg = 0
                        THEN \A i \in DOMAIN j.row.rows : j.row.rows[i].user # j.user
                        ELSE /\ j.arg \in DOMAIN groups[j.g].rows
                             /\ j.arg \in DOMAIN j.row.rows => ~j.row.rows[j.arg].in
  /\ j.kind = "leave" =>
       /\ j.g \in DOMAIN groups /\ j.row \in GroupRec /\ j.arg \in DOMAIN groups[j.g].rows
       /\ j.arg \in DOMAIN j.row.rows => /\ j.row.rows[j.arg].in
                                         /\ j.row.rows[j.arg].role # "CREATOR"

JobsChecked == \A s \in Slots : job[s] # Nothing => Checked(job[s])

\* The rows that are in, of one group.
In(rows) == {i \in DOMAIN rows : rows[i].in}

\* What one group is like as long as no requests raced.
GroupFits(g) ==
  /\ g.size = Cardinality(In(g.rows))
  /\ \A i, k \in DOMAIN g.rows : g.rows[i].user = g.rows[k].user => i = k
  /\ \E c \in In(g.rows) : \A i \in DOMAIN g.rows : g.rows[i].role = "CREATOR" <=> i = c

GroupsFit == ~crossed => Len(groups) <= 1 /\ \A g \in DOMAIN groups : GroupFits(groups[g])

\* Out of the window, what is cached or about to be is what is stored, and
\* nothing is while a writer that deleted the entry has not committed.
CacheFits ==
  /\ pkg.status = "none" => /\ groups = <<>> /\ entry = Nothing /\ fill = Nothing
                            /\ \A s \in Slots : job[s] = Nothing
  /\ ~window => entry \in Details \cup {Nothing} /\ fill \in Details \cup {Nothing}
  /\ ~window /\ Invalidating => entry = Nothing /\ fill = Nothing

CatalogueInv == CatalogueTables /\ JobsChecked /\ GroupsFit /\ CacheFits


-----------------------------------------------------------------------------
\* A package that is not created yet has nothing.
LEMMA CatalogueStarts == CatalogueInit => CatalogueInv
<1> SUFFICES ASSUME CatalogueInit PROVE CatalogueInv
  OBVIOUS
<1>1. pkg \in PackageRow /\ pkg.status = "none"
  BY DEF CatalogueInit, PackageRow
<1>2. CatalogueTables
  <2>1. groups \in Seq(GroupRec)
    BY DEF CatalogueInit
  <2>2. writes \in 0..MaxWrites
    BY CatalogueAssumption DEF CatalogueInit
  <2>4. crossed \in BOOLEAN /\ window \in BOOLEAN
    BY Zenon DEF CatalogueInit
  <2>3. DOMAIN job = Slots
    BY DEF CatalogueInit
  <2> QED
    BY <1>1, <2>1, <2>2, <2>3, <2>4 DEF CatalogueTables
<1>3. JobsChecked
  BY DEF CatalogueInit, JobsChecked
<1>4. GroupsFit
  BY DEF CatalogueInit, GroupsFit
<1>5. CacheFits
  BY <1>1 DEF CatalogueInit, CacheFits, Details, Invalidating
<1> QED
  BY <1>2, <1>3, <1>4, <1>5 DEF CatalogueInv

\* A group's record, its fields and how it is written.
LEMMA GroupFields ==
  ASSUME NEW g \in GroupRec
  PROVE  /\ g.size \in Nat /\ g.rows \in Seq(Member)
         /\ \A n \in Nat, q \in Seq(Member) :
              [g EXCEPT !.size = n, !.rows = q] = [size |-> n, rows |-> q]
<1>1. g.size \in Nat /\ g.rows \in Seq(Member)
  BY DEF GroupRec
<1>2. \A x \in GroupRec : x = [size |-> x.size, rows |-> x.rows]
  BY DEF GroupRec
<1>3. ASSUME NEW n \in Nat, NEW q \in Seq(Member)
      PROVE  [g EXCEPT !.size = n, !.rows = q] = [size |-> n, rows |-> q]
  <2> DEFINE e == [g EXCEPT !.size = n, !.rows = q]
  <2>1. e \in GroupRec /\ e.size = n /\ e.rows = q
    BY DEF GroupRec
  <2> HIDE DEF e
  <2>2. e = [size |-> n, rows |-> q]
    BY <1>2, <2>1
  <2> QED
    BY <2>2 DEF e
<1> QED
  BY <1>1, <1>3

\* Rows that are in are counted by a number.
LEMMA InIsFinite ==
  ASSUME NEW rows \in Seq(Member)
  PROVE  IsFiniteSet(In(rows)) /\ Cardinality(In(rows)) \in Nat
<1>1. IsFiniteSet(1..Len(rows))
  BY FS_Interval
<1>2. In(rows) \subseteq 1..Len(rows)
  BY DEF In
<1> QED
  BY <1>1, <1>2, FS_Subset, FS_CardinalityType

\* A new row that is in adds one.
LEMMA NewRowCounts ==
  ASSUME NEW rows \in Seq(Member), NEW m \in Member, m.in
  PROVE  Cardinality(In(Append(rows, m))) = Cardinality(In(rows)) + 1
<1>1. In(Append(rows, m)) = In(rows) \cup {Len(rows) + 1}
  BY DEF In
<1>2. Len(rows) + 1 \notin In(rows)
  BY DEF In
<1> QED
  BY <1>1, <1>2, InIsFinite, FS_AddElement

\* A row that comes back adds one, a row that leaves takes one away.
LEMMA RowMoves ==
  ASSUME NEW rows \in Seq(Member), NEW i \in DOMAIN rows
  PROVE  /\ [rows EXCEPT ![i].in = TRUE] \in Seq(Member)
         /\ [rows EXCEPT ![i].in = FALSE] \in Seq(Member)
         /\ ~rows[i].in =>
              Cardinality(In([rows EXCEPT ![i].in = TRUE])) = Cardinality(In(rows)) + 1
         /\ rows[i].in =>
              /\ Cardinality(In(rows)) > 0
              /\ Cardinality(In([rows EXCEPT ![i].in = FALSE])) = Cardinality(In(rows)) - 1
<1>1. rows[i] \in Member
  OBVIOUS
<1>2. /\ [rows[i] EXCEPT !.in = TRUE] \in Member
      /\ [rows[i] EXCEPT !.in = FALSE] \in Member
  BY <1>1 DEF Member
<1>3. /\ [rows EXCEPT ![i].in = TRUE] \in Seq(Member)
      /\ [rows EXCEPT ![i].in = FALSE] \in Seq(Member)
  BY <1>2
<1>4. ASSUME ~rows[i].in
      PROVE  Cardinality(In([rows EXCEPT ![i].in = TRUE])) = Cardinality(In(rows)) + 1
  <2>1. In([rows EXCEPT ![i].in = TRUE]) = In(rows) \cup {i}
    BY <1>1 DEF In, Member
  <2>2. i \notin In(rows)
    BY <1>4 DEF In
  <2> QED
    BY <2>1, <2>2, InIsFinite, FS_AddElement
<1>5. ASSUME rows[i].in
      PROVE  /\ Cardinality(In(rows)) > 0
             /\ Cardinality(In([rows EXCEPT ![i].in = FALSE])) = Cardinality(In(rows)) - 1
  <2>1. In([rows EXCEPT ![i].in = FALSE]) = In(rows) \ {i}
    BY <1>1 DEF In, Member
  <2>2. i \in In(rows)
    BY <1>5 DEF In
  <2>3. Cardinality(In(rows)) # 0
    BY <2>2, InIsFinite, FS_EmptySet
  <2>4. Cardinality(In(rows) \ {i}) = Cardinality(In(rows)) - 1
    BY <2>2, InIsFinite, FS_RemoveElement
  <2>5. Cardinality(In(rows)) > 0
    BY <2>3, InIsFinite
  <2> QED
    BY <2>1, <2>4, <2>5
<1> QED
  BY <1>3, <1>4, <1>5

-----------------------------------------------------------------------------
\* Groups and rows are added, never deleted.
GroupsGrow ==
  \A g \in DOMAIN groups : g \in DOMAIN groups' /\ DOMAIN groups[g].rows \subseteq DOMAIN groups'[g].rows

\* What a request has checked stays true while groups and rows only grow.
LEMMA CheckedKept ==
  ASSUME NEW j, Checked(j), GroupsGrow
  PROVE  Checked(j)'
  BY DEF Checked, GroupsGrow

\* A request that starts has checked its rows, and has deleted nothing yet.
LEMMA RowsLoaded ==
  ASSUME CatalogueInv, NEW s \in Slots, NEW op, NEW g, NEW u, NEW arg, LoadRows(s, op, g, u, arg),
         Checked([kind |-> op, g |-> g, user |-> u, arg |-> arg,
                  pkg |-> pkg, row |-> GroupRow(g), deleted |-> FALSE]),
         pkg.status # "none"
  PROVE  CatalogueInv'
<1> DEFINE j == [kind |-> op, g |-> g, user |-> u, arg |-> arg,
                 pkg |-> pkg, row |-> GroupRow(g), deleted |-> FALSE]
<1>1. /\ job' = [job EXCEPT ![s] = j] /\ job[s] = Nothing
      /\ UNCHANGED <<pkg, groups, entry, fill, crossed, window>> /\ writes' \in 0..MaxWrites
  BY CatalogueAssumption DEF LoadRows, CatalogueInv, CatalogueTables
<1>2. DOMAIN job = Slots /\ ~j.deleted
  BY DEF CatalogueInv, CatalogueTables
<1>3. Checked(j)
  OBVIOUS
<1> HIDE DEF j
<1>4. CatalogueTables'
  BY <1>1 DEF CatalogueInv, CatalogueTables
<1>5. JobsChecked'
  BY SMTT(30), <1>1, <1>2, <1>3, CheckedKept DEF CatalogueInv, JobsChecked, GroupsGrow, Checked
<1>6. GroupsFit'
  BY <1>1 DEF CatalogueInv, GroupsFit
<1>7. Invalidating' <=> Invalidating
  BY <1>1, <1>2 DEF Invalidating
<1>8. CacheFits'
  BY <1>1, <1>7 DEF CatalogueInv, CacheFits, Details, Active
<1> QED
  BY <1>4, <1>5, <1>6, <1>8 DEF CatalogueInv

\* What the handlers check before they load.
LEMMA RequestsLoad ==
  ASSUME CatalogueInv, NEW s \in Slots,
         \/ \E n \in Sizes : UpdatePackage(s, n)
         \/ PublishPackage(s)
         \/ \E u \in Users : BookPackage(s, u) \/ LeaveGroup(s, u)
  PROVE  CatalogueInv'
<1>1. pkg \in PackageRow /\ groups \in Seq(GroupRec)
  BY DEF CatalogueInv, CatalogueTables
<1>2. \A g \in DOMAIN groups : g \in Nat \ {0} /\ groups[g] \in GroupRec /\ GroupRow(g) = groups[g]
  BY <1>1 DEF GroupRow
<1>3. ASSUME NEW n \in Sizes, UpdatePackage(s, n)
      PROVE  CatalogueInv'
  BY <1>1, <1>3, RowsLoaded DEF UpdatePackage, Checked
<1>4. CASE PublishPackage(s)
  BY <1>1, <1>4, RowsLoaded DEF PublishPackage, Checked
<1>5. ASSUME NEW u \in Users, BookPackage(s, u)
      PROVE  CatalogueInv'
  <2>1. pkg.status # "none"
    BY <1>5 DEF BookPackage
  <2>2. CASE LoadRows(s, "book", 0, u, 0)
    BY <1>1, <2>1, <2>2, RowsLoaded DEF Checked
  <2>3. ASSUME NEW g \in DOMAIN groups, groups[g].size < pkg.max,
               NEW i \in IF RowsOfUser(g, u) = {} THEN {0} ELSE RowsOfUser(g, u),
               i # 0 => ~groups[g].rows[i].in, LoadRows(s, "book", g, u, i)
        PROVE  CatalogueInv'
    <3>1. /\ i # 0 => i \in DOMAIN groups[g].rows
          /\ i = 0 => \A k \in DOMAIN groups[g].rows : groups[g].rows[k].user # u
      BY <1>2 DEF RowsOfUser, GroupRec
    <3>2. Checked([kind |-> "book", g |-> g, user |-> u, arg |-> i,
                   pkg |-> pkg, row |-> GroupRow(g), deleted |-> FALSE])
      BY <1>1, <1>2, <2>3, <3>1 DEF Checked
    <3> QED
      BY <2>1, <2>3, <3>2, RowsLoaded
  <2> QED
    BY <1>5, <2>2, <2>3 DEF BookPackage
<1>6. ASSUME NEW u \in Users, LeaveGroup(s, u)
      PROVE  CatalogueInv'
  <2>0. PICK g \in DOMAIN groups : \E i \in RowsOfUser(g, u) :
          /\ groups[g].rows[i].role # "CREATOR" /\ groups[g].rows[i].in
          /\ LoadRows(s, "leave", g, u, i)
    BY <1>6 DEF LeaveGroup
  <2>1. PICK i \in RowsOfUser(g, u) :
          /\ groups[g].rows[i].role # "CREATOR" /\ groups[g].rows[i].in
          /\ LoadRows(s, "leave", g, u, i)
    BY <2>0
  <2>2. Checked([kind |-> "leave", g |-> g, user |-> u, arg |-> i,
                 pkg |-> pkg, row |-> GroupRow(g), deleted |-> FALSE])
    BY <1>1, <1>2, <2>1 DEF Checked, RowsOfUser
  <2>3. pkg.status # "none"
    BY <1>1, <2>1 DEF CatalogueInv, CacheFits
  <2> QED
    BY <2>1, <2>2, <2>3, RowsLoaded
<1> QED
  BY <1>3, <1>4, <1>5, <1>6

-----------------------------------------------------------------------------
\* What a commit does to the slots and to the cache.
LEMMA CommitEnds ==
  ASSUME CatalogueInv, NEW s \in Slots, Commit(s), GroupsGrow
  PROVE  /\ JobsChecked' /\ DOMAIN job' = Slots
         /\ writes' = writes /\ crossed' \in BOOLEAN /\ window' \in BOOLEAN
         /\ ~window' => entry' = Nothing /\ fill' = Nothing
         /\ Checked(job[s])
<1>1. DOMAIN job = Slots /\ Checked(job[s]) /\ crossed \in BOOLEAN /\ window \in BOOLEAN
  BY DEF CatalogueInv, CatalogueTables, JobsChecked, Commit
<1>2. \A t \in Slots : job'[t] = IF t = s THEN Nothing ELSE job[t]
  BY <1>1 DEF Commit
<1>3. JobsChecked'
  BY <1>1, <1>2, CheckedKept DEF CatalogueInv, JobsChecked
<1>4. ~window' => entry' = Nothing /\ fill' = Nothing
  BY DEF Commit, CatalogueInv, CacheFits, Invalidating
<1> QED
  BY <1>1, <1>3, <1>4 DEF Commit

\* An entry that is not there follows everything.
LEMMA EmptyCacheFits ==
  ASSUME pkg'.status # "none", ~window' => entry' = Nothing /\ fill' = Nothing
  PROVE  CacheFits'
  BY DEF CacheFits

\* A request that did not race wrote on the rows it had loaded.
LEMMA NothingCrossed ==
  ASSUME NEW s \in Slots, Commit(s), ~crossed'
  PROVE  /\ ~crossed /\ pkg = job[s].pkg /\ GroupRow(job[s].g) = job[s].row
         /\ job[s].g = 0 /\ job[s].kind = "book" => groups = <<>>
  BY DEF Commit

\* A commit of an edit or a publication.
LEMMA PackageCommitsKeep ==
  ASSUME CatalogueInv, NEW s \in Slots, CommitUpdatePackage(s) \/ CommitPublishPackage(s)
  PROVE  CatalogueInv'
<1>1. Commit(s) /\ UNCHANGED groups /\ GroupsGrow
  BY DEF CommitUpdatePackage, CommitPublishPackage, GroupsGrow
<1>2. Checked(job[s]) /\ pkg \in PackageRow /\ pkg.status # "none"
  BY <1>1 DEF CatalogueInv, CatalogueTables, JobsChecked, CacheFits, Commit
<1>3. pkg' \in PackageRow /\ pkg'.status # "none"
  <2>1. CASE CommitUpdatePackage(s)
    BY <1>2, <2>1 DEF CommitUpdatePackage, Checked, PackageRow
  <2>2. CASE CommitPublishPackage(s)
    BY <1>2, <2>2 DEF CommitPublishPackage, PackageRow
  <2> QED
    BY <2>1, <2>2
<1>4. CatalogueTables'
  BY <1>1, <1>3, CommitEnds DEF CatalogueInv, CatalogueTables
<1>5. GroupsFit'
  BY <1>1 DEF CatalogueInv, GroupsFit, Commit
<1> QED
  BY <1>1, <1>3, <1>4, <1>5, CommitEnds, EmptyCacheFits DEF CatalogueInv

-----------------------------------------------------------------------------
\* A commit that gives one group a new record.
LEMMA GroupRewritten ==
  ASSUME CatalogueInv, NEW s \in Slots, Commit(s), UNCHANGED pkg,
         NEW g \in DOMAIN groups, NEW r \in GroupRec, groups' = [groups EXCEPT ![g] = r],
         DOMAIN groups[g].rows \subseteq DOMAIN r.rows,
         ~crossed' => GroupFits(r)
  PROVE  CatalogueInv'
<1>1. groups \in Seq(GroupRec) /\ pkg \in PackageRow /\ writes \in 0..MaxWrites
  BY DEF CatalogueInv, CatalogueTables
<1>2. /\ groups' \in Seq(GroupRec) /\ Len(groups') = Len(groups) /\ DOMAIN groups' = DOMAIN groups
      /\ \A k \in DOMAIN groups : groups'[k] = IF k = g THEN r ELSE groups[k]
  BY <1>1
<1>3. GroupsGrow
  BY <1>2 DEF GroupsGrow
<1>4. CatalogueTables'
  BY <1>1, <1>2, <1>3, CommitEnds DEF CatalogueTables
<1>5. GroupsFit'
  <2> SUFFICES ASSUME ~crossed' PROVE Len(groups') <= 1 /\ \A k \in DOMAIN groups' : GroupFits(groups'[k])
    BY DEF GroupsFit, GroupFits, In
  <2>1. Len(groups) <= 1 /\ \A k \in DOMAIN groups : GroupFits(groups[k])
    BY NothingCrossed DEF CatalogueInv, GroupsFit
  <2> QED
    BY <1>2, <2>1
<1>6. pkg'.status # "none"
  BY <1>1 DEF CatalogueInv, CacheFits
<1> QED
  BY <1>3, <1>4, <1>5, <1>6, CommitEnds, EmptyCacheFits DEF CatalogueInv

\* A booking that did not race keeps the group what its rows say.
LEMMA BookingFits ==
  ASSUME NEW g \in GroupRec, GroupFits(g), NEW u \in Users, NEW i,
         IF i = 0 THEN \A k \in DOMAIN g.rows : g.rows[k].user # u
                  ELSE i \in DOMAIN g.rows /\ ~g.rows[i].in,
         NEW rows, rows = IF i = 0 THEN Append(g.rows, NewMember(u, g.size))
                                   ELSE [g.rows EXCEPT ![i].in = TRUE]
  PROVE  GroupFits([size |-> g.size + 1, rows |-> rows])
<1>1. g.rows \in Seq(Member) /\ g.size \in Nat /\ g.size = Cardinality(In(g.rows))
  BY DEF GroupRec, GroupFits
<1>2. PICK c \in In(g.rows) : \A k \in DOMAIN g.rows : g.rows[k].role = "CREATOR" <=> k = c
  BY DEF GroupFits
<1>3. g.size # 0
  BY <1>1, <1>2, InIsFinite, FS_EmptySet
<1>4. NewMember(u, g.size) = [user |-> u, role |-> "MEMBER", in |-> TRUE]
  BY <1>3 DEF NewMember
<1>5. CASE i = 0
  <2> DEFINE m == NewMember(u, g.size)
  <2>1. m \in Member /\ m.in /\ m.user = u /\ m.role = "MEMBER"
    BY <1>4 DEF Member
  <2> HIDE DEF m
  <2>2. rows = Append(g.rows, m) /\ Cardinality(In(rows)) = g.size + 1
    BY <1>1, <1>5, <2>1, NewRowCounts DEF m
  <2>3. /\ DOMAIN rows = DOMAIN g.rows \cup {Len(g.rows) + 1}
        /\ \A k \in DOMAIN g.rows : rows[k] = g.rows[k]
        /\ rows[Len(g.rows) + 1] = m /\ Len(g.rows) + 1 \notin DOMAIN g.rows
    BY <1>1, <2>1, <2>2
  <2>4. \A k, l \in DOMAIN rows : rows[k].user = rows[l].user => k = l
    BY <1>5, <2>1, <2>3 DEF GroupFits
  <2>5. c \in In(rows) /\ \A k \in DOMAIN rows : rows[k].role = "CREATOR" <=> k = c
    BY <1>2, <2>1, <2>3 DEF In
  <2> QED
    BY SMTT(30), <2>2, <2>4, <2>5 DEF GroupFits
<1>6. CASE i # 0
  <2>1. rows = [g.rows EXCEPT ![i].in = TRUE] /\ i \in DOMAIN g.rows /\ ~g.rows[i].in
    BY <1>6
  <2>2. Cardinality(In(rows)) = g.size + 1
    BY <1>1, <2>1, RowMoves
  <2>3. /\ DOMAIN rows = DOMAIN g.rows
        /\ \A k \in DOMAIN g.rows :
             /\ rows[k].user = g.rows[k].user /\ rows[k].role = g.rows[k].role
             /\ g.rows[k].in => rows[k].in
    <3>1. \A k \in DOMAIN g.rows : g.rows[k] \in Member
      BY <1>1
    <3>2. \A k \in DOMAIN g.rows :
            rows[k] = IF k = i THEN [g.rows[k] EXCEPT !.in = TRUE] ELSE g.rows[k]
      BY <2>1
    <3> QED
      BY <2>1, <3>1, <3>2 DEF Member
  <2>4. c \in In(rows)
    BY <2>3 DEF In
  <2>5. \A k, l \in DOMAIN rows : rows[k].user = rows[l].user => k = l
    BY <2>3 DEF GroupFits
  <2>6. \A k \in DOMAIN rows : rows[k].role = "CREATOR" <=> k = c
    BY <1>2, <2>3
  <2> DEFINE n == [size |-> g.size + 1, rows |-> rows]
  <2>7. n.rows = rows /\ n.size = Cardinality(In(rows))
    BY <2>2
  <2> HIDE DEF n
  <2>8. GroupFits(n)
    BY <2>4, <2>5, <2>6, <2>7 DEF GroupFits
  <2> QED
    BY <2>8 DEF n
<1> QED
  BY <1>5, <1>6

\* The commit of a booking.
LEMMA BookingsKeep ==
  ASSUME CatalogueInv, NEW s \in Slots, CommitBooking(s)
  PROVE  CatalogueInv'
<1> DEFINE j == job[s]
<1>1. Commit(s) /\ UNCHANGED pkg /\ j.kind = "book"
  BY DEF CommitBooking
<1>2. groups \in Seq(GroupRec) /\ Checked(j) /\ j.user \in Users /\ pkg \in PackageRow /\ writes \in 0..MaxWrites
  BY <1>1 DEF CatalogueInv, CatalogueTables, JobsChecked, Checked, Commit
<1>3. CASE j.g = 0
  <2> DEFINE m == NewMember(j.user, 0)
             n == [size |-> 1, rows |-> <<m>>]
  <2>1. m \in Member /\ m.in /\ m.role = "CREATOR"
    BY <1>2 DEF NewMember, Member
  <2>2. groups' = Append(groups, n)
    BY <1>3 DEF CommitBooking
  <2> HIDE DEF m
  <2>3. n \in GroupRec /\ <<m>> \in Seq(Member)
    BY <2>1 DEF GroupRec
  <2>4. GroupFits(n)
    <3>1. In(<<m>>) = {1}
      BY <2>1 DEF In
    <3>2. Cardinality({1}) = 1
      BY FS_Singleton
    <3> QED
      BY <2>1, <3>1, <3>2 DEF GroupFits
  <2> HIDE DEF n
  <2>5. /\ groups' \in Seq(GroupRec) /\ Len(groups') = Len(groups) + 1
        /\ DOMAIN groups' = DOMAIN groups \cup {Len(groups) + 1}
        /\ \A k \in DOMAIN groups : groups'[k] = groups[k]
        /\ groups'[Len(groups) + 1] = n
    BY <1>2, <2>2, <2>3
  <2>6. GroupsGrow
    BY <2>5 DEF GroupsGrow
  <2>7. CatalogueTables'
    BY <1>1, <1>2, <2>5, <2>6, CommitEnds DEF CatalogueTables
  <2>8. GroupsFit'
    <3> SUFFICES ASSUME ~crossed' PROVE Len(groups') <= 1 /\ \A g \in DOMAIN groups' : GroupFits(groups'[g])
      BY DEF GroupsFit, GroupFits, In
    <3>1. groups = <<>>
      BY <1>1, <1>3, NothingCrossed
    <3> QED
      BY <2>4, <2>5, <3>1
  <2>9. pkg'.status # "none"
    BY <1>1 DEF CatalogueInv, CacheFits, Commit
  <2> QED
    BY <1>1, <2>6, <2>7, <2>8, <2>9, CommitEnds, EmptyCacheFits DEF CatalogueInv
<1>4. CASE j.g # 0
  <2> DEFINE g == groups[j.g]
             rows == IF j.arg = 0 THEN Append(g.rows, NewMember(j.user, j.row.size))
                                  ELSE [g.rows EXCEPT ![j.arg].in = TRUE]
             r == [size |-> j.row.size + 1, rows |-> rows]
  <2>1. /\ j.g \in DOMAIN groups /\ j.row \in GroupRec
        /\ IF j.arg = 0
           THEN \A i \in DOMAIN j.row.rows : j.row.rows[i].user # j.user
           ELSE /\ j.arg \in DOMAIN groups[j.g].rows
                /\ j.arg \in DOMAIN j.row.rows => ~j.row.rows[j.arg].in
    BY <1>1, <1>2, <1>4 DEF Checked
  <2>2. g \in GroupRec /\ g.rows \in Seq(Member) /\ j.row.size \in Nat
    <3>1. g \in GroupRec
      BY <1>2, <2>1
    <3> HIDE DEF g
    <3> QED
      BY <2>1, <3>1, GroupFields
  <2>3. NewMember(j.user, j.row.size) \in Member
    BY <1>2 DEF NewMember, Member
  <2>4. rows \in Seq(Member) /\ DOMAIN g.rows \subseteq DOMAIN rows
    <3>1. CASE j.arg = 0
      BY <2>2, <2>3, <3>1
    <3>2. CASE j.arg # 0
      BY <2>1, <2>2, <3>2, RowMoves
    <3> QED
      BY <3>1, <3>2
  <2>5. groups' = [groups EXCEPT ![j.g] = r]
    <3> DEFINE w == [g EXCEPT !.size = j.row.size + 1, !.rows = rows]
    <3>1. groups' = [groups EXCEPT ![j.g] = w]
      BY <1>1, <1>2, <1>4, <2>1 DEF CommitBooking
    <3>2. j.row.size + 1 \in Nat /\ g \in GroupRec
      BY <2>2
    <3> HIDE DEF g, rows
    <3>3. w = r
      BY <2>4, <3>2, GroupFields
    <3> QED
      BY <3>1, <3>3
  <2>6. r \in GroupRec
    BY SMTT(30), <2>2, <2>4 DEF GroupRec
  <2>7. ~crossed' => GroupFits(r)
    <3> SUFFICES ASSUME ~crossed' PROVE GroupFits(r)
      OBVIOUS
    <3>1. ~crossed /\ j.row = g
      BY <1>1, <1>4, NothingCrossed DEF GroupRow
    <3>2. GroupFits(g)
      BY <2>1, <3>1 DEF CatalogueInv, GroupsFit
    <3> HIDE DEF g
    <3> QED
      BY <1>2, <2>1, <2>2, <3>1, <3>2, BookingFits DEF g
  <2> HIDE DEF r, rows
  <2>8. DOMAIN groups[j.g].rows \subseteq DOMAIN r.rows
    BY <2>4 DEF r
  <2> QED
    BY <1>1, <2>1, <2>5, <2>6, <2>7, <2>8, GroupRewritten
<1> QED
  BY <1>3, <1>4

\* The commit of a departure.
LEMMA DeparturesKeep ==
  ASSUME CatalogueInv, NEW s \in Slots, CommitLeaving(s)
  PROVE  CatalogueInv'
<1> DEFINE j == job[s]
           g == groups[j.g]
           rows == [g.rows EXCEPT ![j.arg].in = FALSE]
           r == [size |-> IF j.row.size > 0 THEN j.row.size - 1 ELSE 0, rows |-> rows]
<1>1. Commit(s) /\ UNCHANGED pkg /\ j.kind = "leave"
  BY DEF CommitLeaving
<1>2. groups \in Seq(GroupRec) /\ Checked(j)
  BY <1>1 DEF CatalogueInv, CatalogueTables, JobsChecked, Commit
<1>3. /\ j.g \in DOMAIN groups /\ j.row \in GroupRec /\ j.arg \in DOMAIN g.rows
      /\ j.arg \in DOMAIN j.row.rows => /\ j.row.rows[j.arg].in
                                        /\ j.row.rows[j.arg].role # "CREATOR"
  BY <1>1, <1>2 DEF Checked
<1>4. g \in GroupRec /\ g.rows \in Seq(Member) /\ j.row.size \in Nat /\ j.g \in Nat \ {0}
  <2>1. g \in GroupRec /\ j.g \in Nat \ {0}
    BY <1>2, <1>3
  <2> HIDE DEF g
  <2> QED
    BY <1>3, <2>1, GroupFields
<1>5. rows \in Seq(Member) /\ DOMAIN rows = DOMAIN g.rows
  BY <1>3, <1>4, RowMoves
<1>6. groups' = [groups EXCEPT ![j.g] = r]
  <2> DEFINE w == [g EXCEPT !.size = r.size, !.rows = rows]
  <2>1. groups' = [groups EXCEPT ![j.g] = w]
    BY <1>2, <1>3, <1>4 DEF CommitLeaving
  <2>2. r.size \in Nat /\ g \in GroupRec
    BY <1>4
  <2>3. r = [size |-> r.size, rows |-> rows]
    OBVIOUS
  <2>4. w = r
    <3> HIDE DEF g, rows, r
    <3> QED
      BY ZenonT(40), <1>5, <2>2, <2>3, GroupFields
  <2> QED
    BY <2>1, <2>4
<1>7. r \in GroupRec
  BY <1>4, <1>5 DEF GroupRec
<1>8. ~crossed' => GroupFits(r)
  <2> SUFFICES ASSUME ~crossed' PROVE GroupFits(r)
    OBVIOUS
  <2>1. ~crossed /\ j.row = g
    BY <1>1, <1>4, NothingCrossed DEF GroupRow
  <2>2. GroupFits(g)
    BY <1>3, <2>1 DEF CatalogueInv, GroupsFit
  <2>3. Cardinality(In(rows)) = r.size
    <3>1. g.rows[j.arg].in /\ g.size = Cardinality(In(g.rows))
      BY <1>3, <2>1, <2>2 DEF GroupFits
    <3>2. Cardinality(In(g.rows)) > 0 /\ Cardinality(In(rows)) = Cardinality(In(g.rows)) - 1
      BY <1>3, <1>4, <3>1, RowMoves
    <3> QED
      BY <2>1, <3>1, <3>2
  <2>4. PICK c \in In(g.rows) : \A k \in DOMAIN g.rows : g.rows[k].role = "CREATOR" <=> k = c
    BY <2>2 DEF GroupFits
  <2>5. \A k \in DOMAIN g.rows :
          /\ rows[k].user = g.rows[k].user /\ rows[k].role = g.rows[k].role
          /\ k # j.arg => rows[k] = g.rows[k]
    <3>1. \A k \in DOMAIN g.rows : g.rows[k] \in Member
      BY <1>4
    <3>2. \A k \in DOMAIN g.rows :
            rows[k] = IF k = j.arg THEN [g.rows[k] EXCEPT !.in = FALSE] ELSE g.rows[k]
      BY <1>3
    <3> QED
      BY <3>1, <3>2 DEF Member
  <2>6. c # j.arg
    BY <1>3, <2>1, <2>4 DEF In
  <2> HIDE DEF rows
  <2>7. c \in In(rows)
    BY <1>5, <2>5, <2>6 DEF In
  <2>8. \A k, l \in DOMAIN rows : rows[k].user = rows[l].user => k = l
    BY <1>5, <2>2, <2>5 DEF GroupFits
  <2>9. \A k \in DOMAIN rows : rows[k].role = "CREATOR" <=> k = c
    BY <1>5, <2>4, <2>5
  <2> QED
    BY <2>3, <2>7, <2>8, <2>9 DEF GroupFits
<1> HIDE DEF r, rows
<1>9. DOMAIN groups[j.g].rows \subseteq DOMAIN r.rows
  BY <1>5 DEF r
<1> QED
  BY <1>1, <1>3, <1>6, <1>7, <1>8, <1>9, GroupRewritten

-----------------------------------------------------------------------------
\* What happens to the package outside the requests, and to the entry.
LEMMA OthersKeep ==
  ASSUME CatalogueInv, UNCHANGED <<groups, crossed>>, DOMAIN job' = Slots, pkg' \in PackageRow,
         writes' \in 0..MaxWrites, window' \in BOOLEAN,
         \A s \in Slots : job'[s] # Nothing => Checked(job'[s]),
         CacheFits'
  PROVE  CatalogueInv'
<1>1. CatalogueTables'
  BY DEF CatalogueInv, CatalogueTables
<1>2. JobsChecked'
  BY DEF JobsChecked, Checked
<1>3. GroupsFit'
  BY DEF CatalogueInv, GroupsFit
<1> QED
  BY <1>1, <1>2, <1>3 DEF CatalogueInv

\* A request deletes the entry, or gives up.
LEMMA SlotsKeep ==
  ASSUME CatalogueInv, NEW s \in Slots, InvalidateDetail(s) \/ Abandon(s)
  PROVE  CatalogueInv'
<1>1. /\ DOMAIN job = Slots /\ pkg \in PackageRow /\ writes \in 0..MaxWrites /\ window \in BOOLEAN
      /\ \A t \in Slots : job[t] # Nothing => Checked(job[t])
      /\ job[s] # Nothing /\ UNCHANGED <<pkg, groups, fill, writes, crossed>>
  BY DEF CatalogueInv, CatalogueTables, JobsChecked, InvalidateDetail, Abandon
<1>2. pkg.status # "none" /\ pkg'.status # "none"
  BY <1>1 DEF CatalogueInv, CacheFits
<1>3. Details' = Details
  BY <1>1 DEF Details, Active
<1>4. CASE InvalidateDetail(s)
  <2>1. \A t \in Slots : job'[t] = IF t = s THEN [job[s] EXCEPT !.deleted = TRUE] ELSE job[t]
    BY <1>1, <1>4 DEF InvalidateDetail
  <2>2. Checked([job[s] EXCEPT !.deleted = TRUE])
    BY <1>1 DEF Checked
  <2>3. /\ window' \in BOOLEAN /\ DOMAIN job' = Slots
        /\ ~window' => ~window /\ entry' = Nothing /\ fill' = Nothing
    BY <1>1, <1>4 DEF InvalidateDetail
  <2>4. CacheFits'
    BY <1>2, <2>3, EmptyCacheFits
  <2> QED
    BY <1>1, <2>1, <2>2, <2>3, <2>4, OthersKeep
<1>5. CASE Abandon(s)
  <2>1. /\ \A t \in Slots : job'[t] = IF t = s THEN Nothing ELSE job[t]
        /\ DOMAIN job' = Slots /\ UNCHANGED <<entry, window>>
    BY <1>1, <1>5 DEF Abandon
  <2>2. Invalidating' => Invalidating
    BY <2>1 DEF Invalidating
  <2>3. CacheFits'
    BY <1>1, <1>2, <1>3, <2>1, <2>2 DEF CatalogueInv, CacheFits
  <2> QED
    BY <1>1, <2>1, <2>3, OthersKeep
<1> QED
  BY <1>4, <1>5

\* The agency creates the package, and a payment moves it.
LEMMA PackageKeeps ==
  ASSUME CatalogueInv, (\E n \in Sizes : CreatePackage(n)) \/ FirstCapture
  PROVE  CatalogueInv'
<1>1. /\ DOMAIN job = Slots /\ pkg \in PackageRow /\ writes \in 0..MaxWrites /\ window \in BOOLEAN
      /\ \A t \in Slots : job[t] # Nothing => Checked(job[t])
      /\ UNCHANGED <<groups, fill, job, writes, crossed>>
  BY DEF CatalogueInv, CatalogueTables, JobsChecked, CreatePackage, FirstCapture
<1>2. pkg' \in PackageRow /\ pkg'.status # "none"
  <2>1. ASSUME NEW n \in Sizes, CreatePackage(n) PROVE pkg' \in PackageRow /\ pkg'.status # "none"
    BY <2>1 DEF CreatePackage, PackageRow
  <2>2. CASE FirstCapture
    BY <1>1, <2>2 DEF FirstCapture, PackageRow
  <2> QED
    BY <2>1, <2>2
<1>3. window' \in BOOLEAN /\ (~window' => entry' = Nothing /\ fill' = Nothing)
  BY <1>1 DEF CreatePackage, FirstCapture, CatalogueInv, CacheFits
<1> QED
  BY <1>1, <1>2, <1>3, EmptyCacheFits, OthersKeep

\* Readers and Redis.
LEMMA CacheKeeps ==
  ASSUME CatalogueInv, ReadMiss \/ SetCached \/ TtlExpires
  PROVE  CatalogueInv'
<1>1. /\ DOMAIN job = Slots /\ pkg \in PackageRow /\ writes \in 0..MaxWrites /\ window \in BOOLEAN
      /\ \A t \in Slots : job[t] # Nothing => Checked(job[t])
      /\ UNCHANGED <<pkg, groups, job, writes, crossed>>
  BY DEF CatalogueInv, CatalogueTables, JobsChecked, ReadMiss, SetCached, TtlExpires
<1>2. Details' = Details /\ (Invalidating' <=> Invalidating) /\ Invalidating \in BOOLEAN
  BY <1>1 DEF Details, Active, Invalidating
<1>3. window' \in BOOLEAN
  BY <1>1, <1>2 DEF ReadMiss, SetCached, TtlExpires
<1>4. CASE ReadMiss
  <2>1. CacheFits'
    BY <1>1, <1>2, <1>4 DEF ReadMiss, CatalogueInv, CacheFits
  <2> QED
    BY <1>1, <1>3, <2>1, OthersKeep
<1>5. CASE SetCached
  <2>1. CacheFits'
    BY <1>1, <1>2, <1>5 DEF SetCached, CatalogueInv, CacheFits
  <2> QED
    BY <1>1, <1>3, <2>1, OthersKeep
<1>6. CASE TtlExpires
  <2>1. CacheFits'
    BY <1>1, <1>2, <1>6 DEF TtlExpires, CatalogueInv, CacheFits
  <2> QED
    BY <1>1, <1>3, <2>1, OthersKeep
<1> QED
  BY <1>4, <1>5, <1>6

-----------------------------------------------------------------------------
\* Every step keeps the invariant.
LEMMA CatalogueSteps ==
  ASSUME CatalogueInv, [CatalogueNext]_catalogueVars
  PROVE  CatalogueInv'
<1>1. CASE UNCHANGED catalogueVars
  BY SMTT(30), <1>1 DEF catalogueVars, CatalogueInv, CatalogueTables, JobsChecked, Checked, GroupsFit, CacheFits,
     Details, Active, Invalidating
<1>2. CASE CatalogueNext
  BY <1>2, RequestsLoad, SlotsKeep, PackageCommitsKeep, BookingsKeep, DeparturesKeep, PackageKeeps,
     CacheKeeps DEF CatalogueNext
<1> QED
  BY <1>1, <1>2

\* The invariant holds of every reachable state.
LEMMA CatalogueInvariant == CatalogueSpec => []CatalogueInv
<1>1. CatalogueInit => CatalogueInv
  BY CatalogueStarts
<1>2. CatalogueInv /\ [CatalogueNext]_catalogueVars => CatalogueInv'
  BY CatalogueSteps
<1> QED
  BY <1>1, <1>2, PTL DEF CatalogueSpec

\* CatalogueHolds: the group is what its member rows say unless bookings or
\* departures raced, and the cached detail is what the database holds outside
\* the window the handlers leave open.
THEOREM CatalogueIsServed == CatalogueSpec => []CatalogueHolds
<1>1. ASSUME CatalogueInv PROVE CatalogueHolds
  <2>1. DetailFollowsCommits
    BY <1>1 DEF CatalogueInv, CacheFits, DetailFollowsCommits
  <2>2. HeadcountMatches
    <3> SUFFICES ASSUME ~crossed, NEW g \in DOMAIN groups
                 PROVE  /\ groups[g].size = Cardinality(Active(g))
                        /\ \A u \in Users : Cardinality(RowsOfUser(g, u)) <= 1
                        /\ \E c \in Active(g) : \A i \in DOMAIN groups[g].rows :
                             groups[g].rows[i].role = "CREATOR" <=> i = c
      BY <1>1 DEF HeadcountMatches, CatalogueInv, GroupsFit
    <3>1. GroupFits(groups[g]) /\ Active(g) = In(groups[g].rows)
      BY <1>1 DEF CatalogueInv, GroupsFit, Active, In
    <3>2. ASSUME NEW u \in Users PROVE Cardinality(RowsOfUser(g, u)) <= 1
      <4>1. CASE RowsOfUser(g, u) = {}
        BY <4>1, FS_EmptySet
      <4>2. ASSUME NEW i \in RowsOfUser(g, u) PROVE Cardinality(RowsOfUser(g, u)) <= 1
        <5>1. RowsOfUser(g, u) = {i}
          BY <3>1, <4>2 DEF RowsOfUser, GroupFits
        <5>2. Cardinality({i}) = 1
          BY FS_Singleton
        <5> QED
          BY <5>1, <5>2
      <4> QED
        BY <4>1, <4>2
    <3> QED
      BY <3>1, <3>2 DEF GroupFits
  <2> QED
    BY <2>1, <2>2 DEF CatalogueHolds
<1> QED
  BY <1>1, CatalogueInvariant, PTL

-----------------------------------------------------------------------------
\* A commit that did not race leaves the group within the package's limit.
LEMMA BookingsFitLimit ==
  ASSUME CatalogueInv, CatalogueInv', NEW s \in Slots, CommitBooking(s), ~crossed',
         NEW g \in DOMAIN groups'
  PROVE  Cardinality(Active(g)') <= pkg'.max
<1> DEFINE j == job[s]
<1>1. Commit(s) /\ UNCHANGED pkg /\ j.kind = "book" /\ Checked(j)
  BY DEF CommitBooking, Commit, CatalogueInv, JobsChecked
<1>2. groups \in Seq(GroupRec) /\ pkg \in PackageRow /\ pkg.max \in Nat \ {0} /\ pkg = j.pkg
  BY <1>1, NothingCrossed, CatalogueAssumption DEF CatalogueInv, CatalogueTables, PackageRow
<1>3. groups'[g].size = Cardinality(Active(g)')
  BY DEF CatalogueInv, GroupsFit, GroupFits, Active, In
<1>4. Len(groups') <= 1 /\ groups' \in Seq(GroupRec)
  BY DEF CatalogueInv, GroupsFit, CatalogueTables
<1>5. g = 1
  BY <1>4
<1>6. groups'[g].size <= pkg.max
  <2>1. CASE j.g = 0
    <3>1. groups = <<>> /\ groups' = Append(groups, [size |-> 1, rows |-> <<NewMember(j.user, 0)>>])
      BY <1>1, <2>1, NothingCrossed DEF CommitBooking
    <3> QED
      BY <1>2, <1>5, <3>1
  <2>2. CASE j.g # 0
    <3>1. /\ j.g \in DOMAIN groups /\ j.row \in GroupRec /\ j.row.size < pkg.max
          /\ DOMAIN groups' = DOMAIN groups
      BY <1>1, <1>2, <2>2 DEF Checked, CommitBooking
    <3>2. j.g = g
      BY <1>2, <1>4, <1>5, <3>1
    <3>3. groups[g] \in GroupRec
      BY <1>2, <3>1, <3>2
    <3>4. groups'[g].size = j.row.size + 1
      BY <2>2, <3>1, <3>2, <3>3 DEF CommitBooking, GroupRec
    <3>5. j.row.size \in Nat
      BY <3>1 DEF GroupRec
    <3> QED
      BY <1>2, <3>1, <3>4, <3>5
  <2> QED
    BY <2>1, <2>2
<1> QED
  BY <1>1, <1>3, <1>6

\* A group only loses rows when a member leaves.
LEMMA LeavingShrinks ==
  ASSUME CatalogueInv, NEW s \in Slots, CommitLeaving(s)
  PROVE  /\ DOMAIN groups' = DOMAIN groups
         /\ \A g \in DOMAIN groups : Cardinality(Active(g)') <= Cardinality(Active(g))
<1> DEFINE j == job[s]
<1>1. j.kind = "leave" /\ groups \in Seq(GroupRec) /\ Checked(j)
  BY DEF CommitLeaving, Commit, CatalogueInv, CatalogueTables, JobsChecked
<1>2. j.g \in DOMAIN groups /\ j.arg \in DOMAIN groups[j.g].rows
  BY <1>1 DEF Checked
<1>3. DOMAIN groups' = DOMAIN groups
  BY DEF CommitLeaving
<1>4. ASSUME NEW g \in DOMAIN groups PROVE Cardinality(Active(g)') <= Cardinality(Active(g))
  <2>0. groups[g] \in GroupRec
    BY <1>1
  <2>1. groups[g] \in GroupRec /\ groups[g].rows \in Seq(Member)
    BY <2>0 DEF GroupRec
  <2>2. Active(g) = In(groups[g].rows) /\ IsFiniteSet(Active(g)) /\ Cardinality(Active(g)) \in Nat
    BY <2>1, InIsFinite DEF Active, In
  <2>3. Active(g)' \subseteq Active(g)
    <3>1. CASE g # j.g
      BY <1>3, <3>1 DEF CommitLeaving, Active
    <3>2. CASE g = j.g
      <4>1. groups'[g].rows = [groups[g].rows EXCEPT ![j.arg].in = FALSE]
        BY <1>1, <2>1, <3>2 DEF CommitLeaving, GroupRec
      <4>2. \A i \in DOMAIN groups[g].rows : groups[g].rows[i] \in Member
        BY <2>1
      <4> QED
        BY SMTT(30), <1>2, <3>2, <4>1, <4>2 DEF Active, Member
    <3> QED
      BY <3>1, <3>2
  <2> QED
    BY <2>2, <2>3, FS_Subset
<1> QED
  BY <1>3, <1>4

\* NoOverbooking: a group grows only within the limit its package has at that
\* moment, unless the booking was decided on rows that changed under it.
THEOREM BookingsStayWithinLimit == CatalogueSpec => NoOverbooking
<1> DEFINE Within == \A g \in DOMAIN groups' :
       Cardinality(Active(g)') > (IF g \in DOMAIN groups THEN Cardinality(Active(g)) ELSE 0)
         => Cardinality(Active(g)') <= pkg'.max
<1>1. ASSUME CatalogueInv, CatalogueInv', [CatalogueNext]_catalogueVars, ~crossed' PROVE Within
  <2>0. \A g \in DOMAIN groups : Cardinality(Active(g)) \in Nat
    <3> SUFFICES ASSUME NEW g \in DOMAIN groups PROVE Cardinality(Active(g)) \in Nat
      OBVIOUS
    <3>0. groups[g] \in GroupRec
      BY <1>1 DEF CatalogueInv, CatalogueTables
    <3>1. groups[g].rows \in Seq(Member)
      BY <3>0 DEF GroupRec
    <3>2. Active(g) = In(groups[g].rows)
      BY DEF Active, In
    <3> QED
      BY <3>1, <3>2, InIsFinite
  <2>1. CASE groups' = groups
    <3>1. \A g \in DOMAIN groups' : Active(g)' = Active(g)
      BY <2>1 DEF Active
    <3> QED
      BY <2>0, <2>1, <3>1
  <2>2. ASSUME NEW s \in Slots, CommitBooking(s) PROVE Within
    BY <1>1, <2>2, BookingsFitLimit
  <2>3. ASSUME NEW s \in Slots, CommitLeaving(s) PROVE Within
    <3>1. \A g \in DOMAIN groups' : Cardinality(Active(g)') \in Nat
      <4> SUFFICES ASSUME NEW g \in DOMAIN groups' PROVE Cardinality(Active(g)') \in Nat
        OBVIOUS
      <4>0. groups'[g] \in GroupRec
        BY <1>1 DEF CatalogueInv, CatalogueTables
      <4>1. groups'[g].rows \in Seq(Member)
        BY <4>0 DEF GroupRec
      <4>2. Active(g)' = In(groups'[g].rows)
        BY DEF Active, In
      <4> QED
        BY <4>1, <4>2, InIsFinite
    <3> QED
      BY <1>1, <2>0, <2>3, <3>1, LeavingShrinks
  <2>4. CASE UNCHANGED catalogueVars
    BY <2>1, <2>4 DEF catalogueVars
  <2>5. CASE CatalogueNext
    BY <2>1, <2>2, <2>3, <2>5 DEF CatalogueNext, CreatePackage, UpdatePackage, PublishPackage, BookPackage,
       LeaveGroup, LoadRows, InvalidateDetail, Abandon, CommitUpdatePackage, CommitPublishPackage,
       FirstCapture, ReadMiss, SetCached, TtlExpires
  <2> QED
    BY <1>1, <2>4, <2>5
<1>2. CatalogueInv /\ CatalogueInv' /\ [CatalogueNext]_catalogueVars => [crossed' \/ Within]_catalogueVars
  BY <1>1
<1> QED
  BY <1>2, CatalogueInvariant, PTL DEF CatalogueSpec, NoOverbooking

=============================================================================
