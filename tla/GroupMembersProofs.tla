---- MODULE GroupMembersProofs ----
(***************************************************************************)
(* What holds of one group for any set of travellers and any capacity: its *)
(* type, its active creator and its headcount. The lemmas on the           *)
(* membership handlers are what TripPaymentsProofs builds on.              *)
(***************************************************************************)
EXTENDS GroupMembers, FiniteSetTheorems, TLAPS

(* A traveller has a role exactly when it has a row.                       *)
RolesMatchRows == \A u \in Travellers : role[u] = "NONE" <=> member[u] = "NONE"

(* Nobody is counted before the group has a member.                        *)
EmptyIsUncounted == ~GroupExists => size = 0

GroupInv ==
    /\ GroupTypeOK
    /\ RolesMatchRows
    /\ EmptyIsUncounted
    /\ CreatorIsActive
    /\ SizeNeverOvercounts

----------------------------------------------------------------------------
(* How the headcount follows the member rows.                              *)

(* Whoever is active is a traveller, so the headcount is a number.         *)
LEMMA HeadcountIsFinite ==
    IsFiniteSet(Headcount) /\ Cardinality(Headcount) \in Nat
<1>1. IsFiniteSet(Travellers)
    BY GroupAssumption
<1>2. Headcount \in SUBSET Travellers
    BY DEF Headcount
<1>3. IsFiniteSet(Headcount)
    BY <1>1, <1>2, FS_Subset
<1> QED
    BY <1>3, FS_CardinalityType

(* A traveller who becomes active adds one.                                *)
LEMMA HeadcountGrows ==
    ASSUME GroupTypeOK, NEW u \in Travellers, NEW s \in ActiveMember,
           member[u] \notin ActiveMember, member' = [member EXCEPT ![u] = s]
    PROVE  Cardinality(Headcount') = Cardinality(Headcount) + 1
<1>1. Headcount' = Headcount \cup {u}
    BY DEF GroupTypeOK, Headcount
<1>2. u \notin Headcount
    BY DEF Headcount
<1> QED
    BY <1>1, <1>2, HeadcountIsFinite, FS_AddElement

(* A traveller who becomes inactive takes one away.                        *)
LEMMA HeadcountShrinks ==
    ASSUME GroupTypeOK, NEW u \in Travellers, NEW s,
           s \notin ActiveMember, member[u] \in ActiveMember,
           member' = [member EXCEPT ![u] = s]
    PROVE  /\ Cardinality(Headcount) \in Nat \ {0}
           /\ Cardinality(Headcount') = Cardinality(Headcount) - 1
<1>1. Headcount' = Headcount \ {u}
    BY DEF GroupTypeOK, Headcount
<1>2. u \in Headcount
    BY DEF Headcount
<1>3. Headcount # {}
    BY <1>2
<1>4. Cardinality(Headcount) # 0
    BY <1>3, HeadcountIsFinite, FS_EmptySet
<1> QED
    BY <1>1, <1>2, <1>4, HeadcountIsFinite, FS_RemoveElement

(* Approving or committing a row never takes one away.                     *)
LEMMA HeadcountKeeps ==
    ASSUME GroupTypeOK, NEW u \in Travellers, NEW s,
           s \in ActiveMember \/ s = member[u],
           member' = [member EXCEPT ![u] = s]
    PROVE  Cardinality(Headcount) <= Cardinality(Headcount')
<1>1. Headcount \in SUBSET (Headcount')
    BY DEF GroupTypeOK, Headcount
<1>2. Headcount' \in SUBSET Travellers
    BY DEF Headcount
<1>3. IsFiniteSet(Headcount')
    BY <1>2, GroupAssumption, FS_Subset
<1> QED
    BY <1>1, <1>3, FS_Subset

----------------------------------------------------------------------------
(* The group accept_offer makes, or none yet.                              *)
LEMMA GroupInvInit == GroupInit => GroupInv
<1> SUFFICES ASSUME GroupInit
             PROVE  GroupInv
    OBVIOUS
<1>1. CASE HasPlan
    <2>1. PICK creator \in Travellers :
            /\ member = [u \in Travellers |-> IF u = creator THEN "APPROVED" ELSE "NONE"]
            /\ role = [u \in Travellers |-> IF u = creator THEN "CREATOR" ELSE "NONE"]
            /\ size = 1
            /\ trip = [k \in Kinds |-> IF k = "plan" THEN "CONFIRMED" ELSE "CONFIRMING"]
        BY <1>1 DEF GroupInit, PlanGroupInit
    <2>2. GroupTypeOK
        BY <2>1 DEF GroupTypeOK, MemberStatus, TripStatus
    <2>3. RolesMatchRows /\ GroupExists /\ CreatorIsActive
        BY <2>1 DEF RolesMatchRows, GroupExists, CreatorIsActive, ActiveMember
    <2>4. Headcount = {creator}
        BY <2>1 DEF Headcount, ActiveMember
    <2>5. SizeNeverOvercounts
        BY <2>1, <2>4, FS_Singleton DEF SizeNeverOvercounts
    <2> QED
        BY <2>2, <2>3, <2>5 DEF GroupInv, EmptyIsUncounted
<1>2. CASE ~HasPlan
    <2>1. PackageInit
        BY <1>2 DEF GroupInit
    <2>2. GroupTypeOK
        BY <2>1 DEF PackageInit, GroupTypeOK, MemberStatus, TripStatus
    <2>3. RolesMatchRows /\ EmptyIsUncounted /\ CreatorIsActive
        BY <2>1 DEF PackageInit, RolesMatchRows, EmptyIsUncounted, GroupExists, CreatorIsActive
    <2>4. SizeNeverOvercounts
        BY <2>1, HeadcountIsFinite DEF PackageInit, SizeNeverOvercounts
    <2> QED
        BY <2>2, <2>3, <2>4 DEF GroupInv
<1> QED
    BY <1>1, <1>2

(* book_package, join_group and invite_member: a traveller enters.         *)
LEMMA EnteringKeepsGroupInv ==
    ASSUME GroupInv, NEW u \in Travellers, NEW s \in ActiveMember,
           NEW r \in {"CREATOR", "MEMBER"},
           member[u] \notin ActiveMember,
           Enrol(u, s, r), size' = size + 1, trip' = trip,
           ~GroupExists => r = "CREATOR"
    PROVE  GroupInv'
<1>1. GroupTypeOK'
    BY DEF GroupInv, GroupTypeOK, Enrol, ActiveMember, MemberStatus
<1>2. RolesMatchRows'
    BY DEF GroupInv, GroupTypeOK, RolesMatchRows, Enrol, ActiveMember
<1>3. EmptyIsUncounted'
    BY DEF GroupInv, GroupTypeOK, EmptyIsUncounted, GroupExists, Enrol, ActiveMember
<1>4. CreatorIsActive'
    <2>1. CASE GroupExists
        <3>1. PICK c \in Travellers : role[c] = "CREATOR" /\ member[c] \in ActiveMember
            BY <2>1 DEF GroupInv, CreatorIsActive
        <3>2. c # u
            BY <3>1
        <3>3. role'[c] = "CREATOR" /\ member'[c] \in ActiveMember
            BY <3>1, <3>2 DEF GroupInv, GroupTypeOK, Enrol
        <3> QED
            BY <3>3 DEF CreatorIsActive
    <2>2. CASE ~GroupExists
        <3>1. role[u] = "NONE"
            BY <2>2 DEF GroupInv, RolesMatchRows, GroupExists
        <3>2. role'[u] = "CREATOR" /\ member'[u] \in ActiveMember
            BY <2>2, <3>1 DEF GroupInv, GroupTypeOK, Enrol
        <3> QED
            BY <3>2 DEF CreatorIsActive
    <2> QED
        BY <2>1, <2>2
<1>5. SizeNeverOvercounts'
    <2>1. Cardinality(Headcount') = Cardinality(Headcount) + 1
        BY HeadcountGrows DEF GroupInv, Enrol
    <2> QED
        BY <2>1, HeadcountIsFinite DEF GroupInv, GroupTypeOK, SizeNeverOvercounts
<1> QED
    BY <1>1, <1>2, <1>3, <1>4, <1>5 DEF GroupInv

(* leave_group and remove_member: a traveller who is not the creator goes. *)
LEMMA LeavingKeepsGroupInv ==
    ASSUME GroupInv, NEW u \in Travellers, NEW s \in {"LEFT", "REMOVED"},
           member[u] \in ActiveMember, role[u] # "CREATOR",
           member' = [member EXCEPT ![u] = s], ShrinkBy1, role' = role, trip' = trip
    PROVE  GroupInv'
<1>1. GroupTypeOK'
    BY DEF GroupInv, GroupTypeOK, ShrinkBy1, MemberStatus
<1>2. RolesMatchRows'
    BY DEF GroupInv, GroupTypeOK, RolesMatchRows, ActiveMember
<1>3. GroupExists /\ GroupExists'
    BY DEF GroupInv, GroupTypeOK, GroupExists, ActiveMember
<1>4. CreatorIsActive'
    BY <1>3 DEF GroupInv, GroupTypeOK, CreatorIsActive
<1>5. SizeNeverOvercounts'
    <2>1. /\ Cardinality(Headcount) \in Nat \ {0}
          /\ Cardinality(Headcount') = Cardinality(Headcount) - 1
        BY HeadcountShrinks DEF GroupInv, ActiveMember
    <2> QED
        BY <2>1 DEF GroupInv, GroupTypeOK, SizeNeverOvercounts, ShrinkBy1
<1> QED
    BY <1>1, <1>2, <1>3, <1>4, <1>5 DEF GroupInv, EmptyIsUncounted

(* approve_member and the finalization of a capture: a row that exists     *)
(* becomes active or stays as it is, whatever happens to the trip.         *)
LEMMA ActivatingKeepsGroupInv ==
    ASSUME GroupInv, NEW u \in Travellers, NEW s,
           (s \in {"APPROVED", "COMMITTED"} /\ member[u] # "NONE") \/ s = member[u],
           member' = [member EXCEPT ![u] = s], role' = role, size' = size,
           trip' \in [Kinds -> TripStatus]
    PROVE  GroupInv'
<1>1. GroupTypeOK'
    BY DEF GroupInv, GroupTypeOK, MemberStatus
<1>2. RolesMatchRows'
    BY DEF GroupInv, GroupTypeOK, RolesMatchRows
<1>3. GroupExists' => GroupExists
    BY DEF GroupInv, GroupTypeOK, GroupExists
<1>4. GroupExists => GroupExists'
    BY DEF GroupInv, GroupTypeOK, GroupExists
<1>5. CreatorIsActive'
    BY <1>3 DEF GroupInv, GroupTypeOK, CreatorIsActive, ActiveMember
<1>6. SizeNeverOvercounts'
    <2>1. Cardinality(Headcount) <= Cardinality(Headcount')
        BY HeadcountKeeps DEF GroupInv, ActiveMember
    <2>2. IsFiniteSet(Headcount')
        BY GroupAssumption, FS_Subset DEF Headcount
    <2>3. Cardinality(Headcount') \in Nat
        BY <2>2, FS_CardinalityType
    <2> QED
        BY <2>1, <2>3, HeadcountIsFinite DEF GroupInv, GroupTypeOK, SizeNeverOvercounts
<1> QED
    BY <1>1, <1>2, <1>4, <1>5, <1>6 DEF GroupInv, EmptyIsUncounted

(* Only the trip moves.                                                    *)
LEMMA TripKeepsGroupInv ==
    ASSUME GroupInv, UNCHANGED <<member, role, size>>, trip' \in [Kinds -> TripStatus]
    PROVE  GroupInv'
    BY DEF GroupInv, GroupTypeOK, RolesMatchRows, EmptyIsUncounted, GroupExists,
           CreatorIsActive, SizeNeverOvercounts, Headcount

(* Every membership handler keeps the invariant of the group.              *)
LEMMA MembershipKeepsGroupInv ==
    ASSUME GroupInv, MembershipStep
    PROVE  GroupInv'
<1>1. ASSUME NEW u \in Travellers, BookPackage(u)
      PROVE  GroupInv'
    <2>1. ~GroupExists => size = 0
        BY DEF GroupInv, EmptyIsUncounted
    <2> QED
        BY <1>1, <2>1, EnteringKeepsGroupInv DEF BookPackage, ActiveMember
<1>2. ASSUME NEW u \in Travellers, JoinGroup(u)
      PROVE  GroupInv'
    BY <1>2, EnteringKeepsGroupInv DEF JoinGroup, ActiveMember
<1>3. ASSUME NEW u \in Travellers, LeaveGroup(u)
      PROVE  GroupInv'
    BY <1>3, LeavingKeepsGroupInv DEF LeaveGroup
<1>4. ASSUME NEW u \in Travellers, ApproveMember(u)
      PROVE  GroupInv'
    BY <1>4, ActivatingKeepsGroupInv DEF ApproveMember, GroupInv, GroupTypeOK
<1>5. ASSUME NEW u \in Travellers, RemoveMember(u)
      PROVE  GroupInv'
    BY <1>5, LeavingKeepsGroupInv DEF RemoveMember
<1>6. ASSUME NEW u \in Travellers, InviteMember(u)
      PROVE  GroupInv'
    <2>1. GroupExists
        BY <1>6 DEF InviteMember, HasCreator, GroupInv, RolesMatchRows, GroupExists
    <2> QED
        BY <1>6, <2>1, EnteringKeepsGroupInv DEF InviteMember, ActiveMember
<1>7. CASE PublishPackage
    BY <1>7, TripKeepsGroupInv DEF PublishPackage, GroupInv, GroupTypeOK, TripStatus
<1> QED
    BY <1>1, <1>2, <1>3, <1>4, <1>5, <1>6, <1>7 DEF MembershipStep

----------------------------------------------------------------------------
(* The group on its own, for every set of travellers and every capacity.   *)
THEOREM GroupIsSound == GroupSpec => []GroupInv
<1>1. GroupInit => GroupInv
    BY GroupInvInit
<1>2. GroupInv /\ [GroupNext]_groupVars => GroupInv'
    <2> SUFFICES ASSUME GroupInv, [GroupNext]_groupVars
                 PROVE  GroupInv'
        OBVIOUS
    <2>1. CASE MembershipStep
        BY <2>1, MembershipKeepsGroupInv
    <2>2. ASSUME NEW u \in Travellers, CommitMember(u)
          PROVE  GroupInv'
        BY <2>2, ActivatingKeepsGroupInv DEF CommitMember, GroupInv, GroupTypeOK
    <2>3. CASE TripMoves
        BY <2>3, TripKeepsGroupInv DEF TripMoves, GroupInv, GroupTypeOK
    <2>4. CASE UNCHANGED groupVars
        BY <2>4, TripKeepsGroupInv DEF groupVars, GroupInv, GroupTypeOK
    <2> QED
        BY <2>1, <2>2, <2>3, <2>4 DEF GroupNext
<1> QED
    BY <1>1, <1>2, PTL DEF GroupSpec
====
