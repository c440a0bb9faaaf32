---- MODULE GroupMembers ----
(***************************************************************************)
(* The membership of one travel group: who is in it, with which role, and  *)
(* the headcount the group row caches in current_size.                     *)
(*                                                                         *)
(* Source: src/app/api/v1/groups.py (join, leave, approve, remove,         *)
(* invite), services/packages.py (book_package, publish_package), and the  *)
(* group that services/offers.py creates when an offer is accepted.        *)
(*                                                                         *)
(* A handler runs in one database transaction, so each is one step here.   *)
(***************************************************************************)
EXTENDS Integers, FiniteSets

CONSTANTS
    Travellers,  \* the users who may ever deal with this group
    HasPlan,     \* TRUE: the group an accepted offer created (plan and package)
                 \* FALSE: the group of a catalogue package, made by book_package
    Corporate,   \* the plan's plan_type is CORPORATE
    SizeMax,     \* package.group_size_max; update_package may edit it, no run does
    IsLocked     \* group.is_locked: read by two guards, assigned nowhere in src/

ASSUME GroupAssumption ==
    /\ IsFiniteSet(Travellers)
    /\ HasPlan \in BOOLEAN
    /\ Corporate \in BOOLEAN
    /\ SizeMax \in Nat
    /\ IsLocked \in BOOLEAN

VARIABLES
    member,  \* GroupMember.status of each traveller, "NONE" without a row
    role,    \* GroupMember.role of each traveller, "NONE" without a row
    size,    \* group.current_size
    trip     \* status of the plan (if any) and of the package behind the group

groupVars == <<member, role, size, trip>>

MemberStatus == {"INTERESTED", "APPROVED", "COMMITTED", "LEFT", "REMOVED"}

(* groups.py counts a traveller who only asked to join as active;          *)
(* services/payments.py does not.                                          *)
ActiveMember == {"INTERESTED", "APPROVED", "COMMITTED"}
PayingMember == {"APPROVED", "COMMITTED"}

Kinds == IF HasPlan THEN {"plan", "package"} ELSE {"package"}
TripStatus == {"OPEN", "CONFIRMING", "CONFIRMED", "COMPLETED"}

GroupTypeOK ==
    /\ member \in [Travellers -> MemberStatus \cup {"NONE"}]
    /\ role \in [Travellers -> {"CREATOR", "MEMBER", "NONE"}]
    /\ size \in Nat
    /\ trip \in [Kinds -> TripStatus]

Headcount == {u \in Travellers : member[u] \in ActiveMember}

(* The group row exists from its first member on; member rows are never    *)
(* deleted.                                                                *)
GroupExists == \E u \in Travellers : member[u] # "NONE"
HasCreator == \E c \in Travellers : role[c] = "CREATOR"

(***************************************************************************)
(* accept_offer leaves a confirmed plan, a package that is confirming and  *)
(* a group that holds its creator; a published package has no group yet.   *)
(***************************************************************************)
PlanGroupInit ==
    \E creator \in Travellers :
        /\ member = [u \in Travellers |-> IF u = creator THEN "APPROVED" ELSE "NONE"]
        /\ role = [u \in Travellers |-> IF u = creator THEN "CREATOR" ELSE "NONE"]
        /\ size = 1
        /\ trip = [k \in Kinds |-> IF k = "plan" THEN "CONFIRMED" ELSE "CONFIRMING"]

PackageInit ==
    /\ member = [u \in Travellers |-> "NONE"]
    /\ role = [u \in Travellers |-> "NONE"]
    /\ size = 0
    /\ trip = [k \in Kinds |-> "OPEN"]

GroupInit == IF HasPlan THEN PlanGroupInit ELSE PackageInit

(* An INSERT of a member row, or the UPDATE of the row the traveller has.  *)
Enrol(u, status, newRole) ==
    /\ member' = [member EXCEPT ![u] = status]
    /\ role' = IF role[u] = "NONE" THEN [role EXCEPT ![u] = newRole] ELSE role

(* Mutant: the headcount without its floor at zero.                        *)
ShrinkBelowZero == size' = size - 1

ShrinkBy1 == size' = IF size > 0 THEN size - 1 ELSE 0

(* book_package: the only handler with a capacity guard. The first booker  *)
(* of a group that counts nobody becomes its creator.                      *)
BookPackage(u) ==
    /\ trip["package"] \in {"OPEN", "CONFIRMING"}
    /\ ~IsLocked
    /\ member[u] \notin ActiveMember
    /\ size < SizeMax
    /\ Enrol(u, "APPROVED", IF size = 0 THEN "CREATOR" ELSE "MEMBER")
    /\ size' = size + 1
    /\ UNCHANGED trip

(* join_group: no capacity guard. The group of a corporate plan is private.*)
JoinGroup(u) ==
    /\ GroupExists
    /\ ~IsLocked
    /\ member[u] \notin ActiveMember
    /\ ~(HasPlan /\ Corporate)
    /\ Enrol(u, "INTERESTED", "MEMBER")
    /\ size' = size + 1
    /\ UNCHANGED trip

(* Mutant: leaving does not touch the headcount.                           *)
LeaveGroupUncounted(u) ==
    /\ member[u] \in ActiveMember
    /\ role[u] # "CREATOR"
    /\ member' = [member EXCEPT ![u] = "LEFT"]
    /\ UNCHANGED <<role, size, trip>>

LeaveGroup(u) ==
    /\ member[u] \in ActiveMember
    /\ role[u] # "CREATOR"
    /\ member' = [member EXCEPT ![u] = "LEFT"]
    /\ ShrinkBy1
    /\ UNCHANGED <<role, trip>>

(* approve_member: from whatever status the row has, and without touching  *)
(* current_size. The creator may approve any row, its own included.        *)
ApproveMember(u) ==
    /\ HasCreator
    /\ member[u] # "NONE"
    /\ member' = [member EXCEPT ![u] = "APPROVED"]
    /\ UNCHANGED <<role, size, trip>>

(* Mutant: the creator may remove itself.                                  *)
RemoveAnyone(u) ==
    /\ HasCreator
    /\ member[u] \in ActiveMember
    /\ member' = [member EXCEPT ![u] = "REMOVED"]
    /\ ShrinkBy1
    /\ UNCHANGED <<role, trip>>

RemoveMember(u) ==
    /\ HasCreator
    /\ member[u] \in ActiveMember
    /\ role[u] # "CREATOR"
    /\ member' = [member EXCEPT ![u] = "REMOVED"]
    /\ ShrinkBy1
    /\ UNCHANGED <<role, trip>>

(* invite_member: neither a capacity guard nor a lock guard.               *)
InviteMember(u) ==
    /\ HasCreator
    /\ member[u] \notin ActiveMember
    /\ Enrol(u, "APPROVED", "MEMBER")
    /\ size' = size + 1
    /\ UNCHANGED trip

(* publish_package: the agency may put its package back to OPEN from any   *)
(* status.                                                                 *)
PublishPackage ==
    /\ trip' = [trip EXCEPT !["package"] = "OPEN"]
    /\ UNCHANGED <<member, role, size>>

MembershipStep ==
    \/ \E u \in Travellers :
        \/ BookPackage(u)
        \/ JoinGroup(u)
        \/ LeaveGroup(u)
        \/ ApproveMember(u)
        \/ RemoveMember(u)
        \/ InviteMember(u)
    \/ PublishPackage

(***************************************************************************)
(* What the payment handlers do to a group: the capture of a traveller's   *)
(* payment commits the member row, whatever its status, and the trip moves *)
(* on. TripPayments.tla has the handlers themselves.                       *)
(***************************************************************************)
CommitMember(u) ==
    /\ member[u] # "NONE"
    /\ member' = [member EXCEPT ![u] = "COMMITTED"]
    /\ UNCHANGED <<role, size, trip>>

TripMoves ==
    /\ \E k \in Kinds, s \in TripStatus \ {"OPEN"} : trip' = [trip EXCEPT ![k] = s]
    /\ UNCHANGED <<member, role, size>>

GroupNext ==
    \/ MembershipStep
    \/ \E u \in Travellers : CommitMember(u)
    \/ TripMoves

GroupSpec == GroupInit /\ [][GroupNext]_groupVars

----------------------------------------------------------------------------
(* A group that has members keeps an active creator: leave_group and       *)
(* remove_member refuse the creator's row, and no other handler makes it   *)
(* inactive, so approve, remove and invite always have someone to call     *)
(* them.                                                                   *)
CreatorIsActive ==
    GroupExists => \E c \in Travellers : role[c] = "CREATOR" /\ member[c] \in ActiveMember

(* current_size never reports more travellers than the group has: whatever *)
(* mix of leave, remove, approve, rejoin and late capture happened, the    *)
(* cached count is at most the number of active rows.                      *)
SizeNeverOvercounts == size <= Cardinality(Headcount)

(* packages.py:458-463, "capacity now needs its own explicit guard,        *)
(* covering both a brand-new join and an existing LEFT/REMOVED member      *)
(* rejoining": a booking never takes a group past group_size_max.          *)
BookingRespectsCapacity ==
    [][(\E u \in Travellers : BookPackage(u)) => Cardinality(Headcount') <= SizeMax]_groupVars
====
