----------------------------- MODULE Membership -----------------------------
(* One organization and its members (app/services/organization.py with the  *)
(* permission check of app/api/deps.py).  A request is one transaction at   *)
(* READ COMMITTED and each of its queries is a step: the permission check,  *)
(* the read of the target, the count of owners, and the write with its      *)
(* commit.  A refused request is rolled back and leaves nothing.            *)
EXTENDS Integers, FiniteSets

CONSTANTS
    Users,
    Clients,  \* requests in progress at a time
    MaxRows   \* bound: rows ever inserted into organization_members

ASSUME MembershipAssumption == MaxRows \in Nat \ {0}

Rows == 1..MaxRows

VARIABLES
    org,     \* "none", "live" or "deleted"
    userOf,  \* userOf[i]: user_id of row i, once inserted
    roleOf,  \* roleOf[i]: role of row i, or NoRole if it is not in the table
    rows,    \* rows inserted so far
    notices, \* the rows whose user has a member.added notification
    read,    \* the notifications with read_at set
    job,     \* job[c]: the request of c and what it has read
    raced    \* for the properties: an owner was demoted or removed by a request that
             \* was in progress when another was

vars == <<org, userOf, roleOf, rows, notices, read, job, raced>>

Roles == {"owner", "admin", "developer", "viewer"}
NoRole == "none"

(* ROLE_PERMISSIONS for the operations that change the organization. *)
Permits(role, op) == role = "owner" \/ (role = "admin" /\ op # "delete")

InTable == {i \in Rows : roleOf[i] # NoRole}
Owners == {i \in Rows : roleOf[i] = "owner"}
Member(u) == \E i \in InTable : userOf[i] = u

Idle == [at |-> "idle", op |-> "none", actor |-> 0, actorRole |-> NoRole, target |-> 0,
         role |-> NoRole, seen |-> NoRole, overtaken |-> FALSE]

Init ==
    /\ org = "none"
    /\ \E u \in Users : userOf = [i \in Rows |-> u]
    /\ roleOf = [i \in Rows |-> NoRole]
    /\ rows = 0
    /\ notices = {} /\ read = {}
    /\ job = [c \in Clients |-> Idle]
    /\ raced = FALSE

(* INSERT of a row for user u. *)
Insert(u, role) ==
    /\ rows < MaxRows
    /\ rows' = rows + 1
    /\ userOf' = [userOf EXCEPT ![rows'] = u]
    /\ roleOf' = [roleOf EXCEPT ![rows'] = role]

(* create_organization commits the organization with its first owner. *)
Create(u) ==
    /\ org = "none"
    /\ org' = "live"
    /\ Insert(u, "owner")
    /\ UNCHANGED <<notices, read, job, raced>>

-----------------------------------------------------------------------------
At(c, place) == job[c].at = place
Set(c, j) == job' = [job EXCEPT ![c] = j]

(* require_permission reads the caller's row; his role is not read again.   *)
(* delete_organization has nothing else to read.                            *)
Authorize(c) ==
    /\ At(c, "idle")
    /\ \E i \in InTable, op \in {"add", "update", "remove", "delete"} :
          /\ Permits(roleOf[i], op)
          /\ Set(c, [Idle EXCEPT !.at = IF op = "delete" THEN "write" ELSE "read",
                                 !.op = op, !.actor = i, !.actorRole = roleOf[i]])
    /\ UNCHANGED <<org, userOf, roleOf, rows, notices, read, raced>>

(* add_member: the user is registered and not a member yet. *)
ReadAdd(c) ==
    /\ At(c, "read") /\ job[c].op = "add"
    /\ \E u \in Users, r \in Roles :
          /\ ~Member(u)
          /\ Set(c, [job[c] EXCEPT !.at = "write", !.target = u, !.role = r])
    /\ UNCHANGED <<org, userOf, roleOf, rows, notices, read, raced>>

(* The target's role as the session has it: the caller's own row is in its  *)
(* identity map since the permission check and is not read again.           *)
SeenRole(c, i) == IF i = job[c].actor THEN job[c].actorRole ELSE roleOf[i]

(* _get_member for update_member_role and remove_member.  Only taking the   *)
(* role of owner away needs the count.                                      *)
ReadMember(c) ==
    /\ At(c, "read") /\ job[c].op \in {"update", "remove"}
    /\ \E i \in InTable \cup {job[c].actor},
          r \in (IF job[c].op = "update" THEN Roles ELSE {NoRole}) :
          LET seen == SeenRole(c, i)
          IN  Set(c, [job[c] EXCEPT !.target = i, !.role = r, !.seen = seen,
                         !.at = IF seen = "owner" /\ r # "owner" THEN "count" ELSE "write"])
    /\ UNCHANGED <<org, userOf, roleOf, rows, notices, read, raced>>

(* Faulty variant: the last owner may go. *)
CountNone(c) ==
    /\ At(c, "count")
    /\ Set(c, IF Cardinality(Owners) < 1 THEN Idle ELSE [job[c] EXCEPT !.at = "write"])
    /\ UNCHANGED <<org, userOf, roleOf, rows, notices, read, raced>>

(* count_with_role: the last owner is neither demoted nor removed. *)
Count(c) ==
    /\ At(c, "count")
    /\ Set(c, IF Cardinality(Owners) <= 1 THEN Idle ELSE [job[c] EXCEPT !.at = "write"])
    /\ UNCHANGED <<org, userOf, roleOf, rows, notices, read, raced>>

(* The request of c ends.  If it has taken the role of an owner away, the   *)
(* other requests in progress are overtaken.                                *)
End(c, departed) ==
    /\ job' = [d \in Clients |->
          IF d = c THEN Idle
          ELSE [job[d] EXCEPT !.overtaken = @ \/ (departed /\ job[d].at # "idle")]]
    /\ raced' = (raced \/ (departed /\ job[c].overtaken))

(* NotificationService.create, in the transaction of add_member. *)
Notify(i) == notices' = notices \cup {i}

(* Faulty variant: no unique constraint on organization and user. *)
WriteAddTwice(c) ==
    /\ At(c, "write") /\ job[c].op = "add"
    /\ IF org = "live"
       THEN Insert(job[c].target, job[c].role) /\ Notify(rows')
       ELSE UNCHANGED <<userOf, roleOf, rows, notices>>
    /\ End(c, FALSE)
    /\ UNCHANGED <<org, read>>

(* The row and its notification are inserted, unless the organization is    *)
(* gone (foreign key) or the user has become a member (uq_member_org_user). *)
WriteAdd(c) ==
    /\ At(c, "write") /\ job[c].op = "add"
    /\ IF org = "live" /\ ~Member(job[c].target)
       THEN Insert(job[c].target, job[c].role) /\ Notify(rows')
       ELSE UNCHANGED <<userOf, roleOf, rows, notices>>
    /\ End(c, FALSE)
    /\ UNCHANGED <<org, read>>

(* UPDATE or DELETE of the target by its id.  The UPDATE is left out when   *)
(* the role is the one read, and finds no row if it has been removed, which *)
(* raises; the DELETE then has nothing to do.                               *)
WriteMember(c) ==
    LET i == job[c].target
        hit == roleOf[i] # NoRole /\ job[c].role # job[c].seen
    IN  /\ At(c, "write") /\ job[c].op \in {"update", "remove"}
        /\ roleOf' = IF hit THEN [roleOf EXCEPT ![i] = job[c].role] ELSE roleOf
        /\ End(c, hit /\ roleOf[i] = "owner" /\ job[c].role # "owner")
        /\ UNCHANGED <<org, userOf, rows, notices, read>>

(* Faulty variant: members stay behind. *)
WriteDeleteAlone(c) ==
    /\ At(c, "write") /\ job[c].op = "delete"
    /\ org' = "deleted"
    /\ End(c, FALSE)
    /\ UNCHANGED <<userOf, roleOf, rows, notices, read>>

(* delete_organization removes the members too. *)
WriteDelete(c) ==
    /\ At(c, "write") /\ job[c].op = "delete"
    /\ org' = "deleted"
    /\ roleOf' = [i \in Rows |-> NoRole]
    /\ End(c, FALSE)
    /\ UNCHANGED <<userOf, rows, notices, read>>

(* The request is cancelled, or its process dies, before its commit. *)
Abort(c) ==
    /\ ~At(c, "idle")
    /\ Set(c, Idle)
    /\ UNCHANGED <<org, userOf, roleOf, rows, notices, read, raced>>

-----------------------------------------------------------------------------
(* A notification outlives the membership it tells of: it refers to its     *)
(* user only.  NotificationRepository.get_for_user finds it for him alone.  *)
NoticesOf(u) == {i \in notices : userOf[i] = u}

(* mark_read: a notification that is read already stays as it is. *)
MarkRead(u) ==
    /\ \E i \in NoticesOf(u) : read' = read \cup {i}
    /\ UNCHANGED <<org, userOf, roleOf, rows, notices, job, raced>>

(* mark_all_read: one UPDATE of what is there. *)
MarkAllRead(u) ==
    /\ read' = read \cup NoticesOf(u)
    /\ UNCHANGED <<org, userOf, roleOf, rows, notices, job, raced>>

Step(c) ==
    \/ Authorize(c) \/ ReadAdd(c) \/ ReadMember(c) \/ Count(c)
    \/ WriteAdd(c) \/ WriteMember(c) \/ WriteDelete(c) \/ Abort(c)

Next ==
    \/ \E u \in Users : Create(u) \/ MarkRead(u) \/ MarkAllRead(u)
    \/ \E c \in Clients : Step(c)

Spec == Init /\ [][Next]_vars

-----------------------------------------------------------------------------
Jobs == [at : {"idle", "read", "count", "write"},
         op : {"none", "add", "update", "remove", "delete"},
         actor : Rows \cup {0}, actorRole : Roles \cup {NoRole},
         target : Rows \cup Users \cup {0}, role : Roles \cup {NoRole},
         seen : Roles \cup {NoRole}, overtaken : BOOLEAN]

(* The types of all variables.  An organization that is not live has no     *)
(* members, whatever requests were in progress when it was deleted.         *)
TypeOK ==
    /\ org \in {"none", "live", "deleted"}
    /\ userOf \in [Rows -> Users]
    /\ roleOf \in [Rows -> Roles \cup {NoRole}]
    /\ rows \in 0..MaxRows
    /\ InTable \subseteq 1..rows
    /\ org # "live" => InTable = {}
    /\ notices \subseteq 2..rows /\ read \subseteq notices
    /\ job \in [Clients -> Jobs]
    /\ raced \in BOOLEAN

(* However additions overlap, a user is a member once: require_permission   *)
(* and the access token's orgs claim rely on it.                            *)
OneRowPerUser ==
    \A i, j \in InTable : userOf[i] = userOf[j] => i = j

(* A live organization loses its last owner only to requests that overlap:  *)
(* one that demotes or removes an owner although another did so after its   *)
(* permission check, the first read of a role that it goes by (it never     *)
(* reads the caller's own again).  No requests one by one do it.            *)
OwnerlessOnlyByOverlap ==
    org = "live" /\ Owners = {} => raced

(* services/organization.py: "never leaving an organization without an      *)
(* owner (can't demote/remove the last owner)".                             *)
HasOwner ==
    org = "live" => Owners # {}
=============================================================================
