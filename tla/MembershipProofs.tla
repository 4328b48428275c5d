-------------------------- MODULE MembershipProofs --------------------------
(* What holds of Membership for every set of users, any number of requests  *)
(* in progress and any number of rows.  The inductive invariant says what a *)
(* request that no departure of an owner has overtaken may still rely on:   *)
(* an owner other than the member it is about to demote or remove.          *)
EXTENDS Membership, FiniteSetTheorems, TLAPS

USE MembershipAssumption

(* What the request in progress is about, and when there can be one. *)
JobsOK ==
    \A c \in Clients :
        /\ job[c].at # "idle" => org # "none" /\ job[c].actor \in Rows
        /\ job[c].at \in {"count", "write"} /\ job[c].op \in {"update", "remove"} =>
              /\ job[c].target \in Rows
              /\ job[c].op = "update" => job[c].role \in Roles
              /\ job[c].op = "remove" => job[c].role = NoRole
        /\ job[c].at = "count" => job[c].op \in {"update", "remove"}
        /\ job[c].at = "write" /\ job[c].op = "add" =>
              job[c].target \in Users /\ job[c].role \in Roles

(* An organization that exists or existed has its first row. *)
FirstRow == org # "none" => rows >= 1

(* Another owner than member i. *)
OtherOwner(i) == \E j \in Owners : j # i

(* A request that saw its caller, or the member it changes, not to be an    *)
(* owner, or that has counted two, leaves an owner unless it is overtaken.  *)
StillOwned ==
    \A c \in Clients :
        org = "live" /\ ~raced /\ ~job[c].overtaken =>
            /\ job[c].at = "read" /\ job[c].actorRole # "owner" => OtherOwner(job[c].actor)
            /\ job[c].at = "write" /\ job[c].op \in {"update", "remove"}
                  /\ job[c].role # "owner" => OtherOwner(job[c].target)

Inv ==
    /\ TypeOK /\ OneRowPerUser /\ OwnerlessOnlyByOverlap
    /\ JobsOK /\ FirstRow /\ StillOwned

-----------------------------------------------------------------------------
(* Two owners at least: there is one beside any member. *)
LEMMA TwoOwners ==
    ASSUME NEW i, ~(Cardinality(Owners) <= 1)
    PROVE  OtherOwner(i)
<1> SUFFICES ASSUME ~OtherOwner(i) PROVE FALSE
  OBVIOUS
<1>1. Owners \in SUBSET {i}
  BY DEF OtherOwner
<1>2. IsFiniteSet({i}) /\ Cardinality({i}) = 1
  BY FS_Singleton
<1>3. Cardinality(Owners) <= 1
  BY <1>1, <1>2, FS_Subset
<1> QED
  BY <1>3

(* Inv holds initially. *)
LEMMA InitInv == Init => Inv
<1> SUFFICES ASSUME Init PROVE Inv
  OBVIOUS
<1>1. TypeOK
  <2>1. InTable = {} /\ roleOf \in [Rows -> Roles \cup {NoRole}]
    BY DEF Init, InTable
  <2>2. userOf \in [Rows -> Users] /\ rows \in 0..MaxRows
    BY DEF Init
  <2>3. Idle \in Jobs
    BY DEF Jobs, Idle
  <2>4. job \in [Clients -> Jobs]
    BY <2>3 DEF Init
  <2> QED BY <2>1, <2>2, <2>4 DEF Init, TypeOK
<1>2. OneRowPerUser /\ OwnerlessOnlyByOverlap /\ JobsOK /\ FirstRow /\ StillOwned
  BY DEF Init, OneRowPerUser, OwnerlessOnlyByOverlap, JobsOK, FirstRow, StillOwned,
         InTable, Idle
<1> QED
  BY <1>1, <1>2 DEF Inv

(* INSERT gives an unused row to its user and leaves the others alone. *)
LEMMA InsertRows ==
    ASSUME Inv, NEW u \in Users, NEW role \in Roles, Insert(u, role)
    PROVE  /\ rows' = rows + 1 /\ rows' \in Rows /\ rows' \notin InTable
           /\ userOf' \in [Rows -> Users] /\ roleOf' \in [Rows -> Roles \cup {NoRole}]
           /\ InTable' = InTable \cup {rows'} /\ userOf'[rows'] = u
           /\ \A i \in InTable : userOf'[i] = userOf[i]
           /\ Owners \subseteq Owners' /\ (role = "owner" => rows' \in Owners')
<1> USE DEF Inv, TypeOK, Insert, Rows
<1>1. rows' = rows + 1 /\ rows' \in Rows /\ rows' \notin 1..rows
  OBVIOUS
<1>2. userOf' \in [Rows -> Users] /\ roleOf' \in [Rows -> Roles \cup {NoRole}]
  BY <1>1
<1>3. InTable' = InTable \cup {rows'}
  BY <1>1 DEF InTable, Roles, NoRole
<1>4. Owners \subseteq Owners' /\ (role = "owner" => rows' \in Owners')
  BY <1>1 DEF Owners, InTable, NoRole
<1> QED
  BY <1>1, <1>2, <1>3, <1>4 DEF InTable

(* Inv is preserved by create_organization. *)
LEMMA CreateInv ==
    ASSUME Inv, NEW u \in Users, Create(u)
    PROVE  Inv'
<1> USE DEF Inv, Create
<1>0. Insert(u, "owner") /\ "owner" \in Roles
  BY DEF Roles
<1> HIDE DEF Inv
<1>9. /\ rows' = rows + 1 /\ rows' \in Rows /\ rows' \notin InTable
      /\ userOf' \in [Rows -> Users] /\ roleOf' \in [Rows -> Roles \cup {NoRole}]
      /\ InTable' = InTable \cup {rows'} /\ rows' \in Owners'
  BY <1>0, InsertRows
<1> USE DEF Inv
<1>1. TypeOK'
  BY <1>9 DEF TypeOK, Rows
<1>2. OneRowPerUser' /\ OwnerlessOnlyByOverlap' /\ FirstRow'
  BY <1>9 DEF TypeOK, OneRowPerUser, OwnerlessOnlyByOverlap, FirstRow
<1>3. JobsOK' /\ StillOwned'
  <2>1. \A c \in Clients : job[c].at = "idle"
    BY DEF JobsOK
  <2> QED BY <2>1 DEF JobsOK, StillOwned
<1> QED
  BY <1>1, <1>2, <1>3 DEF Inv

(* What a step of client c that writes nothing must show: its own job.      *)
LEMMA QuietStep ==
    ASSUME Inv, NEW c \in Clients, NEW j \in Jobs, job' = [job EXCEPT ![c] = j],
           UNCHANGED <<org, userOf, roleOf, rows, notices, read, raced>>,
           JobsOK',
           org = "live" /\ ~raced /\ ~j.overtaken =>
              /\ j.at = "read" /\ j.actorRole # "owner" => OtherOwner(j.actor)
              /\ j.at = "write" /\ j.op \in {"update", "remove"} /\ j.role # "owner" =>
                    OtherOwner(j.target)
    PROVE  Inv'
<1> USE DEF Inv
<1>1. TypeOK'
  BY DEF TypeOK, InTable
<1>2. OneRowPerUser' /\ OwnerlessOnlyByOverlap' /\ FirstRow'
  BY DEF OneRowPerUser, OwnerlessOnlyByOverlap, FirstRow, InTable, Owners
<1>3. StillOwned'
  <2> SUFFICES ASSUME NEW d \in Clients, org = "live", ~raced, ~job'[d].overtaken
               PROVE  /\ job'[d].at = "read" /\ job'[d].actorRole # "owner" =>
                            OtherOwner(job'[d].actor)
                      /\ job'[d].at = "write" /\ job'[d].op \in {"update", "remove"}
                            /\ job'[d].role # "owner" => OtherOwner(job'[d].target)
    BY DEF StillOwned, OtherOwner, Owners
  <2>1. CASE d = c
    BY <2>1 DEF TypeOK
  <2>2. CASE d # c
    BY <2>2 DEF TypeOK, StillOwned
  <2> QED BY <2>1, <2>2
<1> QED
  BY <1>1, <1>2, <1>3 DEF Inv

(* Inv is preserved by the permission check. *)
LEMMA AuthorizeInv ==
    ASSUME Inv, NEW c \in Clients, Authorize(c)
    PROVE  Inv'
<1>1. PICK i \in InTable, op \in {"add", "update", "remove", "delete"} :
         Set(c, [Idle EXCEPT !.at = IF op = "delete" THEN "write" ELSE "read",
                             !.op = op, !.actor = i, !.actorRole = roleOf[i]])
  BY DEF Authorize
<1> DEFINE j == [Idle EXCEPT !.at = IF op = "delete" THEN "write" ELSE "read",
                             !.op = op, !.actor = i, !.actorRole = roleOf[i]]
<1>2. i \in Rows /\ roleOf[i] \in Roles /\ org = "live"
  BY DEF Inv, TypeOK, InTable, NoRole
<1>3. /\ j.at = (IF op = "delete" THEN "write" ELSE "read") /\ j.op = op /\ j.actor = i
      /\ j.actorRole = roleOf[i] /\ j.overtaken = FALSE /\ j.role = NoRole
  BY DEF Idle
<1>4. j \in Jobs
  BY <1>2 DEF Jobs, Idle, Roles, NoRole
<1>5. job' = [job EXCEPT ![c] = j]
  BY <1>1 DEF Set
<1> HIDE DEF j
<1>6. JobsOK'
  <2>1. UNCHANGED org
    BY DEF Authorize
  <2> QED BY <1>2, <1>3, <1>5, <2>1 DEF Inv, TypeOK, JobsOK
<1>7. ~raced /\ roleOf[i] # "owner" => OtherOwner(i)
  BY <1>2 DEF Inv, OwnerlessOnlyByOverlap, OtherOwner, Owners
<1> QED
  BY <1>3, <1>4, <1>5, <1>6, <1>7, QuietStep DEF Authorize

(* Inv is preserved by the reads of add_member. *)
LEMMA ReadAddInv ==
    ASSUME Inv, NEW c \in Clients, ReadAdd(c)
    PROVE  Inv'
<1>1. PICK u \in Users, r \in Roles :
         Set(c, [job[c] EXCEPT !.at = "write", !.target = u, !.role = r])
  BY DEF ReadAdd
<1> DEFINE j == [job[c] EXCEPT !.at = "write", !.target = u, !.role = r]
<1>0. job[c] \in Jobs
  BY DEF Inv, TypeOK
<1>2. /\ j.at = "write" /\ j.op = "add" /\ j.target = u /\ j.role = r
      /\ j.actor = job[c].actor /\ j.overtaken = job[c].overtaken
  BY <1>0 DEF ReadAdd, Jobs
<1>3. j \in Jobs
  BY <1>0 DEF Jobs
<1>4. job' = [job EXCEPT ![c] = j]
  BY <1>1 DEF Set
<1> HIDE DEF j
<1>5. JobsOK'
  BY <1>2, <1>4 DEF Inv, TypeOK, JobsOK, ReadAdd, At
<1> QED
  BY <1>2, <1>3, <1>4, <1>5, QuietStep DEF ReadAdd

(* Inv is preserved by the read of the target: unless the role of owner was *)
(* seen, the owner that there must be is somebody else.                     *)
LEMMA ReadMemberInv ==
    ASSUME Inv, NEW c \in Clients, ReadMember(c)
    PROVE  Inv'
<1>0. job[c] \in Jobs /\ job[c].at = "read" /\ job[c].op \in {"update", "remove"}
  BY DEF Inv, TypeOK, ReadMember, At
<1>1. PICK i \in InTable \cup {job[c].actor},
           r \in (IF job[c].op = "update" THEN Roles ELSE {NoRole}) :
         Set(c, [job[c] EXCEPT !.target = i, !.role = r, !.seen = SeenRole(c, i),
                   !.at = IF SeenRole(c, i) = "owner" /\ r # "owner" THEN "count" ELSE "write"])
  BY DEF ReadMember
<1> DEFINE s == SeenRole(c, i)
           j == [job[c] EXCEPT !.target = i, !.role = r, !.seen = s,
                    !.at = IF s = "owner" /\ r # "owner" THEN "count" ELSE "write"]
<1>2. i \in Rows /\ org # "none"
  BY <1>0 DEF Inv, JobsOK, InTable
<1>3. s \in Roles \cup {NoRole}
  BY <1>0, <1>2 DEF Inv, TypeOK, SeenRole, Jobs
<1>4. /\ j.at = (IF s = "owner" /\ r # "owner" THEN "count" ELSE "write")
      /\ j.op = job[c].op /\ j.target = i /\ j.role = r /\ j.seen = s
      /\ j.actor = job[c].actor /\ j.overtaken = job[c].overtaken
  BY <1>0 DEF Jobs
<1>5. j \in Jobs
  BY <1>0, <1>2, <1>3 DEF Jobs
<1>6. job' = [job EXCEPT ![c] = j]
  BY <1>1 DEF Set
<1>7. ASSUME org = "live", ~raced, ~job[c].overtaken, s # "owner"
      PROVE  OtherOwner(i)
  <2>1. CASE i = job[c].actor
    <3>1. job[c].actorRole # "owner"
      BY <2>1, <1>7 DEF SeenRole
    <3> QED BY <3>1, <2>1, <1>7, <1>0 DEF Inv, StillOwned
  <2>2. CASE i # job[c].actor
    <3>1. roleOf[i] # "owner" /\ Owners # {}
      BY <2>2, <1>7 DEF SeenRole, Inv, OwnerlessOnlyByOverlap
    <3> QED BY <3>1 DEF OtherOwner, Owners
  <2> QED BY <2>1, <2>2
<1> HIDE DEF j, s
<1>8. JobsOK'
  BY <1>0, <1>1, <1>2, <1>4, <1>6 DEF Inv, TypeOK, JobsOK, ReadMember
<1>9. /\ j.at # "read"
      /\ j.at = "write" /\ j.role # "owner" => s # "owner"
  BY <1>4
<1> QED
  BY <1>4, <1>5, <1>6, <1>7, <1>8, <1>9, QuietStep DEF ReadMember

(* Inv is preserved by the count of owners. *)
LEMMA CountInv ==
    ASSUME Inv, NEW c \in Clients, Count(c)
    PROVE  Inv'
<1>0. job[c] \in Jobs /\ job[c].at = "count"
  BY DEF Inv, TypeOK, Count, At
<1>1. CASE Cardinality(Owners) <= 1
  <2>1. Idle \in Jobs /\ Idle.at = "idle"
    BY DEF Jobs, Idle
  <2>2. job' = [job EXCEPT ![c] = Idle]
    BY <1>1 DEF Count, Set
  <2>3. JobsOK'
    BY <2>1, <2>2 DEF Inv, TypeOK, JobsOK, Count
  <2> QED BY <2>1, <2>2, <2>3, QuietStep DEF Count
<1>2. CASE ~(Cardinality(Owners) <= 1)
  <2> DEFINE j == [job[c] EXCEPT !.at = "write"]
  <2>1. /\ j \in Jobs /\ j.at = "write" /\ j.op = job[c].op /\ j.target = job[c].target
        /\ j.role = job[c].role /\ j.actor = job[c].actor
    BY <1>0 DEF Jobs
  <2>2. job' = [job EXCEPT ![c] = j]
    BY <1>2 DEF Count, Set
  <2> HIDE DEF j
  <2>3. OtherOwner(j.target)
    BY <1>2, TwoOwners
  <2>4. JobsOK'
    BY <1>0, <2>1, <2>2 DEF Inv, TypeOK, JobsOK, Count
  <2> QED BY <2>1, <2>2, <2>3, <2>4, QuietStep DEF Count
<1> QED
  BY <1>1, <1>2
(* Inv is preserved by the cancellation of a request. *)
LEMMA AbortInv ==
    ASSUME Inv, NEW c \in Clients, Abort(c)
    PROVE  Inv'
<1>1. Idle \in Jobs /\ Idle.at = "idle"
  BY DEF Jobs, Idle
<1>2. job' = [job EXCEPT ![c] = Idle]
  BY DEF Abort, Set
<1>3. JobsOK'
  BY <1>1, <1>2 DEF Inv, TypeOK, JobsOK, Abort
<1> QED BY <1>1, <1>2, <1>3, QuietStep DEF Abort

(* Inv is preserved by marking notifications as read. *)
LEMMA MarkInv ==
    ASSUME Inv, NEW u \in Users, MarkRead(u) \/ MarkAllRead(u)
    PROVE  Inv'
<1> USE DEF Inv
<1>1. UNCHANGED <<org, userOf, roleOf, rows, notices, job, raced>>
  BY DEF MarkRead, MarkAllRead
<1>2. read' \subseteq notices
  <2>1. read \subseteq notices /\ NoticesOf(u) \subseteq notices
    BY DEF TypeOK, NoticesOf
  <2>2. CASE MarkRead(u)
    <3>1. PICK i \in NoticesOf(u) : read' = read \cup {i}
      BY <2>2 DEF MarkRead
    <3> QED BY <2>1, <3>1
  <2>3. CASE MarkAllRead(u)
    BY <2>1, <2>3 DEF MarkAllRead
  <2> QED BY <2>2, <2>3
<1>3. TypeOK'
  BY <1>1, <1>2 DEF TypeOK, InTable
<1>4. OneRowPerUser' /\ OwnerlessOnlyByOverlap' /\ FirstRow' /\ JobsOK' /\ StillOwned'
  BY <1>1 DEF OneRowPerUser, OwnerlessOnlyByOverlap, FirstRow, JobsOK, StillOwned, OtherOwner,
     InTable, Owners
<1> QED
  BY <1>3, <1>4 DEF Inv

(* When the request of c ends, the others keep what they have read, and     *)
(* those in progress are overtaken if it took the role of an owner away.    *)
LEMMA EndJobs ==
    ASSUME Inv, NEW c \in Clients, NEW departed \in BOOLEAN, End(c, departed),
           org' # "none" \/ org = "none"
    PROVE  /\ job' \in [Clients -> Jobs] /\ raced' \in BOOLEAN
           /\ job'[c].at = "idle"
           /\ \A d \in Clients \ {c} :
                 /\ job'[d].at = job[d].at /\ job'[d].op = job[d].op
                 /\ job'[d].actor = job[d].actor /\ job'[d].actorRole = job[d].actorRole
                 /\ job'[d].target = job[d].target /\ job'[d].role = job[d].role
                 /\ ~job'[d].overtaken =>
                       ~job[d].overtaken /\ (departed => job[d].at = "idle")
           /\ raced' <=> raced \/ (departed /\ job[c].overtaken)
           /\ JobsOK'
<1> USE DEF Inv, TypeOK
<1> DEFINE late(d) == job[d].overtaken \/ (departed /\ job[d].at # "idle")
<1>1. \A d \in Clients : job[d] \in Jobs /\ job[d].overtaken \in BOOLEAN
  BY DEF Jobs
<1>2. job' = [d \in Clients |-> IF d = c THEN Idle ELSE [job[d] EXCEPT !.overtaken = late(d)]]
  BY DEF End
<1>3. Idle \in Jobs /\ Idle.at = "idle"
  BY DEF Jobs, Idle
<1>4. \A d \in Clients : late(d) \in BOOLEAN
  BY <1>1
<1>5. ASSUME NEW d \in Clients \ {c}
      PROVE  /\ job'[d] \in Jobs
             /\ job'[d].at = job[d].at /\ job'[d].op = job[d].op
             /\ job'[d].actor = job[d].actor /\ job'[d].actorRole = job[d].actorRole
             /\ job'[d].target = job[d].target /\ job'[d].role = job[d].role
             /\ job'[d].overtaken = late(d)
  <2>1. PICK l \in BOOLEAN : l = late(d)
    BY <1>4
  <2>2. job'[d] = [job[d] EXCEPT !.overtaken = l]
    BY <1>2, <2>1
  <2>3. job[d] \in Jobs
    BY <1>1
  <2> HIDE DEF late
  <2>4. job'[d] \in Jobs /\ job'[d].overtaken = l
    BY <2>2, <2>3 DEF Jobs
  <2>5. /\ job'[d].at = job[d].at /\ job'[d].op = job[d].op
        /\ job'[d].actor = job[d].actor /\ job'[d].actorRole = job[d].actorRole
        /\ job'[d].target = job[d].target /\ job'[d].role = job[d].role
    BY <2>2, <2>3 DEF Jobs
  <2> QED BY <2>1, <2>4, <2>5
<1>6. job'[c] = Idle
  BY <1>2
<1>7. job' \in [Clients -> Jobs]
  <2>1. \A d \in Clients : job'[d] \in Jobs
    BY <1>3, <1>5, <1>6
  <2> QED BY <2>1, <1>2
<1>8. raced' \in BOOLEAN /\ (raced' <=> raced \/ (departed /\ job[c].overtaken))
  BY <1>1 DEF End
<1>9. \A d \in Clients \ {c} :
         ~job'[d].overtaken => ~job[d].overtaken /\ (departed => job[d].at = "idle")
  BY <1>5
<1>10. JobsOK'
  BY <1>3, <1>5, <1>6 DEF JobsOK
<1> QED
  BY <1>3, <1>5, <1>6, <1>7, <1>8, <1>9, <1>10

(* A write that takes no owner away leaves the others what they rely on.    *)
LEMMA KeptOwners ==
    ASSUME Inv, NEW c \in Clients, End(c, FALSE), Owners \subseteq Owners' \/ org' # "live",
           org' \in {org, "deleted"}
    PROVE  StillOwned' /\ OwnerlessOnlyByOverlap'
<1> USE DEF Inv
<1>0. /\ job'[c].at = "idle"
      /\ \A d \in Clients \ {c} :
            /\ job'[d].at = job[d].at /\ job'[d].op = job[d].op
            /\ job'[d].actor = job[d].actor /\ job'[d].actorRole = job[d].actorRole
            /\ job'[d].target = job[d].target /\ job'[d].role = job[d].role
            /\ ~job'[d].overtaken => ~job[d].overtaken
      /\ raced' <=> raced
  BY EndJobs
<1>1. StillOwned'
  BY <1>0 DEF StillOwned, OtherOwner
<1>2. OwnerlessOnlyByOverlap'
  BY <1>0 DEF OwnerlessOnlyByOverlap
<1> QED BY <1>1, <1>2
(* Inv is preserved by the INSERT of a member. *)
LEMMA WriteAddInv ==
    ASSUME Inv, NEW c \in Clients, WriteAdd(c)
    PROVE  Inv'
<1> DEFINE u == job[c].target
           r == job[c].role
<1>0. u \in Users /\ r \in Roles /\ UNCHANGED <<org, read>> /\ End(c, FALSE)
  BY DEF WriteAdd, At, Inv, JobsOK
<1>1. job' \in [Clients -> Jobs] /\ raced' \in BOOLEAN /\ JobsOK'
  BY <1>0, EndJobs
<1>2. CASE org = "live" /\ ~Member(u)
  <2>1. Insert(u, r) /\ Notify(rows')
    BY <1>2 DEF WriteAdd
  <2>2. /\ rows' = rows + 1 /\ rows' \in Rows /\ rows' \notin InTable
        /\ userOf' \in [Rows -> Users] /\ roleOf' \in [Rows -> Roles \cup {NoRole}]
        /\ InTable' = InTable \cup {rows'} /\ userOf'[rows'] = u
        /\ \A i \in InTable : userOf'[i] = userOf[i]
        /\ Owners \subseteq Owners'
    BY <1>0, <2>1, InsertRows
  <2>3. StillOwned' /\ OwnerlessOnlyByOverlap'
    BY <1>0, <2>2, KeptOwners
  <2>4. rows >= 1 /\ rows \in 0..MaxRows
    BY <1>2 DEF Inv, FirstRow, TypeOK
  <2>5. TypeOK' /\ FirstRow'
    <3>1. InTable' \subseteq 1..rows'
      BY <2>2, <2>4 DEF Inv, TypeOK
    <3>2. notices' \subseteq 2..rows' /\ read' \subseteq notices'
      <4>1. notices \subseteq 2..rows' /\ rows' \in 2..rows'
        BY <2>2, <2>4 DEF Inv, TypeOK
      <4> QED BY <4>1, <2>1, <1>0 DEF Notify, Inv, TypeOK
    <3>3. rows' \in 0..MaxRows /\ rows' >= 1
      BY <2>2, <2>4 DEF Rows
    <3> QED BY <1>0, <1>1, <1>2, <2>2, <3>1, <3>2, <3>3 DEF Inv, TypeOK, FirstRow
  <2>6. OneRowPerUser'
    <3>1. \A i \in InTable : userOf[i] # u
      BY <1>2 DEF Member
    <3> QED BY <2>2, <3>1 DEF Inv, OneRowPerUser
  <2> QED BY <1>1, <2>3, <2>5, <2>6 DEF Inv
<1>3. CASE ~(org = "live" /\ ~Member(u))
  <2>1. UNCHANGED <<userOf, roleOf, rows, notices>>
    BY <1>3 DEF WriteAdd
  <2>2. StillOwned' /\ OwnerlessOnlyByOverlap'
    BY <1>0, <2>1, KeptOwners DEF Owners
  <2>3. TypeOK' /\ FirstRow' /\ OneRowPerUser'
    BY <1>0, <1>1, <2>1 DEF Inv, TypeOK, FirstRow, OneRowPerUser, InTable
  <2> QED BY <1>1, <2>2, <2>3 DEF Inv
<1> QED
  BY <1>2, <1>3

(* Inv is preserved by the UPDATE or DELETE of a member: one that takes an  *)
(* owner away, and is not overtaken itself, leaves another.                 *)
LEMMA WriteMemberInv ==
    ASSUME Inv, NEW c \in Clients, WriteMember(c)
    PROVE  Inv'
<1> DEFINE i == job[c].target
           r == job[c].role
           hit == roleOf[i] # NoRole /\ r # job[c].seen
           departed == hit /\ roleOf[i] = "owner" /\ r # "owner"
<1>0. /\ i \in Rows /\ r \in Roles \cup {NoRole}
      /\ job[c].at = "write" /\ job[c].op \in {"update", "remove"}
  BY DEF WriteMember, At, Inv, JobsOK
<1>1. /\ UNCHANGED <<org, userOf, rows, notices, read>>
      /\ roleOf' = IF hit THEN [roleOf EXCEPT ![i] = r] ELSE roleOf
      /\ End(c, departed)
  BY DEF WriteMember
<1>2. /\ job' \in [Clients -> Jobs] /\ raced' \in BOOLEAN /\ job'[c].at = "idle"
      /\ \A d \in Clients \ {c} :
            /\ job'[d].at = job[d].at /\ job'[d].op = job[d].op
            /\ job'[d].actor = job[d].actor /\ job'[d].actorRole = job[d].actorRole
            /\ job'[d].target = job[d].target /\ job'[d].role = job[d].role
            /\ ~job'[d].overtaken => ~job[d].overtaken /\ (departed => job[d].at = "idle")
      /\ raced' <=> raced \/ (departed /\ job[c].overtaken)
      /\ JobsOK'
  <2> HIDE DEF departed
  <2>1. departed \in BOOLEAN
    BY DEF departed
  <2> QED BY <1>1, <2>1, EndJobs
<1>3. /\ roleOf' \in [Rows -> Roles \cup {NoRole}] /\ InTable' \subseteq InTable
      /\ roleOf[i] # NoRole \/ roleOf' = roleOf
      /\ \A j \in Rows : j # i => roleOf'[j] = roleOf[j]
  BY <1>0, <1>1 DEF Inv, TypeOK, InTable
<1>4. TypeOK' /\ FirstRow' /\ OneRowPerUser'
  BY <1>1, <1>2, <1>3 DEF Inv, TypeOK, FirstRow, OneRowPerUser
<1>5. CASE ~departed
  <2>1. Owners \subseteq Owners'
    BY <1>0, <1>1, <1>5 DEF Inv, TypeOK, Owners
  <2>2. StillOwned' /\ OwnerlessOnlyByOverlap'
    <3>1. End(c, FALSE)
      BY <1>1, <1>5 DEF End
    <3> QED BY <1>1, <2>1, <3>1, KeptOwners
  <2> QED BY <1>2, <1>4, <2>2 DEF Inv
<1>6. CASE departed
  <2>1. StillOwned'
    BY <1>2, <1>6 DEF StillOwned
  <2>2. OwnerlessOnlyByOverlap'
    <3> SUFFICES ASSUME org = "live", ~raced' PROVE Owners' # {}
      BY <1>1 DEF OwnerlessOnlyByOverlap
    <3>1. ~raced /\ ~job[c].overtaken
      BY <1>2, <1>6
    <3>2. PICK j \in Owners : j # i
      BY <1>0, <1>6, <3>1 DEF Inv, StillOwned, OtherOwner
    <3> QED BY <1>3, <3>2 DEF Owners
  <2> QED BY <1>2, <1>4, <2>1, <2>2 DEF Inv
<1> QED
  BY <1>5, <1>6

(* Inv is preserved by delete_organization. *)
LEMMA WriteDeleteInv ==
    ASSUME Inv, NEW c \in Clients, WriteDelete(c)
    PROVE  Inv'
<1>0. /\ org' = "deleted" /\ roleOf' = [i \in Rows |-> NoRole] /\ End(c, FALSE)
      /\ UNCHANGED <<userOf, rows, notices, read>>
  BY DEF WriteDelete
<1>1. job' \in [Clients -> Jobs] /\ raced' \in BOOLEAN /\ JobsOK'
  BY <1>0, EndJobs
<1>2. StillOwned' /\ OwnerlessOnlyByOverlap'
  BY <1>0, KeptOwners
<1>3. InTable' = {}
  BY <1>0 DEF InTable
<1>4. TypeOK' /\ OneRowPerUser'
  BY <1>0, <1>1, <1>3 DEF Inv, TypeOK, OneRowPerUser
<1>5. FirstRow'
  <2>1. org # "none"
    BY DEF WriteDelete, At, Inv, JobsOK
  <2> QED BY <1>0, <2>1 DEF Inv, FirstRow
<1> QED
  BY <1>1, <1>2, <1>4, <1>5 DEF Inv

(* The invariant survives every step. *)
LEMMA NextInv == Inv /\ [Next]_vars => Inv'
<1> SUFFICES ASSUME Inv, [Next]_vars PROVE Inv'
  OBVIOUS
<1>1. ASSUME NEW u \in Users, Create(u) \/ MarkRead(u) \/ MarkAllRead(u) PROVE Inv'
  BY <1>1, CreateInv, MarkInv
<1>2. ASSUME NEW c \in Clients, Step(c) PROVE Inv'
  BY <1>2, AuthorizeInv, ReadAddInv, ReadMemberInv, CountInv, WriteAddInv, WriteMemberInv,
     WriteDeleteInv, AbortInv DEF Step
<1>3. CASE UNCHANGED vars
  BY <1>3 DEF vars, Inv, TypeOK, OneRowPerUser, OwnerlessOnlyByOverlap, JobsOK, FirstRow,
     StillOwned, OtherOwner, InTable, Owners
<1> QED
  BY <1>1, <1>2, <1>3 DEF Next

(* The inductive invariant holds in every reachable state. *)
LEMMA Invariance == Spec => []Inv
  BY InitInv, NextInv, PTL DEF Spec

-----------------------------------------------------------------------------
(* The variables have their types, an organization that is deleted keeps no *)
(* members, and only members that were added are notified.                  *)
THEOREM MembershipTypes == Spec => []TypeOK
<1>1. Inv => TypeOK
  BY DEF Inv
<1> QED
  BY Invariance, <1>1, PTL

(* However many requests add members at once, a user has one row.           *)
THEOREM MembersUnique == Spec => []OneRowPerUser
<1>1. Inv => OneRowPerUser
  BY DEF Inv
<1> QED
  BY Invariance, <1>1, PTL

(* The check of the last owner fails only for requests that overlap the     *)
(* departure of another owner, whatever the numbers of members and          *)
(* requests.                                                                *)
THEOREM LastOwnerStays == Spec => []OwnerlessOnlyByOverlap
<1>1. Inv => OwnerlessOnlyByOverlap
  BY DEF Inv
<1> QED
  BY Invariance, <1>1, PTL
=============================================================================
