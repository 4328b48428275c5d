----------------------------- MODULE Catalogue -----------------------------
(* The APIs of one organization with their version, quotas, rate-limit rule *)
(* and keys (app/services/api_catalog.py, app/services/api_key.py), and the *)
(* gateway requests that go by them.  A management request is one           *)
(* transaction at READ COMMITTED in two steps: it reads, then it writes and *)
(* commits.  What the session has read is not read again, and an UPDATE     *)
(* sets only the columns that differ from what was read.  A refused request *)
(* is rolled back and leaves nothing; it is not a step.                     *)
EXTENDS Integers, FiniteSets

CONSTANTS
    MaxRequests, \* bound: requests of any kind
    MaxTime,     \* bound: the clock, in hours
    Graces,      \* grace_period_hours of a rotation
    Lifetimes    \* lifetimes of a new key, in hours; Never for none

Never == 1000  \* expires_at IS NULL: later than any time the model reaches

ASSUME CatalogueAssumption ==
    /\ MaxRequests \in Nat /\ MaxTime \in Nat
    /\ Graces \subseteq 0..100 /\ Lifetimes \subseteq 1..100 \cup {Never}
    /\ MaxTime < 100

Requests == 1..MaxRequests
Ids == 0..MaxRequests  \* a row has the number of the request that inserted it, or 0
Slugs == 1..(MaxRequests + 1)  \* base, base-2, base-3, ... of one name
Periods == {"daily", "monthly"}
Rules == [requests : {1, 2}, window : {1, 2}]
Settings == {"update", "quotas", "rate"}

VARIABLES
    now,
    api,     \* api[a]: state ("none", "live", "deleted"), slug and is_active
    version, \* version[a]: the row of version v1, or NoVersion
    quotas,  \* quotas[a][p]: the row for period p, or NoRow
    rule,    \* rule[a]: the row of the rate-limit rule, or NoRule
    key,     \* key[k]: the row of API key k, or NoKey
    audit,   \* rows of audit_logs
    job,     \* job[r]: request r and what it has read
    unlogged,\* for the properties: the requests the upstream answered and whose log
             \* was lost, each as its API and whether it was aborted itself
    last,    \* for the properties: the last committed request for each setting
    crossed  \* for the properties: the keys with rotations that overlapped

vars == <<now, api, version, quotas, rule, key, audit, job, unlogged, last, crossed>>
tables == <<api, version, quotas, rule, key, audit>>
history == <<unlogged, last, crossed>>

NoRow == -1
NoVersion == [by |-> NoRow, active |-> FALSE]
NoQuotas == [p \in Periods |-> NoRow]
NoRule == [requests |-> 0, window |-> 0]
NoKey == [api |-> NoRow, expires |-> 0, revoked |-> FALSE, to |-> NoRow]
NoSet == [by |-> NoRow, ask |-> {}, stale |-> FALSE]
New == [at |-> "new", op |-> "none", api |-> 0, key |-> 0, ask |-> 0, seen |-> 0,
        stale |-> FALSE]

Live(a) == api[a].state = "live"
Keys == {k \in Ids : key[k] # NoKey}
Taken(s) == \E a \in Ids : Live(a) /\ api[a].slug = s

(* ApiKey.is_valid_at *)
Valid(k) == ~key[k].revoked /\ key[k].expires > now

(* An API with a version, two quotas and a key; its rule may be unset. *)
Init ==
    /\ now = 0
    /\ api = [a \in Ids |-> [state |-> IF a = 0 THEN "live" ELSE "none", slug |-> 1,
                             active |-> TRUE]]
    /\ version = [a \in Ids |-> IF a = 0 THEN [by |-> 0, active |-> TRUE] ELSE NoVersion]
    /\ quotas = [a \in Ids |-> IF a = 0 THEN [p \in Periods |-> 0] ELSE NoQuotas]
    /\ \E r \in {NoRule, [requests |-> 1, window |-> 1]} :
          rule = [a \in Ids |-> IF a = 0 THEN r ELSE NoRule]
    /\ key = [k \in Ids |-> IF k = 0 THEN [NoKey EXCEPT !.api = 0, !.expires = Never] ELSE NoKey]
    /\ audit = {}
    /\ job = [r \in Requests |-> New]
    /\ unlogged = {}
    /\ last = [a \in Ids |-> [s \in Settings |-> NoSet]]
    /\ crossed = {}

-----------------------------------------------------------------------------
(* The first step of a management request: get_api has found API a (and     *)
(* _get_key key k); `seen` is what the request has read and goes by.        *)
Read(r, op, a, k, ask, seen) ==
    /\ job[r].at = "new"
    /\ Live(a)
    /\ job' = [job EXCEPT ![r] = [at |-> "write", op |-> op, api |-> a, key |-> k,
                                  ask |-> ask, seen |-> seen, stale |-> FALSE]]
    /\ UNCHANGED <<now, tables, history>>

(* Request r commits, and those of the same kind for the same API and key   *)
(* that are in progress go by what is no longer there.                      *)
Commit(r) ==
    LET Overtaken(q) == /\ job[q].at = "write" /\ job[q].op = job[r].op
                        /\ job[q].api = job[r].api /\ job[q].key = job[r].key
    IN  job' = [q \in Requests |->
                  IF q = r THEN [New EXCEPT !.at = "done"]
                  ELSE [job[q] EXCEPT !.stale = @ \/ Overtaken(q)]]

(* Request r raises: its transaction is rolled back. *)
Rollback(r) ==
    /\ job' = [job EXCEPT ![r] = [New EXCEPT !.at = "done"]]
    /\ UNCHANGED <<now, tables, history>>

At(r, op) == job[r].at = "write" /\ job[r].op = op

Remember(r) ==
    last' = [last EXCEPT ![job[r].api][job[r].op] =
                [by |-> r, ask |-> job[r].ask, stale |-> job[r].stale]]

-----------------------------------------------------------------------------
(* create_api: _unique_slug tries one slug after the other. *)
BeginCreate(r) ==
    /\ job[r].at = "new"
    /\ job' = [job EXCEPT ![r] = [New EXCEPT !.at = "slug", !.op = "create", !.api = r,
                                             !.seen = 1]]
    /\ UNCHANGED <<now, tables, history>>

TrySlug(r) ==
    /\ job[r].at = "slug"
    /\ IF Taken(job[r].seen) THEN job' = [job EXCEPT ![r].seen = @ + 1]
       ELSE job' = [job EXCEPT ![r].at = "write"]
    /\ UNCHANGED <<now, tables, history>>

(* The INSERT, which uq_apis_org_slug refuses if the slug has been taken. *)
WriteCreate(r) ==
    /\ At(r, "create")
    /\ IF Taken(job[r].seen) THEN Rollback(r)
       ELSE /\ api' = [api EXCEPT ![r] = [state |-> "live", slug |-> job[r].seen,
                                          active |-> TRUE]]
            /\ Commit(r)
            /\ UNCHANGED <<now, version, quotas, rule, key, audit, history>>

ReadUpdate(r) ==
    \E a \in Ids, active \in BOOLEAN : Read(r, "update", a, 0, active, api[a].active)

(* update_api: no UPDATE if is_active is already what was read; one that    *)
(* finds no row raises.                                                     *)
WriteUpdate(r) ==
    LET j == job[r]
    IN  /\ At(r, "update")
        /\ IF j.ask # j.seen /\ ~Live(j.api) THEN Rollback(r)
           ELSE /\ api' = IF j.ask = j.seen THEN api
                          ELSE [api EXCEPT ![j.api].active = j.ask]
                /\ Commit(r) /\ Remember(r)
                /\ UNCHANGED <<now, version, quotas, rule, key, audit, unlogged, crossed>>

ReadDelete(r) ==
    \E a \in Ids : Read(r, "delete", a, 0, 0, 0)

(* ON DELETE CASCADE: the rows that refer to API a go with it. *)
Cascade(a) ==
    /\ version' = [version EXCEPT ![a] = NoVersion]
    /\ quotas' = [quotas EXCEPT ![a] = NoQuotas]
    /\ rule' = [rule EXCEPT ![a] = NoRule]
    /\ key' = [k \in Ids |-> IF key[k].api = a THEN NoKey ELSE key[k]]

(* delete_api; an API that has gone meanwhile is no error. *)
WriteDelete(r) ==
    /\ At(r, "delete")
    /\ api' = [api EXCEPT ![job[r].api].state = "deleted"]
    /\ Cascade(job[r].api)
    /\ Commit(r)
    /\ UNCHANGED <<now, audit, history>>

(* add_version finds no row for the version, active or not. *)
ReadAddVersion(r) ==
    \E a \in Ids, active \in BOOLEAN :
        version[a] = NoVersion /\ Read(r, "add_version", a, 0, active, 0)

(* The INSERT fails if the API is gone, or the version has been added.      *)
WriteAddVersion(r) ==
    LET a == job[r].api
    IN  /\ At(r, "add_version")
        /\ IF ~Live(a) \/ version[a] # NoVersion THEN Rollback(r)
           ELSE /\ version' = [version EXCEPT ![a] = [by |-> r, active |-> job[r].ask]]
                /\ Commit(r)
                /\ UNCHANGED <<now, api, quotas, rule, key, audit, history>>

ReadDeleteVersion(r) ==
    \E a \in Ids :
        version[a] # NoVersion /\ Read(r, "delete_version", a, 0, 0, version[a].by)

(* delete_version: a row that has gone meanwhile is no error. *)
WriteDeleteVersion(r) ==
    LET a == job[r].api
    IN  /\ At(r, "delete_version")
        /\ version' = IF version[a].by = job[r].seen THEN [version EXCEPT ![a] = NoVersion]
                      ELSE version
        /\ Commit(r)
        /\ UNCHANGED <<now, api, quotas, rule, key, audit, history>>

-----------------------------------------------------------------------------
ReadQuotas(r) ==
    \E a \in Ids, ask \in SUBSET Periods : Read(r, "quotas", a, 0, ask, quotas[a])

(* Faulty variant: the quotas that are not in the new set stay. *)
WriteQuotasMerge(r) ==
    LET a == job[r].api
    IN  /\ At(r, "quotas")
        /\ quotas' = IF Live(a)
                     THEN [quotas EXCEPT ![a] = [p \in Periods |->
                              IF p \in job[r].ask THEN r ELSE @[p]]]
                     ELSE quotas
        /\ Commit(r) /\ Remember(r)
        /\ UNCHANGED <<now, api, version, rule, key, audit, unlogged, crossed>>

(* set_quotas deletes the rows it has read and inserts the new set.  A row  *)
(* inserted meanwhile stays, and uq_quotas_api_period refuses one for the   *)
(* same period.                                                             *)
WriteQuotas(r) ==
    LET j == job[r]
        kept == {p \in Periods : quotas[j.api][p] \notin {NoRow, j.seen[p]}}
    IN  /\ At(r, "quotas")
        /\ IF j.ask # {} /\ (~Live(j.api) \/ kept \cap j.ask # {}) THEN Rollback(r)
           ELSE /\ quotas' = [quotas EXCEPT ![j.api] = [p \in Periods |->
                                IF p \in j.ask THEN r
                                ELSE IF p \in kept THEN @[p] ELSE NoRow]]
                /\ Commit(r) /\ Remember(r)
                /\ UNCHANGED <<now, api, version, rule, key, audit, unlogged, crossed>>

ReadRate(r) ==
    \E a \in Ids, ask \in Rules : Read(r, "rate", a, 0, ask, rule[a])

(* set_rate_limit inserts the rule if it found none, which the unique       *)
(* constraint refuses if there is one now, or updates the columns that      *)
(* differ from those it read.                                               *)
WriteRate(r) ==
    LET j == job[r]
    IN  /\ At(r, "rate")
        /\ IF j.ask # j.seen /\ (~Live(j.api) \/ (j.seen = NoRule /\ rule[j.api] # NoRule))
           THEN Rollback(r)
           ELSE /\ rule' = [rule EXCEPT ![j.api] = [c \in DOMAIN NoRule |->
                              IF j.ask[c] # j.seen[c] THEN j.ask[c] ELSE @[c]]]
                /\ Commit(r) /\ Remember(r)
                /\ UNCHANGED <<now, api, version, quotas, key, audit, unlogged, crossed>>

-----------------------------------------------------------------------------
(* AuditLogService.record, in the transaction of the operation it is about. *)
Audited(action, k, new) == audit' = audit \cup {[action |-> action, key |-> k, new |-> new]}

(* The row of a new key, which request r issues. *)
NewKey(a, lifetime) ==
    [NoKey EXCEPT !.api = a, !.expires = IF lifetime = Never THEN Never ELSE now + lifetime]

ReadCreateKey(r) ==
    \E a \in Ids, lifetime \in Lifetimes : Read(r, "create_key", a, 0, lifetime, 0)

(* Faulty variant: no foreign key to the API. *)
WriteCreateKeyUnchecked(r) ==
    /\ At(r, "create_key")
    /\ key' = [key EXCEPT ![r] = NewKey(job[r].api, job[r].ask)]
    /\ Audited("create", r, r)
    /\ Commit(r)
    /\ UNCHANGED <<now, api, version, quotas, rule, history>>

(* create_key and its audit row; the foreign key refuses a deleted API. *)
WriteCreateKey(r) ==
    /\ At(r, "create_key")
    /\ IF ~Live(job[r].api) THEN Rollback(r)
       ELSE /\ key' = [key EXCEPT ![r] = NewKey(job[r].api, job[r].ask)]
            /\ Audited("create", r, r)
            /\ Commit(r)
            /\ UNCHANGED <<now, api, version, quotas, rule, history>>

ReadRevoke(r) ==
    \E k \in Keys : Read(r, "revoke", key[k].api, k, 0, key[k].revoked)

(* Faulty variant: a revoked key is deleted. *)
WriteRevokeDelete(r) ==
    LET k == job[r].key
    IN  /\ At(r, "revoke")
        /\ key' = [key EXCEPT ![k] = NoKey]
        /\ Audited("revoke", k, k)
        /\ Commit(r)
        /\ UNCHANGED <<now, api, version, quotas, rule, history>>

(* revoke_key and its audit row.  A key read as revoked is left alone; the  *)
(* UPDATE of one that has gone with its API raises.                         *)
WriteRevoke(r) ==
    LET k == job[r].key
    IN  /\ At(r, "revoke")
        /\ IF ~job[r].seen /\ key[k] = NoKey THEN Rollback(r)
           ELSE /\ key' = IF job[r].seen THEN key ELSE [key EXCEPT ![k].revoked = TRUE]
                /\ Audited("revoke", k, k)
                /\ Commit(r)
                /\ UNCHANGED <<now, api, version, quotas, rule, history>>

ReadRotate(r) ==
    \E k \in Keys, grace \in Graces :
        ~key[k].revoked /\ Read(r, "rotate", key[k].api, k, grace, key[k].expires)

(* Faulty variant: the whole row is written as it was read. *)
RotatedWhole(old, r, grace, seen) ==
    [old EXCEPT
        !.revoked = (grace = 0),
        !.expires = IF grace # 0 /\ seen > now + grace THEN now + grace ELSE seen,
        !.to = r]

(* The old key after its rotation, as it is in the table: only revoked_at,  *)
(* expires_at and rotated_to may change.                                    *)
Rotated(old, r, grace, seen) ==
    [old EXCEPT
        !.revoked = @ \/ grace = 0,
        !.expires = IF grace # 0 /\ seen > now + grace THEN now + grace ELSE @,
        !.to = r]

(* The successor of a rotation never expires, whatever the old key did. *)
Issued(r) == NewKey(job[r].api, Never)

(* Faulty variant: the rotation is recorded without its new key. *)
WriteRotateUnnamed(r) ==
    LET k == job[r].key
    IN  /\ At(r, "rotate")
        /\ IF key[k] = NoKey THEN Rollback(r)
           ELSE /\ key' = [key EXCEPT ![r] = Issued(r),
                                      ![k] = Rotated(@, r, job[r].ask, job[r].seen)]
                /\ Audited("rotate", k, k)
                /\ crossed' = IF job[r].stale THEN crossed \cup {k} ELSE crossed
                /\ Commit(r)
                /\ UNCHANGED <<now, api, version, quotas, rule, unlogged, last>>

(* rotate_key: the successor is issued and the old key is given its grace;  *)
(* both fail if the API has gone.                                           *)
WriteRotate(r) ==
    LET k == job[r].key
    IN  /\ At(r, "rotate")
        /\ IF key[k] = NoKey THEN Rollback(r)
           ELSE /\ key' = [key EXCEPT ![r] = Issued(r),
                                      ![k] = Rotated(@, r, job[r].ask, job[r].seen)]
                /\ Audited("rotate", k, r)
                /\ crossed' = IF job[r].stale THEN crossed \cup {k} ELSE crossed
                /\ Commit(r)
                /\ UNCHANGED <<now, api, version, quotas, rule, unlogged, last>>

-----------------------------------------------------------------------------
(* A gateway request: authenticate finds a valid key of an active API; the  *)
(* slug in the path is the API's.                                           *)
Authenticate(r) ==
    /\ job[r].at = "new"
    /\ \E k \in Keys :
          /\ Valid(k) /\ api[key[k].api].active
          /\ job' = [job EXCEPT ![r] = [New EXCEPT !.at = "version", !.op = "gateway",
                                                   !.api = key[k].api, !.key = k]]
    /\ UNCHANGED <<now, tables, history>>

(* handle finds no active version, or goes on to the limits and upstream,   *)
(* which refuse the request (Abort) or answer it: module Gateway.        *)
ReadVersion(r) ==
    /\ job[r].at = "version"
    /\ version[job[r].api].active
    /\ job' = [job EXCEPT ![r].at = "log"]
    /\ UNCHANGED <<now, tables, history>>

(* The log of an answered request is lost. *)
Lost(r, aborted) == unlogged \cup {[api |-> job[r].api, aborted |-> aborted]}

(* RequestLogService.record: the usage row refers to the key, and the log   *)
(* is rolled back with it if the key has gone.                              *)
Log(r) ==
    /\ job[r].at = "log"
    /\ unlogged' = IF job[r].key \in Keys THEN unlogged ELSE Lost(r, FALSE)
    /\ job' = [job EXCEPT ![r] = [New EXCEPT !.at = "done"]]
    /\ UNCHANGED <<now, tables, last, crossed>>

(* The request is cancelled, its process dies, or its commit fails: its     *)
(* transaction is rolled back, and with it the log of an answer.            *)
Abort(r) ==
    /\ job[r].at \notin {"new", "done"}
    /\ unlogged' = IF job[r].at = "log" THEN Lost(r, TRUE) ELSE unlogged
    /\ job' = [job EXCEPT ![r] = [New EXCEPT !.at = "done"]]
    /\ UNCHANGED <<now, tables, last, crossed>>

Tick == now < MaxTime /\ now' = now + 1 /\ UNCHANGED <<tables, job, history>>

Manage(r) ==
    \/ BeginCreate(r) \/ TrySlug(r) \/ WriteCreate(r)
    \/ ReadUpdate(r) \/ WriteUpdate(r) \/ ReadDelete(r) \/ WriteDelete(r)
    \/ ReadAddVersion(r) \/ WriteAddVersion(r) \/ ReadDeleteVersion(r) \/ WriteDeleteVersion(r)
    \/ ReadQuotas(r) \/ WriteQuotas(r) \/ ReadRate(r) \/ WriteRate(r)

ManageKeys(r) ==
    \/ ReadCreateKey(r) \/ WriteCreateKey(r) \/ ReadRevoke(r) \/ WriteRevoke(r)
    \/ ReadRotate(r) \/ WriteRotate(r)

Proxy(r) == Authenticate(r) \/ ReadVersion(r) \/ Log(r)

Next == Tick \/ \E r \in Requests : Manage(r) \/ ManageKeys(r) \/ Proxy(r) \/ Abort(r)

Spec == Init /\ [][Next]_vars

-----------------------------------------------------------------------------
(* The types of all variables.  However creations overlap, a slug names one *)
(* API of the organization (the gateway tells by it whether a key is for    *)
(* the API in the path); and no row refers to an API that is not live,      *)
(* whatever was in progress when it was deleted.                            *)
TypeOK ==
    /\ now \in 0..MaxTime
    /\ api \in [Ids -> [state : {"none", "live", "deleted"}, slug : Slugs, active : BOOLEAN]]
    /\ version \in [Ids -> [by : Ids \cup {NoRow}, active : BOOLEAN]]
    /\ quotas \in [Ids -> [Periods -> Ids \cup {NoRow}]]
    /\ rule \in [Ids -> Rules \cup {NoRule}]
    /\ key \in [Ids -> [api : Ids \cup {NoRow}, expires : 0..Never, revoked : BOOLEAN,
                        to : Ids \cup {NoRow}]]
    /\ audit \subseteq [action : {"create", "revoke", "rotate"}, key : Ids, new : Ids]
    /\ \A r \in Requests :
          /\ job[r].at \in {"new", "slug", "write", "version", "log", "done"}
          /\ job[r].api \in Ids /\ job[r].key \in Ids
    /\ unlogged \subseteq [api : Ids, aborted : BOOLEAN] /\ crossed \subseteq Ids
    /\ \A a, b \in Ids : Live(a) /\ Live(b) /\ api[a].slug = api[b].slug => a = b
    /\ \A a \in Ids : ~Live(a) =>
          /\ version[a] = NoVersion /\ quotas[a] = NoQuotas /\ rule[a] = NoRule
          /\ \A k \in Keys : key[k].api # a

(* Each setting of an API (is_active, the full quota set, the rate-limit    *)
(* rule) is what the last committed request for it asked for, all of it and *)
(* nothing else, unless another request for the setting committed between   *)
(* its read and its write: then quota rows of both remain, columns of both  *)
(* are mixed in one rule, or a change that equals the old value is lost.    *)
LastSetRules ==
    \A a \in Ids, s \in Settings :
        LET l == last[a][s]
        IN  Live(a) /\ l.by # NoRow /\ ~l.stale =>
               CASE s = "update" -> api[a].active = l.ask
                 [] s = "quotas" -> quotas[a] = [p \in Periods |-> IF p \in l.ask THEN l.by
                                                                   ELSE NoRow]
                 [] s = "rate"   -> rule[a] = l.ask

(* What a key may do only shrinks: one that is revoked stays so, also when  *)
(* a rotation that read it before writes it after, and the end of its life  *)
(* moves later, or comes back, only by two rotations that overlap.          *)
ValidityOnlyShrinks ==
    [][\A k \in Ids : key[k] # NoKey /\ key'[k] # NoKey =>
          /\ key[k].revoked => key'[k].revoked
          /\ key'[k].expires <= key[k].expires \/ k \in crossed']_vars

(* The audit log alone explains the keys: every key that was issued, every  *)
(* revocation and every successor has its row, whatever was rolled back.    *)
AuditExplains ==
    \A k \in Keys :
        /\ k # 0 => \E e \in audit : e.new = k /\ e.action \in {"create", "rotate"}
        /\ key[k].revoked => \E e \in audit : e.key = k /\ e.action \in {"revoke", "rotate"}
        /\ key[k].to # NoRow =>
              [action |-> "rotate", key |-> k, new |-> key[k].to] \in audit

(* A request the upstream has answered loses its log, and its client the    *)
(* answer, only if it was itself aborted after the answer (cancelled, its   *)
(* process died, its commit failed) or its API was deleted under it.  No    *)
(* other management request does that: revoking or rotating the key,        *)
(* disabling the API or replacing its version meanwhile.                    *)
UnloggedOnlyByDeleteOrAbort ==
    \A u \in unlogged : u.aborted \/ api[u.api].state = "deleted"
=============================================================================
