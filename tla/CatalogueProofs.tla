-------------------------- MODULE CatalogueProofs --------------------------
(* What holds of Catalogue for any number of requests, any clock, any grace *)
(* periods and lifetimes.  The inductive invariant adds to the types and    *)
(* the properties what each request in progress may rely on: that what it   *)
(* has read still stands unless it is marked stale, that its key belongs to *)
(* its API and went only with it, and that no slug was passed over that no  *)
(* API has had.                                                             *)
EXTENDS Catalogue, FiniteSetTheorems, TLAPS

USE CatalogueAssumption

(* Every slug up to n has been given to an API other than that of r. *)
Tried(r, n) == \A s \in 1..n : \E a \in Ids \ {r} : api[a].state # "none" /\ api[a].slug = s

Writing(j, op) == j.at = "write" /\ j.op = op
OnApi(j) == (j.at = "write" /\ j.op # "create") \/ j.at \in {"version", "log"}
OnKey(j) == Writing(j, "revoke") \/ Writing(j, "rotate") \/ j.at \in {"version", "log"}

(* What a creation, a change of a setting and a use of a key rely on. *)
CreateOK(r, j) ==
    /\ j.at = "slug" => j.op = "create"
    /\ j.at = "slug" \/ Writing(j, "create") => j.seen \in Slugs /\ Tried(r, j.seen - 1)

SettingOK(j) ==
    /\ j.at = "write" /\ j.op \in Settings => j.key = 0
    /\ Writing(j, "update") =>
          /\ j.ask \in BOOLEAN /\ j.seen \in BOOLEAN
          /\ Live(j.api) /\ ~j.stale => j.seen = api[j.api].active
    /\ Writing(j, "quotas") =>
          /\ j.ask \in SUBSET Periods
          /\ Live(j.api) /\ ~j.stale => j.seen = quotas[j.api]
    /\ Writing(j, "rate") =>
          /\ j.ask \in Rules /\ j.seen \in Rules \cup {NoRule}
          /\ Live(j.api) /\ ~j.stale => j.seen = rule[j.api]
          /\ Live(j.api) /\ j.seen # NoRule => rule[j.api] # NoRule
    /\ Writing(j, "add_version") => j.ask \in BOOLEAN
    /\ Writing(j, "create_key") => j.ask \in Lifetimes

KeyOK(j) ==
    /\ OnKey(j) =>
          /\ j.key \in Requests => job[j.key].at = "done"
          /\ key[j.key] = NoKey => api[j.api].state = "deleted"
          /\ key[j.key] # NoKey => key[j.key].api = j.api
    /\ Writing(j, "revoke") => j.seen \in BOOLEAN
    /\ Writing(j, "rotate") =>
          /\ j.ask \in Graces /\ j.seen \in 0..Never
          /\ key[j.key] # NoKey /\ ~j.stale => j.seen = key[j.key].expires

JobOK(r, j) ==
    /\ CreateOK(r, j) /\ SettingOK(j) /\ KeyOK(j)
    /\ OnApi(j) => api[j.api].state # "none"

KeyRecs == [api : Ids \cup {NoRow}, expires : 0..Never, revoked : BOOLEAN,
            to : Ids \cup {NoRow}]
Asks == Nat \cup BOOLEAN \cup (SUBSET Periods) \cup Rules
Seens == Int \cup BOOLEAN \cup [Periods -> Ids \cup {NoRow}] \cup Rules \cup {NoRule}
Places == {"new", "slug", "write", "version", "log", "done"}
Ops == {"none", "create", "update", "delete", "add_version", "delete_version", "quotas",
        "rate", "create_key", "revoke", "rotate", "gateway"}
JobRecs == [at : Places, op : Ops, api : Ids, key : Ids, ask : Asks, seen : Seens,
            stale : BOOLEAN]

JobsOK ==
    /\ job \in [Requests -> JobRecs]
    /\ \A r \in Requests : JobOK(r, job[r])

(* A request that has not ended has inserted nothing. *)
Unused ==
    \A r \in Requests : job[r].at # "done" => api[r].state = "none" /\ key[r] = NoKey

(* Every key belongs to a live API. *)
KeyRows == \A k \in Ids : key[k] # NoKey => key[k].api \in Ids /\ Live(key[k].api)

(* Nobody has set anything of an API that is not there yet. *)
NoneSet ==
    /\ last \in [Ids -> [Settings -> [by : Ids \cup {NoRow}, ask : Asks, stale : BOOLEAN]]]
    /\ \A a \in Ids, s \in Settings : api[a].state = "none" => last[a][s].by = NoRow

Inv ==
    /\ TypeOK /\ JobsOK /\ Unused /\ KeyRows /\ NoneSet
    /\ LastSetRules /\ AuditExplains /\ UnloggedOnlyByDeleteOrAbort

-----------------------------------------------------------------------------
(* _unique_slug: there are fewer other APIs than slugs, so a free one is    *)
(* found within the bound.                                                  *)
LEMMA SlugsSuffice ==
    ASSUME NEW r \in Requests, NEW n \in Slugs, Tried(r, n)
    PROVE  n <= MaxRequests
<1> DEFINE S == 1..n
           T == Ids \ {r}
           f == [s \in S |-> CHOOSE a \in T : api[a].slug = s]
<1>1. n \in Nat /\ r \in Ids
  BY DEF Slugs, Ids, Requests
<1>2. \A s \in S : f[s] \in T /\ api[f[s]].slug = s
  BY DEF Tried
<1>3. f \in Injection(S, T)
  <2>1. f \in [S -> T]
    BY <1>2
  <2> HIDE DEF f
  <2>2. \A x, y \in S : f[x] = f[y] => x = y
    BY <1>2
  <2> QED BY <2>1, <2>2 DEF Injection, IsInjective
<1>4. IsFiniteSet(S) /\ Cardinality(S) = n
  BY <1>1, FS_Interval
<1>5. IsFiniteSet(Ids) /\ Cardinality(Ids) = MaxRequests + 1
  BY FS_Interval DEF Ids
<1>6. IsFiniteSet(T) /\ Cardinality(T) = MaxRequests
  BY <1>1, <1>5, FS_RemoveElement
<1> HIDE DEF S, T, f
<1>7. Cardinality(S) <= Cardinality(T)
  BY <1>3, <1>4, <1>6, FS_Injection
<1> QED BY <1>4, <1>6, <1>7

(* The rows that are not there. *)
LEMMA Absent ==
    /\ New \in JobRecs /\ [New EXCEPT !.at = "done"] \in JobRecs
    /\ NoSet \in [by : Ids \cup {NoRow}, ask : Asks, stale : BOOLEAN]
    /\ NoKey.api = NoRow /\ NoKey.revoked = FALSE /\ NoKey.to = NoRow
    /\ NoRow \notin Ids /\ 0 \in Ids
<1>1. 0 \in Asks /\ 0 \in Seens /\ {} \in Asks
  BY DEF Asks, Seens
<1>2. 0 \in Ids /\ NoRow \notin Ids
  BY DEF Ids, NoRow
<1>3. New \in JobRecs /\ [New EXCEPT !.at = "done"] \in JobRecs
  <2>1. New \in JobRecs
    BY <1>1, <1>2 DEF New, JobRecs, Places, Ops
  <2>2. [New EXCEPT !.at = "done"] \in JobRecs
    BY <2>1 DEF JobRecs, Places
  <2> QED BY <2>1, <2>2
<1> QED BY <1>1, <1>2, <1>3 DEF NoSet, NoKey

(* Inv holds initially. *)
LEMMA InitInv == Init => Inv
<1> SUFFICES ASSUME Init PROVE Inv
  OBVIOUS
<1>0. 0 \in Ids /\ NoRow \notin Ids /\ 1 \in Slugs /\ 0 \in Int
  BY DEF Ids, NoRow, Slugs
<1>1. TypeOK
  <2>1. now \in 0..MaxTime
    BY DEF Init
  <2>2. api \in [Ids -> [state : {"none", "live", "deleted"}, slug : Slugs, active : BOOLEAN]]
    BY <1>0 DEF Init
  <2>3. version \in [Ids -> [by : Ids \cup {NoRow}, active : BOOLEAN]]
    BY <1>0 DEF Init, NoVersion
  <2>4. quotas \in [Ids -> [Periods -> Ids \cup {NoRow}]]
    BY <1>0 DEF Init, NoQuotas
  <2>5. rule \in [Ids -> Rules \cup {NoRule}]
    <3>1. [requests |-> 1, window |-> 1] \in Rules
      BY DEF Rules
    <3>2. PICK x \in Rules \cup {NoRule} : rule = [a \in Ids |-> IF a = 0 THEN x ELSE NoRule]
      BY <3>1 DEF Init
    <3> QED BY <3>2
  <2>6. key \in [Ids -> KeyRecs]
    <3>1. NoKey \in KeyRecs /\ Never \in 0..Never
      BY DEF NoKey, Never, KeyRecs
    <3>2. [NoKey EXCEPT !.api = 0, !.expires = Never] \in KeyRecs
      BY <1>0, <3>1 DEF KeyRecs
    <3> QED BY <3>1, <3>2 DEF Init
  <2>7. \A r \in Requests : /\ job[r].at \in {"new", "slug", "write", "version", "log", "done"}
                            /\ job[r].api \in Ids /\ job[r].key \in Ids
    BY <1>0 DEF Init, New
  <2>8. \A a \in Ids : Live(a) <=> a = 0
    BY DEF Init, Live
  <2>9. \A a, b \in Ids : Live(a) /\ Live(b) /\ api[a].slug = api[b].slug => a = b
    BY <2>8
  <2>10. \A a \in Ids : ~Live(a) =>
           /\ version[a] = NoVersion /\ quotas[a] = NoQuotas /\ rule[a] = NoRule
           /\ \A k \in Keys : key[k].api # a
    <3>1. \A k \in Keys : key[k].api = 0
      BY DEF Init, Keys, NoKey
    <3> QED BY <2>8, <3>1 DEF Init
  <2> QED BY <2>1, <2>2, <2>3, <2>4, <2>5, <2>6, <2>7, <2>9, <2>10
           DEF Init, TypeOK, KeyRecs
<1>2. JobsOK
  <2>1. job \in [Requests -> JobRecs]
    BY Absent DEF Init
  <2>2. \A r \in Requests : job[r].at = "new"
    BY DEF Init, New
  <2> QED BY <2>1, <2>2 DEF JobsOK, JobOK, CreateOK, SettingOK, KeyOK, Writing, OnApi, OnKey, Settings
<1>3. Unused
  BY DEF Init, Unused, Requests, Ids
<1>4. KeyRows
  BY <1>0 DEF Init, KeyRows, Live, NoKey
<1>5. NoneSet /\ LastSetRules
  <2>1. \A a \in Ids, s \in Settings : last[a][s] = NoSet
    BY DEF Init
  <2>2. last \in [Ids -> [Settings -> [by : Ids \cup {NoRow}, ask : Asks, stale : BOOLEAN]]]
    BY Absent DEF Init
  <2>3. \A a \in Ids, s \in Settings : last[a][s].by = NoRow
    BY <2>1 DEF NoSet
  <2>4. NoneSet
    BY <2>2, <2>3 DEF NoneSet
  <2>5. LastSetRules
    BY <2>3 DEF LastSetRules
  <2> QED BY <2>4, <2>5
<1>6. AuditExplains
  <2>1. \A k \in Keys : k = 0 /\ key[k].revoked = FALSE /\ key[k].to = NoRow
    BY DEF Init, Keys, NoKey
  <2> QED BY <2>1 DEF AuditExplains
<1>7. UnloggedOnlyByDeleteOrAbort
  BY DEF Init, UnloggedOnlyByDeleteOrAbort
<1> QED BY <1>1, <1>2, <1>3, <1>4, <1>5, <1>6, <1>7 DEF Inv

-----------------------------------------------------------------------------
(* The steps that change nothing but what one request knows. *)

(* Inv is preserved when request r goes on, or ends, with what j says. *)
LEMMA QuietJob ==
    ASSUME Inv, NEW r \in Requests, job[r].at # "done", NEW j \in JobRecs, JobOK(r, j),
           job' = [job EXCEPT ![r] = j], UNCHANGED <<now, tables, history>>
    PROVE  Inv'
<1>1. UNCHANGED <<now, api, version, quotas, rule, key, audit, unlogged, last, crossed>>
  BY DEF tables, history
<1>2. job \in [Requests -> JobRecs] /\ \A q \in Requests : JobOK(q, job[q])
  BY DEF Inv, JobsOK
<1>3. /\ job' \in [Requests -> JobRecs] /\ job'[r] = j
      /\ \A q \in Requests : q # r => job'[q] = job[q]
  BY <1>2
<1>4. \A q \in Requests : job[q].at = "done" => job'[q].at = "done"
  BY <1>3
<1>5. ASSUME NEW q \in Requests, NEW i, JobOK(q, i) PROVE JobOK(q, i)'
  <2>1. CreateOK(q, i)' /\ (OnApi(i) => api[i.api].state # "none")'
    BY <1>1, <1>5 DEF JobOK, CreateOK, Tried, OnApi, Writing
  <2>2. SettingOK(i)'
    BY <1>1, <1>5 DEF JobOK, SettingOK, Writing, Live
  <2>3. KeyOK(i)'
    BY <1>1, <1>4, <1>5 DEF JobOK, KeyOK, OnKey, Writing
  <2> QED BY <2>1, <2>2, <2>3 DEF JobOK
<1>6. JobsOK'
  <2> SUFFICES ASSUME NEW q \in Requests PROVE JobOK(q, job[q])'
    BY <1>3 DEF JobsOK
  <2>1. PICK i : i = job'[q]
    OBVIOUS
  <2>2. JobOK(q, i)
    BY <1>2, <1>3, <2>1
  <2>3. JobOK(q, i)'
    BY <1>5, <2>2
  <2> QED BY <2>1, <2>3 DEF JobOK, CreateOK, SettingOK, KeyOK, Writing, OnApi, OnKey, Settings
<1>7. TypeOK'
  <2>1. \A q \in Requests : /\ job'[q].at \in {"new", "slug", "write", "version", "log", "done"}
                            /\ job'[q].api \in Ids /\ job'[q].key \in Ids
    BY <1>3 DEF JobRecs, Places
  <2> QED BY <1>1, <2>1 DEF Inv, TypeOK, Live, Keys
<1>8. Unused'
  BY <1>1, <1>3 DEF Inv, Unused
<1>9. KeyRows' /\ NoneSet' /\ LastSetRules'
  BY <1>1 DEF Inv, KeyRows, NoneSet, LastSetRules, Live
<1>10. AuditExplains' /\ UnloggedOnlyByDeleteOrAbort'
  BY <1>1 DEF Inv, AuditExplains, UnloggedOnlyByDeleteOrAbort, Keys
<1> QED BY <1>6, <1>7, <1>8, <1>9, <1>10 DEF Inv

(* Inv is preserved by a rollback. *)
LEMMA RollbackInv ==
    ASSUME Inv, NEW r \in Requests, job[r].at # "done", Rollback(r)
    PROVE  Inv'
<1>1. PICK j : j = [New EXCEPT !.at = "done"]
  OBVIOUS
<1>2. j \in JobRecs /\ j.at = "done"
  BY <1>1, Absent DEF New
<1>3. JobOK(r, j)
  BY <1>2 DEF JobOK, CreateOK, SettingOK, KeyOK, Writing, OnApi, OnKey, Settings
<1> QED BY <1>1, <1>2, <1>3, QuietJob DEF Rollback

(* What the first step of a management request knows. *)
LEMMA ReadInv ==
    ASSUME Inv, NEW r \in Requests, NEW op \in Ops, NEW a \in Ids, NEW k \in Ids,
           NEW ask \in Asks, NEW seen \in Seens, Read(r, op, a, k, ask, seen),
           op # "create",
           op \in Settings => k = 0,
           op = "update" => ask \in BOOLEAN /\ seen \in BOOLEAN /\ seen = api[a].active,
           op = "quotas" => ask \in SUBSET Periods /\ seen = quotas[a],
           op = "rate" => ask \in Rules /\ seen \in Rules \cup {NoRule} /\ seen = rule[a],
           op = "add_version" => ask \in BOOLEAN,
           op = "create_key" => ask \in Lifetimes,
           op \in {"revoke", "rotate"} => key[k] # NoKey /\ key[k].api = a,
           op = "revoke" => seen \in BOOLEAN,
           op = "rotate" => ask \in Graces /\ seen \in 0..Never /\ seen = key[k].expires
    PROVE  Inv'
<1>1. PICK j : j = [at |-> "write", op |-> op, api |-> a, key |-> k,
                    ask |-> ask, seen |-> seen, stale |-> FALSE]
  OBVIOUS
<1>2. /\ j \in JobRecs /\ j.at = "write" /\ j.op = op /\ j.api = a /\ j.key = k
      /\ j.ask = ask /\ j.seen = seen
  BY <1>1 DEF JobRecs, Places
<1>3. job[r].at = "new" /\ Live(a)
  BY DEF Read
<1>4. CreateOK(r, j) /\ SettingOK(j)
  BY <1>2 DEF CreateOK, SettingOK, Writing, Settings
<1>5. ASSUME op \in {"revoke", "rotate"}, k \in Requests PROVE job[k].at = "done"
  BY <1>5 DEF Inv, Unused
<1>6. KeyOK(j)
  BY <1>2, <1>5 DEF KeyOK, OnKey, Writing
<1>7. OnApi(j) => api[j.api].state # "none"
  BY <1>2, <1>3 DEF Live
<1>8. JobOK(r, j)
  BY <1>4, <1>6, <1>7 DEF JobOK
<1>9. job' = [job EXCEPT ![r] = j] /\ UNCHANGED <<now, tables, history>>
  BY <1>1 DEF Read
<1> QED BY <1>2, <1>3, <1>8, <1>9, QuietJob

(* Inv is preserved by the reads of a setting, a deletion and a version. *)
LEMMA ReadSettingInv ==
    ASSUME Inv, NEW r \in Requests,
           \/ ReadUpdate(r) \/ ReadDelete(r) \/ ReadAddVersion(r) \/ ReadDeleteVersion(r)
           \/ ReadQuotas(r) \/ ReadRate(r)
    PROVE  Inv'
<1>0. 0 \in Ids /\ 0 \in Asks /\ 0 \in Seens
  BY DEF Ids, Asks, Seens
<1>1. /\ api \in [Ids -> [state : {"none", "live", "deleted"}, slug : Slugs, active : BOOLEAN]]
      /\ version \in [Ids -> [by : Ids \cup {NoRow}, active : BOOLEAN]]
      /\ quotas \in [Ids -> [Periods -> Ids \cup {NoRow}]]
      /\ rule \in [Ids -> Rules \cup {NoRule}]
  BY DEF Inv, TypeOK
<1>2. ASSUME NEW a \in Ids, NEW ask \in BOOLEAN, Read(r, "update", a, 0, ask, api[a].active)
      PROVE  Inv'
  <2>1. PICK seen \in BOOLEAN : seen = api[a].active
    BY <1>1
  <2>2. ask \in Asks /\ seen \in Seens
    BY DEF Asks, Seens
  <2> QED BY <1>0, <1>2, <2>1, <2>2, ReadInv DEF Ops, Settings
<1>3. ASSUME NEW a \in Ids, Read(r, "delete", a, 0, 0, 0) PROVE Inv'
  BY <1>0, <1>3, ReadInv DEF Ops, Settings
<1>4. ASSUME NEW a \in Ids, NEW ask \in BOOLEAN, Read(r, "add_version", a, 0, ask, 0) PROVE Inv'
  <2>1. ask \in Asks
    BY DEF Asks
  <2> QED BY <1>0, <1>4, <2>1, ReadInv DEF Ops, Settings
<1>5. ASSUME NEW a \in Ids, Read(r, "delete_version", a, 0, 0, version[a].by) PROVE Inv'
  <2>1. PICK seen \in Ids \cup {NoRow} : seen = version[a].by
    BY <1>1
  <2>2. seen \in Seens
    <3>1. seen \in Int
      BY DEF Ids, NoRow
    <3> QED BY <3>1 DEF Seens
  <2> QED BY <1>0, <1>5, <2>1, <2>2, ReadInv DEF Ops, Settings
<1>6. ASSUME NEW a \in Ids, NEW ask \in SUBSET Periods, Read(r, "quotas", a, 0, ask, quotas[a])
      PROVE  Inv'
  <2>1. PICK seen \in [Periods -> Ids \cup {NoRow}] : seen = quotas[a]
    BY <1>1
  <2>2. ask \in Asks /\ seen \in Seens
    BY DEF Asks, Seens
  <2> QED BY <1>0, <1>6, <2>1, <2>2, ReadInv DEF Ops, Settings
<1>7. ASSUME NEW a \in Ids, NEW ask \in Rules, Read(r, "rate", a, 0, ask, rule[a])
      PROVE  Inv'
  <2>1. PICK seen \in Rules \cup {NoRule} : seen = rule[a]
    BY <1>1
  <2>2. ask \in Asks /\ seen \in Seens
    BY DEF Asks, Seens
  <2> QED BY <1>0, <1>7, <2>1, <2>2, ReadInv DEF Ops, Settings
<1> QED BY <1>2, <1>3, <1>4, <1>5, <1>6, <1>7
        DEF ReadUpdate, ReadDelete, ReadAddVersion, ReadDeleteVersion, ReadQuotas, ReadRate

(* Inv is preserved by the reads of a key. *)
LEMMA ReadKeyInv ==
    ASSUME Inv, NEW r \in Requests, ReadCreateKey(r) \/ ReadRevoke(r) \/ ReadRotate(r)
    PROVE  Inv'
<1>0. 0 \in Ids /\ 0 \in Asks /\ 0 \in Seens
  BY DEF Ids, Asks, Seens
<1>1. key \in [Ids -> KeyRecs]
  BY DEF Inv, TypeOK, KeyRecs
<1>2. ASSUME NEW a \in Ids, NEW ask \in Lifetimes, Read(r, "create_key", a, 0, ask, 0) PROVE Inv'
  <2>1. ask \in Asks
    BY DEF Asks, Never
  <2> QED BY <1>0, <1>2, <2>1, ReadInv DEF Ops, Settings
<1>3. ASSUME NEW k \in Keys, Read(r, "revoke", key[k].api, k, 0, key[k].revoked) PROVE Inv'
  <2>1. k \in Ids /\ key[k] # NoKey /\ key[k].api \in Ids
    BY DEF Keys, Inv, KeyRows
  <2>2. PICK a \in Ids : a = key[k].api
    BY <2>1
  <2>3. PICK seen \in BOOLEAN : seen = key[k].revoked
    BY <1>1, <2>1 DEF KeyRecs
  <2>4. seen \in Seens
    BY DEF Seens
  <2> QED BY <1>0, <1>3, <2>1, <2>2, <2>3, <2>4, ReadInv DEF Ops, Settings
<1>4. ASSUME NEW k \in Keys, NEW grace \in Graces,
             Read(r, "rotate", key[k].api, k, grace, key[k].expires)
      PROVE  Inv'
  <2>1. k \in Ids /\ key[k] # NoKey /\ key[k].api \in Ids
    BY DEF Keys, Inv, KeyRows
  <2>2. PICK a \in Ids : a = key[k].api
    BY <2>1
  <2>3. PICK seen \in 0..Never : seen = key[k].expires
    BY <1>1, <2>1 DEF KeyRecs
  <2>4. seen \in Seens /\ grace \in Asks
    BY DEF Seens, Asks, Never
  <2> QED BY <1>0, <1>4, <2>1, <2>2, <2>3, <2>4, ReadInv DEF Ops, Settings
<1> QED BY <1>2, <1>3, <1>4 DEF ReadCreateKey, ReadRevoke, ReadRotate

(* Inv is preserved by a creation that tries its first slug. *)
LEMMA BeginCreateInv ==
    ASSUME Inv, NEW r \in Requests, BeginCreate(r)
    PROVE  Inv'
<1>1. PICK j : j = [New EXCEPT !.at = "slug", !.op = "create", !.api = r, !.seen = 1]
  OBVIOUS
<1>2. r \in Ids /\ 1 \in Seens /\ 1 \in Slugs
  BY DEF Requests, Ids, Seens, Slugs
<1>3. j \in JobRecs /\ j.at = "slug" /\ j.op = "create" /\ j.seen = 1
  BY <1>1, <1>2, Absent DEF JobRecs, Places, Ops
<1>4. JobOK(r, j)
  BY <1>2, <1>3 DEF JobOK, CreateOK, SettingOK, KeyOK, Tried, Writing, OnApi, OnKey, Settings
<1>5. /\ job[r].at = "new" /\ job' = [job EXCEPT ![r] = j]
      /\ UNCHANGED <<now, tables, history>>
  BY <1>1 DEF BeginCreate
<1> QED BY <1>3, <1>4, <1>5, QuietJob

(* Inv is preserved by the query for one slug. *)
LEMMA TrySlugInv ==
    ASSUME Inv, NEW r \in Requests, TrySlug(r)
    PROVE  Inv'
<1>1. PICK i : i = job[r]
  OBVIOUS
<1>2. i \in JobRecs /\ JobOK(r, i) /\ i.at = "slug"
  BY <1>1 DEF Inv, JobsOK, TrySlug
<1>3. i.op = "create" /\ i.seen \in Slugs /\ Tried(r, i.seen - 1)
  BY <1>2 DEF JobOK, CreateOK
<1>4. UNCHANGED <<now, tables, history>>
  BY DEF TrySlug
<1>5. CASE Taken(i.seen)
  <2>1. PICK j : j = [i EXCEPT !.seen = i.seen + 1]
    OBVIOUS
  <2>2. i.seen \in Nat /\ i.seen + 1 \in Seens
    BY <1>3 DEF Slugs, Seens
  <2>3. j \in JobRecs /\ j.at = "slug" /\ j.op = "create" /\ j.seen = i.seen + 1
    BY <1>2, <1>3, <2>1, <2>2 DEF JobRecs
  <2>4. Tried(r, i.seen)
    <3> SUFFICES ASSUME NEW s \in 1..i.seen
                 PROVE  \E a \in Ids \ {r} : api[a].state # "none" /\ api[a].slug = s
      BY DEF Tried
    <3>1. CASE s = i.seen
      <4>1. PICK a \in Ids : Live(a) /\ api[a].slug = s
        BY <1>5, <3>1 DEF Taken
      <4>2. api[r].state = "none"
        BY <1>1, <1>2 DEF Inv, Unused
      <4> QED BY <4>1, <4>2 DEF Live
    <3>2. CASE s # i.seen
      <4>1. s \in 1..(i.seen - 1)
        BY <2>2, <3>2
      <4> QED BY <1>3, <4>1 DEF Tried
    <3> QED BY <3>1, <3>2
  <2>5. j.seen \in Slugs /\ Tried(r, j.seen - 1)
    <3>1. i.seen <= MaxRequests
      BY <1>3, <2>4, SlugsSuffice
    <3>2. j.seen - 1 = i.seen
      BY <2>2, <2>3
    <3> QED BY <2>2, <2>3, <2>4, <3>1, <3>2 DEF Slugs
  <2>6. JobOK(r, j)
    BY <2>3, <2>5 DEF JobOK, CreateOK, SettingOK, KeyOK, Writing, OnApi, OnKey, Settings
  <2>7. job' = [job EXCEPT ![r] = j]
    BY <1>1, <1>5, <2>1 DEF TrySlug
  <2> QED BY <1>1, <1>2, <1>4, <2>3, <2>6, <2>7, QuietJob
<1>6. CASE ~Taken(i.seen)
  <2>1. PICK j : j = [i EXCEPT !.at = "write"]
    OBVIOUS
  <2>2. j \in JobRecs /\ j.at = "write" /\ j.op = "create" /\ j.seen = i.seen
    BY <1>2, <1>3, <2>1 DEF JobRecs, Places
  <2>3. JobOK(r, j)
    BY <1>3, <2>2 DEF JobOK, CreateOK, SettingOK, KeyOK, Writing, OnApi, OnKey, Settings
  <2>4. job' = [job EXCEPT ![r] = j]
    BY <1>1, <1>6, <2>1 DEF TrySlug
  <2> QED BY <1>1, <1>2, <1>4, <2>2, <2>3, <2>4, QuietJob
<1> QED BY <1>5, <1>6

(* Inv is preserved by a gateway request that finds its key. *)
LEMMA AuthenticateInv ==
    ASSUME Inv, NEW r \in Requests, Authenticate(r)
    PROVE  Inv'
<1>1. PICK k \in Keys :
        job' = [job EXCEPT ![r] = [New EXCEPT !.at = "version", !.op = "gateway",
                                              !.api = key[k].api, !.key = k]]
  BY DEF Authenticate
<1>2. k \in Ids /\ key[k] # NoKey /\ key[k].api \in Ids /\ Live(key[k].api)
  BY DEF Keys, Inv, KeyRows
<1>3. PICK j : j = [New EXCEPT !.at = "version", !.op = "gateway", !.api = key[k].api, !.key = k]
  OBVIOUS
<1>4. j \in JobRecs /\ j.at = "version" /\ j.op = "gateway" /\ j.api = key[k].api /\ j.key = k
  BY <1>2, <1>3, Absent DEF JobRecs, Places, Ops
<1>5. k \in Requests => job[k].at = "done"
  BY <1>2 DEF Inv, Unused
<1>6. CreateOK(r, j) /\ SettingOK(j)
  BY <1>4 DEF CreateOK, SettingOK, Writing, Settings
<1>7. KeyOK(j) /\ (OnApi(j) => api[j.api].state # "none")
  BY <1>2, <1>4, <1>5 DEF KeyOK, Writing, OnApi, OnKey, Live
<1>8. /\ job[r].at = "new" /\ job' = [job EXCEPT ![r] = j]
      /\ UNCHANGED <<now, tables, history>>
  BY <1>1, <1>3 DEF Authenticate
<1> QED BY <1>4, <1>6, <1>7, <1>8, QuietJob DEF JobOK

(* Inv is preserved by a gateway request that goes on with a version. *)
LEMMA ReadVersionInv ==
    ASSUME Inv, NEW r \in Requests, ReadVersion(r)
    PROVE  Inv'
<1>1. PICK i : i = job[r]
  OBVIOUS
<1>2. i \in JobRecs /\ JobOK(r, i) /\ i.at = "version"
  BY <1>1 DEF Inv, JobsOK, ReadVersion
<1>3. PICK j : j = [i EXCEPT !.at = "log"]
  OBVIOUS
<1>4. j \in JobRecs /\ j.at = "log" /\ j.api = i.api /\ j.key = i.key
  BY <1>2, <1>3 DEF JobRecs, Places
<1>5. CreateOK(r, j) /\ SettingOK(j)
  BY <1>4 DEF CreateOK, SettingOK, Writing, Settings
<1>6. KeyOK(j) /\ (OnApi(j) => api[j.api].state # "none")
  BY <1>2, <1>4 DEF JobOK, KeyOK, Writing, OnApi, OnKey
<1>7. /\ job[r].at = "version" /\ job' = [job EXCEPT ![r] = j]
      /\ UNCHANGED <<now, tables, history>>
  BY <1>1, <1>3 DEF ReadVersion
<1> QED BY <1>4, <1>5, <1>6, <1>7, QuietJob DEF JobOK

(* Inv is preserved by time. *)
LEMMA TickInv ==
    ASSUME Inv, Tick
    PROVE  Inv'
<1>1. UNCHANGED <<api, version, quotas, rule, key, audit, job, unlogged, last, crossed>>
  BY DEF Tick, tables, history
<1>2. now' \in 0..MaxTime
  BY DEF Tick, Inv, TypeOK
<1>3. TypeOK'
  BY <1>1, <1>2 DEF Inv, TypeOK, Live, Keys
<1>4. JobsOK'
  BY <1>1 DEF Inv, JobsOK, JobOK, CreateOK, SettingOK, KeyOK, Tried, Writing, OnApi, OnKey, Settings, Live
<1>5. Unused' /\ KeyRows' /\ NoneSet' /\ LastSetRules'
  BY <1>1 DEF Inv, Unused, KeyRows, NoneSet, LastSetRules, Live
<1>6. AuditExplains' /\ UnloggedOnlyByDeleteOrAbort'
  BY <1>1 DEF Inv, AuditExplains, UnloggedOnlyByDeleteOrAbort, Keys
<1> QED BY <1>3, <1>4, <1>5, <1>6 DEF Inv

(* The logs that were lost, and why they could be. *)
LossRecs == [api : Ids, aborted : BOOLEAN]
Explained(u) == u.aborted \/ api[u.api].state = "deleted"

(* Inv is preserved when a request ends, with nothing committed that the    *)
(* properties look at, and the losses that are new are explained.           *)
LEMMA EndedInv ==
    ASSUME Inv, NEW r \in Requests, job' = [job EXCEPT ![r] = [New EXCEPT !.at = "done"]],
           UNCHANGED <<now, tables, last, crossed>>,
           unlogged' \subseteq LossRecs, \A u \in unlogged' : Explained(u)
    PROVE  Inv'
<1>1. UNCHANGED <<now, api, version, quotas, rule, key, audit, last, crossed>>
  BY DEF tables
<1>2. job \in [Requests -> JobRecs] /\ \A q \in Requests : JobOK(q, job[q])
  BY DEF Inv, JobsOK
<1>4. /\ job' \in [Requests -> JobRecs] /\ job'[r].at = "done"
      /\ \A q \in Requests : q # r => job'[q] = job[q]
  BY <1>1, <1>2, Absent DEF New
<1>5. JobsOK'
  <2> SUFFICES ASSUME NEW q \in Requests PROVE JobOK(q, job[q])'
    BY <1>4 DEF JobsOK
  <2>1. CASE q = r
    BY <1>4, <2>1 DEF JobOK, CreateOK, SettingOK, KeyOK, Writing, OnApi, OnKey, Settings
  <2>2. CASE q # r
    <3>1. JobOK(q, job[q]) /\ job'[q] = job[q]
      BY <1>2, <1>4, <2>2
    <3>2. \A x \in Requests : job[x].at = "done" => job'[x].at = "done"
      BY <1>4
    <3>3. CreateOK(q, job[q])' /\ SettingOK(job[q])' /\ (OnApi(job[q]) => api[job[q].api].state # "none")'
      BY <1>1, <3>1 DEF JobOK, CreateOK, SettingOK, Tried, Writing, OnApi, Live
    <3>4. KeyOK(job[q])'
      BY <1>1, <3>1, <3>2 DEF JobOK, KeyOK, OnKey, Writing
    <3> QED BY <3>3, <3>4 DEF JobOK
  <2> QED BY <2>1, <2>2
<1>6. TypeOK'
  <2>1. \A q \in Requests : /\ job'[q].at \in {"new", "slug", "write", "version", "log", "done"}
                            /\ job'[q].api \in Ids /\ job'[q].key \in Ids
    BY <1>4 DEF JobRecs, Places
  <2> QED BY <1>1, <2>1 DEF Inv, TypeOK, Live, Keys, LossRecs
<1>7. Unused'
  BY <1>1, <1>4 DEF Inv, Unused
<1>8. KeyRows' /\ NoneSet' /\ LastSetRules'
  BY <1>1 DEF Inv, KeyRows, NoneSet, LastSetRules, Live
<1>9. AuditExplains' /\ UnloggedOnlyByDeleteOrAbort'
  BY <1>1 DEF Inv, AuditExplains, UnloggedOnlyByDeleteOrAbort, Keys, Explained
<1> QED BY <1>5, <1>6, <1>7, <1>8, <1>9 DEF Inv

(* Inv is preserved by the log: a key that has gone went with its API.      *)
LEMMA LogInv ==
    ASSUME Inv, NEW r \in Requests, Log(r)
    PROVE  Inv'
<1>1. /\ unlogged \subseteq LossRecs /\ \A u \in unlogged : Explained(u)
      /\ job[r] \in JobRecs /\ JobOK(r, job[r]) /\ job[r].at = "log"
  BY DEF Inv, TypeOK, UnloggedOnlyByDeleteOrAbort, LossRecs, Explained, JobsOK, Log
<1>2. PICK u \in LossRecs : u = [api |-> job[r].api, aborted |-> FALSE]
  BY <1>1 DEF JobRecs, LossRecs
<1>3. job[r].key \notin Keys => Explained(u)
  <2>1. job[r].key \in Ids
    BY <1>1 DEF JobRecs
  <2>2. key[job[r].key] = NoKey => api[job[r].api].state = "deleted"
    BY <1>1 DEF JobOK, KeyOK, OnKey
  <2> QED BY <1>2, <2>1, <2>2 DEF Keys, Explained
<1>4. unlogged' = IF job[r].key \in Keys THEN unlogged ELSE unlogged \cup {u}
  BY <1>2 DEF Log, Lost
<1>5. unlogged' \subseteq LossRecs /\ \A l \in unlogged' : Explained(l)
  BY <1>1, <1>3, <1>4
<1> QED BY <1>5, EndedInv DEF Log

(* Inv is preserved by a request that is cancelled or dies. *)
LEMMA AbortInv ==
    ASSUME Inv, NEW r \in Requests, Abort(r)
    PROVE  Inv'
<1>1. /\ unlogged \subseteq LossRecs /\ \A u \in unlogged : Explained(u)
      /\ job[r] \in JobRecs
  BY DEF Inv, TypeOK, UnloggedOnlyByDeleteOrAbort, LossRecs, Explained, JobsOK
<1>2. PICK u \in LossRecs : u = [api |-> job[r].api, aborted |-> TRUE]
  BY <1>1 DEF JobRecs, LossRecs
<1>3. Explained(u)
  BY <1>2 DEF Explained
<1>4. unlogged' = unlogged \/ unlogged' = unlogged \cup {u}
  BY <1>2 DEF Abort, Lost
<1>5. unlogged' \subseteq LossRecs /\ \A l \in unlogged' : Explained(l)
  BY <1>1, <1>3, <1>4
<1> QED BY <1>5, EndedInv DEF Abort

-----------------------------------------------------------------------------
(* What a commit may change. *)

ApiRecs == [state : {"none", "live", "deleted"}, slug : Slugs, active : BOOLEAN]

(* No row comes back or changes its slug; only r's own row is new. *)
ApiChange(r) ==
    \A a \in Ids :
        /\ api[a].state = "none" /\ a # r => api'[a].state = "none"
        /\ api[a].state # "none" => api'[a].state # "none" /\ api'[a].slug = api[a].slug
        /\ api[a].state = "deleted" => api'[a].state = "deleted"

(* A setting changes only by a request for it, and a rule stays a rule. *)
SettingChange(r) ==
    \A a \in Ids : Live(a) /\ Live(a)' =>
        /\ api'[a].active = api[a].active \/ (job[r].op = "update" /\ job[r].api = a)
        /\ quotas'[a] = quotas[a] \/ (job[r].op = "quotas" /\ job[r].api = a)
        /\ rule'[a] = rule[a] \/ (job[r].op = "rate" /\ job[r].api = a)
        /\ rule[a] # NoRule => rule'[a] # NoRule

(* A key goes only with its API, and lives longer or shorter only by its    *)
(* rotation; only r's own key is new.                                       *)
KeyChange(r) ==
    \A k \in Ids :
        /\ key[k] = NoKey /\ k # r => key'[k] = NoKey
        /\ key[k] # NoKey /\ key'[k] = NoKey => api'[key[k].api].state = "deleted"
        /\ key[k] # NoKey /\ key'[k] # NoKey =>
              /\ key'[k].api = key[k].api
              /\ key'[k].expires = key[k].expires \/ (job[r].op = "rotate" /\ job[r].key = k)

Changes(r) == ApiChange(r) /\ SettingChange(r) /\ KeyChange(r)

(* The requests in progress may rely on the same as before, or are stale. *)
LEMMA CommitJobs ==
    ASSUME Inv, NEW r \in Requests, job[r].at = "write", Commit(r), Changes(r)
    PROVE  JobsOK' /\ Unused' /\ \A q \in Requests : job'[q] \in JobRecs
<1> DEFINE Over(q) == /\ job[q].at = "write" /\ job[q].op = job[r].op
                      /\ job[q].api = job[r].api /\ job[q].key = job[r].key
<1>1. job \in [Requests -> JobRecs] /\ \A q \in Requests : JobOK(q, job[q])
  BY DEF Inv, JobsOK
<1>2. /\ job' = [q \in Requests |-> IF q = r THEN [New EXCEPT !.at = "done"]
                                    ELSE [job[q] EXCEPT !.stale = job[q].stale \/ Over(q)]]
  BY DEF Commit
<1>3. job'[r] \in JobRecs /\ job'[r].at = "done"
  BY <1>2, Absent DEF New
<1>4. ASSUME NEW q \in Requests, q # r
      PROVE  /\ job'[q] \in JobRecs
             /\ job'[q].at = job[q].at /\ job'[q].op = job[q].op /\ job'[q].api = job[q].api
             /\ job'[q].key = job[q].key /\ job'[q].ask = job[q].ask
             /\ job'[q].seen = job[q].seen
             /\ ~job'[q].stale => ~job[q].stale /\ ~Over(q)
  <2>1. job'[q] = [job[q] EXCEPT !.stale = job[q].stale \/ Over(q)] /\ job[q] \in JobRecs
    BY <1>1, <1>2, <1>4
  <2>2. PICK st \in BOOLEAN : st = (job[q].stale \/ Over(q))
    BY <2>1
  <2> HIDE DEF Over
  <2>3. job'[q] = [job[q] EXCEPT !.stale = st] /\ job[q] \in JobRecs
    BY <2>1, <2>2
  <2>4. job'[q] \in JobRecs /\ job'[q].stale = st
    BY <2>3 DEF JobRecs
  <2>5. /\ job'[q].at = job[q].at /\ job'[q].op = job[q].op /\ job'[q].api = job[q].api
        /\ job'[q].key = job[q].key /\ job'[q].ask = job[q].ask
        /\ job'[q].seen = job[q].seen
    BY <2>3 DEF JobRecs
  <2> QED BY <2>2, <2>4, <2>5
<1>5. \A q \in Requests : job'[q] \in JobRecs
  BY <1>3, <1>4
<1>6. \A q \in Requests : job[q].at = "done" => job'[q].at = "done"
  BY <1>3, <1>4
<1>7. ASSUME NEW q \in Requests, q # r PROVE JobOK(q, job[q])'
  <2>1. PICK i : i = job[q]
    OBVIOUS
  <2>2. PICK j : j = job'[q]
    OBVIOUS
  <2>3. /\ i \in JobRecs /\ j \in JobRecs /\ JobOK(q, i)
        /\ j.at = i.at /\ j.op = i.op /\ j.api = i.api /\ j.key = i.key /\ j.ask = i.ask
        /\ j.seen = i.seen /\ (~j.stale => ~i.stale /\ ~Over(q))
    BY <1>1, <1>4, <1>7, <2>1, <2>2
  <2>4. i.api \in Ids /\ i.key \in Ids
    BY <2>3 DEF JobRecs
  <2>5. CreateOK(q, j)'
    <3>1. \A n : Tried(q, n) => Tried(q, n)'
      BY DEF Tried, Changes, ApiChange
    <3> QED BY <2>3, <3>1 DEF JobOK, CreateOK, Writing
  <2>6. (OnApi(j) => api[j.api].state # "none")' /\ (OnApi(i) => api[i.api].state # "none")
    BY <2>3, <2>4 DEF JobOK, OnApi, Changes, ApiChange
  <2>7. SettingOK(j)'
    <3>1. OnApi(i) /\ Live(i.api)' => Live(i.api)
      <4>1. api[i.api].state \in {"none", "live", "deleted"}
        BY <2>4 DEF Inv, TypeOK
      <4>2. api[i.api].state = "deleted" => api'[i.api].state = "deleted"
        BY <2>4 DEF Changes, ApiChange
      <4> QED BY <2>6, <4>1, <4>2 DEF Live
    <3>2. ASSUME i.at = "write", i.op \in Settings, job[r].op = i.op, job[r].api = i.api
          PROVE  j.stale
      <4>1. job[r].key = 0
        BY <1>1, <3>2 DEF JobOK, SettingOK
      <4>2. i.key = 0
        BY <2>3, <3>2 DEF JobOK, SettingOK
      <4> QED BY <2>1, <2>3, <3>2, <4>1, <4>2
    <3>3. Live(i.api) /\ Live(i.api)' =>
            /\ api'[i.api].active = api[i.api].active \/ (job[r].op = "update" /\ job[r].api = i.api)
            /\ quotas'[i.api] = quotas[i.api] \/ (job[r].op = "quotas" /\ job[r].api = i.api)
            /\ rule'[i.api] = rule[i.api] \/ (job[r].op = "rate" /\ job[r].api = i.api)
            /\ rule[i.api] # NoRule => rule'[i.api] # NoRule
      BY <2>4 DEF Changes, SettingChange
    <3>4. SettingOK(i)
      BY <2>3 DEF JobOK
    <3>5. ASSUME Writing(i, "update") 
          PROVE  /\ j.ask \in BOOLEAN /\ j.seen \in BOOLEAN
                 /\ Live(j.api)' /\ ~j.stale => j.seen = api'[j.api].active
      BY <2>3, <3>1, <3>2, <3>3, <3>4, <3>5 DEF SettingOK, Writing, OnApi, Settings
    <3>6. ASSUME Writing(i, "quotas") 
          PROVE  /\ j.ask \in SUBSET Periods
                 /\ Live(j.api)' /\ ~j.stale => j.seen = quotas'[j.api]
      BY <2>3, <3>1, <3>2, <3>3, <3>4, <3>6 DEF SettingOK, Writing, OnApi, Settings
    <3>7. ASSUME Writing(i, "rate") 
          PROVE  /\ j.ask \in Rules /\ j.seen \in Rules \cup {NoRule}
                 /\ Live(j.api)' /\ ~j.stale => j.seen = rule'[j.api]
                 /\ Live(j.api)' /\ j.seen # NoRule => rule'[j.api] # NoRule
      BY <2>3, <3>1, <3>2, <3>3, <3>4, <3>7 DEF SettingOK, Writing, OnApi, Settings
    <3>8. /\ j.at = "write" /\ j.op \in Settings => j.key = 0
          /\ Writing(j, "add_version") => j.ask \in BOOLEAN
          /\ Writing(j, "create_key") => j.ask \in Lifetimes
      BY <2>3, <3>4 DEF SettingOK, Writing
    <3> QED BY <2>3, <3>5, <3>6, <3>7, <3>8 DEF SettingOK, Writing, Live
  <2>8. KeyOK(j)'
    <3>1. KeyOK(i) /\ (OnKey(j) <=> OnKey(i))
      BY <2>3 DEF JobOK, OnKey, Writing
    <3>2. ASSUME OnKey(i) PROVE i.key # r /\ (i.key \in Requests => job'[i.key].at = "done")
      BY <1>6, <3>1, <3>2 DEF KeyOK
    <3>3. ASSUME OnKey(i), key'[i.key] = NoKey PROVE api'[i.api].state = "deleted"
      <4>1. CASE key[i.key] = NoKey
        BY <2>4, <3>1, <3>3, <4>1 DEF KeyOK, Changes, ApiChange
      <4>2. CASE key[i.key] # NoKey
        BY <2>4, <3>1, <3>3, <4>2 DEF KeyOK, Changes, KeyChange
      <4> QED BY <4>1, <4>2
    <3>4. ASSUME OnKey(i), key'[i.key] # NoKey
          PROVE  /\ key[i.key] # NoKey /\ key[i.key].api = i.api /\ key'[i.key].api = i.api
                 /\ key'[i.key].expires = key[i.key].expires
                       \/ (job[r].op = "rotate" /\ job[r].key = i.key)
      BY <2>4, <3>1, <3>2, <3>4 DEF KeyOK, Changes, KeyChange
    <3>5. ASSUME Writing(i, "rotate"), key'[i.key] # NoKey, ~j.stale
          PROVE  i.seen = key'[i.key].expires
      <4>1. i.seen = key[i.key].expires
        BY <2>3, <3>1, <3>4, <3>5 DEF KeyOK, OnKey
      <4>2. ASSUME job[r].op = "rotate", job[r].key = i.key PROVE FALSE
        <5>1. job[r].api = i.api
          <6>1. JobOK(r, job[r])
            BY <1>1
          <6>2. OnKey(job[r])
            BY <4>2 DEF OnKey, Writing
          <6> QED BY <6>1, <6>2, <3>4, <3>5, <4>2 DEF JobOK, KeyOK, OnKey
        <5> QED BY <2>1, <2>3, <3>5, <4>2, <5>1 DEF Writing
      <4> QED BY <3>4, <3>5, <4>1, <4>2 DEF OnKey
    <3>6. /\ Writing(j, "revoke") => j.seen \in BOOLEAN
          /\ Writing(j, "rotate") => j.ask \in Graces /\ j.seen \in 0..Never
      BY <2>3, <3>1 DEF KeyOK, Writing
    <3> QED BY <2>3, <3>1, <3>2, <3>3, <3>4, <3>5, <3>6 DEF KeyOK, OnKey, Writing
  <2> QED BY <2>2, <2>5, <2>6, <2>7, <2>8 DEF JobOK, CreateOK, SettingOK, KeyOK, Writing,
                                             OnApi, OnKey, Tried, Live
<1>8. JobOK(r, job[r])'
  BY <1>3 DEF JobOK, CreateOK, SettingOK, KeyOK, Writing, OnApi, OnKey, Settings
<1>9. JobsOK'
  <2>1. job' \in [Requests -> JobRecs]
    BY <1>2, <1>5
  <2> QED BY <1>7, <1>8, <2>1 DEF JobsOK
<1>10. Unused'
  <2> SUFFICES ASSUME NEW q \in Requests, job'[q].at # "done"
               PROVE  api'[q].state = "none" /\ key'[q] = NoKey
    BY DEF Unused
  <2>1. q # r /\ q \in Ids /\ job[q].at # "done"
    BY <1>3, <1>4 DEF Requests, Ids
  <2> QED BY <2>1 DEF Inv, Unused, Changes, ApiChange, KeyChange
<1> QED BY <1>5, <1>9, <1>10

(* The rows of all tables: their types, and what refers to what. *)
Rows ==
    /\ api \in [Ids -> ApiRecs]
    /\ version \in [Ids -> [by : Ids \cup {NoRow}, active : BOOLEAN]]
    /\ quotas \in [Ids -> [Periods -> Ids \cup {NoRow}]]
    /\ rule \in [Ids -> Rules \cup {NoRule}]
    /\ key \in [Ids -> KeyRecs]
    /\ \A a, b \in Ids : Live(a) /\ Live(b) /\ api[a].slug = api[b].slug => a = b
    /\ \A a \in Ids : ~Live(a) =>
          version[a] = NoVersion /\ quotas[a] = NoQuotas /\ rule[a] = NoRule
    /\ KeyRows

(* The rows of audit_logs. *)
AuditRows ==
    /\ audit \subseteq [action : {"create", "revoke", "rotate"}, key : Ids, new : Ids]
    /\ AuditExplains

(* What a request for a setting leaves; any other leaves `last` alone. *)
Kept(r) ==
    IF job[r].op \in Settings
    THEN /\ Remember(r)
         /\ api'[job[r].api].state = "live" /\ ~job[r].stale =>
              /\ job[r].op = "update" => api'[job[r].api].active = job[r].ask
              /\ job[r].op = "quotas" =>
                    quotas'[job[r].api] = [p \in Periods |-> IF p \in job[r].ask THEN r ELSE NoRow]
              /\ job[r].op = "rate" => rule'[job[r].api] = job[r].ask
    ELSE UNCHANGED last

(* Inv gives the rows. *)
LEMMA InvRows ==
    ASSUME Inv
    PROVE  Rows /\ AuditRows
  BY DEF Inv, TypeOK, Rows, AuditRows, ApiRecs, KeyRecs

(* Every setting stays as the last request for it has asked. *)
LEMMA CommitSettings ==
    ASSUME Inv, NEW r \in Requests, job[r].at = "write", Changes(r), Kept(r)
    PROVE  NoneSet' /\ LastSetRules'
<1> DEFINE Sets == [by : Ids \cup {NoRow}, ask : Asks, stale : BOOLEAN]
<1>1. /\ last \in [Ids -> [Settings -> Sets]]
      /\ \A a \in Ids, s \in Settings : api[a].state = "none" => last[a][s].by = NoRow
  BY DEF Inv, NoneSet
<1>2. /\ job[r] \in JobRecs /\ JobOK(r, job[r]) /\ r \in Ids /\ job[r].api \in Ids
  BY DEF Inv, JobsOK, JobRecs, Requests, Ids
<1>3. PICK n : n = [by |-> r, ask |-> job[r].ask, stale |-> job[r].stale]
  OBVIOUS
<1>4. n \in Sets /\ n.by = r /\ n.ask = job[r].ask /\ n.stale = job[r].stale
  BY <1>2, <1>3 DEF JobRecs
<1>5. /\ last' \in [Ids -> [Settings -> Sets]]
      /\ \A a \in Ids, s \in Settings :
            last'[a][s] = IF a = job[r].api /\ s = job[r].op THEN n ELSE last[a][s]
  <2>1. CASE job[r].op \in Settings
    <3>1. PICK b \in Ids : b = job[r].api
      BY <1>2
    <3>2. PICK t \in Settings : t = job[r].op
      BY <2>1
    <3>3. last' = [last EXCEPT ![b][t] = n]
      BY <1>3, <2>1, <3>1, <3>2 DEF Kept, Remember
    <3> QED BY <1>1, <1>4, <3>1, <3>2, <3>3
  <2>2. CASE job[r].op \notin Settings
    BY <1>1, <2>2 DEF Kept
  <2> QED BY <2>1, <2>2
<1>6. job[r].op \in Settings => api[job[r].api].state # "none"
  BY <1>2 DEF JobOK, OnApi, Settings
<1>7. ASSUME NEW a \in Ids, api'[a].state = "none" PROVE api[a].state = "none"
  BY <1>7 DEF Changes, ApiChange
<1>8. NoneSet'
  <2>1. \A a \in Ids, s \in Settings : api'[a].state = "none" => last'[a][s].by = NoRow
    BY <1>1, <1>5, <1>6, <1>7
  <2> QED BY <1>5, <2>1 DEF NoneSet
<1>9. LastSetRules'
  <2> SUFFICES ASSUME NEW a \in Ids, NEW s \in Settings, Live(a)', last'[a][s].by # NoRow,
                      ~last'[a][s].stale
               PROVE  /\ s = "update" => api'[a].active = last'[a][s].ask
                      /\ s = "quotas" => quotas'[a] = [p \in Periods |->
                            IF p \in last'[a][s].ask THEN last'[a][s].by ELSE NoRow]
                      /\ s = "rate" => rule'[a] = last'[a][s].ask
    BY DEF LastSetRules, Settings, Live
  <2>1. CASE a = job[r].api /\ s = job[r].op
    <3>1. /\ last'[a][s] = n /\ ~job[r].stale
          /\ api'[job[r].api].state = "live"
      BY <1>4, <1>5, <2>1 DEF Live
    <3>2. /\ s = "update" => api'[a].active = job[r].ask
          /\ s = "quotas" =>
                quotas'[a] = [p \in Periods |-> IF p \in job[r].ask THEN r ELSE NoRow]
          /\ s = "rate" => rule'[a] = job[r].ask
      BY <2>1, <3>1 DEF Kept
    <3> QED BY <1>4, <3>1, <3>2
  <2>2. CASE ~(a = job[r].api /\ s = job[r].op)
    <3>1. last'[a][s] = last[a][s]
      BY <1>5, <2>2
    <3>2. Live(a)
      <4>1. api[a].state \in {"none", "live", "deleted"}
        BY DEF Inv, TypeOK
      <4>2. api[a].state # "none"
        BY <1>1, <3>1
      <4>3. api[a].state # "deleted"
        BY DEF Changes, ApiChange, Live
      <4> QED BY <4>1, <4>2, <4>3 DEF Live
    <3>3. /\ s = "update" => api'[a].active = api[a].active
          /\ s = "quotas" => quotas'[a] = quotas[a]
          /\ s = "rate" => rule'[a] = rule[a]
      BY <2>2, <3>2 DEF Changes, SettingChange
    <3>4. /\ s = "update" => api[a].active = last[a][s].ask
          /\ s = "quotas" => quotas[a] = [p \in Periods |->
                IF p \in last[a][s].ask THEN last[a][s].by ELSE NoRow]
          /\ s = "rate" => rule[a] = last[a][s].ask
      BY <3>1, <3>2 DEF Inv, LastSetRules
    <3> QED BY <3>1, <3>3, <3>4
  <2> QED BY <2>1, <2>2
<1> QED BY <1>8, <1>9

(* Inv is preserved by a commit that leaves the tables and the history so.  *)
LEMMA CommitInv ==
    ASSUME Inv, NEW r \in Requests, job[r].at = "write", Commit(r), Changes(r), Kept(r),
           Rows', AuditRows', UNCHANGED <<now, unlogged>>, crossed' \subseteq Ids
    PROVE  Inv'
<1>1. JobsOK' /\ Unused' /\ \A q \in Requests : job'[q] \in JobRecs
  BY CommitJobs
<1>2. NoneSet' /\ LastSetRules'
  BY CommitSettings
<1>3. UnloggedOnlyByDeleteOrAbort'
  BY DEF Inv, TypeOK, UnloggedOnlyByDeleteOrAbort, Changes, ApiChange
<1>4. TypeOK'
  <2>1. \A q \in Requests : /\ job'[q].at \in {"new", "slug", "write", "version", "log", "done"}
                            /\ job'[q].api \in Ids /\ job'[q].key \in Ids
    BY <1>1 DEF JobRecs, Places
  <2>2. now' \in 0..MaxTime /\ unlogged' \subseteq [api : Ids, aborted : BOOLEAN]
    BY DEF Inv, TypeOK
  <2>3. \A a \in Ids : ~Live(a)' =>
          /\ version'[a] = NoVersion /\ quotas'[a] = NoQuotas /\ rule'[a] = NoRule
          /\ \A k \in Keys' : key'[k].api # a
    BY DEF Rows, KeyRows, Keys, Live
  <2> QED BY <2>1, <2>2, <2>3 DEF Rows, AuditRows, TypeOK, ApiRecs, KeyRecs, Live
<1>5. KeyRows' /\ AuditExplains'
  BY DEF Rows, AuditRows
<1> QED BY <1>1, <1>2, <1>3, <1>4, <1>5 DEF Inv

(* A commit that writes no key and no audit row. *)
LEMMA SameKeys ==
    ASSUME Inv, NEW r, UNCHANGED <<key, audit>>
    PROVE  KeyChange(r) /\ AuditRows'
<1>1. AuditRows
  BY InvRows
<1> QED BY <1>1 DEF KeyChange, AuditRows, AuditExplains, Keys

(* Inv is preserved by the INSERT of an API. *)
LEMMA WriteCreateInv ==
    ASSUME Inv, NEW r \in Requests, WriteCreate(r)
    PROVE  Inv'
<1>1. job[r].at = "write" /\ job[r].op = "create"
  BY DEF WriteCreate, At
<1>2. CASE Taken(job[r].seen)
  BY <1>1, <1>2, RollbackInv DEF WriteCreate
<1>3. CASE ~Taken(job[r].seen)
  <2>1. PICK n : n = [state |-> "live", slug |-> job[r].seen, active |-> TRUE]
    OBVIOUS
  <2>2. /\ api' = [api EXCEPT ![r] = n] /\ Commit(r)
        /\ UNCHANGED <<now, version, quotas, rule, key, audit, unlogged, last, crossed>>
    BY <1>3, <2>1 DEF WriteCreate, history
  <2>3. Rows
    BY InvRows
  <2>4. /\ r \in Ids /\ api[r].state = "none" /\ job[r].seen \in Slugs
    <3>1. r \in Ids /\ api[r].state = "none"
      BY <1>1 DEF Inv, Unused, Requests, Ids
    <3>2. JobOK(r, job[r])
      BY DEF Inv, JobsOK
    <3> QED BY <1>1, <3>1, <3>2 DEF JobOK, CreateOK, Writing
  <2>5. n \in ApiRecs /\ n.state = "live" /\ n.slug = job[r].seen
    BY <2>1, <2>4 DEF ApiRecs
  <2>6. /\ api' \in [Ids -> ApiRecs] /\ api'[r] = n
        /\ \A a \in Ids : a # r => api'[a] = api[a]
    BY <2>2, <2>3, <2>4, <2>5 DEF Rows
  <2>7. Changes(r)
    <3>1. ApiChange(r)
      BY <2>4, <2>6 DEF ApiChange
    <3>2. SettingChange(r)
      BY <2>2, <2>4, <2>6 DEF SettingChange, Live
    <3> QED BY <2>2, <3>1, <3>2, SameKeys DEF Changes
  <2>8. Rows'
    <3>1. \A a \in Ids : Live(a)' <=> Live(a) \/ a = r
      BY <2>5, <2>6 DEF Live
    <3>2. \A a, b \in Ids : Live(a)' /\ Live(b)' /\ api'[a].slug = api'[b].slug => a = b
      BY <1>3, <2>3, <2>5, <2>6, <3>1 DEF Rows, Taken
    <3>3. KeyRows'
      BY <2>2, <2>3, <3>1 DEF Rows, KeyRows, Live
    <3> QED BY <2>2, <2>3, <2>6, <3>1, <3>2, <3>3 DEF Rows, Live
  <2>9. Kept(r)
    BY <1>1, <2>2 DEF Kept, Settings
  <2> QED BY <1>1, <2>2, <2>7, <2>8, <2>9, SameKeys, CommitInv DEF Inv, TypeOK
<1> QED BY <1>2, <1>3

(* Inv is preserved by update_api. *)
LEMMA WriteUpdateInv ==
    ASSUME Inv, NEW r \in Requests, WriteUpdate(r)
    PROVE  Inv'
<1>1. PICK j : j = job[r]
  OBVIOUS
<1>2. j.at = "write" /\ j.op = "update" /\ j \in JobRecs /\ j.api \in Ids /\ JobOK(r, j)
  BY <1>1 DEF WriteUpdate, At, Inv, JobsOK, JobRecs
<1>3. /\ j.ask \in BOOLEAN /\ j.seen \in BOOLEAN
      /\ Live(j.api) /\ ~j.stale => j.seen = api[j.api].active
  BY <1>2 DEF JobOK, SettingOK, Writing
<1>4. CASE j.ask # j.seen /\ ~Live(j.api)
  BY <1>1, <1>2, <1>4, RollbackInv DEF WriteUpdate
<1>5. CASE ~(j.ask # j.seen /\ ~Live(j.api))
  <2>1. /\ api' = IF j.ask = j.seen THEN api ELSE [api EXCEPT ![j.api].active = j.ask]
        /\ Commit(r) /\ Remember(r)
        /\ UNCHANGED <<now, version, quotas, rule, key, audit, unlogged, crossed>>
    BY <1>1, <1>5 DEF WriteUpdate
  <2>2. Rows
    BY InvRows
  <2>3. /\ api' \in [Ids -> ApiRecs]
        /\ \A a \in Ids : /\ api'[a].state = api[a].state /\ api'[a].slug = api[a].slug
                          /\ a # j.api => api'[a] = api[a]
        /\ api'[j.api].active = IF j.ask = j.seen THEN api[j.api].active ELSE j.ask
    <3>1. CASE j.ask = j.seen
      BY <2>1, <2>2, <3>1 DEF Rows
    <3>2. CASE j.ask # j.seen
      BY <1>2, <1>3, <2>1, <2>2, <3>2 DEF Rows, ApiRecs
    <3> QED BY <3>1, <3>2
  <2>4. Changes(r)
    BY <1>1, <1>2, <2>1, <2>3, SameKeys DEF Changes, ApiChange, SettingChange
  <2>5. Rows'
    <3>1. \A a \in Ids : Live(a)' <=> Live(a)
      BY <2>3 DEF Live
    <3> QED BY <2>1, <2>2, <2>3, <3>1 DEF Rows, KeyRows, Live
  <2>6. Kept(r)
    BY <1>1, <1>2, <1>3, <2>1, <2>3 DEF Kept, Settings, Live
  <2> QED BY <1>1, <1>2, <2>1, <2>4, <2>5, <2>6, SameKeys, CommitInv DEF Inv, TypeOK
<1> QED BY <1>4, <1>5

(* Inv is preserved by delete_api and what goes with the API. *)
LEMMA WriteDeleteInv ==
    ASSUME Inv, NEW r \in Requests, WriteDelete(r)
    PROVE  Inv'
<1>1. PICK d : d = job[r].api
  OBVIOUS
<1>2. job[r].at = "write" /\ job[r].op = "delete" /\ d \in Ids /\ JobOK(r, job[r])
  BY <1>1 DEF WriteDelete, At, Inv, JobsOK, JobRecs
<1>3. /\ api' = [api EXCEPT ![d].state = "deleted"] /\ Commit(r)
      /\ version' = [version EXCEPT ![d] = NoVersion]
      /\ quotas' = [quotas EXCEPT ![d] = NoQuotas]
      /\ rule' = [rule EXCEPT ![d] = NoRule]
      /\ key' = [k \in Ids |-> IF key[k].api = d THEN NoKey ELSE key[k]]
      /\ UNCHANGED <<now, audit, unlogged, last, crossed>>
  BY <1>1 DEF WriteDelete, Cascade, history
<1>4. Rows /\ AuditRows
  BY InvRows
<1>5. api[d].state # "none"
  BY <1>1, <1>2 DEF JobOK, OnApi
<1>6. /\ api' \in [Ids -> ApiRecs] /\ api'[d].state = "deleted" /\ api'[d].slug = api[d].slug
      /\ \A a \in Ids : a # d => api'[a] = api[a]
  BY <1>2, <1>3, <1>4 DEF Rows, ApiRecs
<1>7. /\ key' \in [Ids -> KeyRecs]
      /\ \A k \in Ids : key'[k] = IF key[k].api = d THEN NoKey ELSE key[k]
  <2>1. NoKey \in KeyRecs
    BY DEF NoKey, KeyRecs, Never
  <2> QED BY <1>3, <1>4, <2>1 DEF Rows
<1>8. Changes(r)
  <2>1. ApiChange(r)
    BY <1>5, <1>6 DEF ApiChange
  <2>2. SettingChange(r)
    BY <1>3, <1>4, <1>6 DEF SettingChange, Live, Rows
  <2>3. KeyChange(r)
    BY <1>6, <1>7 DEF KeyChange
  <2> QED BY <2>1, <2>2, <2>3 DEF Changes
<1>9. Rows'
  <2>1. \A a \in Ids : Live(a)' <=> Live(a) /\ a # d
    BY <1>6 DEF Live
  <2>2. KeyRows'
    BY <1>4, <1>7, <2>1 DEF Rows, KeyRows, Live
  <2>3. /\ version' \in [Ids -> [by : Ids \cup {NoRow}, active : BOOLEAN]]
        /\ quotas' \in [Ids -> [Periods -> Ids \cup {NoRow}]]
        /\ rule' \in [Ids -> Rules \cup {NoRule}]
    BY <1>3, <1>4 DEF Rows, NoVersion, NoQuotas
  <2>4. \A a \in Ids : ~Live(a)' =>
          version'[a] = NoVersion /\ quotas'[a] = NoQuotas /\ rule'[a] = NoRule
    BY <1>3, <1>4, <2>1 DEF Rows
  <2>5. \A a, b \in Ids : Live(a)' /\ Live(b)' /\ api'[a].slug = api'[b].slug => a = b
    BY <1>4, <1>6, <2>1 DEF Rows
  <2> QED BY <1>6, <1>7, <2>2, <2>3, <2>4, <2>5 DEF Rows, Live
<1>10. AuditRows'
  <2>1. \A k \in Keys' : k \in Keys /\ key'[k] = key[k]
    BY <1>7 DEF Keys
  <2> QED BY <1>3, <1>4, <2>1 DEF AuditRows, AuditExplains
<1>11. Kept(r)
  BY <1>2, <1>3 DEF Kept, Settings
<1> QED BY <1>2, <1>3, <1>8, <1>9, <1>10, <1>11, CommitInv DEF Inv, TypeOK

(* A commit that writes nothing of any API and no key. *)
LEMMA SameApis ==
    ASSUME Inv, NEW r, UNCHANGED <<api, quotas, rule, key, audit>>
    PROVE  Changes(r) /\ AuditRows'
<1>1. ApiChange(r) /\ SettingChange(r)
  BY DEF ApiChange, SettingChange
<1> QED BY <1>1, SameKeys DEF Changes

(* Inv is preserved by add_version and delete_version. *)
LEMMA WriteVersionInv ==
    ASSUME Inv, NEW r \in Requests, WriteAddVersion(r) \/ WriteDeleteVersion(r)
    PROVE  Inv'
<1>1. PICK a : a = job[r].api
  OBVIOUS
<1>2. /\ job[r].at = "write" /\ job[r].op \in {"add_version", "delete_version"} /\ a \in Ids
      /\ JobOK(r, job[r]) /\ r \in Ids
  BY <1>1 DEF WriteAddVersion, WriteDeleteVersion, At, Inv, JobsOK, JobRecs, Requests, Ids
<1>3. Rows
  BY InvRows
<1>4. ASSUME NEW n \in [by : Ids \cup {NoRow}, active : BOOLEAN], n = NoVersion \/ Live(a),
             version' = [version EXCEPT ![a] = n], Commit(r),
             UNCHANGED <<now, api, quotas, rule, key, audit, history>>
      PROVE  Inv'
  <2>1. UNCHANGED <<unlogged, last, crossed>>
    BY <1>4 DEF history
  <2>2. Rows'
    BY <1>2, <1>3, <1>4 DEF Rows, KeyRows, Live
  <2>3. Kept(r)
    BY <1>2, <2>1 DEF Kept, Settings
  <2> QED BY <1>2, <1>4, <2>1, <2>2, <2>3, SameApis, CommitInv DEF Inv, TypeOK
<1>5. CASE WriteAddVersion(r)
  <2>1. CASE ~Live(a) \/ version[a] # NoVersion
    BY <1>1, <1>2, <1>5, <2>1, RollbackInv DEF WriteAddVersion
  <2>2. CASE ~(~Live(a) \/ version[a] # NoVersion)
    <3>1. job[r].ask \in BOOLEAN
      BY <1>2, <1>5 DEF WriteAddVersion, At, JobOK, SettingOK, Writing
    <3>2. PICK n \in [by : Ids \cup {NoRow}, active : BOOLEAN] : n = [by |-> r, active |-> job[r].ask]
      BY <1>2, <3>1
    <3>3. /\ version' = [version EXCEPT ![a] = n] /\ Commit(r)
          /\ UNCHANGED <<now, api, quotas, rule, key, audit, history>>
      BY <1>1, <1>5, <2>2, <3>2 DEF WriteAddVersion
    <3> QED BY <1>4, <2>2, <3>3
  <2> QED BY <2>1, <2>2
<1>6. CASE WriteDeleteVersion(r)
  <2>1. Commit(r) /\ UNCHANGED <<now, api, quotas, rule, key, audit, history>>
    BY <1>6 DEF WriteDeleteVersion
  <2>2. CASE version[a].by = job[r].seen
    <3>1. version' = [version EXCEPT ![a] = NoVersion]
      BY <1>1, <1>6, <2>2 DEF WriteDeleteVersion
    <3>2. NoVersion \in [by : Ids \cup {NoRow}, active : BOOLEAN]
      BY DEF NoVersion
    <3> QED BY <1>4, <2>1, <3>1, <3>2
  <2>3. CASE version[a].by # job[r].seen
    <3>1. version' = version
      BY <1>1, <1>6, <2>3 DEF WriteDeleteVersion
    <3>2. PICK n \in [by : Ids \cup {NoRow}, active : BOOLEAN] : n = version[a]
      BY <1>2, <1>3 DEF Rows
    <3>3. version' = [version EXCEPT ![a] = n]
      BY <1>2, <1>3, <3>1, <3>2 DEF Rows
    <3>4. n = NoVersion \/ Live(a)
      BY <1>2, <1>3, <3>2 DEF Rows
    <3> QED BY <1>4, <2>1, <3>3, <3>4
  <2> QED BY <2>2, <2>3
<1> QED BY <1>5, <1>6

(* Inv is preserved by set_quotas. *)
LEMMA WriteQuotasInv ==
    ASSUME Inv, NEW r \in Requests, WriteQuotas(r)
    PROVE  Inv'
<1>1. PICK j : j = job[r]
  OBVIOUS
<1>2. PICK a : a = j.api
  OBVIOUS
<1>3. PICK kept : kept = {p \in Periods : quotas[a][p] \notin {NoRow, j.seen[p]}}
  OBVIOUS
<1>4. /\ j.at = "write" /\ j.op = "quotas" /\ j \in JobRecs /\ a \in Ids /\ JobOK(r, j)
      /\ r \in Ids
  BY <1>1, <1>2 DEF WriteQuotas, At, Inv, JobsOK, JobRecs, Requests, Ids
<1>5. /\ j.ask \in SUBSET Periods
      /\ Live(a) /\ ~j.stale => j.seen = quotas[a]
  BY <1>2, <1>4 DEF JobOK, SettingOK, Writing
<1>6. CASE j.ask # {} /\ (~Live(a) \/ kept \cap j.ask # {})
  BY <1>1, <1>2, <1>3, <1>4, <1>6, RollbackInv DEF WriteQuotas
<1>7. CASE ~(j.ask # {} /\ (~Live(a) \/ kept \cap j.ask # {}))
  <2>1. PICK n : n = [p \in Periods |-> IF p \in j.ask THEN r
                                        ELSE IF p \in kept THEN quotas[a][p] ELSE NoRow]
    OBVIOUS
  <2>2. /\ quotas' = [quotas EXCEPT ![a] = n] /\ Commit(r) /\ Remember(r)
        /\ UNCHANGED <<now, api, version, rule, key, audit, unlogged, crossed>>
    BY <1>1, <1>2, <1>3, <1>7, <2>1 DEF WriteQuotas
  <2>3. Rows
    BY InvRows
  <2>4. n \in [Periods -> Ids \cup {NoRow}] /\ (~Live(a) => n = NoQuotas)
    <3>1. n \in [Periods -> Ids \cup {NoRow}]
      BY <1>4, <2>1, <2>3 DEF Rows
    <3>2. ASSUME ~Live(a) PROVE n = NoQuotas
      <4>1. j.ask = {} /\ quotas[a] = NoQuotas
        BY <1>4, <1>7, <2>3, <3>2 DEF Rows
      <4> QED BY <2>1, <4>1 DEF NoQuotas
    <3> QED BY <3>1, <3>2
  <2>5. Rows'
    BY <1>4, <2>2, <2>3, <2>4 DEF Rows, KeyRows, Live
  <2>6. Changes(r)
    <3>1. \A b \in Ids : quotas'[b] = quotas[b] \/ b = a
      BY <2>2, <2>3 DEF Rows
    <3>2. ApiChange(r) /\ SettingChange(r)
      BY <1>1, <1>2, <1>4, <2>2, <3>1 DEF ApiChange, SettingChange
    <3> QED BY <2>2, <3>2, SameKeys DEF Changes
  <2>7. Kept(r)
    <3>1. ASSUME Live(a), ~j.stale
          PROVE  n = [p \in Periods |-> IF p \in j.ask THEN r ELSE NoRow]
      <4>1. kept = {}
        BY <1>3, <1>5, <3>1
      <4> QED BY <2>1, <4>1
    <3>2. quotas'[a] = n
      BY <1>4, <2>2, <2>3 DEF Rows
    <3> QED BY <1>1, <1>2, <1>4, <2>2, <3>1, <3>2 DEF Kept, Settings, Live
  <2> QED BY <1>1, <1>4, <2>2, <2>5, <2>6, <2>7, SameKeys, CommitInv DEF Inv, TypeOK
<1> QED BY <1>6, <1>7

(* A rule is told by its two columns. *)
LEMMA RuleColumns ==
    ASSUME NEW x \in Rules \cup {NoRule}
    PROVE  /\ x = [c \in {"requests", "window"} |-> x[c]]
           /\ x \in Rules <=> x["requests"] \in {1, 2} /\ x["window"] \in {1, 2}
           /\ x = NoRule <=> x["requests"] = 0
           /\ x = NoRule <=> x["window"] = 0
           /\ DOMAIN NoRule = {"requests", "window"}
  BY DEF Rules, NoRule

(* Inv is preserved by set_rate_limit. *)
LEMMA WriteRateInv ==
    ASSUME Inv, NEW r \in Requests, WriteRate(r)
    PROVE  Inv'
<1>1. PICK j : j = job[r]
  OBVIOUS
<1>2. PICK a : a = j.api
  OBVIOUS
<1>3. /\ j.at = "write" /\ j.op = "rate" /\ j \in JobRecs /\ a \in Ids /\ JobOK(r, j)
  BY <1>1, <1>2 DEF WriteRate, At, Inv, JobsOK, JobRecs
<1>4. /\ j.ask \in Rules /\ j.seen \in Rules \cup {NoRule}
      /\ Live(a) /\ ~j.stale => j.seen = rule[a]
      /\ Live(a) /\ j.seen # NoRule => rule[a] # NoRule
  BY <1>2, <1>3 DEF JobOK, SettingOK, Writing
<1>5. CASE j.ask # j.seen /\ (~Live(a) \/ (j.seen = NoRule /\ rule[a] # NoRule))
  BY <1>1, <1>2, <1>3, <1>5, RollbackInv DEF WriteRate
<1>6. CASE ~(j.ask # j.seen /\ (~Live(a) \/ (j.seen = NoRule /\ rule[a] # NoRule)))
  <2>1. PICK n : n = [c \in {"requests", "window"} |->
                        IF j.ask[c] # j.seen[c] THEN j.ask[c] ELSE rule[a][c]]
    OBVIOUS
  <2>2. /\ rule' = [rule EXCEPT ![a] = n] /\ Commit(r) /\ Remember(r)
        /\ UNCHANGED <<now, api, version, quotas, key, audit, unlogged, crossed>>
    BY <1>1, <1>2, <1>6, <2>1, RuleColumns DEF WriteRate
  <2>3. Rows
    BY InvRows
  <2>4. PICK ask \in Rules : ask = j.ask
    BY <1>4
  <2>5. PICK seen \in Rules \cup {NoRule} : seen = j.seen
    BY <1>4
  <2>6. PICK old \in Rules \cup {NoRule} : old = rule[a]
    BY <1>3, <2>3 DEF Rows
  <2>7. n = [c \in {"requests", "window"} |-> IF ask[c] # seen[c] THEN ask[c] ELSE old[c]]
    BY <2>1, <2>4, <2>5, <2>6
  <2>8. ASSUME seen = old PROVE n = ask
    <3>1. n = [c \in {"requests", "window"} |-> ask[c]]
      BY <2>7, <2>8
    <3> QED BY <3>1, RuleColumns
  <2>9. ASSUME ~Live(a) PROVE n = NoRule
    <3>1. ask = seen /\ old = NoRule
      BY <1>3, <1>6, <2>3, <2>4, <2>5, <2>6, <2>9 DEF Rows
    <3>2. n = [c \in {"requests", "window"} |-> old[c]]
      BY <2>7, <3>1
    <3> QED BY <3>1, <3>2, RuleColumns
  <2>10. ASSUME Live(a) PROVE n \in Rules
    <3>1. CASE seen = NoRule
      <4>1. ask # seen
        BY <3>1, RuleColumns
      <4>2. old = NoRule
        BY <1>6, <2>4, <2>5, <2>6, <2>10, <3>1, <4>1
      <4> QED BY <2>8, <3>1, <4>2
    <3>2. CASE seen # NoRule
      <4>1. old \in Rules
        BY <1>4, <2>5, <2>6, <2>10, <3>2
      <4>2. /\ ask["requests"] \in {1, 2} /\ ask["window"] \in {1, 2}
            /\ old["requests"] \in {1, 2} /\ old["window"] \in {1, 2}
        BY <4>1, RuleColumns
      <4>3. PICK x \in {1, 2} : x = n["requests"]
        BY <2>7, <4>2
      <4>4. PICK y \in {1, 2} : y = n["window"]
        BY <2>7, <4>2
      <4>5. n = [requests |-> x, window |-> y]
        BY <2>7, <4>3, <4>4
      <4> QED BY <4>5 DEF Rules
    <3> QED BY <3>1, <3>2
  <2>11. n \in Rules \cup {NoRule}
    BY <2>9, <2>10
  <2>12. Rows'
    BY <1>3, <2>2, <2>3, <2>9, <2>11 DEF Rows, KeyRows, Live
  <2>13. Changes(r)
    <3>1. rule'[a] = n /\ \A b \in Ids : rule'[b] = rule[b] \/ b = a
      BY <1>3, <2>2, <2>3 DEF Rows
    <3>2. NoRule \notin Rules
      BY RuleColumns
    <3>3. ApiChange(r) /\ SettingChange(r)
      BY <1>1, <1>2, <1>3, <2>2, <2>10, <3>1, <3>2 DEF ApiChange, SettingChange
    <3> QED BY <2>2, <3>3, SameKeys DEF Changes
  <2>14. Kept(r)
    <3>1. rule'[a] = n
      BY <1>3, <2>2, <2>3 DEF Rows
    <3>2. ASSUME Live(a), ~j.stale PROVE n = j.ask
      <4>1. seen = old
        BY <1>4, <2>5, <2>6, <3>2
      <4> QED BY <2>4, <2>8, <4>1
    <3> QED BY <1>1, <1>2, <1>3, <2>2, <3>1, <3>2 DEF Kept, Settings, Live
  <2> QED BY <1>1, <1>3, <2>2, <2>12, <2>13, <2>14, SameKeys, CommitInv DEF Inv, TypeOK
<1> QED BY <1>5, <1>6

(* The row of a new key, which request r issues for API a. *)
LEMMA NewKeyRow ==
    ASSUME Inv, NEW a \in Ids, NEW life \in Lifetimes \cup {Never}
    PROVE  /\ NewKey(a, life) \in KeyRecs /\ NewKey(a, life) # NoKey
           /\ NewKey(a, life).api = a /\ NewKey(a, life).to = NoRow
           /\ NewKey(a, life).revoked = FALSE
<1>1. NoKey \in KeyRecs /\ NoKey.api = NoRow /\ NoKey.to = NoRow /\ NoKey.revoked = FALSE
  BY DEF NoKey, KeyRecs, Never
<1>2. PICK e \in 0..Never : e = IF life = Never THEN Never ELSE now + life
  <2>1. now \in 0..MaxTime
    BY DEF Inv, TypeOK
  <2> QED BY <2>1 DEF Never
<1>3. NewKey(a, life) = [NoKey EXCEPT !.api = a, !.expires = e]
  BY <1>2 DEF NewKey
<1>4. a # NoRow
  BY DEF Ids, NoRow
<1> QED BY <1>1, <1>3, <1>4 DEF KeyRecs

(* A commit that writes keys of live APIs only. *)
LEMMA NewKeyRows ==
    ASSUME Inv, NEW r \in Requests, UNCHANGED <<api, version, quotas, rule>>, KeyChange(r),
           key' \in [Ids -> KeyRecs], key'[r] # NoKey => key'[r].api \in Ids /\ Live(key'[r].api)
    PROVE  Changes(r) /\ Rows'
<1>1. Rows
  BY InvRows
<1>2. ApiChange(r) /\ SettingChange(r)
  BY DEF ApiChange, SettingChange
<1>3. KeyRows'
  <2> SUFFICES ASSUME NEW k \in Ids, key'[k] # NoKey
               PROVE  key'[k].api \in Ids /\ api'[key'[k].api].state = "live"
    BY DEF KeyRows, Live
  <2>1. CASE k = r
    BY <2>1 DEF Live
  <2>2. CASE k # r
    BY <1>1, <2>2 DEF KeyChange, Rows, KeyRows, Live
  <2> QED BY <2>1, <2>2
<1> QED BY <1>1, <1>2, <1>3 DEF Rows, Changes, Live

(* Inv is preserved by create_key. *)
LEMMA WriteCreateKeyInv ==
    ASSUME Inv, NEW r \in Requests, WriteCreateKey(r)
    PROVE  Inv'
<1>1. PICK a : a = job[r].api
  OBVIOUS
<1>2. /\ job[r].at = "write" /\ job[r].op = "create_key" /\ a \in Ids /\ JobOK(r, job[r])
      /\ r \in Ids /\ key[r] = NoKey
  BY <1>1 DEF WriteCreateKey, At, Inv, JobsOK, JobRecs, Requests, Ids, Unused
<1>3. CASE ~Live(a)
  BY <1>1, <1>2, <1>3, RollbackInv DEF WriteCreateKey
<1>4. CASE Live(a)
  <2>1. PICK n : n = NewKey(a, job[r].ask)
    OBVIOUS
  <2>2. /\ key' = [key EXCEPT ![r] = n] /\ Audited("create", r, r) /\ Commit(r)
        /\ UNCHANGED <<now, api, version, quotas, rule, unlogged, last, crossed>>
    BY <1>1, <1>4, <2>1 DEF WriteCreateKey, history
  <2>3. Rows /\ AuditRows
    BY InvRows
  <2>4. job[r].ask \in Lifetimes
    BY <1>2 DEF JobOK, SettingOK, Writing
  <2>5. n \in KeyRecs /\ n # NoKey /\ n.api = a /\ n.to = NoRow /\ n.revoked = FALSE
    BY <1>2, <2>1, <2>4, NewKeyRow
  <2>6. /\ key' \in [Ids -> KeyRecs] /\ key'[r] = n
        /\ \A k \in Ids : k # r => key'[k] = key[k]
    BY <1>2, <2>2, <2>3, <2>5 DEF Rows
  <2>7. KeyChange(r)
    BY <1>2, <2>6 DEF KeyChange
  <2>8. Changes(r) /\ Rows'
    BY <1>2, <1>4, <2>2, <2>5, <2>6, <2>7, NewKeyRows
  <2>9. AuditRows'
    <3>1. PICK e : e = [action |-> "create", key |-> r, new |-> r]
      OBVIOUS
    <3>2. audit' = audit \cup {e} /\ e.action = "create" /\ e.new = r
      BY <2>2, <3>1 DEF Audited
    <3>3. e \in [action : {"create", "revoke", "rotate"}, key : Ids, new : Ids]
      BY <1>2, <3>1
    <3>4. AuditExplains'
      <4> SUFFICES ASSUME NEW k \in Ids, key'[k] # NoKey
                   PROVE  /\ k # 0 => \E x \in audit' : x.new = k /\ x.action \in {"create", "rotate"}
                          /\ key'[k].revoked => \E x \in audit' : x.key = k /\ x.action \in {"revoke", "rotate"}
                          /\ key'[k].to # NoRow => [action |-> "rotate", key |-> k, new |-> key'[k].to] \in audit'
        BY DEF AuditExplains, Keys
      <4>1. CASE k = r
        BY <2>5, <2>6, <3>2, <4>1
      <4>2. CASE k # r
        BY <2>3, <2>6, <3>2, <4>2 DEF AuditRows, AuditExplains, Keys
      <4> QED BY <4>1, <4>2
    <3> QED BY <2>3, <3>2, <3>3, <3>4 DEF AuditRows
  <2>10. Kept(r)
    BY <1>2, <2>2 DEF Kept, Settings
  <2> QED BY <1>2, <2>2, <2>8, <2>9, <2>10, CommitInv DEF Inv, TypeOK
<1> QED BY <1>3, <1>4

(* Inv is preserved by revoke_key. *)
LEMMA WriteRevokeInv ==
    ASSUME Inv, NEW r \in Requests, WriteRevoke(r)
    PROVE  Inv'
<1>1. PICK k : k = job[r].key
  OBVIOUS
<1>2. /\ job[r].at = "write" /\ job[r].op = "revoke" /\ k \in Ids /\ JobOK(r, job[r])
      /\ r \in Ids /\ key[r] = NoKey
  BY <1>1 DEF WriteRevoke, At, Inv, JobsOK, JobRecs, Requests, Ids, Unused
<1>3. job[r].seen \in BOOLEAN /\ (k \in Requests => job[k].at = "done")
  BY <1>1, <1>2 DEF JobOK, KeyOK, OnKey, Writing
<1>4. k # r
  BY <1>2, <1>3
<1>5. CASE ~job[r].seen /\ key[k] = NoKey
  BY <1>1, <1>2, <1>5, RollbackInv DEF WriteRevoke
<1>6. CASE ~(~job[r].seen /\ key[k] = NoKey)
  <2>1. /\ key' = IF job[r].seen THEN key ELSE [key EXCEPT ![k].revoked = TRUE]
        /\ Audited("revoke", k, k) /\ Commit(r)
        /\ UNCHANGED <<now, api, version, quotas, rule, unlogged, last, crossed>>
    BY <1>1, <1>6 DEF WriteRevoke, history
  <2>2. Rows /\ AuditRows
    BY InvRows
  <2>3. /\ key' \in [Ids -> KeyRecs]
        /\ \A i \in Ids : /\ i # k => key'[i] = key[i]
                          /\ key'[i].api = key[i].api /\ key'[i].expires = key[i].expires
                          /\ key'[i].to = key[i].to
                          /\ key[i] = NoKey => key'[i] = NoKey
                          /\ key'[i] = NoKey => key[i] = NoKey
    <3>1. CASE job[r].seen
      BY <2>1, <2>2, <3>1 DEF Rows
    <3>2. CASE ~job[r].seen
      <4>1. key[k] # NoKey /\ key[k].api # NoRow
        <5>1. key[k] # NoKey
          BY <1>6, <3>2
        <5> QED BY <1>2, <2>2, <5>1 DEF Rows, KeyRows, Ids, NoRow
      <4>2. key' = [key EXCEPT ![k] = [key[k] EXCEPT !.revoked = TRUE]]
        BY <2>1, <3>2
      <4>3. PICK o \in KeyRecs : o = key[k]
        BY <1>2, <2>2 DEF Rows
      <4>4. PICK n : n = [o EXCEPT !.revoked = TRUE]
        OBVIOUS
      <4>5. n \in KeyRecs /\ n.api = o.api /\ n.expires = o.expires /\ n.to = o.to
        BY <4>4 DEF KeyRecs
      <4>6. key' = [key EXCEPT ![k] = n]
        BY <4>2, <4>3, <4>4
      <4>7. /\ key' \in [Ids -> KeyRecs] /\ key'[k] = n
            /\ \A i \in Ids : i # k => key'[i] = key[i]
        BY <1>2, <2>2, <4>5, <4>6 DEF Rows
      <4>8. n # NoKey
        BY <4>1, <4>3, <4>5, Absent
      <4> QED BY <4>1, <4>3, <4>5, <4>7, <4>8
    <3> QED BY <3>1, <3>2
  <2>4. KeyChange(r)
    BY <2>3 DEF KeyChange
  <2>5. Changes(r) /\ Rows'
    <3>1. key'[r] = NoKey
      BY <1>2, <1>4, <2>3
    <3> QED BY <2>1, <2>3, <2>4, <3>1, NewKeyRows
  <2>6. AuditRows'
    <3>1. PICK e : e = [action |-> "revoke", key |-> k, new |-> k]
      OBVIOUS
    <3>2. audit' = audit \cup {e} /\ e.action = "revoke" /\ e.key = k
      BY <2>1, <3>1 DEF Audited
    <3>3. e \in [action : {"create", "revoke", "rotate"}, key : Ids, new : Ids]
      BY <1>2, <3>1
    <3>4. AuditExplains'
      <4> SUFFICES ASSUME NEW i \in Ids, key'[i] # NoKey
                   PROVE  /\ i # 0 => \E x \in audit' : x.new = i /\ x.action \in {"create", "rotate"}
                          /\ key'[i].revoked => \E x \in audit' : x.key = i /\ x.action \in {"revoke", "rotate"}
                          /\ key'[i].to # NoRow => [action |-> "rotate", key |-> i, new |-> key'[i].to] \in audit'
        BY DEF AuditExplains, Keys
      <4>1. /\ i # 0 => \E x \in audit : x.new = i /\ x.action \in {"create", "rotate"}
            /\ key[i].revoked => \E x \in audit : x.key = i /\ x.action \in {"revoke", "rotate"}
            /\ key[i].to # NoRow => [action |-> "rotate", key |-> i, new |-> key[i].to] \in audit
        BY <2>2, <2>3 DEF AuditRows, AuditExplains, Keys
      <4> QED BY <2>3, <3>2, <4>1
    <3> QED BY <2>2, <3>2, <3>3, <3>4 DEF AuditRows
  <2>7. Kept(r)
    BY <1>2, <2>1 DEF Kept, Settings
  <2> QED BY <1>2, <2>1, <2>5, <2>6, <2>7, CommitInv DEF Inv, TypeOK
<1> QED BY <1>5, <1>6

(* The row of the old key after its rotation. *)
LEMMA RotatedRow ==
    ASSUME Inv, NEW old \in KeyRecs, NEW r \in Ids, NEW grace \in Graces, NEW seen \in 0..Never
    PROVE  LET n == Rotated(old, r, grace, seen)
           IN  /\ n \in KeyRecs /\ n.api = old.api /\ n.to = r
               /\ old.revoked => n.revoked
               /\ seen = old.expires => n.expires <= old.expires
<1>1. PICK e : e = IF grace # 0 /\ seen > now + grace THEN now + grace ELSE old.expires
  OBVIOUS
<1>2. PICK v \in BOOLEAN : v = (old.revoked \/ grace = 0)
  OBVIOUS
<1>3. PICK x \in 0..Never : x = old.expires
  BY DEF KeyRecs
<1>4. e \in 0..Never /\ (seen = x => e <= x)
  <2>1. now \in Nat /\ now < 100 /\ grace \in 0..100
    BY DEF Inv, TypeOK
  <2> QED BY <1>1, <1>3, <2>1 DEF Never
<1>5. PICK n : n = Rotated(old, r, grace, seen)
  OBVIOUS
<1>6. n = [old EXCEPT !.revoked = v, !.expires = e, !.to = r]
  BY <1>1, <1>2, <1>5 DEF Rotated
<1>7. n \in KeyRecs /\ n.api = old.api /\ n.to = r /\ n.revoked = v /\ n.expires = e
  BY <1>4, <1>6 DEF KeyRecs
<1> QED BY <1>2, <1>3, <1>4, <1>5, <1>7

(* What a rotation does to the keys. *)
KeysRotated(r, k) ==
    /\ k \in Ids /\ r \in Ids /\ k # r /\ key[r] = NoKey
    /\ key' \in [Ids -> KeyRecs]
    /\ key'[r].api = key[k].api /\ key'[r] # NoKey
    /\ key'[r].revoked = FALSE /\ key'[r].to = NoRow
    /\ key'[k] # NoKey /\ key'[k].api = key[k].api /\ key'[k].to = r
    /\ key[k].revoked => key'[k].revoked
    /\ key'[k].expires <= key[k].expires \/ job[r].stale
    /\ \A i \in Ids : i # k /\ i # r => key'[i] = key[i]

(* rotate_key issues a successor of the same API, and the old key loses. *)
LEMMA RotateKeys ==
    ASSUME Inv, NEW r \in Requests, WriteRotate(r), NEW k \in Ids, k = job[r].key,
           key[k] # NoKey
    PROVE  KeysRotated(r, k)
<1>1. k = job[r].key
  OBVIOUS
<1>2. /\ job[r].at = "write" /\ job[r].op = "rotate" /\ k \in Ids /\ JobOK(r, job[r])
      /\ r \in Ids /\ key[r] = NoKey /\ job[r].api \in Ids
  BY <1>1 DEF WriteRotate, At, Inv, JobsOK, JobRecs, Requests, Ids, Unused
<1>3. /\ k \in Requests => job[k].at = "done"
      /\ key[k].api = job[r].api
      /\ job[r].ask \in Graces /\ job[r].seen \in 0..Never
      /\ ~job[r].stale => job[r].seen = key[k].expires
  BY <1>1, <1>2 DEF JobOK, KeyOK, OnKey, Writing
<1>4. k # r
  BY <1>2, <1>3
<1>5. Rows
  BY InvRows
<1>6. PICK m : m = Issued(r)
  OBVIOUS
<1>7. PICK o \in KeyRecs : o = key[k]
  BY <1>2, <1>5 DEF Rows
<1>8. PICK n : n = Rotated(o, r, job[r].ask, job[r].seen)
  OBVIOUS
<1>9. key' = [key EXCEPT ![r] = m, ![k] = n]
  BY <1>1, <1>4, <1>6, <1>7, <1>8 DEF WriteRotate
<1>10. /\ m \in KeyRecs /\ m # NoKey /\ m.api = job[r].api /\ m.to = NoRow
       /\ m.revoked = FALSE
  <2>1. PICK a \in Ids : a = job[r].api
    BY <1>2
  <2>2. m = NewKey(a, Never) /\ Never \in Lifetimes \cup {Never}
    BY <1>6, <2>1 DEF Issued
  <2> QED BY <2>1, <2>2, NewKeyRow
<1>11. PICK grace \in Graces : grace = job[r].ask
  BY <1>3
<1>12. PICK seen \in 0..Never : seen = job[r].seen
  BY <1>3
<1>13. /\ n \in KeyRecs /\ n.api = o.api /\ n.to = r /\ (o.revoked => n.revoked)
       /\ n.expires <= o.expires \/ job[r].stale
  BY <1>2, <1>3, <1>7, <1>8, <1>11, <1>12, RotatedRow
<1>14. /\ key' \in [Ids -> KeyRecs] /\ key'[r] = m /\ key'[k] = n
       /\ \A i \in Ids : i # k /\ i # r => key'[i] = key[i]
  BY <1>2, <1>4, <1>5, <1>9, <1>10, <1>13 DEF Rows
<1>15. n # NoKey
  BY <1>1, <1>2, <1>3, <1>5, <1>7, <1>13, Absent DEF Rows, KeyRows
<1> QED BY <1>1, <1>2, <1>3, <1>4, <1>7, <1>10, <1>13, <1>14, <1>15 DEF KeysRotated

(* Inv is preserved by rotate_key. *)
LEMMA WriteRotateInv ==
    ASSUME Inv, NEW r \in Requests, WriteRotate(r)
    PROVE  Inv'
<1>1. PICK k : k = job[r].key
  OBVIOUS
<1>2. job[r].at = "write" /\ job[r].op = "rotate"
  BY DEF WriteRotate, At
<1>3. CASE key[k] = NoKey
  BY <1>1, <1>2, <1>3, RollbackInv DEF WriteRotate
<1>4. CASE key[k] # NoKey
  <2>1. /\ Audited("rotate", k, r) /\ Commit(r)
        /\ crossed' = IF job[r].stale THEN crossed \cup {k} ELSE crossed
        /\ UNCHANGED <<now, api, version, quotas, rule, unlogged, last>>
    BY <1>1, <1>4 DEF WriteRotate
  <2>2. /\ k \in Ids /\ r \in Ids /\ k # r /\ key[r] = NoKey
        /\ key' \in [Ids -> KeyRecs]
        /\ key'[r].api = key[k].api /\ key'[r] # NoKey
        /\ key'[r].revoked = FALSE /\ key'[r].to = NoRow
        /\ key'[k] # NoKey /\ key'[k].api = key[k].api /\ key'[k].to = r
        /\ \A i \in Ids : i # k /\ i # r => key'[i] = key[i]
    <3>1. k \in Ids
      BY <1>1 DEF Inv, TypeOK
    <3>2. KeysRotated(r, k)
      BY <1>1, <1>4, <3>1, RotateKeys
    <3> QED BY <3>2 DEF KeysRotated
  <2>3. Rows /\ AuditRows
    BY InvRows
  <2>4. KeyChange(r)
    BY <1>1, <1>2, <1>4, <2>2 DEF KeyChange
  <2>5. Changes(r) /\ Rows'
    <3>1. key'[r].api \in Ids /\ Live(key'[r].api)
      BY <1>4, <2>2, <2>3 DEF Rows, KeyRows
    <3> QED BY <2>1, <2>2, <2>4, <3>1, NewKeyRows
  <2>6. AuditRows'
    <3>1. PICK e : e = [action |-> "rotate", key |-> k, new |-> r]
      OBVIOUS
    <3>2. audit' = audit \cup {e} /\ e.action = "rotate" /\ e.key = k /\ e.new = r
      BY <2>1, <3>1 DEF Audited
    <3>3. e \in [action : {"create", "revoke", "rotate"}, key : Ids, new : Ids]
      BY <2>2, <3>1
    <3>4. AuditExplains'
      <4> SUFFICES ASSUME NEW i \in Ids, key'[i] # NoKey
                   PROVE  /\ i # 0 => \E x \in audit' : x.new = i /\ x.action \in {"create", "rotate"}
                          /\ key'[i].revoked => \E x \in audit' : x.key = i /\ x.action \in {"revoke", "rotate"}
                          /\ key'[i].to # NoRow => [action |-> "rotate", key |-> i, new |-> key'[i].to] \in audit'
        BY DEF AuditExplains, Keys
      <4>1. CASE i = r
        BY <2>2, <3>2, <4>1
      <4>2. CASE i = k
        <5>1. i # 0 => \E x \in audit : x.new = i /\ x.action \in {"create", "rotate"}
          BY <1>4, <2>3, <4>2 DEF AuditRows, AuditExplains, Keys
        <5> QED BY <2>2, <3>1, <3>2, <4>2, <5>1
      <4>3. CASE i # r /\ i # k
        BY <2>2, <2>3, <3>2, <4>3 DEF AuditRows, AuditExplains, Keys
      <4> QED BY <4>1, <4>2, <4>3
    <3> QED BY <2>3, <3>2, <3>3, <3>4 DEF AuditRows
  <2>7. Kept(r)
    BY <1>2, <2>1 DEF Kept, Settings
  <2>8. crossed' \subseteq Ids
    BY <2>1, <2>2 DEF Inv, TypeOK
  <2> QED BY <1>2, <2>1, <2>5, <2>6, <2>7, <2>8, CommitInv
<1> QED BY <1>3, <1>4

-----------------------------------------------------------------------------
(* Inv is preserved by every step. *)
LEMMA NextInv == Inv /\ [Next]_vars => Inv'
<1> SUFFICES ASSUME Inv, [Next]_vars PROVE Inv'
  OBVIOUS
<1>1. CASE Tick
  BY <1>1, TickInv
<1>2. ASSUME NEW r \in Requests, Manage(r) PROVE Inv'
  BY <1>2, BeginCreateInv, TrySlugInv, WriteCreateInv, ReadSettingInv, WriteUpdateInv,
     WriteDeleteInv, WriteVersionInv, WriteQuotasInv, WriteRateInv DEF Manage
<1>3. ASSUME NEW r \in Requests, ManageKeys(r) PROVE Inv'
  BY <1>3, ReadKeyInv, WriteCreateKeyInv, WriteRevokeInv, WriteRotateInv DEF ManageKeys
<1>4. ASSUME NEW r \in Requests, Proxy(r) PROVE Inv'
  BY <1>4, AuthenticateInv, ReadVersionInv, LogInv DEF Proxy
<1>5. ASSUME NEW r \in Requests, Abort(r) PROVE Inv'
  BY <1>5, AbortInv
<1>6. CASE UNCHANGED vars
  <2>1. UNCHANGED <<now, api, version, quotas, rule, key, audit, job, unlogged, last, crossed>>
    BY <1>6 DEF vars
  <2>2. TypeOK' /\ Unused' /\ KeyRows'
    BY <2>1 DEF Inv, TypeOK, Live, Keys, Unused, KeyRows
  <2>3. NoneSet' /\ LastSetRules'
    BY <2>1 DEF Inv, NoneSet, LastSetRules, Live
  <2>4. JobsOK'
    BY <2>1 DEF Inv, JobsOK, JobOK, CreateOK, SettingOK, KeyOK, Tried, Writing, OnApi, OnKey,
                Settings, Live
  <2>5. AuditExplains' /\ UnloggedOnlyByDeleteOrAbort'
    BY <2>1 DEF Inv, AuditExplains, UnloggedOnlyByDeleteOrAbort, Keys
  <2> QED BY <2>2, <2>3, <2>4, <2>5 DEF Inv
<1> QED BY <1>1, <1>2, <1>3, <1>4, <1>5, <1>6 DEF Next

(* Inv holds in every state the catalogue reaches. *)
LEMMA Invariance == Spec => []Inv
  BY InitInv, NextInv, PTL DEF Spec

(* However requests overlap and whatever is rolled back, a slug names one   *)
(* API and no version, quota, rule or key outlives its API (the cascade of  *)
(* delete_api, the foreign keys and uq_apis_org_slug).                      *)
THEOREM CatalogueTypes == Spec => []TypeOK
<1>1. Inv => TypeOK
  BY DEF Inv
<1> QED BY <1>1, Invariance, PTL

(* A setting is, whole, what the last committed request for it asked for,   *)
(* unless another one committed between its read and its write (update_api, *)
(* set_quotas, set_rate_limit).                                             *)
THEOREM SettingsLast == Spec => []LastSetRules
<1>1. Inv => LastSetRules
  BY DEF Inv
<1> QED BY <1>1, Invariance, PTL

(* Every key, revocation and successor has its row of audit_logs            *)
(* (create_key, revoke_key, rotate_key in app/services/api_key.py).         *)
THEOREM KeysAudited == Spec => []AuditExplains
<1>1. Inv => AuditExplains
  BY DEF Inv
<1> QED BY <1>1, Invariance, PTL

(* An answered request whose log is lost was aborted itself, or its API was *)
(* deleted under it (RequestLogService.record).                             *)
THEOREM LogsKept == Spec => []UnloggedOnlyByDeleteOrAbort
<1>1. Inv => UnloggedOnlyByDeleteOrAbort
  BY DEF Inv
<1> QED BY <1>1, Invariance, PTL

-----------------------------------------------------------------------------
(* What ValidityOnlyShrinks says of one step. *)
Shrinks ==
    \A k \in Ids : key[k] # NoKey /\ key'[k] # NoKey =>
        /\ key[k].revoked => key'[k].revoked
        /\ key'[k].expires <= key[k].expires \/ k \in crossed'

(* The end of a key's life is a time. *)
LEMMA ExpiresInt ==
    ASSUME Inv
    PROVE  \A k \in Ids : key[k].expires \in Int
<1>1. key \in [Ids -> KeyRecs]
  BY DEF Inv, TypeOK, KeyRecs
<1>2. 0..Never \subseteq Int
  BY DEF Never
<1> QED BY <1>1, <1>2 DEF KeyRecs

(* A key that a step leaves as it is has not gained. *)
LEMMA SameKeysShrink ==
    ASSUME Inv, \A k \in Ids : key[k] # NoKey /\ key'[k] # NoKey => key'[k] = key[k]
    PROVE  Shrinks
<1>1. \A k \in Ids : key[k].expires \in Int
  BY ExpiresInt
<1> QED BY <1>1 DEF Shrinks

(* No step lets a key do more. *)
LEMMA NextShrinks == Inv /\ [Next]_vars => Shrinks \/ UNCHANGED vars
<1> SUFFICES ASSUME Inv, Next PROVE Shrinks
  OBVIOUS
<1>1. CASE UNCHANGED key
  BY <1>1, SameKeysShrink
<1>2. ASSUME NEW r \in Requests, WriteDelete(r) PROVE Shrinks
  <2>1. \A k \in Ids : key'[k] # NoKey => key'[k] = key[k]
    BY <1>2 DEF WriteDelete, Cascade
  <2> QED BY <2>1, SameKeysShrink
<1>3. ASSUME NEW r \in Requests, WriteCreateKey(r), key' # key PROVE Shrinks
  <2>1. key' = [key EXCEPT ![r] = NewKey(job[r].api, job[r].ask)]
    BY <1>3 DEF WriteCreateKey, Rollback, tables
  <2>2. key[r] = NoKey /\ key \in [Ids -> KeyRecs]
    BY <1>3 DEF WriteCreateKey, At, Inv, Unused, TypeOK, KeyRecs
  <2>3. \A k \in Ids : k # r => key'[k] = key[k]
    BY <2>1, <2>2
  <2> QED BY <2>2, <2>3, SameKeysShrink
<1>4. ASSUME NEW r \in Requests, WriteRevoke(r), key' # key PROVE Shrinks
  <2>1. PICK i \in Ids : i = job[r].key
    BY DEF Inv, TypeOK
  <2>2. key' = [key EXCEPT ![i].revoked = TRUE]
    BY <1>4, <2>1 DEF WriteRevoke, Rollback, tables
  <2>3. key \in [Ids -> KeyRecs]
    BY DEF Inv, TypeOK, KeyRecs
  <2>4. \A k \in Ids : /\ key'[k].revoked = IF k = i THEN TRUE ELSE key[k].revoked
                       /\ key'[k].expires = key[k].expires
    BY <2>2, <2>3 DEF KeyRecs
  <2>5. \A k \in Ids : key[k].expires \in Int
    BY ExpiresInt
  <2>6. \A k \in Ids : key[k].revoked => key'[k].revoked
    BY <2>4
  <2>7. ASSUME NEW k \in Ids PROVE key'[k].expires <= key[k].expires
    <3>1. PICK x \in Int : x = key[k].expires
      BY <2>5
    <3>2. key'[k].expires = x
      BY <2>4, <3>1
    <3> QED BY <3>1, <3>2
  <2> QED BY <2>6, <2>7 DEF Shrinks
<1>5. ASSUME NEW r \in Requests, WriteRotate(r), key' # key PROVE Shrinks
  <2>1. PICK i \in Ids : i = job[r].key
    BY DEF Inv, TypeOK
  <2>2. /\ key[i] # NoKey
        /\ crossed' = IF job[r].stale THEN crossed \cup {i} ELSE crossed
    BY <1>5, <2>1 DEF WriteRotate, Rollback, tables
  <2>3. KeysRotated(r, i)
    BY <1>5, <2>1, <2>2, RotateKeys
  <2>4. \A k \in Ids : key[k].expires \in Int
    BY ExpiresInt
  <2> SUFFICES ASSUME NEW k \in Ids, key[k] # NoKey, key'[k] # NoKey
               PROVE  /\ key[k].revoked => key'[k].revoked
                      /\ key'[k].expires <= key[k].expires \/ k \in crossed'
    BY DEF Shrinks
  <2>5. CASE k = i
    BY <2>2, <2>3, <2>5 DEF KeysRotated
  <2>6. CASE k # i
    <3>1. key'[k] = key[k]
      BY <2>3, <2>6 DEF KeysRotated
    <3> QED BY <2>4, <3>1
  <2> QED BY <2>5, <2>6
<1>6. ASSUME NEW r \in Requests, Manage(r), ~WriteDelete(r) PROVE UNCHANGED key
  BY <1>6 DEF Manage, BeginCreate, TrySlug, WriteCreate, ReadUpdate, WriteUpdate, ReadDelete,
              ReadAddVersion, WriteAddVersion, ReadDeleteVersion, WriteDeleteVersion, ReadQuotas,
              WriteQuotas, ReadRate, WriteRate, Read, Rollback, tables
<1>7. ASSUME NEW r \in Requests, ManageKeys(r) PROVE Shrinks
  <2>1. CASE ReadCreateKey(r) \/ ReadRevoke(r) \/ ReadRotate(r)
    BY <1>1, <2>1 DEF ReadCreateKey, ReadRevoke, ReadRotate, Read, tables
  <2> QED BY <1>1, <1>3, <1>4, <1>5, <1>7, <2>1 DEF ManageKeys
<1>8. ASSUME NEW r \in Requests, Proxy(r) \/ Abort(r) PROVE UNCHANGED key
  BY <1>8 DEF Proxy, Authenticate, ReadVersion, Log, Abort, tables
<1>9. CASE Tick
  BY <1>1, <1>9 DEF Tick, tables
<1> QED BY <1>1, <1>2, <1>6, <1>7, <1>8, <1>9 DEF Next

(* What a key may do only shrinks: revoke_key and rotate_key never bring a  *)
(* key back or let it live longer, unless two rotations of it overlap.      *)
THEOREM KeysOnlyShrink == Spec => ValidityOnlyShrinks
<1>1. Inv /\ [Next]_vars => [Shrinks]_vars
  BY NextShrinks
<1>2. Spec => [][Shrinks]_vars
  BY <1>1, Invariance, PTL DEF Spec
<1> QED BY <1>2 DEF ValidityOnlyShrinks, Shrinks
=============================================================================
