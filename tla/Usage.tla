------------------------------- MODULE Usage -------------------------------
(* What request logs become: the usage per key and day                      *)
(* (app/repositories/telemetry.py), the daily rollup of the Celery worker   *)
(* and the reports (app/repositories/analytics.py).  The rollup's rows and  *)
(* the reports are those of one API, the only one of its organization; the  *)
(* usage is that of every key.  A gateway request is one transaction from   *)
(* its first query to its log; a rollup is one transaction that rebuilds    *)
(* two days, statement by statement.  Postgres runs both at READ COMMITTED: *)
(* a statement sees what was committed when it began, and waits for a row   *)
(* or a unique value another transaction holds.                             *)
EXTENDS Integers, FiniteSets, Functions

CONSTANTS
    MaxRequests, \* bound: gateway requests
    Keys,
    ApiOf,       \* ApiOf[k]: the API of key k
    Api,         \* the API followed here
    Deletable,   \* bound: the APIs that may be deleted
    KeyOf,       \* KeyOf[r]: the key of request r
    BytesOf,     \* BytesOf[r]: its request_bytes
    Int4Max,     \* the largest value of an INTEGER column
    StatusOf,    \* StatusOf[r]: the upstream's status code
    ClockOf,     \* ClockOf[r]: the time of day when it begins
    Workers,     \* Celery workers
    MaxDay,      \* bound: the last day of the clock; no request begins on it
    DayTicks,    \* bound: the times of a day that are told apart
    Windows,     \* the days a caller asks a report for
    Limits       \* and the lengths of its list of top keys

Requests == 1..MaxRequests
Days == 0..MaxDay
Times == 0..(DayTicks - 1)

ASSUME UsageAssumption ==
    /\ MaxRequests \in Nat /\ MaxDay \in Nat \ {0} /\ Int4Max \in Nat
    /\ DayTicks \in Nat \ {0}
    /\ Windows \subseteq Nat \ {0} /\ Limits \subseteq Nat \ {0}
    /\ IsFiniteSet(Keys)
    /\ KeyOf \in [Requests -> Keys] /\ BytesOf \in [Requests -> 0..Int4Max]
    /\ StatusOf \in [Requests -> Nat] /\ ClockOf \in [Requests -> Times]

VARIABLES
    day,     \* the date, in UTC
    deleted, \* the APIs that have been deleted, and their keys with them
    req,     \* req[r]: where request r is and, once written, its request log:
             \* created_at is the date `created` at the time ClockOf[r]
    usage,   \* usage[k][d]: the row of api_key_usage
    daily,   \* daily[d]: the row of daily_usage, or NoRow
    task,    \* task[w]: the rollup of w and what its transaction has written
    covered  \* a rollup of today began after the requests of earlier days had ended,
             \* and ran to its end

vars == <<day, deleted, req, usage, daily, task, covered>>

NoRow == [requests |-> 0, errors |-> 0, bytes |-> 0]
NoUsage == [d \in Days |-> [requests |-> 0, errors |-> 0]]
Waiting == [at |-> "new", created |-> 0, ended |-> 0]
Sleeping == [at |-> "idle", today |-> 0, target |-> 0, late |-> FALSE, clean |-> FALSE,
             sum |-> NoRow, held |-> {}, wrote |-> [d \in Days |-> NoRow]]

Init ==
    /\ day = 1
    /\ deleted = {}
    /\ req = [r \in Requests |-> Waiting]
    /\ usage = [k \in Keys |-> NoUsage]
    /\ daily = [d \in Days |-> NoRow]
    /\ task = [w \in Workers |-> Sleeping]
    /\ covered = FALSE

-----------------------------------------------------------------------------
(* The rows of request_logs for the API, and those of one day: created_at   *)
(* is the start of the transaction that wrote the row.  They refer to no    *)
(* other row, and stay when the API is deleted.                             *)
Ours(r) == ApiOf[KeyOf[r]] = Api
Logs == {r \in Requests : req[r].at = "logged" /\ Ours(r)}
LogsOf(d) == {r \in Logs : req[r].created = d}

IsError(r) == StatusOf[r] >= 500

(* The aggregates of the rollup's SELECT. *)
Total(d) ==
    [requests |-> Cardinality(LogsOf(d)),
     errors   |-> Cardinality({r \in LogsOf(d) : IsError(r)}),
     bytes    |-> SumFunctionOnSet(BytesOf, LogsOf(d))]

(* The row of key k is there: it goes when its API is deleted. *)
Exists(k) == ApiOf[k] \notin deleted

(* It may be t o'clock: no request has begun later today. *)
Now(t) == \A r \in Requests :
    req[r].at # "new" /\ req[r].created = day => ClockOf[r] <= t

(* The request's first query, which finds its key, begins its transaction. *)
Open(r) ==
    /\ req[r].at = "new" /\ day < MaxDay
    /\ Exists(KeyOf[r])
    /\ Now(ClockOf[r])
    /\ req' = [req EXCEPT ![r] = [@ EXCEPT !.at = "open", !.created = day]]
    /\ UNCHANGED <<day, deleted, usage, daily, task, covered>>

(* The upstream has answered: GatewayOutcome.timestamp is taken now. *)
Answer(r) ==
    /\ req[r].at = "open"
    /\ req' = [req EXCEPT ![r] = [@ EXCEPT !.at = "answered", !.ended = day]]
    /\ UNCHANGED <<day, deleted, usage, daily, task, covered>>

(* ApiKeyUsageRepository.increment *)
Incremented(row, r) ==
    [requests |-> row.requests + 1, errors |-> row.errors + (IF IsError(r) THEN 1 ELSE 0)]

(* Faulty variant: no foreign key from the usage to its key. *)
RecordUnchecked(r) ==
    /\ req[r].at = "answered"
    /\ req' = [req EXCEPT ![r].at = "logged"]
    /\ usage' = [usage EXCEPT ![KeyOf[r]][req[r].ended] = Incremented(@, r)]
    /\ UNCHANGED <<day, deleted, daily, task, covered>>

(* The commit of RequestLogService.record: the log and the usage of the key *)
(* on the day of the timestamp.  The usage refers to the key's row.         *)
Record(r) ==
    /\ req[r].at = "answered"
    /\ Exists(KeyOf[r])
    /\ req' = [req EXCEPT ![r].at = "logged"]
    /\ usage' = [usage EXCEPT ![KeyOf[r]][req[r].ended] = Incremented(@, r)]
    /\ UNCHANGED <<day, deleted, daily, task, covered>>

(* The upstream fails, the request is cancelled, or its key has gone:       *)
(* nothing is logged.                                                       *)
Fail(r) ==
    /\ req[r].at \in {"open", "answered"}
    /\ req' = [req EXCEPT ![r] = [Waiting EXCEPT !.at = "failed"]]
    /\ UNCHANGED <<day, deleted, usage, daily, task, covered>>

(* DELETE of an API: its keys go, and the usage of its keys with them. *)
DeleteApi(a) ==
    /\ a \notin deleted
    /\ deleted' = deleted \cup {a}
    /\ usage' = [k \in Keys |-> IF ApiOf[k] = a THEN NoUsage ELSE usage[k]]
    /\ UNCHANGED <<day, req, daily, task, covered>>

Overdue == {r \in Requests : req[r].at \in {"open", "answered"} /\ req[r].created < day}

-----------------------------------------------------------------------------
(* Faulty variant: yesterday is not rebuilt. *)
StartTodayOnly(w) ==
    /\ task[w].at = "idle"
    /\ task' = [task EXCEPT ![w] = [Sleeping EXCEPT
                    !.at = "delete", !.today = day, !.target = day,
                    !.clean = (Overdue = {})]]
    /\ UNCHANGED <<day, deleted, req, usage, daily, covered>>

(* _rollup_daily_usage reads the date and begins the DELETE for yesterday. *)
Start(w) ==
    /\ task[w].at = "idle"
    /\ task' = [task EXCEPT ![w] = [Sleeping EXCEPT
                    !.at = "delete", !.today = day, !.target = day - 1,
                    !.clean = (Overdue = {})]]
    /\ UNCHANGED <<day, deleted, req, usage, daily, covered>>

Others(w) == Workers \ {w}
Fresh(w) == task[w].clean /\ task[w].today = day

(* Faulty variant: the DELETE does not wait for another rollup. *)
RebuildUnlocked(w) ==
    LET d == task[w].target
    IN  /\ task[w].at = "delete"
        /\ task' = [task EXCEPT ![w] = [@ EXCEPT !.at = "insert", !.late = FALSE,
                        !.held = IF daily[d] # NoRow THEN task[w].held \cup {d} ELSE task[w].held,
                        !.sum = Total(d)]]
        /\ UNCHANGED <<day, deleted, req, usage, daily, covered>>

(* Faulty variant: nothing is deleted. *)
RebuildOver(w) ==
    /\ task[w].at = "delete"
    /\ task' = [task EXCEPT ![w] = [@ EXCEPT !.at = "insert", !.late = FALSE,
                                             !.sum = Total(task[w].target)]]
    /\ UNCHANGED <<day, deleted, req, usage, daily, covered>>

(* The DELETE removes the row it saw, once no other rollup holds it; a row  *)
(* committed since it began (late) is not seen.  The SELECT follows.        *)
Rebuild(w) ==
    LET d == task[w].target
        visible == daily[d] # NoRow /\ ~task[w].late
    IN  /\ task[w].at = "delete"
        /\ \A v \in Others(w) : d \notin task[v].held
        /\ task' = [task EXCEPT ![w] = [@ EXCEPT !.at = "insert", !.late = FALSE,
                        !.held = IF visible THEN task[w].held \cup {d} ELSE task[w].held,
                        !.sum = Total(d)]]
        /\ UNCHANGED <<day, deleted, req, usage, daily, covered>>

(* The rollup raises and session_scope rolls back both days. *)
Raise(w) ==
    /\ task' = [task EXCEPT ![w] = Sleeping]
    /\ covered' = (covered \/ (Fresh(w) /\ task[w].sum.bytes > Int4Max))
    /\ UNCHANGED <<day, deleted, req, usage, daily>>

(* The flush inserts the row, if there are logs, once no other rollup has   *)
(* an uncommitted one.  It raises if the sum is out of range or             *)
(* uq_daily_usage_api_date finds a row.  Then today follows.                *)
Insert(w) ==
    LET d == task[w].target
        row == task[w].sum
        taken == daily[d] # NoRow /\ d \notin task[w].held
    IN  /\ task[w].at = "insert"
        /\ row # NoRow => \A v \in Others(w) : task[v].wrote[d] = NoRow
        /\ IF row # NoRow /\ (row.bytes > Int4Max \/ taken) THEN Raise(w)
           ELSE /\ task' = [task EXCEPT ![w] = [@ EXCEPT
                              !.wrote[d] = row, !.sum = NoRow,
                              !.at = IF d = task[w].today THEN "commit" ELSE "delete",
                              !.target = task[w].today]]
                /\ UNCHANGED <<day, deleted, req, usage, daily, covered>>

(* The rows deleted and inserted become visible, not to a DELETE that has   *)
(* begun.                                                                   *)
Commit(w) ==
    LET t == task[w]
        changed == {d \in Days : d \in t.held \/ t.wrote[d] # NoRow}
    IN  /\ t.at = "commit"
        /\ daily' = [d \in Days |-> IF d \in changed THEN t.wrote[d] ELSE daily[d]]
        /\ task' = [v \in Workers |->
              IF v = w THEN Sleeping
              ELSE [task[v] EXCEPT !.late = @ \/ (task[v].at = "delete"
                                                  /\ task[v].target \in changed)]]
        /\ covered' = (covered \/ Fresh(w))
        /\ UNCHANGED <<day, deleted, req, usage>>

(* The worker dies: its transaction is rolled back. *)
Crash(w) ==
    /\ task[w].at # "idle"
    /\ task' = [task EXCEPT ![w] = Sleeping]
    /\ UNCHANGED <<day, deleted, req, usage, daily, covered>>

Rollup(w) == Start(w) \/ Rebuild(w) \/ Insert(w) \/ Commit(w)

-----------------------------------------------------------------------------
(* Midnight.  A request (the upstream has 15 seconds) and a rollup span at  *)
(* most one, and of the 96 rollups of a day one that begins after the       *)
(* requests of earlier days have ended runs to its end.                     *)
Midnight ==
    /\ day < MaxDay
    /\ Overdue = {}
    /\ \A w \in Workers : task[w].at # "idle" => task[w].today = day
    /\ covered
    /\ day' = day + 1
    /\ covered' = FALSE
    /\ UNCHANGED <<deleted, req, usage, daily, task>>

Next ==
    \/ \E r \in Requests : Open(r) \/ Answer(r) \/ Record(r) \/ Fail(r)
    \/ \E w \in Workers : Rollup(w) \/ Crash(w)
    \/ \E a \in Deletable : DeleteApi(a)
    \/ Midnight

(* Beat starts a rollup every 15 minutes and some worker goes on with one;  *)
(* in the end they stop dying, and a rollup that is undone has raised.      *)
Spec ==
    /\ Init /\ [][Next]_vars
    /\ WF_vars(\E w \in Workers : Rollup(w))
    /\ <>[][\A w \in Workers : Crash(w) => Rollup(w)]_vars

-----------------------------------------------------------------------------
(* The reports, each one statement, of the last `days` days.  Those that    *)
(* read request_logs (summary, active_keys, status_breakdown, and the total *)
(* of a search by time and status) take the rows since `days` days ago at   *)
(* t o'clock, the time they are asked for; daily_series and top_keys begin  *)
(* with that day.                                                           *)
SinceDate(days) == day - days
Scope(days, t) ==
    {r \in Logs : \/ req[r].created > SinceDate(days)
                  \/ req[r].created = SinceDate(days) /\ ClockOf[r] >= t}

Summary(rows) == [requests |-> Cardinality(rows),
                  errors |-> Cardinality({r \in rows : IsError(r)})]
ActiveKeys(rows) == {KeyOf[r] : r \in rows}

StatusClass(s) == IF s < 200 THEN 1 ELSE IF s >= 500 THEN 5 ELSE s \div 100
StatusBreakdown(rows) ==
    [c \in 1..5 |-> Cardinality({r \in rows : StatusClass(StatusOf[r]) = c})]

NoBound == -1  \* status_min or status_max is not given
Search(rows, least, most) ==
    Cardinality({r \in rows : /\ least # NoBound => StatusOf[r] >= least
                              /\ most # NoBound => StatusOf[r] <= most})

DailySeries(d) == [requests |-> daily[d].requests, errors |-> daily[d].errors]

(* The group of key k in top_keys. *)
KeyUsage(k, days) ==
    LET window == {d \in Days : d >= SinceDate(days)}
    IN  [requests |-> SumFunctionOnSet([d \in Days |-> usage[k][d].requests], window),
         errors |-> SumFunctionOnSet([d \in Days |-> usage[k][d].errors], window)]

(* The answers top_keys may give.  It looks at no organization: the keys of *)
(* the whole platform that have usage compete for the `limit` places, and   *)
(* ties are broken anyhow.                                                  *)
TopKeys(days, limit) ==
    LET requests == [k \in Keys |-> KeyUsage(k, days).requests]
        used == {k \in Keys : requests[k] > 0}
    IN  {top \in SUBSET used :
            /\ Cardinality(top) = limit \/ (Cardinality(top) < limit /\ top = used)
            /\ \A k \in top, j \in used \ top : requests[k] >= requests[j]}

(* AnalyticsService.summary, two statements. *)
Headline(rows) ==
    [requests |-> Summary(rows).requests, errors |-> Summary(rows).errors,
     active |-> Cardinality(ActiveKeys(rows))]

(* What developer_dashboard may assemble at t o'clock, here from statements *)
(* with nothing committed between them.                                     *)
Dashboard(days, t, limit) ==
    LET rows == Scope(days, t)
    IN  {[summary |-> Headline(rows), status |-> StatusBreakdown(rows), keys |-> top] :
            top \in TopKeys(days, limit)}

-----------------------------------------------------------------------------
Rows == [requests : 0..MaxRequests, errors : 0..MaxRequests, bytes : Nat]

(* The types of all variables.  No sum in daily_usage is out of range, and  *)
(* two rollups never hold the same row.                                     *)
TypeOK ==
    /\ day \in Days /\ deleted \subseteq Deletable /\ covered \in BOOLEAN
    /\ req \in [Requests -> [at : {"new", "open", "answered", "logged", "failed"},
                             created : Days, ended : Days]]
    /\ usage \in [Keys -> [Days -> [requests : 0..MaxRequests, errors : 0..MaxRequests]]]
    /\ \A d \in Days : daily[d] \in Rows /\ daily[d].bytes <= Int4Max
    /\ \A w \in Workers :
          /\ task[w].at \in {"idle", "delete", "insert", "commit"}
          /\ task[w].sum \in Rows
          /\ task[w].held \subseteq {d \in Days : daily[d] # NoRow}
          /\ \A v \in Others(w) : task[v].held \cap task[w].held = {}

OutOfRange(d) == SumFunctionOnSet(BytesOf, LogsOf(d)) > Int4Max

(* Two days later the rollup of a day is final, and it has every request    *)
(* that began on the day, also those whose log was written after midnight,  *)
(* whatever rollups overlapped or died.  The one exception is a day, or the *)
(* day after it, whose bytes do not fit the INTEGER column: the rollups     *)
(* rebuild both days in one transaction and fail together.                  *)
PastDaysComplete ==
    \A d \in Days : d + 2 <= day =>
        daily[d] = Total(d) \/ OutOfRange(d) \/ OutOfRange(d + 1)

(* The status breakdown adds up to the summary, its 5xx are the summary's   *)
(* errors, whatever codes upstreams answer with, and each class is what a   *)
(* search for its codes finds.                                              *)
StatusesAgree(rows, report) ==
    /\ SumFunctionOnSet(report.status, 1..5) = report.summary.requests
    /\ report.status[5] = report.summary.errors
    /\ \A c \in 1..5 :
          report.status[c] = Search(rows, IF c = 1 THEN NoBound ELSE 100 * c,
                                          IF c = 5 THEN NoBound ELSE 100 * c + 99)

(* The requests of key k that its usage counts and the summary does not:    *)
(* they ended on the days of the window, but began before it, on its first  *)
(* day or earlier.                                                          *)
Early(k, days, rows) ==
    {r \in Logs \ rows : KeyOf[r] = k /\ req[r].ended >= SinceDate(days)}

(* The usage of a key of an API that is there is its requests in the        *)
(* summary and the early ones, no others; a key of a deleted API is not     *)
(* among the top keys; a key the summary counts as active is, unless others *)
(* with no fewer requests fill the list.                                    *)
KeysAgree(days, limit, rows, report) ==
    /\ \A k \in Keys : ApiOf[k] = Api /\ Exists(k) =>
          LET scope == {r \in rows : KeyOf[r] = k} \cup Early(k, days, rows)
          IN  KeyUsage(k, days) = [requests |-> Cardinality(scope),
                                   errors |-> Cardinality({r \in scope : IsError(r)})]
    /\ \A k \in report.keys : Exists(k)
    /\ \A k \in ActiveKeys(rows) \ report.keys : Exists(k) =>
          /\ Cardinality(report.keys) = limit
          /\ \A j \in report.keys : KeyUsage(j, days).requests
                >= Cardinality({r \in rows : KeyOf[r] = k})

(* The reports of a dashboard agree although each has a condition and a     *)
(* window of its own.  Those of the request logs agree on statuses.  The    *)
(* usage per key, which the requests themselves keep and which goes with    *)
(* the API, differs from the summary exactly by the requests that ended in  *)
(* the window's days and began before its time of day on the first of them; *)
(* no request in flight brings back the usage of a deleted key, and no      *)
(* active key is missing from a list of top keys that is not full.          *)
ReportsAgree ==
    \A t \in Times, days \in Windows : Now(t) =>
        LET rows == Scope(days, t)
        IN  \A limit \in Limits : \A report \in Dashboard(days, t, limit) :
                StatusesAgree(rows, report) /\ KeysAgree(days, limit, rows, report)

(* The series shows day d as it is in the request logs. *)
InSeries(d) ==
    DailySeries(d) = [requests |-> Cardinality(LogsOf(d)),
                      errors |-> Cardinality({r \in LogsOf(d) : IsError(r)})]

(* Again and again the daily series has every request log there is, but for *)
(* those of a day that is out of range, or rebuilt with one that is.        *)
EventuallyRolledUp ==
    []<>(\A r \in Logs :
            LET d == req[r].created
            IN  InSeries(d) \/ \E e \in {d - 1, d, d + 1} \cap Days : OutOfRange(e))
=============================================================================
