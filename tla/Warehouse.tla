----------------------------- MODULE Warehouse -----------------------------
(***************************************************************************)
(* The daily analytics run (analytics/dags/funded_elt.py): two loads side  *)
(* by side, each with its retries, then the freshness check, then dbt.     *)
(*                                                                         *)
(* The application goes on writing while its collections are copied one    *)
(* after the other and document by document; each collection is committed  *)
(* in a transaction of its own.  The rate source publishes late, corrects  *)
(* and stalls.  A student has at most one document in each collection; a   *)
(* document is the time it was last written, 0 where there is none, and a  *)
(* day's rate is the number of its publications, one and its corrections.  *)
(***************************************************************************)
EXTENDS Naturals, Sequences, FiniteSets

CONSTANTS
  Students,
  Collections,  \* those of AllowedFields this instance has
  LastDay,
  Lookback,     \* FX_LOOKBACK_DAYS
  StaleAfter,   \* error_after of raw.fx_rates, in days
  Retries,      \* retries of a load
  MaxEvents     \* bound: writes, publications and faults in a behaviour

ASSUME HasUsers == "users" \in Collections
ASSUME Numbers ==
  LastDay \in Nat \ {0} /\ {Lookback, StaleAfter, Retries, MaxEvents} \subseteq Nat

VARIABLES
  app, now,         \* the application's documents and its clock
  published,        \* the source's rate for each day
  today,
  phase, runDay,    \* the step the run is at, and the day it is for
  task, tries,      \* both loads: where they are, and the attempts that failed
  at, unread, incoming, wrong, stamp,   \* the attempt to copy the collections
  fetched,          \* the attempt to load rates: what the source answered
  raw, loaded,      \* the warehouse: app_* tables, fx_rates
  loadedOn,         \* max(loaded_at) of fx_rates, 0 while it is empty
  marts,            \* what dbt last built
  budget,           \* events left
  during,           \* history: versions of a document since the attempt began
  changed, good,    \* history: when a rate was last changed; runs that loaded rates
  faulty            \* history: whether a fault was injected

source == <<app, now, during>>
copying == <<at, unread, incoming, wrong, stamp>>
rates == <<published, changed>>
dag == <<phase, runDay, task, tries>>
warehouse == <<raw, loaded, loadedOn, marts, good>>
vars == <<source, copying, rates, dag, warehouse, fetched, today, budget, faulty>>

Days == 1..LastDay
Loads == {"fx", "app"}
Times == 0..(MaxEvents + 1)

\* The order of the allowlist is the order of the copies.
AllowedFields == <<"users", "shifts", "obligations", "deadlines", "fx_alerts">>
Places == {i \in DOMAIN AllowedFields : AllowedFields[i] \in Collections}
Following(i) == {j \in Places : i < j /\ \A k \in Places : i < k => j <= k}   \* none or one

ASSUME NamedInAllowlist == Collections = {AllowedFields[i] : i \in Places}

Owned == Collections \ {"users"}
Tested == Owned \ {"deadlines"}        \* those with a relationships test

\* The marts of rows that have an owner: the table a row is of, and all that is
\* upstream.  The staging models between are views.
Table == [fct_fx_alerts |-> "fx_alerts", fct_work_shifts |-> "shifts",
          mart_weekly_work_hours |-> "shifts"]
Upstream == [fct_fx_alerts |-> {"fx_alerts"}, fct_work_shifts |-> {"shifts"},
             mart_weekly_work_hours |-> {"shifts", "users"}]
Marts == {m \in DOMAIN Upstream : Upstream[m] \subseteq Collections}

NoDocuments == [s \in Students |-> 0]
NoRates == [d \in Days |-> 0]
HasRows(table) == \E s \in Students : table[s] # 0

Spend == budget > 0 /\ budget' = budget - 1
Fault == Spend /\ faulty' = TRUE

(***************************************************************************)
(* The application and the rate source, neither waiting for the run.       *)
(***************************************************************************)
Write(c, s, version) ==
  /\ Spend
  /\ app' = [app EXCEPT ![c][s] = version]
  /\ during' = IF phase = "idle" THEN during ELSE [during EXCEPT ![c][s] = @ \union {version}]
  /\ now' = now + 1
  /\ UNCHANGED <<copying, rates, dag, warehouse, fetched, today, faulty>>

SignUp(s) == app["users"][s] = 0 /\ Write("users", s, now + 1)
Save(c, s) == app["users"][s] # 0 /\ Write(c, s, now + 1)
Delete(c, s) == app[c][s] # 0 /\ Write(c, s, 0)

Publish(d) ==
  /\ d <= today
  /\ Spend
  /\ published' = [published EXCEPT ![d] = @ + 1]
  /\ changed' = [changed EXCEPT ![d] = today]
  /\ UNCHANGED <<source, copying, dag, warehouse, fetched, today, faulty>>

(***************************************************************************)
(* The run of a day.  A day may pass without one; only one is active.      *)
(***************************************************************************)
NextDay ==
  /\ phase = "idle" /\ today < LastDay
  /\ today' = today + 1
  /\ UNCHANGED <<source, copying, rates, dag, warehouse, fetched, budget, faulty>>

RunStarts ==
  /\ phase = "idle" /\ runDay < today
  /\ phase' = "loads" /\ runDay' = today
  /\ UNCHANGED <<source, copying, rates, task, tries, warehouse, fetched, today, budget, faulty>>

\* Nothing a run kept in memory outlives it.
Forget ==
  /\ task' = [t \in Loads |-> "ready"] /\ tries' = [t \in Loads |-> 0]
  /\ at' = 1 /\ unread' = {} /\ incoming' = NoDocuments /\ wrong' = FALSE /\ stamp' = 0
  /\ fetched' = NoRates /\ during' = [c \in Collections |-> [s \in Students |-> {}]]

AttemptFails(t) ==
  /\ task' = [task EXCEPT ![t] = IF tries[t] < Retries THEN "ready" ELSE "failed"]
  /\ tries' = [tries EXCEPT ![t] = @ + 1]
  /\ UNCHANGED <<phase, runDay>>

\* The source or a database is away, or a rate is not a positive number: the
\* transaction of the attempt is rolled back.
Outage(t) ==
  /\ task[t] \in {"ready", "running"}
  /\ Fault
  /\ AttemptFails(t)
  /\ UNCHANGED <<source, copying, rates, warehouse, fetched, today>>

(***************************************************************************)
(* load_app_data.                                                          *)
(***************************************************************************)
\* The cursor of the i-th collection is opened, its temp table empty.
Open(i) == at' = i /\ unread' = Students /\ incoming' = NoDocuments

FromWhereItFailed ==                   \* (defect: a retry goes on where the last attempt failed)
  IF tries["app"] = 0 THEN 1 ELSE at

FirstCopied == 1                       \* every attempt copies everything

StartApp ==
  /\ task["app"] = "ready"
  /\ task' = [task EXCEPT !["app"] = "running"]
  /\ Open(FirstCopied)
  /\ stamp' = now
  /\ during' = [c \in Collections |-> [s \in Students |-> {app[c][s]}]]
  /\ \/ wrong' = FALSE /\ UNCHANGED <<budget, faulty>>
     \/ wrong' = TRUE /\ Fault         \* connected to a database without documents
  /\ UNCHANGED <<app, now, rates, phase, runDay, tries, warehouse, fetched, today>>

\* extract: the cursor yields one document, as it is now.
Read(s) ==
  /\ task["app"] = "running" /\ s \in unread
  /\ unread' = unread \ {s}
  /\ incoming' = [incoming EXCEPT ![s] = IF wrong THEN 0 ELSE app[AllowedFields[at]][s]]
  /\ UNCHANGED <<source, at, wrong, stamp, rates, dag, warehouse, fetched, today, budget, faulty>>

NeverRefused(c) == FALSE               \* (defect: allow_empty)
RefusedAnyEmpty(c) == ~HasRows(incoming)   \* (defect: also for a table without rows)
Refused(c) == ~HasRows(incoming) /\ HasRows(raw[c])

\* Upsert what came, delete what did not, in one transaction.
Commit ==
  LET c == AllowedFields[at] IN
  /\ task["app"] = "running" /\ unread = {} /\ ~Refused(c)
  /\ raw' = [raw EXCEPT ![c] = incoming]
  /\ \/ (\E i \in Following(at) : Open(i)) /\ task' = task
     \/ /\ Following(at) = {} /\ UNCHANGED <<at, unread, incoming>>
        /\ task' = [task EXCEPT !["app"] = "done"]
  /\ UNCHANGED <<source, wrong, stamp, rates, phase, runDay, tries,
                 loaded, loadedOn, marts, good, fetched, today, budget, faulty>>

Refuse ==
  /\ task["app"] = "running" /\ unread = {} /\ Refused(AllowedFields[at])
  /\ AttemptFails("app")
  /\ UNCHANGED <<source, copying, rates, warehouse, fetched, today, budget, faulty>>

(***************************************************************************)
(* load_fx_rates.                                                          *)
(***************************************************************************)
Window(day) == {d \in Days : d <= day /\ day <= d + Lookback}

FetchRates ==
  /\ task["fx"] = "ready"
  /\ task' = [task EXCEPT !["fx"] = "running"]
  /\ fetched' = [d \in Days |-> IF d \in Window(runDay) THEN published[d] ELSE 0]
  /\ UNCHANGED <<source, copying, rates, phase, runDay, tries, warehouse, today, budget, faulty>>

Upsert(d) == IF fetched[d] # 0 THEN fetched[d] ELSE loaded[d]

LoadRates ==
  /\ task["fx"] = "running"
  /\ task' = [task EXCEPT !["fx"] = "done"]
  /\ loaded' = [d \in Days |-> Upsert(d)]
  /\ loadedOn' = IF fetched = NoRates THEN loadedOn ELSE today
  /\ good' = good \union {runDay}
  /\ fetched' = NoRates
  /\ UNCHANGED <<source, copying, rates, phase, runDay, tries, raw, marts, today, budget, faulty>>

(***************************************************************************)
(* dbt: freshness only after both loads, the build only when fresh.  The   *)
(* stamp of app_users is this run's, so it is stale only without rows.  A  *)
(* run, retries included, ends on the day it started.                      *)
(***************************************************************************)
LoadsEnded == phase = "loads" /\ \A t \in Loads : task[t] \in {"done", "failed"}
BothDone == \A t \in Loads : task[t] = "done"

FreshUsers == HasRows(raw["users"])    \* (defect: rates have no freshness)

Fresh ==
  /\ HasRows(raw["users"])
  /\ loadedOn # 0 /\ today <= loadedOn + StaleAfter

RunFails ==
  /\ LoadsEnded /\ ~(BothDone /\ Fresh)
  /\ phase' = "idle" /\ Forget
  /\ UNCHANGED <<runDay, app, now, rates, warehouse, today, budget, faulty>>

Freshness ==
  /\ LoadsEnded /\ BothDone /\ Fresh
  /\ phase' = "build"
  /\ UNCHANGED <<runDay, task, tries, source, copying, rates, warehouse, fetched, today, budget, faulty>>

\* The mart of hours is an inner join with the users.
Rows(m) ==
  [s \in Students |->
     IF "users" \in Upstream[m] /\ raw["users"][s] = 0 THEN 0 ELSE raw[Table[m]][s]]

RowsHaveOwners(c) == \A s \in Students : raw[c][s] # 0 => raw["users"][s] # 0

Untested(m, late) == TRUE              \* (defect: the models are run, not built)

\* dbt holds a mart back on a failed test only if all the test reads is upstream
\* of the mart: on a missing student only the hours, though both facts have its
\* rows.  An alert triggered after the stamp holds back the alerts; of those
\* written after it, any may be.
TestsPass(m, late) ==
  /\ \A c \in Tested : {c, "users"} \subseteq Upstream[m] => RowsHaveOwners(c)
  /\ "fx_alerts" \in Upstream[m] => \A s \in late : raw["fx_alerts"][s] <= stamp

\* What is held back stays as it was; nothing is tried again.
Build ==
  /\ phase = "build" /\ phase' = "idle" /\ Forget
  /\ \E late \in SUBSET Students :
       marts' = [m \in Marts |-> IF TestsPass(m, late) THEN Rows(m) ELSE marts[m]]
  /\ UNCHANGED <<runDay, app, now, rates, raw, loaded, loadedOn, good, today, budget, faulty>>

(***************************************************************************)
(* The specification.                                                      *)
(***************************************************************************)
Init ==
  /\ app \in [Collections -> [Students -> {0, 1}]]
  /\ \A c \in Owned, s \in Students : app[c][s] # 0 => app["users"][s] # 0
  /\ now = 1 /\ during = [c \in Collections |-> [s \in Students |-> {}]]
  /\ published = [NoRates EXCEPT ![1] = 1] /\ changed = published /\ fetched = NoRates
  /\ today = 1 /\ phase = "idle" /\ runDay = 0
  /\ task = [t \in Loads |-> "ready"] /\ tries = [t \in Loads |-> 0]
  /\ at = 1 /\ unread = {} /\ incoming = NoDocuments /\ wrong = FALSE /\ stamp = 0
  /\ raw = [c \in Collections |-> NoDocuments] /\ marts = [m \in Marts |-> NoDocuments]
  /\ loaded = NoRates /\ loadedOn = 0 /\ good = {}
  /\ budget = MaxEvents /\ faulty = FALSE

Environment ==
  \/ \E s \in Students : SignUp(s) \/ \E c \in Owned : Save(c, s) \/ Delete(c, s)
  \/ \E d \in Days : Publish(d)
  \/ \E t \in Loads : phase = "loads" /\ Outage(t)
  \/ NextDay \/ RunStarts

\* What Airflow goes on with by itself once the run has started.
RunStep ==
  \/ /\ phase = "loads"
     /\ StartApp \/ (\E s \in Students : Read(s)) \/ Commit \/ Refuse \/ FetchRates \/ LoadRates
  \/ RunFails \/ Freshness \/ Build

Next == Environment \/ RunStep
Spec == Init /\ [][Next]_vars

(***************************************************************************)
(* Properties.                                                             *)
(***************************************************************************)
Documents == [Students -> Times]

\* Every variable stays in its domain (types of the records in warehouse.py,
\* the task states of dags/funded_elt.py).
TypeOK ==
  /\ app \in [Collections -> Documents] /\ raw \in [Collections -> Documents]
  /\ marts \in [Marts -> Documents] /\ incoming \in Documents
  /\ published \in [Days -> Times] /\ loaded \in [Days -> Times]
  /\ task \in [Loads -> {"ready", "running", "done", "failed"}]
  /\ tries \in [Loads -> 0..(Retries + 1)]
  /\ phase \in {"idle", "loads", "build"} /\ runDay \in 0..today
  /\ at \in Places /\ unread \subseteq Students /\ stamp \in Times

\* A committed table holds, of every document, a version it had since the
\* attempt began: nothing deleted before stays, nothing there throughout is
\* missing, whatever was written while the cursor moved and whichever database
\* answered (replace_snapshot).
SnapshotIsFaithful ==
  [][\A c \in Collections : raw'[c] # raw[c] =>
       \A s \in Students : raw'[c][s] \in during[c][s]]_vars

\* dbt builds on tables that all come from this run's attempt, although each
\* collection is committed by itself and an attempt may fail between two (the
\* order of the DAG, load_app_data).
BuildSeesThisRun ==
  phase = "build" => \A c \in Collections, s \in Students : raw[c][s] \in during[c][s]

\* A row without its student, which fails the relationships test and the run,
\* is that of a student who signed up during the copy: users are copied first.
OrphansAreNewcomers ==
  phase = "build" => \A c \in Owned, s \in Students :
    raw[c][s] # 0 /\ raw["users"][s] = 0 => app["users"][s] > stamp

\* The hours never count a student the warehouse does not know.  The facts may,
\* for their test does not hold them back, but only until the next build: by
\* then the student is among the users (_staging.yml, replace_snapshot).
MartsHaveOwners ==
  \A m \in Marts, s \in Students :
    marts[m][s] # 0 /\ ("users" \in Upstream[m] \/ phase = "build") => raw["users"][s] # 0

\* Hours that are built anew leave out no shift the facts beside them have,
\* though the join drops the shifts of a student who is missing
\* (mart_weekly_work_hours.sql).
HoursAreWhole ==
  [][\A m \in Marts : "users" \in Upstream[m] /\ marts'[m] # marts[m] =>
       marts'[m] = marts'["fct_work_shifts"]]_vars

\* Without an outage the load fails only because a collection the warehouse has
\* rows of was emptied in the application: the last document deleted stops every
\* later run (EmptySnapshotError).
FailsOnlyWhenEmptied ==
  task["app"] = "failed" /\ ~faulty =>
    \E c \in Collections : HasRows(raw[c]) /\ \A s \in Students : 0 \in during[c][s]

\* A rate published or corrected before a run that loaded rates, and dated in
\* that run's window, is in the warehouse as the source now has it: a day is
\* missed only when it was published more than the lookback late or no load
\* succeeded in time (rate_window, upsert_fx_rates).
LateRatesArrive ==
  \A d \in Days, r \in good :
    changed[d] # 0 /\ changed[d] < r /\ d <= r /\ r <= d + Lookback => loaded[d] = published[d]

\* A source that stopped publishing stops the build, but only when its last
\* rate has left the window of a run for longer than the allowed age, for every
\* load stamps the whole window anew (sources.yml, upsert_fx_rates).
StallIsNoticed ==
  phase = "build" => \E d \in Days :
    published[d] # 0 /\ runDay <= d + Lookback + StaleAfter

\* The tables a build reads are well formed, of one run, and lack only the
\* students who came during the copy.
Consistent == TypeOK /\ BuildSeesThisRun /\ OrphansAreNewcomers

\* The rates a build reads are what the source has, as late as the code says.
RatesAreCurrent == LateRatesArrive /\ StallIsNoticed
=============================================================================
