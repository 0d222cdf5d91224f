----------------------------- MODULE Dashboard -----------------------------
(***************************************************************************)
(* One student's dashboard in one tab: the query that loads it, the panels *)
(* that write and then refresh it, the socket that pushes fired alerts and *)
(* the bell that counts what is new (web/src/app/dashboard, web/src/       *)
(* components, web/src/lib), with the routes and resolvers behind them.    *)
(*                                                                         *)
(* An item is a row of one panel: none until it is added, then open, done  *)
(* once its deadline is completed or its alert has fired, gone for good    *)
(* once it is deleted.  The resolvers of a query read the kinds one by     *)
(* one.  A refresh asked for while the query is in flight is that query:   *)
(* Apollo sends equal queries once.                                        *)
(***************************************************************************)
EXTENDS Naturals, FiniteSets

CONSTANTS Deadlines, Alerts, Obligations,
          DueOn(_),   \* the day a deadline is due
          DueSoonDays,
          Slots,      \* requests about one row that may be in flight at once
          LastDay,    \* bound: days
          MaxEvents   \* bound: clicks, faults, midnights and visits

Items == Deadlines \union Alerts \union Obligations
Kinds == {"deadlines", "alerts", "obligations"}
Of(k) == IF k = "deadlines" THEN Deadlines ELSE IF k = "alerts" THEN Alerts ELSE Obligations
Kind(i) == CHOOSE k \in Kinds : i \in Of(k)

ASSUME Apart == \A k, l \in Kinds : k # l => Of(k) \intersect Of(l) = {}
ASSUME Days == /\ LastDay \in Nat /\ DueSoonDays \in Nat /\ MaxEvents \in Nat
               /\ \A d \in Deadlines : DueOn(d) \in Nat

VARIABLES
  db, day,                \* the server's rows, and the date
  page,                   \* the page shown
  data, loaded,           \* the last answer in the Apollo cache
  asking, unread, got,    \* the query in flight: kinds not yet read, rows read
  op,                     \* op[i][s]: a request about item i
  wanted, joined,         \* the page's socket: opened, and in the room
  pushed,                 \* alerts pushed and under way
  seen, stored,           \* what the bell has seen, and localStorage
  excused,                \* history: kinds whose latest change no refresh follows
  told, dropped,          \* history: notices listed; those a later opening lacked
  budget

server == <<db, day>>
query == <<asking, unread, got>>
cache == <<data, loaded>>
socket == <<wanted, joined>>
bells == <<seen, stored, told, dropped>>
vars == <<server, page, cache, query, op, socket, pushed, bells, excused, budget>>

Spend == budget > 0 /\ budget' = budget - 1

(***************************************************************************)
(* What a row is shown as: an open deadline by the days left when its      *)
(* resolver reads it.                                                      *)
(***************************************************************************)
DeadlineStatus(d) ==
  IF DueOn(d) < day THEN "OVERDUE"
  ELSE IF DueOn(d) - day <= DueSoonDays THEN "DUE_SOON" ELSE "UPCOMING"

View(i) == IF i \in Deadlines /\ db[i] = "open" THEN DeadlineStatus(i) ELSE db[i]

Open == {"open", "UPCOMING", "DUE_SOON", "OVERDUE"}
Views == Open \union {"none", "done", "gone"}

(***************************************************************************)
(* The query.                                                              *)
(***************************************************************************)
Behind(rows) == {k \in Kinds : \E i \in Of(k) : rows[i] # View(i)}

\* Kinds the query in flight has still to read.
ToRead == IF asking THEN unread ELSE {}

\* refetch, and the query of a page that mounts: joined or sent.
Refresh ==
  IF asking
  THEN /\ excused' = excused \union (Behind(got) \ unread)
       /\ UNCHANGED query
  ELSE /\ asking' = TRUE /\ unread' = Kinds /\ got' = data
       /\ excused' = excused

\* Something changes and nothing asks for it.
Unasked(kinds) == excused' = excused \union (kinds \ ToRead) /\ UNCHANGED query

\* A resolver of the dashboard reads its collection.
Resolve(k) ==
  /\ asking /\ k \in unread
  /\ unread' = unread \ {k}
  /\ got' = [i \in Items |-> IF i \in Of(k) THEN View(i) ELSE got[i]]
  /\ excused' = excused \ {k}
  /\ UNCHANGED <<server, page, cache, asking, op, socket, pushed, bells, budget>>

Answered ==
  /\ asking /\ unread = {}
  /\ data' = got /\ loaded' = TRUE
  /\ asking' = FALSE
  /\ UNCHANGED <<server, page, unread, got, op, socket, pushed, bells, excused, budget>>

QueryFails ==
  /\ asking /\ Spend
  /\ asking' = FALSE /\ unread' = {} /\ got' = data
  /\ excused' = Kinds
  /\ UNCHANGED <<server, page, cache, op, socket, pushed, bells>>

\* The Retry button of a dashboard that could not be loaded.
Retry ==
  /\ page = "dashboard" /\ ~loaded /\ ~asking
  /\ Refresh
  /\ UNCHANGED <<server, page, cache, op, socket, pushed, bells, budget>>

(***************************************************************************)
(* The panels: a click sends a request, the server acts, the answer makes  *)
(* the page refresh.                                                       *)
(***************************************************************************)
Idle(i) == {s \in Slots : op[i][s] = "idle"}

Click(i, act) ==
  /\ page = "dashboard" /\ loaded /\ Spend
  /\ \E s \in Idle(i) : op' = [op EXCEPT ![i][s] = act]
  /\ UNCHANGED <<server, page, cache, query, socket, pushed, bells, excused>>

\* A row not made yet, nor being made.
New(i) == db[i] = "none" /\ \A s \in Slots : op[i][s] # "add"

\* A form submits one row at a time: its button is off while it is busy.
Add(kind) ==
  \E i \in Of(kind) :
    /\ New(i)
    /\ \A j \in Of(kind) : \A s \in Slots : op[j][s] # "add"
    /\ Click(i, "add")

AddDeadline == Add("deadlines")
AddAlert == Add("alerts")
AddObligation == Add("obligations")

Shown(i) == IF loaded THEN data[i] ELSE "none"

\* setCompleted(id, !done), by what the row shows.
SetCompleted ==
  \E i \in Deadlines :
    \/ Shown(i) \in Open /\ Click(i, "complete")
    \/ Shown(i) = "done" /\ Click(i, "reopen")

\* A row may be deleted twice.  The panel of alerts switches one button off, that
\* of the alert last clicked: removing another, the answer of any, or a visit
\* elsewhere switches it on again.  Here it is always on.
RemoveDeadline == \E i \in Deadlines : Shown(i) \in Open \union {"done"} /\ Click(i, "remove")
RemoveObligation == \E i \in Obligations : Shown(i) \in Open /\ Click(i, "remove")
RemoveAlert == \E i \in Alerts : Shown(i) \in Open \union {"done"} /\ Click(i, "remove")

\* The routes: deleteMany and updateMany match the row by its id alone.
Becomes(act) ==
  CASE act \in {"add", "reopen"} -> "open"
    [] act = "complete" -> "done"
    [] act = "remove" -> "gone"

Acts == {"add", "complete", "reopen", "remove"}

\* (defect: only a row whose completion changes is matched)
MatchesOpen(i, act) ==
  act = "add" \/ (act = "remove" /\ db[i] \in {"open", "done"}) \/ db[i] \in {"open", "done"} \ {Becomes(act)}
Matches(i, act) == act = "add" \/ db[i] \in {"open", "done"}

Handle(i, s) ==
  /\ op[i][s] \in Acts
  /\ \/ /\ Matches(i, op[i][s])
        /\ db' = [db EXCEPT ![i] = Becomes(op[i][s])]
        /\ op' = [op EXCEPT ![i][s] = IF @ \in {"complete", "reopen"} THEN "reading" ELSE "ok"]
     \/ /\ ~Matches(i, op[i][s])
        /\ op' = [op EXCEPT ![i][s] = "missing"]
        /\ UNCHANGED db
  /\ UNCHANGED <<day, page, cache, query, socket, pushed, bells, excused, budget>>

\* setCompleted finds the row again, which may be gone by then.
ReadBack(i, s) ==
  /\ op[i][s] = "reading"
  /\ op' = [op EXCEPT ![i][s] = IF db[i] \in {"open", "done"} THEN "ok" ELSE "missing"]
  /\ UNCHANGED <<server, page, cache, query, socket, pushed, bells, excused, budget>>

\* onChanged.  A page left meanwhile may refetch or no longer.
OnChanged(i) ==
  \/ Refresh
  \/ page # "dashboard" /\ Unasked({Kind(i)})

\* (defect: the panel does not tell the page)
NoRefetch(i, s) ==
  /\ op[i][s] \in {"ok", "missing"}
  /\ op' = [op EXCEPT ![i][s] = "idle"]
  /\ UNCHANGED query /\ UNCHANGED excused
  /\ UNCHANGED <<server, page, cache, socket, pushed, bells, budget>>
Answer(i, s) ==
  /\ op[i][s] \in {"ok", "missing"}
  /\ op' = [op EXCEPT ![i][s] = "idle"]
  /\ IF op[i][s] = "ok" THEN OnChanged(i) ELSE UNCHANGED <<query, excused>>
  /\ UNCHANGED <<server, page, cache, socket, pushed, bells, budget>>

\* The request or its answer is lost: the panel shows an error only.
RequestFails(i, s) ==
  /\ op[i][s] # "idle" /\ Spend
  /\ op' = [op EXCEPT ![i][s] = "idle"]
  /\ Unasked({Kind(i)})
  /\ UNCHANGED <<server, page, cache, socket, pushed, bells>>

(***************************************************************************)
(* What changes without this tab: another device, and midnight.            *)
(***************************************************************************)
Elsewhere(i, act) ==
  /\ Spend
  /\ IF act = "add" THEN New(i) ELSE db[i] \in {"open", "done"}
  /\ act \in {"complete", "reopen"} => i \in Deadlines
  /\ db' = [db EXCEPT ![i] = Becomes(act)]
  /\ Unasked({Kind(i)})
  /\ UNCHANGED <<day, page, cache, op, socket, pushed, bells>>

Midnight ==
  /\ day < LastDay /\ Spend
  /\ day' = day + 1
  /\ Unasked({"deadlines"})
  /\ UNCHANGED <<db, page, cache, op, socket, pushed, bells>>

(***************************************************************************)
(* Fired alerts: the claim, the emit to the room, the socket.              *)
(***************************************************************************)
Fire(a) ==
  /\ db[a] = "open"
  /\ db' = [db EXCEPT ![a] = "done"]
  /\ IF joined THEN pushed' = pushed \union {a} /\ UNCHANGED <<query, excused>>
     ELSE pushed' = pushed /\ Unasked({"alerts"})
  /\ UNCHANGED <<day, page, cache, op, socket, bells, budget>>

\* (defect: the notice is shown and the panels are left as they are)
ReceiveOnly(a) ==
  /\ a \in pushed
  /\ pushed' = pushed \ {a}
  /\ UNCHANGED query /\ UNCHANGED excused
  /\ UNCHANGED <<server, page, cache, op, socket, bells, budget>>
Receive(a) ==
  /\ a \in pushed
  /\ pushed' = pushed \ {a}
  /\ Refresh
  /\ UNCHANGED <<server, page, cache, op, socket, bells, budget>>

Join ==
  /\ wanted /\ ~joined
  /\ joined' = TRUE
  /\ UNCHANGED <<server, page, cache, query, op, wanted, pushed, bells, excused, budget>>

\* The connection breaks, what was under way is lost; after three failed
\* attempts the client gives up.
Drop ==
  /\ wanted /\ Spend
  /\ joined' = FALSE /\ wanted' \in BOOLEAN
  /\ pushed' = {}
  /\ IF pushed # {} THEN Unasked({"alerts"}) ELSE UNCHANGED <<query, excused>>
  /\ UNCHANGED <<server, page, cache, op, bells>>

(***************************************************************************)
(* Visits.                                                                 *)
(***************************************************************************)
\* To the profile: the effect closes the socket, the notices go with the
\* page; the query goes on or is dropped.
Leave ==
  /\ page = "dashboard" /\ Spend
  /\ page' = "profile"
  /\ wanted' = FALSE /\ joined' = FALSE /\ pushed' = {}
  /\ seen' = stored
  /\ \/ IF pushed # {} THEN Unasked({"alerts"}) ELSE UNCHANGED <<query, excused>>
     \/ asking /\ asking' = FALSE /\ unread' = {} /\ got' = data /\ excused' = Kinds
  /\ UNCHANGED <<server, cache, op, stored, told, dropped>>

\* cache-and-network: the cached answer is shown and the query sent.
Return ==
  /\ page = "profile"
  /\ page' = "dashboard"
  /\ wanted' = TRUE /\ joined' = FALSE
  /\ seen' = stored
  /\ Refresh
  /\ UNCHANGED <<server, cache, op, pushed, stored, told, dropped, budget>>

\* The tab's memory is lost; requests the server has will still be handled
\* but their answers go nowhere, which is as if they came from elsewhere.
Reload ==
  /\ page = "dashboard" /\ Spend
  /\ \A i \in Items : \A s \in Slots : op[i][s] \notin Acts \union {"reading"}
  /\ op' = [i \in Items |-> [s \in Slots |-> "idle"]]
  /\ loaded' = FALSE /\ data' = [i \in Items |-> "none"] /\ got' = data'
  /\ asking' = TRUE /\ unread' = Kinds /\ excused' = {}
  /\ wanted' = TRUE /\ joined' = FALSE /\ pushed' = {}
  /\ seen' = stored
  /\ UNCHANGED <<server, page, stored, told, dropped>>

(***************************************************************************)
(* The bell: fired alerts and deadlines that need attention, by id and     *)
(* status.                                                                 *)
(***************************************************************************)
Notices ==
  IF ~loaded THEN {}
  ELSE {<<a, "done">> : a \in {b \in Alerts : data[b] = "done"}}
       \union {<<d, data[d]>> : d \in {e \in Deadlines : data[e] \in {"DUE_SOON", "OVERDUE"}}}

\* Opening remembers exactly what is listed now.
\* (defect: what was seen is not stored)
OpenUnstored ==
  /\ seen' = Notices /\ stored' = stored
  /\ told' = told \union Notices /\ dropped' = (dropped \union told) \ Notices
  /\ UNCHANGED <<server, page, cache, query, op, socket, pushed, excused, budget>>
OpenBell ==
  /\ seen' = Notices /\ stored' = Notices
  /\ told' = told \union Notices /\ dropped' = (dropped \union told) \ Notices
  /\ UNCHANGED <<server, page, cache, query, op, socket, pushed, excused, budget>>

(***************************************************************************)
(* The specification: answers, pushes and handlers do arrive.              *)
(***************************************************************************)
Init ==
  /\ db \in [Items -> {"none", "open"}] /\ day = 0
  /\ page = "dashboard"
  /\ data = [i \in Items |-> "none"] /\ loaded = FALSE
  /\ asking = TRUE /\ unread = Kinds /\ got = data
  /\ op = [i \in Items |-> [s \in Slots |-> "idle"]]
  /\ wanted = TRUE /\ joined = FALSE /\ pushed = {}
  /\ seen = {} /\ stored = {} /\ told = {} /\ dropped = {}
  /\ excused = {}
  /\ budget = MaxEvents

Queries == (\E k \in Kinds : Resolve(k)) \/ Answered
Arrivals == \E a \in Alerts : Receive(a)

Next ==
  \/ Queries \/ QueryFails \/ Retry
  \/ AddDeadline \/ AddAlert \/ AddObligation
  \/ SetCompleted \/ RemoveDeadline \/ RemoveAlert \/ RemoveObligation
  \/ \E i \in Items : \E s \in Slots :
       Handle(i, s) \/ ReadBack(i, s) \/ Answer(i, s) \/ RequestFails(i, s)
  \/ (\E i \in Items : \E act \in Acts : Elsewhere(i, act)) \/ Midnight
  \/ (\E a \in Alerts : Fire(a)) \/ Arrivals \/ Join \/ Drop
  \/ Leave \/ Return \/ Reload
  \/ OpenBell

Spec == Init /\ [][Next]_vars /\ WF_vars(Queries) /\ WF_vars(Arrivals)

(***************************************************************************)
(* Properties.                                                             *)
(***************************************************************************)
Answers == {"idle", "reading", "ok", "missing"}
Notes == Items \X Views

\* Every variable stays in its range: a row has one state, a query reads each
\* kind once, the bell remembers notices.
TypeOK ==
  /\ db \in [Items -> {"none", "open", "done", "gone"}] /\ day \in 0..LastDay
  /\ page \in {"dashboard", "profile"}
  /\ data \in [Items -> Views] /\ loaded \in BOOLEAN
  /\ asking \in BOOLEAN /\ unread \in SUBSET Kinds /\ got \in [Items -> Views]
  /\ op \in [Items -> [Slots -> Acts \union Answers]]
  /\ wanted \in BOOLEAN /\ joined \in BOOLEAN
  /\ pushed \in SUBSET Alerts
  /\ seen \in SUBSET Notes /\ stored \in SUBSET Notes
  /\ told \in SUBSET Notes /\ dropped \in SUBSET Notes
  /\ excused \in SUBSET Kinds /\ budget \in 0..MaxEvents

AtRest ==
  /\ ~asking /\ loaded /\ pushed = {}
  /\ \A i \in Items : \A s \in Slots : op[i][s] = "idle"

\* Once the query, the panels' requests and the pushes have been answered,
\* every panel shows what the server holds, but for changes nobody told the
\* tab about: those of another device, of midnight, of a lost answer or push,
\* and those a query already in flight had read past (the refresh every panel
\* asks for after a write, page.tsx onChanged and the effect on live alerts).
FreshAtRest ==
  AtRest => \A k \in Kinds \ excused : \A i \in Of(k) : data[i] = View(i)

\* A 404 is only ever given for a row that is gone, also when its completion
\* races its deletion (deadlines/repository.ts setCompleted).
NotFoundMeansGone ==
  \A i \in Items : \A s \in Slots : op[i][s] = "missing" => db[i] \notin {"open", "done"}

\* A notice the student was shown is counted new again only if an opening in
\* between did not list it, whatever visits and reloads happen
\* (notifications.ts: seen survives a reload).
SeenStays == (Notices \intersect told) \ dropped \subseteq seen

\* An alert pushed to the tab is shown as fired by its panel in the end, or
\* the refresh it asked for failed or was overtaken.
FiredIsShown ==
  \A a \in Alerts : (a \in pushed) ~> ((loaded /\ data[a] \in {"done", "gone"}) \/ "alerts" \in excused)

\* Rows, requests and answers agree with one another.
Consistent == TypeOK /\ NotFoundMeansGone
=============================================================================
