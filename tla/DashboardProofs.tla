-------------------------- MODULE DashboardProofs --------------------------
(***************************************************************************)
(* The dashboard shows what the server holds once everything has been      *)
(* answered, for any rows, any number of requests in flight and any order  *)
(* of answers, pushes, faults and visits.                                  *)
(***************************************************************************)
EXTENDS Dashboard, TLAPS

\* An item is of one kind.
LEMMA OneKind ==
  ASSUME NEW k \in Kinds, NEW i \in Of(k)
  PROVE  Kind(i) = k /\ i \in Items
<1>1. \A l \in Kinds : i \in Of(l) => l = k
  BY Apart
<1>2. Kind(i) = k
  BY <1>1 DEF Kind
<1> QED  BY <1>2 DEF Kinds, Of, Items

LEMMA KindsCover ==
  ASSUME NEW i \in Items
  PROVE  Kind(i) \in Kinds /\ i \in Of(Kind(i))
<1>1. \E k \in Kinds : i \in Of(k)
  BY DEF Items, Kinds, Of
<1> QED  BY <1>1 DEF Kind

LEMMA KindOf ==
  /\ \A i \in Deadlines : Kind(i) = "deadlines" /\ i \in Items
  /\ \A i \in Alerts : Kind(i) = "alerts" /\ i \in Items
  /\ \A i \in Obligations : Kind(i) = "obligations" /\ i \in Items
  /\ \A i \in Items : i \notin Deadlines => Kind(i) # "deadlines"
<1> Of("deadlines") = Deadlines /\ Of("alerts") = Alerts /\ Of("obligations") = Obligations
  BY DEF Of
<1> {"deadlines", "alerts", "obligations"} = Kinds
  BY DEF Kinds
<1> QED  BY OneKind, KindsCover

(***************************************************************************)
(* Types.  A row that was ever shown exists; a request about a row that    *)
(* does not exist yet is the one that adds it, and there is one of them;   *)
(* a row found missing stays missing.                                      *)
(***************************************************************************)
RowsExist ==
  \A i \in Items :
    /\ data[i] # "none" => db[i] # "none"
    /\ got[i] # "none" => db[i] # "none"

OneAdds ==
  \A i \in Items : \A s \in Slots :
    /\ op[i][s] = "add" => db[i] = "none" /\ \A t \in Slots : t # s => op[i][t] = "idle"
    /\ op[i][s] \notin {"idle", "add"} => db[i] # "none"

Safe == TypeOK /\ RowsExist /\ OneAdds /\ NotFoundMeansGone

LEMMA ViewTyped ==
  ASSUME TypeOK, NEW i \in Items
  PROVE  View(i) \in Views /\ (View(i) = "none") = (db[i] = "none")
BY DEF TypeOK, View, Views, Open, DeadlineStatus

LEMMA RefreshTyped ==
  ASSUME TypeOK, RowsExist, Refresh
  PROVE  /\ asking' \in BOOLEAN /\ unread' \in SUBSET Kinds /\ excused' \in SUBSET Kinds
         /\ got' \in [Items -> Views]
         /\ \A i \in Items : got'[i] # "none" => db[i] # "none"
BY DEF TypeOK, RowsExist, Refresh, Behind, query

LEMMA UnaskedTyped ==
  ASSUME TypeOK, NEW K \in SUBSET Kinds, Unasked(K)
  PROVE  /\ excused' \in SUBSET Kinds /\ UNCHANGED query
BY DEF TypeOK, Unasked, ToRead

\* The query, its refreshes and failures.
LEMMA QuerySafe ==
  ASSUME Safe,
         \/ \E k \in Kinds : Resolve(k)
         \/ Answered \/ QueryFails \/ Retry \/ Return \/ \E a \in Alerts : Receive(a)
  PROVE  Safe'
<1> USE DEF Safe
<1>1. ASSUME NEW k \in Kinds, Resolve(k)
      PROVE  Safe'
  <2>1. \A i \in Items : View(i) \in Views /\ (View(i) = "none") = (db[i] = "none")
    BY ViewTyped
  <2>2. /\ got' \in [Items -> Views] /\ \A i \in Items : got'[i] # "none" => db[i] # "none"
    BY <1>1, <2>1 DEF Resolve, TypeOK, RowsExist
  <2>3. TypeOK'
    BY <1>1, <2>2 DEF Resolve, TypeOK, server, cache, socket, bells
  <2> QED  BY <1>1, <2>2, <2>3 DEF Resolve, RowsExist, OneAdds, NotFoundMeansGone, server, cache
<1>2. CASE Answered
  BY <1>2 DEF Answered, TypeOK, RowsExist, OneAdds, NotFoundMeansGone, server, socket, bells
<1>3. CASE QueryFails
  <2>1. got' \in [Items -> Views] /\ \A i \in Items : got'[i] = data[i]
    BY <1>3 DEF QueryFails, TypeOK
  <2>2. budget' \in 0..MaxEvents
    BY <1>3, Days DEF QueryFails, Spend, TypeOK
  <2>3. TypeOK'
    BY <1>3, <2>1, <2>2 DEF QueryFails, TypeOK, server, cache, socket, bells
  <2> QED  BY <1>3, <2>1, <2>3 DEF QueryFails, RowsExist, OneAdds, NotFoundMeansGone, server, cache
<1>4. ASSUME Refresh, UNCHANGED <<server, cache, op, stored, told, dropped>>,
             page' \in {"dashboard", "profile"}, wanted' \in BOOLEAN, joined' \in BOOLEAN,
             seen' \in {seen, stored}, pushed' \subseteq pushed, budget' = budget
      PROVE  Safe'
  BY <1>4, RefreshTyped DEF TypeOK, RowsExist, OneAdds, NotFoundMeansGone, server, cache
<1>5. CASE Retry
  BY <1>5, <1>4 DEF Retry, socket, bells, TypeOK
<1>6. CASE Return
  BY <1>6, <1>4 DEF Return, TypeOK
<1>7. ASSUME NEW a \in Alerts, Receive(a)
      PROVE  Safe'
  BY <1>7, <1>4 DEF Receive, socket, bells, TypeOK
<1> QED  BY <1>1, <1>2, <1>3, <1>5, <1>6, <1>7

\* Clicks: the row shown exists, the row added does not.
Clicks ==
  \/ AddDeadline \/ AddAlert \/ AddObligation
  \/ SetCompleted \/ RemoveDeadline \/ RemoveAlert \/ RemoveObligation

LEMMA ClickKinds ==
  ASSUME Safe, Clicks
  PROVE  \E i \in Items : \E act \in Acts :
           /\ Click(i, act)
           /\ IF act = "add" THEN New(i) ELSE db[i] # "none"
<1>1. \A kind \in Kinds : Add(kind) => \E i \in Items : New(i) /\ Click(i, "add")
  BY OneKind DEF Add
<1>2. AddDeadline \/ AddAlert \/ AddObligation => \E i \in Items : New(i) /\ Click(i, "add")
  BY <1>1 DEF AddDeadline, AddAlert, AddObligation, Kinds
<1>3. \A i \in Items : Shown(i) # "none" => db[i] # "none"
  BY DEF Safe, RowsExist, Shown
<1>4. \A i \in Items : Shown(i) \in Open \union {"done"} => db[i] # "none"
  BY <1>3 DEF Open
<1>5. ASSUME SetCompleted \/ RemoveDeadline \/ RemoveAlert \/ RemoveObligation
      PROVE  \E i \in Items : \E act \in {"complete", "reopen", "remove"} : Click(i, act) /\ db[i] # "none"
  BY <1>5, <1>4, KindOf DEF SetCompleted, RemoveDeadline, RemoveAlert, RemoveObligation
<1>6. {"add", "complete", "reopen", "remove"} = Acts
  BY DEF Acts
<1>7. CASE AddDeadline \/ AddAlert \/ AddObligation
  BY <1>2, <1>6, <1>7
<1>8. CASE SetCompleted \/ RemoveDeadline \/ RemoveAlert \/ RemoveObligation
  BY <1>5, <1>6, <1>8
<1> QED  BY <1>7, <1>8 DEF Clicks

LEMMA ClickSafe ==
  ASSUME Safe, Clicks
  PROVE  Safe'
<1>1. PICK i \in Items, act \in Acts :
        /\ Click(i, act)
        /\ IF act = "add" THEN New(i) ELSE db[i] # "none"
  BY ClickKinds
<1>2. PICK s \in Slots : op[i][s] = "idle" /\ op' = [op EXCEPT ![i][s] = act]
  BY <1>1 DEF Click, Idle
<1>3. op \in [Items -> [Slots -> Acts \union Answers]]
  BY DEF Safe, TypeOK
<1>4. \A j \in Items : \A t \in Slots : op'[j][t] = IF j = i /\ t = s THEN act ELSE op[j][t]
  BY <1>2, <1>3
<1>5. TypeOK'
  <2>1. op' \in [Items -> [Slots -> Acts \union Answers]]
    BY <1>2, <1>3
  <2>2. budget' \in 0..MaxEvents
    BY <1>1, Days DEF Click, Spend, Safe, TypeOK
  <2> QED  BY <1>1, <2>1, <2>2 DEF Safe, TypeOK, Click, server, cache, query, socket, bells
<1>6. UNCHANGED <<db, data, got>>
  BY <1>1 DEF Click, server, cache, query
<1>7. OneAdds'
  BY <1>1, <1>4, <1>6 DEF Safe, OneAdds, New, Acts
<1> QED  BY <1>4, <1>5, <1>6, <1>7 DEF Safe, RowsExist, NotFoundMeansGone, Acts

\* The server's part of a request, its answer, and its loss.
LEMMA HandleSafe ==
  ASSUME Safe, NEW i \in Items, NEW s \in Slots, Handle(i, s)
  PROVE  Safe'
<1> DEFINE act == op[i][s]
           next == IF Matches(i, act)
                   THEN IF act \in {"complete", "reopen"} THEN "reading" ELSE "ok"
                   ELSE "missing"
<1>1. op \in [Items -> [Slots -> Acts \union Answers]] /\ act \in Acts
  BY DEF Safe, TypeOK, Handle
<1>2. op' = [op EXCEPT ![i][s] = next]
  BY DEF Handle
<1>3. next \in {"reading", "ok", "missing"}
  OBVIOUS
<1>4. IF Matches(i, act) THEN db' = [db EXCEPT ![i] = Becomes(act)] ELSE db' = db
  BY DEF Handle
<1>5. Becomes(act) \in {"open", "done", "gone"} /\ (act = "add" => Becomes(act) = "open")
  BY <1>1 DEF Acts, Becomes
<1>6. act # "add" => db[i] # "none"
  BY <1>1 DEF Safe, OneAdds, Acts
<1>7. ~Matches(i, act) => db[i] \notin {"open", "done"} /\ act # "add"
  BY DEF Matches
<1>8. Matches(i, act) => act = "add" \/ db[i] \in {"open", "done"}
  BY DEF Matches
<1>9. \A t \in Slots : act = "add" /\ t # s => op[i][t] = "idle"
  BY DEF Safe, OneAdds
<1> HIDE DEF next, act
<1>10. \A j \in Items : \A t \in Slots : op'[j][t] = IF j = i /\ t = s THEN next ELSE op[j][t]
  BY <1>1, <1>2
<1>11. \A j \in Items : db'[j] = IF j = i /\ Matches(i, act) THEN Becomes(act) ELSE db[j]
  BY <1>4 DEF Safe, TypeOK
<1>12. UNCHANGED <<day, page, cache, query, socket, pushed, bells, excused, budget>>
  BY DEF Handle
<1>13. TypeOK'
  <2>1. op' \in [Items -> [Slots -> Acts \union Answers]]
    BY <1>1, <1>2, <1>3 DEF Answers
  <2>2. db' \in [Items -> {"none", "open", "done", "gone"}]
    BY <1>4, <1>5 DEF Safe, TypeOK
  <2> QED  BY <1>12, <2>1, <2>2 DEF Safe, TypeOK, cache, query, socket, bells
<1>14. RowsExist'
  BY <1>5, <1>11, <1>12 DEF Safe, RowsExist, cache, query
<1>15. OneAdds'
  <2>1. \A t \in Slots : t # s => op[i][t] # "add"
    BY <1>1 DEF Safe, OneAdds, Acts, act
  <2>2. db'[i] # "none"
    BY <1>5, <1>6, <1>8, <1>11, <1>7
  <2>3. \A t \in Slots : op'[i][t] # "add"
    BY <1>3, <1>10, <2>1
  <2>4. ASSUME NEW j \in Items, j # i
        PROVE  db'[j] = db[j] /\ \A t \in Slots : op'[j][t] = op[j][t]
    BY <1>10, <1>11, <2>4
  <2> QED  BY <2>2, <2>3, <2>4 DEF Safe, OneAdds
<1>16. NotFoundMeansGone'
  <2>1. next = "missing" => ~Matches(i, act)
    BY DEF next
  <2>2. \A t \in Slots : t # s /\ op[i][t] = "missing" => ~Matches(i, act)
    BY <1>8, <1>9 DEF Safe, NotFoundMeansGone
  <2> QED  BY <1>7, <1>10, <1>11, <2>1, <2>2 DEF Safe, NotFoundMeansGone
<1> QED  BY <1>13, <1>14, <1>15, <1>16 DEF Safe

\* A request moves on and no row changes.
LEMMA MovesOn ==
  ASSUME Safe, NEW i \in Items, NEW s \in Slots, NEW to \in {"idle", "ok", "missing"},
         op' = [op EXCEPT ![i][s] = to],
         to # "idle" => op[i][s] = "reading",
         to = "missing" => db[i] \notin {"open", "done"},
         UNCHANGED <<server, page, cache, socket, pushed, bells>>,
         asking' \in BOOLEAN, unread' \in SUBSET Kinds, excused' \in SUBSET Kinds,
         got' \in [Items -> Views], \A j \in Items : got'[j] # "none" => db[j] # "none",
         budget' \in 0..MaxEvents
  PROVE  Safe'
<1>1. op \in [Items -> [Slots -> Acts \union Answers]]
  BY DEF Safe, TypeOK
<1>2. op' \in [Items -> [Slots -> Acts \union Answers]]
  BY <1>1 DEF Answers
<1>3. \A j \in Items : \A t \in Slots : op'[j][t] = IF j = i /\ t = s THEN to ELSE op[j][t]
  BY <1>1
<1>4. TypeOK'
  BY <1>2 DEF Safe, TypeOK, server, cache, socket, bells
<1>5. RowsExist'
  BY DEF Safe, RowsExist, server, cache
<1>6. OneAdds'
  BY <1>3 DEF Safe, OneAdds, server
<1> QED  BY <1>3, <1>4, <1>5, <1>6 DEF Safe, NotFoundMeansGone, server

LEMMA RequestSafe ==
  ASSUME Safe, NEW i \in Items, NEW s \in Slots,
         Handle(i, s) \/ ReadBack(i, s) \/ Answer(i, s) \/ RequestFails(i, s)
  PROVE  Safe'
<1>0. TypeOK /\ RowsExist /\ Kind(i) \in Kinds
  BY KindsCover DEF Safe
<1>1. CASE Handle(i, s)
  BY <1>1, HandleSafe
<1>2. CASE ReadBack(i, s)
  <2>1. UNCHANGED <<asking, unread, got, excused, budget>>
    BY <1>2 DEF ReadBack, query
  <2>2. asking' \in BOOLEAN /\ unread' \in SUBSET Kinds /\ excused' \in SUBSET Kinds /\ got' \in [Items -> Views] /\ budget' \in 0..MaxEvents
    BY <1>0, <2>1 DEF TypeOK
  <2>3. \A j \in Items : got'[j] # "none" => db[j] # "none"
    BY <1>0, <2>1 DEF RowsExist
  <2> QED  BY <1>2, <2>2, <2>3, MovesOn DEF ReadBack
<1>3. CASE Answer(i, s)
  <2>1. CASE Refresh
    BY <1>0, <1>3, <2>1, RefreshTyped, MovesOn DEF Answer, TypeOK
  <2>2. CASE Unasked({Kind(i)}) \/ UNCHANGED <<query, excused>>
    <3>1. UNCHANGED query /\ excused' \in SUBSET Kinds
      BY <1>0, <2>2, UnaskedTyped DEF TypeOK
    <3> QED  BY <1>0, <1>3, <3>1, MovesOn DEF Answer, TypeOK, query, RowsExist
  <2> QED  BY <1>3, <2>1, <2>2 DEF Answer, OnChanged
<1>4. CASE RequestFails(i, s)
  <2>1. UNCHANGED query /\ excused' \in SUBSET Kinds
    BY <1>0, <1>4, UnaskedTyped DEF RequestFails
  <2>2. budget' \in 0..MaxEvents
    BY <1>0, <1>4, Days DEF RequestFails, Spend, TypeOK
  <2> QED  BY <1>0, <1>4, <2>1, <2>2, MovesOn DEF RequestFails, TypeOK, query, RowsExist
<1> QED  BY <1>1, <1>2, <1>3, <1>4

\* Another device, midnight, the claim of an alert.
LEMMA WorldSafe ==
  ASSUME Safe,
         (\E i \in Items : \E act \in Acts : Elsewhere(i, act)) \/ Midnight \/ \E a \in Alerts : Fire(a)
  PROVE  Safe'
<1>0. TypeOK /\ \A i \in Items : Kind(i) \in Kinds
  BY KindsCover DEF Safe
<1>1. ASSUME NEW i \in Items, NEW act \in Acts, Elsewhere(i, act)
      PROVE  Safe'
  <2>1. UNCHANGED query /\ excused' \in SUBSET Kinds
    BY <1>0, <1>1, UnaskedTyped DEF Elsewhere
  <2>2. budget' \in 0..MaxEvents
    BY <1>0, <1>1, Days DEF Elsewhere, Spend, TypeOK
  <2>3. Becomes(act) \in {"open", "done", "gone"}
    BY <1>1 DEF Acts, Becomes
  <2>4. \A j \in Items : db'[j] = IF j = i THEN Becomes(act) ELSE db[j]
    BY <1>0, <1>1 DEF Elsewhere, TypeOK
  <2>5. \/ db[i] = "none" /\ \A s \in Slots : op[i][s] # "add"
        \/ db[i] \in {"open", "done"}
    BY <1>1 DEF Elsewhere, New
  <2>6. TypeOK'
    BY <1>0, <1>1, <2>1, <2>2, <2>3 DEF Elsewhere, TypeOK, cache, query, socket, bells
  <2>7. OneAdds'
    BY <1>1, <2>3, <2>4, <2>5 DEF Elsewhere, Safe, OneAdds
  <2>8. NotFoundMeansGone'
    BY <1>1, <2>4, <2>5 DEF Elsewhere, Safe, OneAdds, NotFoundMeansGone
  <2> QED  BY <1>1, <2>1, <2>3, <2>4, <2>6, <2>7, <2>8 DEF Elsewhere, Safe, RowsExist, cache, query
<1>2. CASE Midnight
  <2>1. UNCHANGED query /\ excused' \in SUBSET Kinds
    BY <1>0, <1>2, UnaskedTyped DEF Midnight, Kinds
  <2>2. budget' \in 0..MaxEvents /\ day' \in 0..LastDay
    BY <1>0, <1>2, Days DEF Midnight, Spend, TypeOK
  <2>3. TypeOK'
    BY <1>0, <1>2, <2>1, <2>2 DEF Midnight, TypeOK, cache, query, socket, bells
  <2> QED  BY <1>2, <2>1, <2>3 DEF Midnight, Safe, RowsExist, OneAdds, NotFoundMeansGone, cache, query
<1>3. ASSUME NEW a \in Alerts, Fire(a)
      PROVE  Safe'
  <2>1. UNCHANGED query /\ excused' \in SUBSET Kinds /\ pushed' \in SUBSET Alerts
    <3>1. {"alerts"} \in SUBSET Kinds
      BY DEF Kinds
    <3>2. CASE joined
      BY <1>0, <1>3, <3>2 DEF Fire, TypeOK
    <3>3. CASE ~joined
      <4>1. Unasked({"alerts"}) /\ pushed' = pushed
        BY <1>3, <3>3 DEF Fire
      <4> QED  BY <1>0, <3>1, <4>1, UnaskedTyped DEF TypeOK
    <3> QED  BY <3>2, <3>3
  <2>2. a \in Items /\ \A j \in Items : db'[j] = IF j = a THEN "done" ELSE db[j]
    BY <1>0, <1>3 DEF Fire, TypeOK, Items
  <2>3. TypeOK'
    BY <1>0, <1>3, <2>1 DEF Fire, TypeOK, cache, query, socket, bells
  <2>4. OneAdds' /\ NotFoundMeansGone'
    BY <1>3, <2>2 DEF Fire, Safe, OneAdds, NotFoundMeansGone
  <2> QED  BY <1>3, <2>1, <2>2, <2>3, <2>4 DEF Fire, Safe, RowsExist, cache, query
<1> QED  BY <1>1, <1>2, <1>3

\* The socket, visits and the bell.
LEMMA NoticesTyped ==
  ASSUME TypeOK
  PROVE  Notices \in SUBSET Notes
BY DEF TypeOK, Notices, Notes, Items, Views, Open

LEMMA VisitSafe ==
  ASSUME Safe, Join \/ Drop \/ Leave \/ Reload \/ OpenBell
  PROVE  Safe'
<1>0. TypeOK /\ "alerts" \in Kinds
  BY DEF Safe, Kinds
<1>1. CASE Join
  BY <1>1 DEF Join, Safe, TypeOK, RowsExist, OneAdds, NotFoundMeansGone, server, cache, query, bells
<1>2. CASE Drop
  <2>1. UNCHANGED query /\ excused' \in SUBSET Kinds
    BY <1>0, <1>2, UnaskedTyped DEF Drop, TypeOK
  <2>2. budget' \in 0..MaxEvents
    BY <1>0, <1>2, Days DEF Drop, Spend, TypeOK
  <2> QED  BY <1>0, <1>2, <2>1, <2>2
           DEF Drop, Safe, TypeOK, RowsExist, OneAdds, NotFoundMeansGone, server, cache, query, bells
<1>3. CASE Leave
  <2>1. /\ asking' \in BOOLEAN /\ unread' \in SUBSET Kinds /\ excused' \in SUBSET Kinds
        /\ got' \in {got, data}
    BY <1>0, <1>3, UnaskedTyped DEF Leave, TypeOK, query
  <2>2. budget' \in 0..MaxEvents
    BY <1>0, <1>3, Days DEF Leave, Spend, TypeOK
  <2>3. TypeOK'
    BY <1>0, <1>3, <2>1, <2>2 DEF Leave, TypeOK, server, cache
  <2> QED  BY <1>3, <2>1, <2>3 DEF Leave, Safe, RowsExist, OneAdds, NotFoundMeansGone, server, cache
<1>4. CASE Reload
  <2>1. budget' \in 0..MaxEvents
    BY <1>0, <1>4, Days DEF Reload, Spend, TypeOK
  <2>2. /\ op' \in [Items -> [Slots -> Acts \union Answers]] /\ data' \in [Items -> Views]
        /\ \A i \in Items : data'[i] = "none" /\ \A s \in Slots : op'[i][s] = "idle"
    BY <1>4 DEF Reload, Answers, Views
  <2>3. TypeOK'
    BY <1>0, <1>4, <2>1, <2>2 DEF Reload, TypeOK, server
  <2> QED  BY <1>4, <2>2, <2>3 DEF Reload, Safe, RowsExist, OneAdds, NotFoundMeansGone
<1>5. CASE OpenBell
  <2>1. TypeOK'
    BY <1>0, <1>5, NoticesTyped DEF OpenBell, TypeOK, server, cache, query, socket
  <2> QED  BY <1>5, <2>1 DEF OpenBell, Safe, RowsExist, OneAdds, NotFoundMeansGone, server, cache, query
<1> QED  BY <1>1, <1>2, <1>3, <1>4, <1>5

LEMMA InitSafe ==
  ASSUME Init
  PROVE  Safe
<1>1. op \in [Items -> [Slots -> Acts \union Answers]] /\ data \in [Items -> Views]
  BY DEF Init, Answers, Views
<1>2. db \in [Items -> {"none", "open", "done", "gone"}]
  BY DEF Init
<1>3. day \in 0..LastDay /\ budget \in 0..MaxEvents
  BY Days DEF Init
<1>4. TypeOK
  BY <1>1, <1>2, <1>3 DEF Init, TypeOK
<1> QED  BY <1>1, <1>4 DEF Init, Safe, RowsExist, OneAdds, NotFoundMeansGone

\* The actions of Next, by what they do.
LEMMA NextByKind ==
  ASSUME Next
  PROVE  \/ (\E k \in Kinds : Resolve(k)) \/ Answered \/ QueryFails \/ Retry \/ Return
            \/ \E a \in Alerts : Receive(a)
         \/ Clicks
         \/ \E i \in Items : \E s \in Slots :
              Handle(i, s) \/ ReadBack(i, s) \/ Answer(i, s) \/ RequestFails(i, s)
         \/ (\E i \in Items : \E act \in Acts : Elsewhere(i, act)) \/ Midnight \/ \E a \in Alerts : Fire(a)
         \/ Join \/ Drop \/ Leave \/ Reload \/ OpenBell
BY DEF Next, Clicks, Queries, Arrivals

LEMMA SafeStep ==
  ASSUME Safe, [Next]_vars
  PROVE  Safe'
<1>1. CASE Next
  BY <1>1, NextByKind, QuerySafe, ClickSafe, RequestSafe, WorldSafe, VisitSafe
<1>2. CASE UNCHANGED vars
  BY <1>2 DEF vars, Safe, TypeOK, RowsExist, OneAdds, NotFoundMeansGone,
              server, cache, query, socket, bells
<1> QED  BY <1>1, <1>2

\* A 404 is only given for a row that is gone, whichever requests about it race.
THEOREM GoneIsGone == Spec => []Consistent
<1>1. Init => Safe
  BY InitSafe
<1>2. Safe /\ [Next]_vars => Safe'
  BY SafeStep
<1>3. Safe => Consistent
  BY DEF Safe, Consistent
<1> QED  BY <1>1, <1>2, <1>3, PTL DEF Spec

(***************************************************************************)
(* What makes the panels fresh at rest: as long as a kind is not excused,  *)
(* every row of it is shown as it is, or the query in flight has it right  *)
(* or will still read it, or something is under way that will refresh it.  *)
(***************************************************************************)
UnderWay(i) ==
  \/ \E s \in Slots : op[i][s] = "ok"
  \/ db[i] \in {"open", "done"} /\ \E s \in Slots : op[i][s] = "reading"
  \/ i \in pushed

ShownRight(i) ==
  IF asking THEN Kind(i) \in unread \/ got[i] = View(i)
  ELSE ~loaded \/ data[i] = View(i)

Covered == \A i \in Items : Kind(i) \notin excused => ShownRight(i) \/ UnderWay(i)

LEMMA FreshFromCovered ==
  ASSUME Covered
  PROVE  FreshAtRest
<1> SUFFICES ASSUME AtRest, NEW k \in Kinds \ excused, NEW i \in Of(k)
             PROVE  data[i] = View(i)
  BY DEF FreshAtRest
<1> QED  BY OneKind DEF AtRest, Covered, ShownRight, UnderWay

\* A refresh covers everything: the query in flight has a row right, or will
\* read it, or its kind is excused.
LEMMA RefreshCovers ==
  ASSUME Refresh, TypeOK, UNCHANGED <<db, day>>
  PROVE  Covered'
<1> SUFFICES ASSUME NEW i \in Items, Kind(i) \notin excused'
             PROVE  ShownRight(i)'
  BY DEF Covered
<1>1. Kind(i) \in Kinds /\ i \in Of(Kind(i))
  BY KindsCover
<1>2. View(i)' = View(i)
  BY DEF View, DeadlineStatus
<1>3. CASE asking
  <2>1. Kind(i) \in unread \/ Kind(i) \notin Behind(got)
    BY <1>3 DEF Refresh
  <2>2. Kind(i) \notin Behind(got) => got[i] = View(i)
    BY <1>1 DEF Behind
  <2> QED  BY <1>2, <1>3, <2>1, <2>2 DEF Refresh, ShownRight, query
<1>4. CASE ~asking
  BY <1>1, <1>4 DEF Refresh, ShownRight, TypeOK
<1> QED  BY <1>3, <1>4 DEF TypeOK

\* A change nobody asks about is excused, or is of a kind still to be read.
LEMMA UnaskedCovers ==
  ASSUME NEW K \in SUBSET Kinds, Unasked(K), TypeOK, UNCHANGED cache,
         NEW i \in Items, Kind(i) \notin excused', Kind(i) \in K
  PROVE  ShownRight(i)'
BY KindsCover DEF Unasked, ToRead, ShownRight, query, cache, TypeOK

\* A row that is not touched, and whose requests have at most moved on.
LEMMA StaysCovered ==
  ASSUME Covered, NEW i \in Items, Kind(i) \notin excused', excused \subseteq excused',
         UNCHANGED <<query, cache>>, View(i)' = View(i),
         UnderWay(i) => UnderWay(i)'
  PROVE  ShownRight(i)' \/ UnderWay(i)'
<1>1. ShownRight(i) \/ UnderWay(i)
  BY DEF Covered
<1>2. ShownRight(i) => ShownRight(i)'
  BY DEF ShownRight, query, cache
<1> QED  BY <1>1, <1>2

LEMMA QueryCovers ==
  ASSUME Safe, Covered,
         (\E k \in Kinds : Resolve(k)) \/ Answered \/ QueryFails \/ Retry \/ Return
           \/ \E a \in Alerts : Receive(a)
  PROVE  Covered'
<1>0. TypeOK
  BY DEF Safe
<1>1. ASSUME NEW k \in Kinds, Resolve(k)
      PROVE  Covered'
  <2> SUFFICES ASSUME NEW i \in Items, Kind(i) \notin excused'
               PROVE  ShownRight(i)' \/ UnderWay(i)'
    BY DEF Covered
  <2>1. Kind(i) \in Kinds /\ i \in Of(Kind(i)) /\ (i \in Of(k) => Kind(i) = k)
    BY KindsCover, OneKind
  <2>2. View(i)' = View(i)
    BY <1>1 DEF Resolve, View, DeadlineStatus, server
  <2>3. CASE Kind(i) = k
    <3>1. got'[i] = View(i) /\ asking' = asking /\ asking
      BY <1>1, <2>1, <2>3 DEF Resolve
    <3> QED  BY <2>2, <3>1 DEF ShownRight
  <2>4. CASE Kind(i) # k
    <3>1. got'[i] = got[i] /\ asking' = asking /\ (Kind(i) \in unread => Kind(i) \in unread')
      BY <1>1, <2>1, <2>4 DEF Resolve
    <3>2. Kind(i) \notin excused
      BY <1>1, <2>4 DEF Resolve
    <3>3. ShownRight(i) => ShownRight(i)'
      BY <1>1, <2>2, <3>1 DEF ShownRight, Resolve
    <3>4. UnderWay(i) => UnderWay(i)'
      BY <1>1 DEF UnderWay, Resolve, server
    <3> QED  BY <3>2, <3>3, <3>4 DEF Covered
  <2> QED  BY <2>3, <2>4
<1>2. CASE Answered
  <2> SUFFICES ASSUME NEW i \in Items, Kind(i) \notin excused'
               PROVE  ShownRight(i)' \/ UnderWay(i)'
    BY DEF Covered
  <2>1. View(i)' = View(i)
    BY <1>2 DEF Answered, View, DeadlineStatus, server
  <2>2. UnderWay(i) => UnderWay(i)'
    BY <1>2 DEF UnderWay, Answered, server
  <2>3. ShownRight(i) => ShownRight(i)'
    BY <1>2, <2>1 DEF ShownRight, Answered
  <2> QED  BY <1>2, <2>2, <2>3 DEF Covered, Answered
<1>3. CASE QueryFails
  BY <1>3, KindsCover DEF QueryFails, Covered
<1>4. CASE Retry \/ Return \/ \E a \in Alerts : Receive(a)
  BY <1>0, <1>4, RefreshCovers DEF Retry, Return, Receive, server
<1> QED  BY <1>1, <1>2, <1>3, <1>4

LEMMA ClickCovers ==
  ASSUME Safe, Covered, Clicks
  PROVE  Covered'
<1> SUFFICES ASSUME NEW j \in Items, Kind(j) \notin excused'
             PROVE  ShownRight(j)' \/ UnderWay(j)'
  BY DEF Covered
<1>1. PICK i \in Items, act \in Acts : Click(i, act)
  BY ClickKinds
<1>2. PICK s \in Slots : op[i][s] = "idle" /\ op' = [op EXCEPT ![i][s] = act]
  BY <1>1 DEF Click, Idle
<1>3. \A t \in Slots : op[j][t] # "idle" => op'[j][t] = op[j][t]
  BY <1>2 DEF Safe, TypeOK
<1>4. UnderWay(j) => UnderWay(j)'
  BY <1>1, <1>3 DEF UnderWay, Click, server
<1>5. View(j)' = View(j)
  BY <1>1 DEF Click, View, DeadlineStatus, server
<1> QED  BY <1>1, <1>4, <1>5, StaysCovered DEF Click

\* A step that changes rows of the kinds K, or loses what was under way of
\* them, and leaves everything else as it is.
LEMMA UnaskedStep ==
  ASSUME TypeOK, Covered, NEW K \in SUBSET Kinds, Unasked(K), UNCHANGED cache,
         \A j \in Items : Kind(j) \notin K => View(j)' = View(j) /\ (UnderWay(j) => UnderWay(j)')
  PROVE  Covered'
<1> SUFFICES ASSUME NEW j \in Items, Kind(j) \notin excused'
             PROVE  ShownRight(j)' \/ UnderWay(j)'
  BY DEF Covered
<1>1. CASE Kind(j) \in K
  BY <1>1, UnaskedCovers
<1>2. CASE Kind(j) \notin K
  BY <1>2, StaysCovered DEF Unasked
<1> QED  BY <1>1, <1>2

\* A step that changes nothing the query or the panels know of.
LEMMA QuietStep ==
  ASSUME Covered, UNCHANGED <<query, cache, excused>>,
         \A j \in Items : (View(j)' = View(j) /\ (UnderWay(j) => UnderWay(j)')) \/ UnderWay(j)'
  PROVE  Covered'
<1> SUFFICES ASSUME NEW j \in Items, Kind(j) \notin excused'
             PROVE  ShownRight(j)' \/ UnderWay(j)'
  BY DEF Covered
<1> QED  BY StaysCovered

LEMMA HandleCovers ==
  ASSUME Safe, Covered, NEW i \in Items, NEW s \in Slots, Handle(i, s)
  PROVE  Covered'
<1>1. /\ op \in [Items -> [Slots -> Acts \union Answers]]
      /\ db \in [Items -> {"none", "open", "done", "gone"}]
  BY DEF Safe, TypeOK
<1>2. ASSUME NEW j \in Items, j # i
      PROVE  View(j)' = View(j) /\ (UnderWay(j) => UnderWay(j)')
  BY <1>1, <1>2 DEF Handle, View, DeadlineStatus, UnderWay
<1>3. CASE Matches(i, op[i][s])
  <2>1. db'[i] = Becomes(op[i][s]) /\ op'[i][s] = IF op[i][s] \in {"complete", "reopen"} THEN "reading" ELSE "ok"
    BY <1>1, <1>3 DEF Handle
  <2>2. op[i][s] \in {"complete", "reopen"} => Becomes(op[i][s]) \in {"open", "done"}
    BY DEF Becomes
  <2>3. UnderWay(i)'
    BY <2>1, <2>2 DEF UnderWay
  <2> QED  BY <1>2, <2>3, QuietStep DEF Handle
<1>4. CASE ~Matches(i, op[i][s])
  <2>1. db' = db /\ \A t \in Slots : t # s => op'[i][t] = op[i][t]
    BY <1>1, <1>4 DEF Handle
  <2>2. op[i][s] \notin {"ok", "reading"}
    BY DEF Handle, Acts
  <2>3. View(i)' = View(i) /\ (UnderWay(i) => UnderWay(i)')
    BY <2>1, <2>2 DEF Handle, View, DeadlineStatus, UnderWay
  <2> QED  BY <1>2, <2>3, QuietStep DEF Handle
<1> QED  BY <1>3, <1>4

LEMMA RequestCovers ==
  ASSUME Safe, Covered, NEW i \in Items, NEW s \in Slots,
         ReadBack(i, s) \/ Answer(i, s) \/ RequestFails(i, s)
  PROVE  Covered'
<1>0. TypeOK /\ op \in [Items -> [Slots -> Acts \union Answers]]
  BY DEF Safe, TypeOK
<1>1. UNCHANGED <<db, day, data, loaded, pushed, cache>> /\ \A j \in Items : View(j)' = View(j)
  BY DEF ReadBack, Answer, RequestFails, server, cache, View, DeadlineStatus
<1>2. \A j \in Items : \A t \in Slots : j # i \/ t # s => op'[j][t] = op[j][t]
  BY <1>0 DEF ReadBack, Answer, RequestFails
<1>3. \A j \in Items : j # i => (UnderWay(j) => UnderWay(j)')
  BY <1>1, <1>2 DEF UnderWay
<1>4. CASE ReadBack(i, s)
  <2>1. op'[i][s] = IF db[i] \in {"open", "done"} THEN "ok" ELSE "missing"
    BY <1>0, <1>4 DEF ReadBack
  <2>2. UnderWay(i) => UnderWay(i)'
    BY <1>1, <1>2, <1>4, <2>1 DEF UnderWay, ReadBack
  <2> QED  BY <1>1, <1>3, <1>4, <2>2, QuietStep DEF ReadBack
<1>5. ASSUME Unasked({Kind(i)})
      PROVE  Covered'
  BY <1>0, <1>1, <1>3, <1>5, KindsCover, UnaskedStep
<1>6. CASE Answer(i, s)
  <2>1. CASE op[i][s] = "ok"
    BY <1>0, <1>1, <1>5, <1>6, <2>1, RefreshCovers DEF Answer, OnChanged
  <2>2. CASE op[i][s] = "missing"
    <3>1. UnderWay(i) => UnderWay(i)'
      BY <1>1, <1>2, <2>2 DEF UnderWay
    <3> QED  BY <1>1, <1>3, <1>6, <2>2, <3>1, QuietStep DEF Answer
  <2> QED  BY <1>6, <2>1, <2>2 DEF Answer
<1>7. CASE RequestFails(i, s)
  BY <1>5, <1>7 DEF RequestFails
<1> QED  BY <1>4, <1>6, <1>7

LEMMA WorldCovers ==
  ASSUME Safe, Covered,
         (\E i \in Items : \E act \in Acts : Elsewhere(i, act)) \/ Midnight \/ \E a \in Alerts : Fire(a)
  PROVE  Covered'
<1>0. TypeOK /\ db \in [Items -> {"none", "open", "done", "gone"}] /\ {"alerts", "deadlines"} \subseteq Kinds
  BY DEF Safe, TypeOK, Kinds
<1>1. ASSUME NEW i \in Items, NEW act \in Acts, Elsewhere(i, act)
      PROVE  Covered'
  <2>1. \A j \in Items : j # i => View(j)' = View(j) /\ (UnderWay(j) => UnderWay(j)')
    BY <1>0, <1>1 DEF Elsewhere, View, DeadlineStatus, UnderWay
  <2> QED  BY <1>0, <1>1, <2>1, KindsCover, UnaskedStep DEF Elsewhere
<1>2. CASE Midnight
  <2>1. \A j \in Items : j \notin Deadlines => View(j)' = View(j)
    BY <1>2 DEF Midnight, View
  <2>2. \A j \in Items : UnderWay(j) => UnderWay(j)'
    BY <1>2 DEF Midnight, UnderWay
  <2>3. \A j \in Items : Kind(j) \notin {"deadlines"} => View(j)' = View(j) /\ (UnderWay(j) => UnderWay(j)')
    BY <2>1, <2>2, KindOf
  <2>4. {"deadlines"} \in SUBSET Kinds /\ Unasked({"deadlines"}) /\ UNCHANGED cache
    BY <1>0, <1>2 DEF Midnight
  <2> QED  BY <1>0, <2>3, <2>4, UnaskedStep
<1>3. ASSUME NEW a \in Alerts, Fire(a)
      PROVE  Covered'
  <2>1. \A j \in Items : j # a => View(j)' = View(j) /\ (UnderWay(j) => UnderWay(j)')
    BY <1>0, <1>3 DEF Fire, View, DeadlineStatus, UnderWay
  <2>2. CASE joined
    <3>1. UnderWay(a)'
      BY <1>3, <2>2 DEF Fire, UnderWay
    <3> QED  BY <1>3, <2>1, <2>2, <3>1, QuietStep DEF Fire
  <2>3. CASE ~joined
    <3>1. {"alerts"} \in SUBSET Kinds /\ Unasked({"alerts"}) /\ UNCHANGED cache
      BY <1>0, <1>3, <2>3 DEF Fire
    <3>2. \A j \in Items : Kind(j) \notin {"alerts"} => View(j)' = View(j) /\ (UnderWay(j) => UnderWay(j)')
      BY <2>1, KindOf
    <3> QED  BY <1>0, <3>1, <3>2, UnaskedStep
  <2> QED  BY <2>2, <2>3
<1> QED  BY <1>1, <1>2, <1>3

LEMMA VisitCovers ==
  ASSUME Safe, Covered, Join \/ Drop \/ Leave \/ Reload \/ OpenBell
  PROVE  Covered'
<1>0. TypeOK /\ {"alerts"} \in SUBSET Kinds /\ pushed \subseteq Alerts
  BY DEF Safe, TypeOK, Kinds
<1>1. CASE Join \/ OpenBell
  BY <1>1, QuietStep DEF Join, OpenBell, View, DeadlineStatus, UnderWay, server
<1>2. ASSUME UNCHANGED <<db, day, op, cache>>, pushed' = {},
             IF pushed # {} THEN Unasked({"alerts"}) ELSE UNCHANGED <<query, excused>>
      PROVE  Covered'
  <2>1. \A j \in Items : View(j)' = View(j) /\ (j \notin pushed => (UnderWay(j) => UnderWay(j)'))
    BY <1>2 DEF View, DeadlineStatus, UnderWay
  <2>2. CASE pushed # {}
    <3>1. \A j \in Items : Kind(j) \notin {"alerts"} => j \notin pushed
      BY <1>0, KindOf
    <3> QED  BY <1>0, <1>2, <2>1, <2>2, <3>1, UnaskedStep
  <2>3. CASE pushed = {}
    BY <1>2, <2>1, <2>3, QuietStep
  <2> QED  BY <2>2, <2>3
<1>3. CASE Drop
  BY <1>2, <1>3 DEF Drop, server
<1>4. CASE Leave
  <2>1. CASE excused' = Kinds
    BY <2>1, KindsCover DEF Covered
  <2> QED  BY <1>2, <1>4, <2>1 DEF Leave, server
<1>5. CASE Reload
  BY <1>5, KindsCover DEF Reload, Covered, ShownRight
<1> QED  BY <1>1, <1>3, <1>4, <1>5

\* Once everything has been answered, every panel shows what the server holds,
\* but for what nobody told the tab.
THEOREM PanelsAreFresh == Spec => []FreshAtRest
<1>1. Init => Safe /\ Covered
  BY InitSafe, KindsCover DEF Init, Covered, ShownRight
<1>2. Safe /\ Covered /\ [Next]_vars => Safe' /\ Covered'
  <2> SUFFICES ASSUME Safe, Covered, [Next]_vars
               PROVE  Covered'
    BY SafeStep
  <2>1. CASE Next
    BY <2>1, NextByKind, QueryCovers, ClickCovers, HandleCovers, RequestCovers, WorldCovers, VisitCovers
  <2>2. CASE UNCHANGED vars
    BY <2>2, QuietStep DEF vars, View, DeadlineStatus, UnderWay, server
  <2> QED  BY <2>1, <2>2
<1>3. Covered => FreshAtRest
  BY FreshFromCovered
<1> QED  BY <1>1, <1>2, <1>3, PTL DEF Spec

(***************************************************************************)
(* What the bell was shown and no later opening lacked is in what it has   *)
(* seen, here and in the browser's storage.                                *)
(***************************************************************************)
Remembered == told \ dropped \subseteq seen \intersect stored

\* A notice shown once is not counted new again, across visits and reloads,
\* unless an opening in between did not list it.
THEOREM BellRemembers == Spec => []SeenStays
<1>1. Init => Remembered
  BY DEF Init, Remembered
<1>2. Remembered /\ [Next]_vars => Remembered'
  <2> SUFFICES ASSUME Remembered, [Next]_vars
               PROVE  Remembered'
    OBVIOUS
  <2>1. ASSUME UNCHANGED <<stored, told, dropped>>, seen' \in {seen, stored}
        PROVE  Remembered'
    BY <2>1 DEF Remembered
  <2>2. CASE OpenBell
    BY <2>2 DEF OpenBell, Remembered
  <2>3. CASE \E i \in Items : \E act \in Acts : Click(i, act)
    BY <2>1, <2>3 DEF Click, bells
  <2>4. CASE UNCHANGED vars
    BY <2>1, <2>4 DEF vars, bells
  <2>5. Clicks => \E i \in Items : \E act \in Acts : Click(i, act)
    BY OneKind, KindOf DEF Clicks, AddDeadline, AddAlert, AddObligation, Add, SetCompleted,
       RemoveDeadline, RemoveAlert, RemoveObligation, Acts, Kinds
  <2> QED
    BY <2>1, <2>2, <2>3, <2>4, <2>5, NextByKind
    DEF bells, Resolve, Answered, QueryFails, Retry, Return, Receive, Handle, ReadBack, Answer,
        RequestFails, Elsewhere, Midnight, Fire, Join, Drop, Leave, Reload
<1>3. Remembered => SeenStays
  BY DEF Remembered, SeenStays
<1> QED  BY <1>1, <1>2, <1>3, PTL DEF Spec
=============================================================================
