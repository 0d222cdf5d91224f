--------------------------- MODULE WarehouseProofs ---------------------------
(***************************************************************************)
(* Proofs about the daily run, for any students, collections, days, ages,  *)
(* lookback and number of retries.                                         *)
(*                                                                         *)
(* What is proved of a committed table, of the marts and of the rates does *)
(* not depend on the order of the copies; who may be missing does.         *)
(***************************************************************************)
EXTENDS Warehouse, TLAPS

Running(t) == task[t] = "running"

(***************************************************************************)
(* The invariant.                                                          *)
(***************************************************************************)
TableTypes ==
  /\ app \in [Collections -> [Students -> Nat]]
  /\ raw \in [Collections -> [Students -> Nat]]
  /\ marts \in [Marts -> [Students -> Nat]]
  /\ AllowedFields[at] \in Collections => incoming \in [Students -> Nat]
  /\ during \in [Collections -> [Students -> SUBSET Nat]]
  /\ now \in Nat

RateTypes ==
  /\ published \in [Days -> Nat] /\ changed \in [Days -> Nat]
  /\ loaded \in [Days -> Nat] /\ fetched \in [Days -> Nat]
  /\ loadedOn \in Nat /\ good \in SUBSET Nat

\* Tasks only run within a run, and a run is of today.
RunShape ==
  /\ today \in Nat \ {0} /\ runDay \in Nat /\ runDay <= today
  /\ phase \in {"idle", "loads", "build"}
  /\ phase # "idle" => runDay = today
  /\ task \in [Loads -> {"ready", "running", "done", "failed"}]
  /\ phase # "loads" => \A t \in Loads : ~Running(t)

\* What an attempt has read was there since it began.
AttemptSees ==
  Running("app") =>
    /\ \A c \in Collections, s \in Students : app[c][s] \in during[c][s]
    /\ AllowedFields[at] \in Collections => \A s \in Students :
         /\ wrong => incoming[s] = 0
         /\ ~wrong /\ s \notin unread => incoming[s] \in during[AllowedFields[at]][s]

\* No student is ever deleted, so none is lost by copying the users.
UsersStay ==
  /\ \A s \in Students : raw["users"][s] # 0 => app["users"][s] # 0
  /\ Running("app") /\ ~wrong /\ AllowedFields[at] = "users" =>
       \A s \in Students :
         /\ incoming[s] # 0 => app["users"][s] # 0
         /\ s \notin unread /\ raw["users"][s] # 0 => incoming[s] # 0

\* A row in a mart has its student in the application for good, so no copy of
\* the users that began later misses that student.
MartsAreOwned ==
  \A m \in Marts, s \in Students :
    marts[m][s] # 0 =>
      /\ app["users"][s] # 0 /\ 0 \notin during["users"][s]
      /\ "users" \in Upstream[m] => raw["users"][s] # 0

\* A rate in hand is the source's, unless it was published today.
RatesInHand ==
  /\ \A d \in Days : changed[d] <= today /\ (changed[d] # 0 => published[d] # 0)
  /\ \A r \in good : r <= today
  /\ Running("fx") => \A d \in Days :
       /\ fetched[d] # 0 => d \in Window(runDay) /\ published[d] # 0
       /\ d \in Window(runDay) => changed[d] = today \/ fetched[d] = published[d]
  /\ loadedOn # 0 => \E d \in Days : published[d] # 0 /\ loadedOn <= d + Lookback

\* The collections the attempt at hand has committed.
UsersCopied == task["app"] = "done" \/ (Running("app") /\ at # 1)
IsCopied(c) ==
  \/ task["app"] = "done"
  \/ Running("app") /\ \E i \in Places : i < at /\ AllowedFields[i] = c

\* An attempt more than the retries is the last.
CopyShape ==
  /\ at \in Places /\ unread \subseteq Students /\ (wrong => faulty)
  /\ stamp \in Nat /\ stamp <= now
  /\ tries \in [Loads -> Nat]
  /\ \A t \in Loads : /\ tries[t] <= Retries + 1
                      /\ task[t] \in {"ready", "running"} => tries[t] <= Retries

\* Every version and every publication was paid for.
Counted ==
  /\ budget \in Nat /\ now + budget <= MaxEvents + 1
  /\ \A d \in Days : /\ published[d] + budget <= MaxEvents + 1
                     /\ loaded[d] <= MaxEvents + 1 /\ fetched[d] <= MaxEvents + 1
  /\ \A s \in Students : /\ incoming[s] <= now
                         /\ \A c \in Collections : app[c][s] <= now /\ raw[c][s] <= now
                         /\ \A m \in Marts : marts[m][s] <= now

\* What this attempt has committed it has seen.  From a wrong database it could
\* only commit users to a warehouse without any, which is not fresh.
CopiesAreSeen ==
  /\ UsersCopied /\ wrong => ~HasRows(raw["users"])
  /\ ~wrong => \A c \in Collections : IsCopied(c) =>
       \A s \in Students : raw[c][s] \in during[c][s]
  /\ phase = "build" => task["app"] = "done" /\ ~wrong

\* A document has its student in the application.  Students without a row
\* among the copied users came after the attempt began.
Newcomer(s) == app["users"][s] # 0 => app["users"][s] > stamp

OwnersAreKnown ==
  /\ \A s \in Students :
       /\ \A c \in Collections : app[c][s] # 0 \/ raw[c][s] # 0 => app["users"][s] # 0
       /\ Running("app") /\ incoming[s] # 0 => app["users"][s] # 0
  /\ ~wrong /\ UsersCopied => \A s \in Students : raw["users"][s] = 0 => Newcomer(s)
  /\ ~wrong /\ Running("app") /\ at = 1 =>
       \A s \in Students \ unread : incoming[s] = 0 => Newcomer(s)

CopyInv == CopyShape /\ Counted /\ CopiesAreSeen /\ OwnersAreKnown /\ FailsOnlyWhenEmptied
TableInv == TableTypes /\ AttemptSees /\ UsersStay /\ MartsAreOwned
RateInv == RateTypes /\ RatesInHand /\ RatesAreCurrent
WarehouseInv == RunShape /\ TableInv /\ RateInv /\ CopyInv

(***************************************************************************)
(* The order of the copies.                                                *)
(***************************************************************************)
LEMMA PlacesAreDistinct ==
  /\ 1 \in Places /\ AllowedFields[1] = "users"
  /\ \A i \in Places : i \in 1 .. 5 /\ AllowedFields[i] \in Collections
  /\ \A i, j \in Places : AllowedFields[i] = AllowedFields[j] => i = j
  /\ \A c \in Collections : \E i \in Places : AllowedFields[i] = c
<1>1. Places \subseteq 1 .. 5
  BY DEF Places, AllowedFields
<1> QED
  BY <1>1, HasUsers, NamedInAllowlist DEF Places, AllowedFields

\* The next place leaves none out, and after the last there is none.
LEMMA FollowingIsNext ==
  ASSUME NEW i \in Places
  PROVE  /\ \A j \in Following(i) : j \in Places /\ i < j /\ \A k \in Places : k < j => k <= i
         /\ Following(i) = {} => \A k \in Places : k <= i
<1>1. \A k \in Places : k \in 1 .. 5
  BY PlacesAreDistinct
<1>2. \A j \in Following(i) : j \in Places /\ i < j /\ \A k \in Places : k < j => k <= i
  BY <1>1 DEF Following
<1>3. ASSUME Following(i) = {}, NEW k \in Places, i < k PROVE FALSE
  <2> DEFINE After(j) == j \in Places /\ i < j
  <2>1. \A j \in 1 .. 5 : After(j) => \E m \in 1 .. 5 : After(m) /\ m < j
    <3>1. ASSUME NEW j \in 1 .. 5, After(j) PROVE \E m \in 1 .. 5 : After(m) /\ m < j
      <4>1. PICK m \in Places : i < m /\ ~(j <= m)
        BY <1>3, <3>1 DEF Following
      <4> QED  BY <1>1, <3>1, <4>1
    <3> QED  BY <3>1
  <2>2. After(k) /\ k \in 1 .. 5
    BY <1>1, <1>3
  <2> HIDE DEF After
  <2>3. ~After(1)
    BY <2>1
  <2>4. ~After(2)
    BY <2>1, <2>3
  <2>5. ~After(3)
    BY <2>1, <2>3, <2>4
  <2>6. ~After(4)
    BY <2>1, <2>3, <2>4, <2>5
  <2> QED  BY <2>1, <2>2, <2>3, <2>4, <2>5, <2>6
<1> QED
  BY <1>1, <1>2, <1>3

\* A row of a mart is a row of a table, and of one with an owner where the users
\* are joined.
LEMMA RowsAreCopied ==
  ASSUME TableTypes, NEW m \in Marts
  PROVE  /\ Table[m] \in Collections /\ Rows(m) \in [Students -> Nat]
         /\ \A s \in Students :
              /\ Rows(m)[s] \in {0, raw[Table[m]][s]}
              /\ "users" \in Upstream[m] /\ Rows(m)[s] # 0 => raw["users"][s] # 0
<1>1. Table[m] \in Collections
  BY DEF Marts, Upstream, Table
<1>2. raw[Table[m]] \in [Students -> Nat]
  BY <1>1 DEF TableTypes
<1>3. \A s \in Students : Rows(m)[s] = IF "users" \in Upstream[m] /\ raw["users"][s] = 0 THEN 0
                                       ELSE raw[Table[m]][s]
  BY DEF Rows
<1>4. Rows(m) \in [Students -> Nat]
  <2> DEFINE row(s) == IF "users" \in Upstream[m] /\ raw["users"][s] = 0 THEN 0
                       ELSE raw[Table[m]][s]
  <2>1. \A s \in Students : row(s) \in Nat
    BY <1>2
  <2>2. Rows(m) = [s \in Students |-> row(s)]
    BY DEF Rows
  <2> HIDE DEF row
  <2> QED  BY <2>1, <2>2
<1> QED
  BY <1>1, <1>3, <1>4

LEMMA BuildSets ==
  ASSUME TableTypes, Build, NEW m \in Marts
  PROVE  /\ marts' \in [Marts -> [Students -> Nat]]
         /\ marts'[m] \in {marts[m], Rows(m)}
         /\ UNCHANGED <<app, raw, now>> /\ during' = [c \in Collections |-> [s \in Students |-> {}]]
<1> PICK late \in SUBSET Students :
      marts' = [k \in Marts |-> IF TestsPass(k, late) THEN Rows(k) ELSE marts[k]]
  BY DEF Build
<1>1. ASSUME NEW k \in Marts PROVE marts'[k] \in {marts[k], Rows(k)}
  OBVIOUS
<1>2. \A k \in Marts : marts'[k] \in [Students -> Nat]
  BY <1>1, RowsAreCopied DEF TableTypes
<1>3. marts' = [k \in Marts |-> marts'[k]]
  OBVIOUS
<1>4. marts' \in [Marts -> [Students -> Nat]]
  BY <1>2, <1>3
<1> QED
  BY <1>1, <1>4 DEF Build, Forget

(***************************************************************************)
(* The first state.                                                        *)
(***************************************************************************)
LEMMA WarehouseInitially == Init => WarehouseInv
<1> SUFFICES ASSUME Init PROVE WarehouseInv
  OBVIOUS
<1>1. RunShape
  BY DEF Init, RunShape, Running, Loads
<1>2. TableTypes
  <2>1. app \in [Collections -> [Students -> Nat]]
    BY DEF Init
  <2> QED
    BY <2>1 DEF Init, TableTypes, NoDocuments
<1>3. AttemptSees /\ UsersStay /\ MartsAreOwned
  BY HasUsers DEF Init, AttemptSees, UsersStay, MartsAreOwned, Running, Loads, NoDocuments
<1>4. RateTypes
  BY Numbers DEF Init, RateTypes, NoRates, Days
<1>5. RatesInHand
  BY Numbers DEF Init, RatesInHand, NoRates, Days, Running, Loads
<1>6. RatesAreCurrent
  BY DEF Init, RatesAreCurrent, LateRatesArrive, StallIsNoticed
<1>7. CopyShape
  BY Numbers, PlacesAreDistinct DEF Init, CopyShape, Loads
<1>8. Counted
  <2>1. /\ now = 1 /\ budget = MaxEvents /\ \A s \in Students : incoming[s] = 0
        /\ \A d \in Days : published[d] \in {0, 1} /\ loaded[d] = 0 /\ fetched[d] = 0
        /\ \A c \in Collections, s \in Students : app[c][s] \in {0, 1} /\ raw[c][s] = 0
        /\ \A m \in Marts, s \in Students : marts[m][s] = 0
    BY DEF Init, NoRates, NoDocuments
  <2> QED  BY <2>1, Numbers DEF Counted
<1>9. CopiesAreSeen /\ OwnersAreKnown /\ FailsOnlyWhenEmptied
  BY DEF Init, CopiesAreSeen, OwnersAreKnown, FailsOnlyWhenEmptied, UsersCopied, IsCopied, Running,
         Loads, NoDocuments, Owned
<1> QED
  BY <1>1, <1>2, <1>3, <1>4, <1>5, <1>6, <1>7, <1>8, <1>9
     DEF WarehouseInv, TableInv, RateInv, CopyInv

(***************************************************************************)
(* The steps, by what they write.                                          *)
(***************************************************************************)
\* The application writes; each write is of a collection and has a version.
AppWrites ==
  \E c \in Collections, s \in Students, version \in Nat :
    /\ Write(c, s, version)
    /\ version \in {0, now + 1}
    /\ c = "users" => version # 0
    /\ c # "users" /\ version # 0 => app["users"][s] # 0

\* Steps of the copy, which leave the rates alone.
Copies == phase = "loads" /\ (StartApp \/ (\E s \in Students : Read(s)) \/ Commit \/ Refuse)
Outages == phase = "loads" /\ \E t \in Loads : Outage(t)

LEMMA StepsByKind ==
  ASSUME TableTypes, Next
  PROVE  \/ AppWrites \/ (\E d \in Days : Publish(d))
         \/ Outages \/ NextDay \/ RunStarts
         \/ Copies \/ (phase = "loads" /\ FetchRates) \/ (phase = "loads" /\ LoadRates)
         \/ RunFails \/ Freshness \/ Build
<1>1. ASSUME NEW s \in Students, SignUp(s) PROVE AppWrites
  <2>1. now + 1 \in Nat /\ now + 1 # 0
    BY DEF TableTypes
  <2> QED  BY <1>1, <2>1, HasUsers DEF SignUp, AppWrites
<1>2. ASSUME NEW s \in Students, NEW c \in Owned, Save(c, s) PROVE AppWrites
  <2>1. now + 1 \in Nat /\ now + 1 # 0 /\ c \in Collections /\ c # "users"
    BY DEF TableTypes, Owned
  <2> QED  BY <1>2, <2>1 DEF Save, AppWrites
<1>3. ASSUME NEW s \in Students, NEW c \in Owned, Delete(c, s) PROVE AppWrites
  <2>1. 0 \in Nat /\ c \in Collections /\ c # "users"
    BY DEF Owned
  <2> QED  BY <1>3, <2>1 DEF Delete, AppWrites
<1>4. CASE Environment
  BY <1>1, <1>2, <1>3, <1>4 DEF Environment, Outages
<1>5. CASE RunStep
  BY <1>5 DEF RunStep, Copies
<1> QED
  BY <1>4, <1>5 DEF Next

(***************************************************************************)
(* The run.                                                                *)
(***************************************************************************)
LEMMA RunShapeStep ==
  ASSUME TableTypes, RunShape, Next PROVE RunShape'
<1>1. CASE AppWrites
  BY <1>1 DEF AppWrites, Write, RunShape, Running, dag
<1>2. ASSUME NEW d \in Days, Publish(d) PROVE RunShape'
  BY <1>2 DEF Publish, RunShape, Running, dag
<1>3. CASE Outages
  BY <1>3 DEF Outages, Outage, AttemptFails, RunShape, Running
<1>4. CASE NextDay
  BY <1>4 DEF NextDay, RunShape, Running, dag
<1>5. CASE RunStarts
  BY <1>5 DEF RunStarts, RunShape, Running
<1>6. CASE Copies
  <2>1. CASE StartApp
    BY <1>6, <2>1 DEF Copies, StartApp, RunShape, Running, Loads
  <2>2. ASSUME NEW s \in Students, Read(s) PROVE RunShape'
    BY <1>6, <2>2 DEF Copies, Read, RunShape, Running, dag
  <2>3. CASE Commit
    BY <1>6, <2>3 DEF Copies, Commit, RunShape, Running, Loads
  <2>4. CASE Refuse
    BY <1>6, <2>4 DEF Copies, Refuse, AttemptFails, RunShape, Running, Loads
  <2> QED
    BY <1>6, <2>1, <2>2, <2>3, <2>4 DEF Copies
<1>7. CASE phase = "loads" /\ FetchRates
  BY <1>7 DEF FetchRates, RunShape, Running, Loads
<1>8. CASE phase = "loads" /\ LoadRates
  BY <1>8 DEF LoadRates, RunShape, Running, Loads
<1>9. CASE RunFails
  BY <1>9 DEF RunFails, Forget, RunShape, Running, Loads
<1>10. CASE Freshness
  BY <1>10 DEF Freshness, LoadsEnded, BothDone, RunShape, Running
<1>11. CASE Build
  BY <1>11 DEF Build, Forget, RunShape, Running, Loads
<1> QED
  BY <1>1, <1>2, <1>3, <1>4, <1>5, <1>6, <1>7, <1>8, <1>9, <1>10, <1>11, StepsByKind

(***************************************************************************)
(* The tables.                                                             *)
(***************************************************************************)
LEMMA TableTypesStep ==
  ASSUME TableTypes, Next PROVE TableTypes'
<1>1. CASE AppWrites
  <2> PICK c \in Collections, s \in Students, version \in Nat : Write(c, s, version)
    BY <1>1 DEF AppWrites
  <2>1. app' \in [Collections -> [Students -> Nat]]
    BY DEF Write, TableTypes
  <2>2. during' \in [Collections -> [Students -> SUBSET Nat]]
    BY DEF Write, TableTypes
  <2>3. UNCHANGED <<raw, marts, incoming, at>> /\ now' \in Nat
    BY DEF Write, TableTypes, copying, warehouse
  <2> QED  BY <2>1, <2>2, <2>3 DEF TableTypes
<1>2. ASSUME NEW d \in Days, Publish(d) PROVE TableTypes'
  BY <1>2 DEF Publish, TableTypes, source, copying, warehouse
<1>3. CASE Outages
  BY <1>3 DEF Outages, Outage, TableTypes, source, copying, warehouse
<1>4. CASE NextDay
  BY <1>4 DEF NextDay, TableTypes, source, copying, warehouse
<1>5. CASE RunStarts
  BY <1>5 DEF RunStarts, TableTypes, source, copying, warehouse
<1>6. CASE Copies
  <2>1. CASE StartApp
    BY <2>1 DEF StartApp, Open, NoDocuments, TableTypes, warehouse
  <2>2. ASSUME NEW s \in Students, Read(s) PROVE TableTypes'
    <3>1. UNCHANGED <<app, raw, marts, during, now>>
      BY <2>2 DEF Read, source, warehouse
    <3>2. ASSUME AllowedFields[at] \in Collections PROVE incoming' \in [Students -> Nat]
      <4>1. app[AllowedFields[at]][s] \in Nat /\ incoming \in [Students -> Nat]
        BY <3>2 DEF TableTypes
      <4> DEFINE new == IF wrong THEN 0 ELSE app[AllowedFields[at]][s]
      <4>2. new \in Nat
        BY <4>1
      <4>3. incoming' = [incoming EXCEPT ![s] = new]
        BY <2>2 DEF Read
      <4> HIDE DEF new
      <4> QED  BY <4>1, <4>2, <4>3
    <3>3. at' = at
      BY <2>2 DEF Read
    <3> QED  BY <3>1, <3>2, <3>3 DEF TableTypes
  <2>3. CASE Commit
    <3>1. raw' \in [Collections -> [Students -> Nat]]
      BY <2>3 DEF Commit, TableTypes
    <3>2. (AllowedFields[at] \in Collections => incoming \in [Students -> Nat])'
      BY <2>3 DEF Commit, Open, NoDocuments, TableTypes
    <3> QED  BY <2>3, <3>1, <3>2 DEF Commit, TableTypes, source
  <2>4. CASE Refuse
    BY <2>4 DEF Refuse, TableTypes, source, copying, warehouse
  <2> QED
    BY <1>6, <2>1, <2>2, <2>3, <2>4 DEF Copies
<1>7. CASE FetchRates
  BY <1>7 DEF FetchRates, TableTypes, source, copying, warehouse
<1>8. CASE LoadRates
  BY <1>8 DEF LoadRates, TableTypes, source, copying
<1>9. CASE RunFails
  BY <1>9 DEF RunFails, Forget, NoDocuments, TableTypes, warehouse
<1>10. CASE Freshness
  BY <1>10 DEF Freshness, TableTypes, source, copying, warehouse
<1>11. CASE Build
  <2>1. marts' \in [Marts -> [Students -> Nat]]
    <3>1. CASE Marts = {}
      BY <1>11, <3>1 DEF Build
    <3> QED  BY <1>11, <3>1, BuildSets
  <2> QED  BY <1>11, <2>1 DEF Build, Forget, NoDocuments, TableTypes
<1> QED
  BY <1>1, <1>2, <1>3, <1>4, <1>5, <1>6, <1>7, <1>8, <1>9, <1>10, <1>11, StepsByKind

\* A read adds what the document is now, which `during' has.
LEMMA ReadSees ==
  ASSUME TableTypes, RunShape, AttemptSees, NEW s \in Students, Read(s),
         AllowedFields[at] \in Collections, NEW r \in Students
  PROVE  /\ wrong => incoming'[r] = 0
         /\ ~wrong /\ r \notin unread' => incoming'[r] \in during[AllowedFields[at]][r]
<1>1. Running("app") /\ incoming \in [Students -> Nat] /\ unread' = unread \ {s}
  BY DEF Read, Running, TableTypes
<1>2. /\ wrong => incoming[r] = 0
      /\ ~wrong /\ r \notin unread => incoming[r] \in during[AllowedFields[at]][r]
      /\ app[AllowedFields[at]][s] \in during[AllowedFields[at]][s]
  BY <1>1 DEF AttemptSees
<1>3. r # s => incoming'[r] = incoming[r]
  BY <1>1 DEF Read
<1>4. wrong => incoming'[s] = 0
  BY <1>1 DEF Read
<1>5. ~wrong => incoming'[s] = app[AllowedFields[at]][s]
  BY <1>1 DEF Read
<1> QED
  BY <1>1, <1>2, <1>3, <1>4, <1>5

LEMMA AttemptSeesStep ==
  ASSUME TableTypes, RunShape, AttemptSees, Next PROVE AttemptSees'
<1>1. CASE AppWrites
  <2> PICK c \in Collections, s \in Students, version \in Nat : Write(c, s, version)
    BY <1>1 DEF AppWrites
  <2>1. UNCHANGED <<at, unread, incoming, wrong, task>>
    BY DEF Write, copying, dag
  <2>2. ASSUME Running("app")
        PROVE  /\ \A k \in Collections, r \in Students : app'[k][r] \in during'[k][r]
               /\ \A k \in Collections, r \in Students : during[k][r] \subseteq during'[k][r]
    <3>1. phase # "idle"
      BY <2>2 DEF RunShape, Loads
    <3>2. during' = [during EXCEPT ![c][s] = @ \union {version}]
      BY <3>1 DEF Write
    <3>3. app' = [app EXCEPT ![c][s] = version]
      BY DEF Write
    <3>4. \A k \in Collections, r \in Students : app[k][r] \in during[k][r]
      BY <2>2 DEF AttemptSees
    <3> QED  BY <3>2, <3>3, <3>4 DEF TableTypes
  <2> QED  BY <2>1, <2>2 DEF AttemptSees, Running
<1>2. ASSUME NEW d \in Days, Publish(d) PROVE AttemptSees'
  BY <1>2 DEF Publish, AttemptSees, Running, source, copying, dag
<1>3. CASE Outages
  <2>1. UNCHANGED <<source, copying>> /\ (task'["app"] = "running" => task["app"] = "running")
    BY <1>3 DEF Outages, Outage, AttemptFails, RunShape, Loads
  <2> QED  BY <2>1 DEF AttemptSees, Running, source, copying
<1>4. CASE NextDay
  BY <1>4 DEF NextDay, AttemptSees, Running, source, copying, dag
<1>5. CASE RunStarts
  BY <1>5 DEF RunStarts, AttemptSees, Running, source, copying
<1>6. CASE Copies
  <2>1. CASE StartApp
    <3>1. /\ app' = app /\ unread' = Students /\ incoming' = [s \in Students |-> 0]
          /\ during' = [c \in Collections |-> [s \in Students |-> {app[c][s]}]]
      BY <2>1 DEF StartApp, Open, NoDocuments
    <3> QED  BY <3>1 DEF AttemptSees
  <2>2. ASSUME NEW s \in Students, Read(s) PROVE AttemptSees'
    <3>1. UNCHANGED <<app, during, wrong, at, task>> /\ Running("app")
      BY <2>2 DEF Read, source, dag, Running
    <3>2. AllowedFields[at] \in Collections => \A r \in Students :
            /\ wrong => incoming'[r] = 0
            /\ ~wrong /\ r \notin unread' => incoming'[r] \in during[AllowedFields[at]][r]
      BY <2>2, ReadSees
    <3> QED  BY <3>1, <3>2 DEF AttemptSees
  <2>3. CASE Commit
    <3>1. UNCHANGED <<app, during, wrong>> /\ Running("app")
      BY <2>3 DEF Commit, source, Running
    <3>2. CASE unread' = Students /\ incoming' = [s \in Students |-> 0]
      BY <3>1, <3>2 DEF AttemptSees
    <3>3. CASE UNCHANGED <<at, unread, incoming>>
      BY <3>1, <3>3 DEF AttemptSees
    <3> QED  BY <2>3, <3>2, <3>3 DEF Commit, Open, NoDocuments
  <2>4. CASE Refuse
    BY <2>4 DEF Refuse, AttemptFails, AttemptSees, Running, RunShape, Loads, source, copying
  <2> QED
    BY <1>6, <2>1, <2>2, <2>3, <2>4 DEF Copies
<1>7. CASE FetchRates
  BY <1>7 DEF FetchRates, AttemptSees, Running, RunShape, Loads, source, copying
<1>8. CASE LoadRates
  BY <1>8 DEF LoadRates, AttemptSees, Running, RunShape, Loads, source, copying
<1>9. CASE RunFails
  BY <1>9 DEF RunFails, Forget, AttemptSees, Running, Loads
<1>10. CASE Freshness
  BY <1>10 DEF Freshness, AttemptSees, Running, source, copying
<1>11. CASE Build
  BY <1>11 DEF Build, Forget, AttemptSees, Running, Loads
<1> QED
  BY <1>1, <1>2, <1>3, <1>4, <1>5, <1>6, <1>7, <1>8, <1>9, <1>10, <1>11, StepsByKind

\* A write of the users leaves each that is there.
LEMMA UsersStayStep ==
  ASSUME TableTypes, RunShape, AttemptSees, UsersStay, Next PROVE UsersStay'
<1>1. CASE AppWrites
  <2> PICK c \in Collections, s \in Students, version \in Nat :
        Write(c, s, version) /\ (c = "users" => version # 0)
    BY <1>1 DEF AppWrites
  <2>1. UNCHANGED <<at, unread, incoming, wrong, task, raw>>
    BY DEF Write, copying, dag, warehouse
  <2>2. app' = [app EXCEPT ![c][s] = version]
    BY DEF Write
  <2>3. \A r \in Students : app["users"][r] # 0 => app'["users"][r] # 0
    BY <2>2, HasUsers DEF TableTypes
  <2> QED  BY <2>1, <2>3 DEF UsersStay, Running
<1>2. ASSUME NEW d \in Days, Publish(d) PROVE UsersStay'
  BY <1>2 DEF Publish, UsersStay, Running, source, copying, dag, warehouse
<1>3. CASE Outages
  <2>1. UNCHANGED <<app, raw, copying>> /\ (task'["app"] = "running" => task["app"] = "running")
    BY <1>3 DEF Outages, Outage, AttemptFails, RunShape, Loads, source, warehouse
  <2> QED  BY <2>1 DEF UsersStay, Running, copying
<1>4. CASE NextDay
  BY <1>4 DEF NextDay, UsersStay, Running, source, copying, dag, warehouse
<1>5. CASE RunStarts
  BY <1>5 DEF RunStarts, UsersStay, Running, source, copying, warehouse
<1>6. CASE Copies
  <2>1. CASE StartApp
    <3>1. /\ UNCHANGED <<app, raw>> /\ unread' = Students
          /\ incoming' = [s \in Students |-> 0]
      BY <2>1 DEF StartApp, Open, NoDocuments, warehouse
    <3> QED  BY <3>1 DEF UsersStay
  <2>2. ASSUME NEW s \in Students, Read(s) PROVE UsersStay'
    <3>1. UNCHANGED <<app, raw, wrong, at, task>> /\ Running("app") /\ unread' = unread \ {s}
      BY <2>2 DEF Read, source, dag, warehouse, Running
    <3>2. ASSUME ~wrong, AllowedFields[at] = "users", NEW r \in Students
          PROVE  /\ incoming'[r] # 0 => app["users"][r] # 0
                 /\ r \notin unread' /\ raw["users"][r] # 0 => incoming'[r] # 0
      <4>1. incoming \in [Students -> Nat]
        BY <3>2, HasUsers DEF TableTypes
      <4>2. CASE r = s
        <5>1. incoming'[r] = app["users"][r]
          BY <2>2, <3>2, <4>1, <4>2 DEF Read
        <5> QED  BY <5>1 DEF UsersStay
      <4>3. CASE r # s
        <5>1. incoming'[r] = incoming[r]
          BY <2>2, <4>1, <4>3 DEF Read
        <5> QED  BY <3>1, <3>2, <4>3, <5>1 DEF UsersStay
      <4> QED  BY <4>2, <4>3
    <3> QED  BY <3>1, <3>2 DEF UsersStay
  <2>3. CASE Commit
    <3>1. UNCHANGED <<app, wrong>> /\ Running("app") /\ unread = {}
          /\ raw' = [raw EXCEPT ![AllowedFields[at]] = incoming] /\ ~Refused(AllowedFields[at])
      BY <2>3 DEF Commit, source, Running
    <3>2. \A s \in Students : raw'["users"][s] # 0 => app["users"][s] # 0
      <4>1. CASE AllowedFields[at] # "users"
        BY <3>1, <4>1 DEF TableTypes, UsersStay
      <4>2. CASE AllowedFields[at] = "users"
        <5>1. raw'["users"] = incoming
          BY <3>1, <4>2, HasUsers DEF TableTypes
        <5>2. CASE wrong
          BY <3>1, <4>2, <5>1, <5>2, HasUsers DEF AttemptSees
        <5>3. CASE ~wrong
          BY <3>1, <4>2, <5>1, <5>3 DEF UsersStay
        <5> QED  BY <5>2, <5>3
      <4> QED  BY <4>1, <4>2
    <3>3. CASE unread' = Students /\ incoming' = [s \in Students |-> 0]
      BY <3>1, <3>2, <3>3 DEF UsersStay
    <3>4. CASE UNCHANGED <<at, unread, incoming>> /\ task' = [task EXCEPT !["app"] = "done"]
      BY <3>1, <3>2, <3>4 DEF UsersStay, RunShape, Running, Loads
    <3> QED  BY <2>3, <3>3, <3>4 DEF Commit, Open, NoDocuments
  <2>4. CASE Refuse
    BY <2>4 DEF Refuse, AttemptFails, UsersStay, Running, RunShape, Loads, source, copying, warehouse
  <2> QED
    BY <1>6, <2>1, <2>2, <2>3, <2>4 DEF Copies
<1>7. CASE FetchRates
  BY <1>7 DEF FetchRates, UsersStay, Running, RunShape, Loads, source, copying, warehouse
<1>8. CASE LoadRates
  BY <1>8 DEF LoadRates, UsersStay, Running, RunShape, Loads, source, copying
<1>9. CASE RunFails
  BY <1>9 DEF RunFails, Forget, UsersStay, Running, Loads, warehouse
<1>10. CASE Freshness
  BY <1>10 DEF Freshness, UsersStay, Running, source, copying, warehouse
<1>11. CASE Build
  BY <1>11 DEF Build, Forget, UsersStay, Running, Loads
<1> QED
  BY <1>1, <1>2, <1>3, <1>4, <1>5, <1>6, <1>7, <1>8, <1>9, <1>10, <1>11, StepsByKind

\* A copy of the users never loses one, whatever database answers.
LEMMA CommitKeepsUsers ==
  ASSUME TableTypes, AttemptSees, UsersStay, Commit,
         NEW s \in Students, raw["users"][s] # 0
  PROVE  raw'["users"][s] # 0
<1>1. Running("app") /\ unread = {} /\ ~Refused(AllowedFields[at])
      /\ raw' = [raw EXCEPT ![AllowedFields[at]] = incoming]
  BY DEF Commit, Running
<1>2. CASE AllowedFields[at] # "users"
  BY <1>1, <1>2 DEF TableTypes
<1>3. CASE AllowedFields[at] = "users"
  <2>1. raw'["users"] = incoming
    BY <1>1, <1>3, HasUsers DEF TableTypes
  <2>2. CASE wrong
    <3>1. \A r \in Students : incoming[r] = 0
      BY <1>1, <1>3, <2>2, HasUsers DEF AttemptSees
    <3>2. Refused("users")
      BY <3>1 DEF Refused, HasRows
    <3> QED  BY <1>1, <1>3, <3>2
  <2>3. CASE ~wrong
    BY <1>1, <1>3, <2>1, <2>3 DEF UsersStay
  <2> QED  BY <2>2, <2>3
<1> QED
  BY <1>2, <1>3

LEMMA MartsStep ==
  ASSUME TableTypes, AttemptSees, UsersStay, OwnersAreKnown, MartsAreOwned, Next
  PROVE  MartsAreOwned'
<1>1. CASE AppWrites
  <2> PICK c \in Collections, s \in Students, version \in Nat :
        Write(c, s, version) /\ (c = "users" => version # 0)
    BY <1>1 DEF AppWrites
  <2>1. UNCHANGED <<raw, marts>>
        /\ app' = [app EXCEPT ![c][s] = version]
        /\ during' \in {during, [during EXCEPT ![c][s] = @ \union {version}]}
    BY DEF Write, warehouse
  <2>2. ASSUME NEW r \in Students, app["users"][r] # 0, 0 \notin during["users"][r]
        PROVE  app'["users"][r] # 0 /\ 0 \notin during'["users"][r]
    BY <2>1, <2>2, HasUsers DEF TableTypes
  <2> QED  BY <2>1, <2>2 DEF MartsAreOwned
<1>2. CASE StartApp
  <2>1. UNCHANGED <<app, raw, marts>>
        /\ during' = [c \in Collections |-> [s \in Students |-> {app[c][s]}]]
    BY <1>2 DEF StartApp, warehouse
  <2> QED  BY <2>1, HasUsers DEF MartsAreOwned
<1>3. CASE Commit
  <2>1. UNCHANGED <<app, during, marts>>
    BY <1>3 DEF Commit, source
  <2> QED  BY <1>3, <2>1, CommitKeepsUsers DEF MartsAreOwned
<1>4. CASE RunFails
  <2>1. UNCHANGED <<app, raw, marts>> /\ during' = [c \in Collections |-> [s \in Students |-> {}]]
    BY <1>4 DEF RunFails, Forget, warehouse
  <2> QED  BY <2>1, HasUsers DEF MartsAreOwned
<1>5. CASE Build
  <2> SUFFICES ASSUME NEW m \in Marts, NEW s \in Students, marts'[m][s] # 0
               PROVE  /\ app'["users"][s] # 0 /\ 0 \notin during'["users"][s]
                      /\ "users" \in Upstream[m] => raw'["users"][s] # 0
    BY DEF MartsAreOwned
  <2>1. /\ marts'[m] \in {marts[m], Rows(m)} /\ UNCHANGED <<app, raw>>
        /\ 0 \notin during'["users"][s]
    BY <1>5, BuildSets, HasUsers
  <2>2. CASE marts'[m] = marts[m]
    BY <2>1, <2>2 DEF MartsAreOwned
  <2>3. CASE marts'[m] = Rows(m)
    <3>1. Table[m] \in Collections /\ raw[Table[m]][s] # 0
          /\ ("users" \in Upstream[m] => raw["users"][s] # 0)
      BY <2>3, RowsAreCopied
    <3>2. app["users"][s] # 0
      BY <3>1 DEF OwnersAreKnown
    <3> QED  BY <2>1, <3>1, <3>2
  <2> QED  BY <2>1, <2>2, <2>3
<1>6. CASE UNCHANGED <<app, during, raw, marts>>
  BY <1>6 DEF MartsAreOwned
<1>7. AppWrites \/ StartApp \/ Commit \/ RunFails \/ Build \/ UNCHANGED <<app, during, raw, marts>>
  BY StepsByKind DEF Publish, Outages, Outage, NextDay, RunStarts, Copies,
     Read, Refuse, FetchRates, LoadRates, Freshness, source, warehouse
<1> QED
  BY <1>1, <1>2, <1>3, <1>4, <1>5, <1>6, <1>7

(***************************************************************************)
(* The attempt to copy the collections.                                    *)
(***************************************************************************)
\* Steps that have nothing to do with the copy.
Aside ==
  /\ UNCHANGED <<source, copying, raw, tries, faulty>>
  /\ task'["app"] = task["app"]
  /\ \A t \in Loads : task'[t] \in {"ready", "running"} => task[t] \in {"ready", "running"}
  /\ phase' = "build" => phase = "build" \/ Freshness

LEMMA CopySteps ==
  ASSUME TableTypes, RunShape, Next
  PROVE  AppWrites \/ Aside \/ Outages \/ Copies \/ RunFails \/ Build
<1>1. ASSUME NEW d \in Days, Publish(d) PROVE Aside
  BY <1>1 DEF Publish, Aside, dag, warehouse
<1>2. ASSUME NextDay PROVE Aside
  BY <1>2 DEF NextDay, Aside, dag, warehouse
<1>3. ASSUME RunStarts PROVE Aside
  BY <1>3 DEF RunStarts, Aside, warehouse
<1>4. ASSUME phase = "loads", FetchRates PROVE Aside
  BY <1>4 DEF FetchRates, Aside, warehouse, RunShape, Loads
<1>5. ASSUME phase = "loads", LoadRates PROVE Aside
  BY <1>5 DEF LoadRates, Aside, RunShape, Loads
<1>6. ASSUME Freshness PROVE Aside
  BY <1>6 DEF Freshness, Aside, warehouse
<1> QED
  BY <1>1, <1>2, <1>3, <1>4, <1>5, <1>6, StepsByKind

LEMMA WriteSets ==
  ASSUME TableTypes, NEW c \in Collections, NEW s \in Students, NEW version \in Nat,
         Write(c, s, version)
  PROVE  /\ \A k \in Collections, r \in Students :
              /\ app'[k][r] = IF k = c /\ r = s THEN version ELSE app[k][r]
              /\ during[k][r] \subseteq during'[k][r]
         /\ UNCHANGED <<copying, task, tries, phase, raw, marts, faulty, published, loaded, fetched>>
         /\ now' = now + 1 /\ budget' = budget - 1 /\ budget > 0
<1>1. \A k \in Collections, r \in Students :
        app'[k][r] = IF k = c /\ r = s THEN version ELSE app[k][r]
  BY DEF Write, TableTypes
<1>2. \A k \in Collections, r \in Students : during[k][r] \subseteq during'[k][r]
  BY DEF Write, TableTypes
<1> QED
  BY <1>1, <1>2 DEF Write, Spend, rates, dag, warehouse

LEMMA ReadSets ==
  ASSUME TableTypes, CopyShape, NEW s \in Students, Read(s)
  PROVE  /\ \A r \in Students : incoming'[r] = IF r # s THEN incoming[r]
                                               ELSE IF wrong THEN 0 ELSE app[AllowedFields[at]][s]
         /\ unread' = unread \ {s} /\ Running("app")
         /\ UNCHANGED <<source, at, wrong, stamp, dag, warehouse, budget, faulty, rates, fetched>>
<1>1. incoming \in [Students -> Nat]
  BY PlacesAreDistinct DEF TableTypes, CopyShape
<1> QED
  BY <1>1 DEF Read, Running

LEMMA CommitSets ==
  ASSUME TableTypes, CopyShape, Commit
  PROVE  /\ \A c \in Collections : raw'[c] = IF c = AllowedFields[at] THEN incoming ELSE raw[c]
         /\ Running("app") /\ unread = {} /\ ~Refused(AllowedFields[at])
         /\ \/ /\ Running("app")' /\ task' = task /\ at' \in Following(at)
               /\ unread' = Students /\ incoming' = [s \in Students |-> 0]
            \/ /\ Following(at) = {} /\ UNCHANGED <<at, unread, incoming>>
               /\ task' = [task EXCEPT !["app"] = "done"]
         /\ UNCHANGED <<source, wrong, stamp, phase, tries, marts, budget, faulty, rates, loaded, fetched>>
<1>1. \A c \in Collections : raw'[c] = IF c = AllowedFields[at] THEN incoming ELSE raw[c]
  BY DEF Commit, TableTypes
<1>2. \/ /\ Running("app")' /\ task' = task /\ at' \in Following(at)
         /\ unread' = Students /\ incoming' = [s \in Students |-> 0]
      \/ /\ Following(at) = {} /\ UNCHANGED <<at, unread, incoming>>
         /\ task' = [task EXCEPT !["app"] = "done"]
  BY DEF Commit, Open, NoDocuments, Running
<1> QED
  BY <1>1, <1>2 DEF Commit, Running

LEMMA BoundsAreNatural == Retries \in Nat /\ MaxEvents \in Nat
BY Numbers

LEMMA FailuresAreCounted ==
  ASSUME RunShape, CopyShape, NEW t \in Loads, task[t] \in {"ready", "running"}, AttemptFails(t)
  PROVE  /\ tries' \in [Loads -> Nat]
         /\ \A u \in Loads : /\ tries'[u] <= Retries + 1
                             /\ task'[u] \in {"ready", "running"} => tries'[u] <= Retries
<1>1. /\ tries[t] \in Nat /\ tries[t] <= Retries /\ Retries \in Nat
      /\ tries \in [Loads -> Nat]
  BY BoundsAreNatural DEF CopyShape
<1>2. /\ tries' = [tries EXCEPT ![t] = tries[t] + 1]
      /\ task' = [task EXCEPT ![t] = IF tries[t] < Retries THEN "ready" ELSE "failed"]
  BY DEF AttemptFails
<1>3. tries' \in [Loads -> Nat]
  BY <1>1, <1>2
<1>4. ASSUME NEW u \in Loads
      PROVE  tries'[u] <= Retries + 1 /\ (task'[u] \in {"ready", "running"} => tries'[u] <= Retries)
  <2>1. CASE u = t
    <3>1. tries'[u] = tries[t] + 1
      BY <1>1, <1>2, <2>1
    <3>2. task'[u] = IF tries[t] < Retries THEN "ready" ELSE "failed"
      BY <1>2, <2>1 DEF RunShape
    <3>3. task'[u] \in {"ready", "running"} => tries[t] < Retries
      BY <3>2
    <3> QED  BY <1>1, <3>1, <3>3
  <2>2. CASE u # t
    BY <1>1, <1>2, <2>2 DEF CopyShape, RunShape
  <2> QED  BY <2>1, <2>2
<1> QED
  BY <1>3, <1>4

LEMMA CopyShapeStep ==
  ASSUME TableTypes, RunShape, CopyShape, Next PROVE CopyShape'
<1>1. CASE AppWrites
  <2> PICK c \in Collections, s \in Students, version \in Nat : Write(c, s, version)
    BY <1>1 DEF AppWrites
  <2> QED  BY WriteSets DEF CopyShape, copying, TableTypes
<1>2. CASE Aside
  BY <1>2 DEF Aside, CopyShape, source, copying
<1>3. CASE Outages
  <2> PICK t \in Loads : Outage(t)
    BY <1>3 DEF Outages
  <2>1. UNCHANGED <<source, copying>> /\ faulty' /\ task[t] \in {"ready", "running"} /\ AttemptFails(t)
    BY DEF Outage, Fault
  <2> QED  BY <2>1, FailuresAreCounted DEF CopyShape, source, copying
<1>4. CASE Copies
  <2>1. CASE StartApp
    <3>1. /\ at' = 1 /\ unread' = Students /\ stamp' = now /\ UNCHANGED <<now, tries>>
          /\ task["app"] = "ready" /\ task' = [task EXCEPT !["app"] = "running"]
          /\ wrong' => faulty'
      BY <2>1 DEF StartApp, Open, FirstCopied, Fault
    <3>2. \A t \in Loads : task'[t] \in {"ready", "running"} => task[t] \in {"ready", "running"}
      BY <3>1 DEF RunShape
    <3> QED  BY <3>1, <3>2, PlacesAreDistinct DEF CopyShape, TableTypes
  <2>2. ASSUME NEW s \in Students, Read(s) PROVE CopyShape'
    BY <2>2, ReadSets DEF CopyShape, source, dag
  <2>3. CASE Commit
    <3>1. at' \in Places /\ unread' \subseteq Students
      BY <2>3, CommitSets, FollowingIsNext DEF CopyShape
    <3>2. \A t \in Loads : task'[t] \in {"ready", "running"} => task[t] \in {"ready", "running"}
      BY <2>3, CommitSets DEF RunShape
    <3> QED  BY <2>3, <3>1, <3>2, CommitSets DEF CopyShape, source
  <2>4. CASE Refuse
    <3>1. UNCHANGED <<source, copying, faulty>> /\ task["app"] = "running" /\ AttemptFails("app")
      BY <2>4 DEF Refuse
    <3>2. "app" \in Loads
      BY DEF Loads
    <3> QED  BY <3>1, <3>2, FailuresAreCounted DEF CopyShape, source, copying
  <2> QED
    BY <1>4, <2>1, <2>2, <2>3, <2>4 DEF Copies
<1>5. CASE RunFails \/ Build
  <2>1. Forget /\ now' = now
    BY <1>5 DEF RunFails, Build
  <2> QED  BY <2>1, Numbers, PlacesAreDistinct DEF Forget, CopyShape, TableTypes
<1> QED
  BY <1>1, <1>2, <1>3, <1>4, <1>5, CopySteps

LEMMA CountedStep ==
  ASSUME TableTypes, RateTypes, RunShape, CopyShape, Counted, Next PROVE Counted'
<1> USE Numbers
<1>1. CASE AppWrites
  <2> PICK c \in Collections, s \in Students, version \in Nat :
        Write(c, s, version) /\ version \in {0, now + 1}
    BY <1>1 DEF AppWrites
  <2>1. incoming' = incoming
    BY WriteSets DEF copying
  <2>2. \A k \in Collections, r \in Students : app'[k][r] <= now' /\ raw'[k][r] <= now'
    <3> SUFFICES ASSUME NEW k \in Collections, NEW r \in Students
                 PROVE  app'[k][r] <= now' /\ raw'[k][r] <= now'
      OBVIOUS
    <3>1. /\ app'[k][r] \in {version, app[k][r]} /\ raw'[k][r] = raw[k][r]
          /\ now' = now + 1
      BY WriteSets
    <3>2. now \in Nat /\ app[k][r] \in Nat /\ raw[k][r] \in Nat
      BY DEF TableTypes
    <3>3. app[k][r] <= now /\ raw[k][r] <= now
      BY DEF Counted
    <3> QED  BY <3>1, <3>2, <3>3
  <2>3. \A r \in Students : incoming'[r] <= now' /\ \A k \in Marts : marts'[k][r] <= now'
    <3>1. incoming \in [Students -> Nat]
      BY PlacesAreDistinct DEF TableTypes, CopyShape
    <3>2. \A k \in Marts, r \in Students : marts[k][r] \in Nat /\ marts'[k][r] = marts[k][r]
      BY WriteSets DEF TableTypes
    <3>3. now' = now + 1 /\ now \in Nat
      BY WriteSets DEF TableTypes
    <3>4. \A r \in Students : incoming[r] \in Nat /\ incoming[r] <= now
      BY <3>1 DEF Counted
    <3>5. \A r \in Students, k \in Marts : marts[k][r] <= now
      BY DEF Counted
    <3> QED  BY <2>1, <3>2, <3>3, <3>4, <3>5
  <2>4. /\ now' + budget' = now + budget /\ budget' \in Nat /\ budget' <= budget /\ budget \in Nat
        /\ UNCHANGED <<published, loaded, fetched>>
    <3>1. /\ now' = now + 1 /\ budget' = budget - 1 /\ budget > 0
          /\ UNCHANGED <<published, loaded, fetched>>
      BY WriteSets
    <3>2. now \in Nat /\ budget \in Nat
      BY DEF Counted, TableTypes
    <3> QED  BY <3>1, <3>2
  <2>5. \A d \in Days : /\ published'[d] + budget' <= MaxEvents + 1
                        /\ loaded'[d] <= MaxEvents + 1 /\ fetched'[d] <= MaxEvents + 1
    BY <2>4, BoundsAreNatural DEF Counted, RateTypes
  <2> QED  BY <2>2, <2>3, <2>4, <2>5 DEF Counted
<1>2. ASSUME NEW d \in Days, Publish(d) PROVE Counted'
  <2>1. /\ published' = [published EXCEPT ![d] = @ + 1] /\ budget' = budget - 1 /\ budget > 0
        /\ UNCHANGED <<source, copying, warehouse, fetched>>
    BY <1>2 DEF Publish, Spend
  <2>2. \A e \in Days : published[e] \in Nat /\ published'[e] = IF e = d THEN published[e] + 1 ELSE published[e]
    BY <2>1 DEF RateTypes
  <2>3. \A e \in Days : published'[e] + budget' <= MaxEvents + 1
    BY <2>1, <2>2 DEF Counted
  <2> QED  BY <2>1, <2>3 DEF Counted, source, copying, warehouse, TableTypes
<1>3. CASE Outages
  <2>1. budget' = budget - 1 /\ budget > 0 /\ UNCHANGED <<source, copying, rates, warehouse, fetched>>
    BY <1>3 DEF Outages, Outage, Fault, Spend
  <2> QED  BY <2>1 DEF Counted, source, copying, rates, warehouse, TableTypes, RateTypes
<1>4. CASE NextDay \/ RunStarts \/ Freshness
  BY <1>4 DEF NextDay, RunStarts, Freshness, Counted, source, copying, rates, warehouse
<1>5. CASE Copies
  <2>1. CASE StartApp
    <3>1. /\ \A s \in Students : incoming'[s] = 0
          /\ UNCHANGED <<app, now, rates, warehouse, fetched>>
      BY <2>1 DEF StartApp, Open, NoDocuments
    <3>2. budget' \in Nat /\ budget' <= budget
      <4>1. budget' = budget \/ (budget > 0 /\ budget' = budget - 1)
        BY <2>1 DEF StartApp, Fault, Spend
      <4> QED  BY <4>1 DEF Counted
    <3> QED  BY <3>1, <3>2 DEF Counted, rates, warehouse, TableTypes, RateTypes
  <2>2. ASSUME NEW s \in Students, Read(s) PROVE Counted'
    <3>1. ASSUME NEW r \in Students PROVE incoming'[r] <= now
      <4>1. AllowedFields[at] \in Collections /\ now \in Nat
        BY PlacesAreDistinct DEF CopyShape, TableTypes
      <4>2. incoming[r] <= now /\ app[AllowedFields[at]][s] <= now /\ 0 <= now
        BY <4>1 DEF Counted
      <4>3. incoming'[r] \in {incoming[r], 0, app[AllowedFields[at]][s]}
        BY <2>2, ReadSets
      <4> QED  BY <4>2, <4>3
    <3> QED  BY <2>2, <3>1, ReadSets DEF Counted, source, warehouse, rates
  <2>3. CASE Commit
    <3>1. \A k \in Collections, r \in Students : raw'[k][r] <= now
      BY <2>3, CommitSets DEF Counted
    <3>2. \A r \in Students : incoming'[r] <= now
      BY <2>3, CommitSets DEF Counted, TableTypes
    <3> QED  BY <2>3, <3>1, <3>2, CommitSets DEF Counted, source, rates
  <2>4. CASE Refuse
    BY <2>4 DEF Refuse, Counted, source, copying, rates, warehouse
  <2> QED
    BY <1>5, <2>1, <2>2, <2>3, <2>4 DEF Copies
<1>6. CASE FetchRates
  <2>1. \A d \in Days : fetched'[d] <= MaxEvents + 1
    BY <1>6 DEF FetchRates, Counted, RateTypes
  <2> QED  BY <1>6, <2>1 DEF FetchRates, Counted, source, copying, rates, warehouse
<1>7. CASE LoadRates
  <2>1. \A d \in Days : loaded'[d] <= MaxEvents + 1 /\ fetched'[d] <= MaxEvents + 1
    BY <1>7 DEF LoadRates, Upsert, NoRates, Counted
  <2> QED  BY <1>7, <2>1 DEF LoadRates, Counted, source, copying, rates
<1>8. CASE RunFails \/ Build
  <2>1. Forget /\ UNCHANGED <<app, now, rates, raw, loaded, budget>>
    BY <1>8 DEF RunFails, Build, warehouse
  <2>2. \A m \in Marts, s \in Students : marts'[m][s] <= now
    <3>1. CASE RunFails
      BY <3>1 DEF RunFails, Counted, warehouse
    <3>2. CASE Build
      <4> SUFFICES ASSUME NEW m \in Marts, NEW s \in Students PROVE marts'[m][s] <= now
        OBVIOUS
      <4>1. Table[m] \in Collections /\ marts'[m][s] \in {marts[m][s], 0, raw[Table[m]][s]}
        BY <3>2, BuildSets, RowsAreCopied
      <4>2. now \in Nat /\ marts[m][s] <= now /\ raw[Table[m]][s] <= now
        BY <4>1 DEF Counted, TableTypes
      <4> QED  BY <4>1, <4>2
    <3> QED  BY <1>8, <3>1, <3>2
  <2> QED  BY <2>1, <2>2 DEF Forget, NoDocuments, NoRates, Counted, rates, TableTypes
<1> QED
  BY <1>1, <1>2, <1>3, <1>4, <1>5, <1>6, <1>7, <1>8, StepsByKind

\* What is committed is what the attempt has seen.
LEMMA CopiesAreSeenStep ==
  ASSUME TableTypes, RunShape, CopyShape, AttemptSees, CopiesAreSeen, Next PROVE CopiesAreSeen'
<1>1. CASE AppWrites
  <2> PICK c \in Collections, s \in Students, version \in Nat : Write(c, s, version)
    BY <1>1 DEF AppWrites
  <2>1. UNCHANGED <<at, wrong, task, raw, phase>>
        /\ \A k \in Collections, r \in Students : during[k][r] \subseteq during'[k][r]
    BY WriteSets DEF copying
  <2> QED  BY <2>1 DEF CopiesAreSeen, UsersCopied, IsCopied, Running, HasRows
<1>2. CASE Aside
  <2>1. UNCHANGED <<raw, at, wrong, during>> /\ task'["app"] = task["app"]
    BY <1>2 DEF Aside, source, copying
  <2>2. Freshness => task["app"] = "done" /\ ~wrong
    BY DEF Freshness, BothDone, Loads, Fresh, CopiesAreSeen, UsersCopied
  <2>3. phase' = "build" => task["app"] = "done" /\ ~wrong
    BY <1>2, <2>2 DEF Aside, CopiesAreSeen
  <2> QED  BY <2>1, <2>3 DEF CopiesAreSeen, UsersCopied, IsCopied, Running, HasRows
<1>3. CASE Outages
  <2>1. UNCHANGED <<raw, at, wrong, during>> /\ phase' # "build"
        /\ (task'["app"] = task["app"] \/ task'["app"] \in {"ready", "failed"})
    BY <1>3 DEF Outages, Outage, AttemptFails, RunShape, source, copying, warehouse
  <2> QED  BY <2>1 DEF CopiesAreSeen, UsersCopied, IsCopied, Running, HasRows
<1>4. CASE Copies
  <2>1. CASE StartApp
    <3>1. at' = 1 /\ task'["app"] = "running" /\ phase' # "build"
      BY <1>4, <2>1 DEF Copies, StartApp, Open, FirstCopied, RunShape, Loads
    <3>2. \A i \in Places : ~(i < 1)
      BY PlacesAreDistinct
    <3> QED  BY <3>1, <3>2 DEF CopiesAreSeen, UsersCopied, IsCopied, Running
  <2>2. ASSUME NEW s \in Students, Read(s) PROVE CopiesAreSeen'
    BY <2>2, ReadSets
       DEF CopiesAreSeen, UsersCopied, IsCopied, Running, HasRows, source, dag, warehouse
  <2>3. CASE Commit
    <3>1. /\ at \in Places /\ AllowedFields[at] \in Collections /\ Running("app") /\ unread = {}
          /\ UNCHANGED <<wrong, during>> /\ phase' # "build"
          /\ \A c \in Collections : raw'[c] = IF c = AllowedFields[at] THEN incoming ELSE raw[c]
      BY <1>4, <2>3, CommitSets, PlacesAreDistinct DEF CopyShape, Copies, source
    <3>2. ASSUME wrong PROVE ~HasRows(raw'["users"])
      <4>1. \A r \in Students : incoming[r] = 0
        BY <3>1, <3>2 DEF AttemptSees
      <4>2. CASE at = 1
        BY <3>1, <4>1, <4>2, PlacesAreDistinct, HasUsers DEF HasRows
      <4>3. CASE at # 1
        <5>1. raw'["users"] = raw["users"]
          BY <3>1, <4>3, PlacesAreDistinct, HasUsers
        <5> QED  BY <3>1, <3>2, <4>3, <5>1 DEF CopiesAreSeen, UsersCopied
      <4> QED  BY <4>2, <4>3
    <3>3. ASSUME ~wrong, NEW c \in Collections, IsCopied(c)', NEW s \in Students
          PROVE  raw'[c][s] \in during[c][s]
      <4>1. CASE c = AllowedFields[at]
        BY <3>1, <3>3, <4>1 DEF AttemptSees
      <4>2. CASE c # AllowedFields[at]
        <5>1. PICK i \in Places : AllowedFields[i] = c
          BY PlacesAreDistinct
        <5>2. i <= at
          <6>1. CASE at' \in Following(at) /\ Running("app")'
            <7>1. PICK j \in Places : j < at' /\ AllowedFields[j] = c
              BY <3>3, <6>1 DEF IsCopied, Running
            <7> QED  BY <3>1, <5>1, <6>1, <7>1, PlacesAreDistinct, FollowingIsNext
          <6>2. CASE Following(at) = {}
            BY <3>1, <5>1, <6>2, FollowingIsNext
          <6> QED  BY <2>3, <6>1, <6>2, CommitSets
        <5>3. i < at
          BY <3>1, <4>2, <5>1, <5>2, PlacesAreDistinct
        <5>4. IsCopied(c)
          BY <3>1, <5>1, <5>3 DEF IsCopied
        <5> QED  BY <3>1, <3>3, <4>2, <5>4 DEF CopiesAreSeen
      <4> QED  BY <4>1, <4>2
    <3> QED  BY <3>1, <3>2, <3>3 DEF CopiesAreSeen
  <2>4. CASE Refuse
    <3>1. phase' # "build" /\ task'["app"] \in {"ready", "failed"}
      BY <1>4, <2>4 DEF Copies, Refuse, AttemptFails, RunShape, Loads
    <3> QED  BY <3>1 DEF CopiesAreSeen, UsersCopied, IsCopied, Running
  <2> QED
    BY <1>4, <2>1, <2>2, <2>3, <2>4 DEF Copies
<1>5. CASE RunFails \/ Build
  <2>1. task'["app"] = "ready" /\ phase' = "idle"
    BY <1>5 DEF RunFails, Build, Forget, Loads
  <2> QED  BY <2>1 DEF CopiesAreSeen, UsersCopied, IsCopied, Running
<1> QED
  BY <1>1, <1>2, <1>3, <1>4, <1>5, CopySteps

\* Users are copied first: who is missing there signed up later.
LEMMA OwnersAreKnownStep ==
  ASSUME TableTypes, RunShape, CopyShape, OwnersAreKnown, Next PROVE OwnersAreKnown'
<1>1. CASE AppWrites
  <2> PICK c \in Collections, s \in Students, version \in Nat :
        /\ Write(c, s, version) /\ version \in {0, now + 1}
        /\ c = "users" => version # 0
        /\ c # "users" /\ version # 0 => app["users"][s] # 0
    BY <1>1 DEF AppWrites
  <2>1. UNCHANGED <<at, unread, incoming, wrong, stamp, task, raw>>
    BY WriteSets DEF copying
  <2>2. \A k \in Collections, r \in Students :
          app'[k][r] = IF k = c /\ r = s THEN version ELSE app[k][r]
    BY WriteSets
  <2>3. \A r \in Students : app["users"][r] # 0 => app'["users"][r] # 0
    BY <2>2, HasUsers
  <2>4. \A k \in Collections, r \in Students : app'[k][r] # 0 => app'["users"][r] # 0
    BY <2>2, <2>3, HasUsers DEF OwnersAreKnown
  <2>5. \A r \in Students : Newcomer(r) => Newcomer(r)'
    <3>1. now + 1 > stamp
      BY DEF CopyShape, TableTypes
    <3> QED  BY <2>1, <2>2, <3>1, HasUsers DEF Newcomer
  <2> QED  BY <2>1, <2>3, <2>4, <2>5 DEF OwnersAreKnown, UsersCopied, Running
<1>2. CASE Aside
  BY <1>2 DEF Aside, OwnersAreKnown, UsersCopied, Running, Newcomer, source, copying
<1>3. CASE Outages
  <2>1. UNCHANGED <<source, copying, raw>>
        /\ (task'["app"] = task["app"] \/ task'["app"] \in {"ready", "failed"})
    BY <1>3 DEF Outages, Outage, AttemptFails, RunShape, warehouse
  <2> QED  BY <2>1 DEF OwnersAreKnown, UsersCopied, Running, Newcomer, source, copying
<1>4. CASE Copies
  <2>1. CASE StartApp
    <3>1. /\ at' = 1 /\ unread' = Students /\ incoming' = [s \in Students |-> 0]
          /\ task'["app"] = "running" /\ UNCHANGED <<app, raw>>
      BY <2>1 DEF StartApp, Open, FirstCopied, NoDocuments, RunShape, Loads, warehouse
    <3> QED  BY <3>1 DEF OwnersAreKnown, UsersCopied, Running
  <2>2. ASSUME NEW s \in Students, Read(s) PROVE OwnersAreKnown'
    <3>1. /\ UNCHANGED <<app, raw, at, wrong, stamp, task>> /\ unread' = unread \ {s}
          /\ Running("app") /\ AllowedFields[at] \in Collections
          /\ \A r \in Students : incoming'[r] = IF r # s THEN incoming[r]
                                                ELSE IF wrong THEN 0 ELSE app[AllowedFields[at]][s]
      BY <2>2, ReadSets, PlacesAreDistinct DEF CopyShape, source, dag, warehouse
    <3>2. \A r \in Students : incoming'[r] # 0 => app["users"][r] # 0
      BY <3>1 DEF OwnersAreKnown
    <3>3. ASSUME ~wrong, at = 1, NEW r \in Students, r \notin unread', incoming'[r] = 0
          PROVE  Newcomer(r)
      <4>1. CASE r = s
        BY <3>1, <3>3, <4>1, PlacesAreDistinct DEF Newcomer
      <4>2. CASE r # s
        BY <3>1, <3>3, <4>2 DEF OwnersAreKnown
      <4> QED  BY <4>1, <4>2
    <3>4. \A r \in Students : Newcomer(r)' = Newcomer(r)
      BY <3>1 DEF Newcomer
    <3> QED  BY <3>1, <3>2, <3>3, <3>4 DEF OwnersAreKnown, UsersCopied, Running
  <2>3. CASE Commit
    <3>1. /\ at \in Places /\ Running("app") /\ unread = {} /\ UNCHANGED <<app, wrong, stamp>>
          /\ \A c \in Collections : raw'[c] = IF c = AllowedFields[at] THEN incoming ELSE raw[c]
      BY <2>3, CommitSets DEF CopyShape, source
    <3>2. \/ at' # 1 /\ \A r \in Students : incoming'[r] = 0
          \/ ~Running("app")'
      <4>1. \A j \in Following(at) : j # 1
        BY <3>1, FollowingIsNext, PlacesAreDistinct
      <4> QED  BY <2>3, <4>1, CommitSets DEF Running, RunShape, Loads
    <3>3. \A r \in Students, c \in Collections : raw'[c][r] # 0 => app["users"][r] # 0
      BY <3>1 DEF OwnersAreKnown
    <3>4. ASSUME ~wrong, NEW r \in Students, raw'["users"][r] = 0 PROVE Newcomer(r)
      <4>1. CASE at = 1
        BY <3>1, <3>4, <4>1, PlacesAreDistinct, HasUsers DEF OwnersAreKnown
      <4>2. CASE at # 1
        <5>1. raw'["users"] = raw["users"]
          BY <3>1, <4>2, PlacesAreDistinct, HasUsers
        <5> QED  BY <3>1, <3>4, <4>2, <5>1 DEF OwnersAreKnown, UsersCopied
      <4> QED  BY <4>1, <4>2
    <3>5. \A r \in Students : Newcomer(r)' = Newcomer(r)
      BY <3>1 DEF Newcomer
    <3>6. \A r \in Students, c \in Collections : app[c][r] # 0 => app["users"][r] # 0
      BY DEF OwnersAreKnown
    <3> QED  BY <3>1, <3>2, <3>3, <3>4, <3>5, <3>6 DEF OwnersAreKnown
  <2>4. CASE Refuse
    <3>1. task'["app"] \in {"ready", "failed"} /\ UNCHANGED <<app, raw>>
      BY <2>4 DEF Refuse, AttemptFails, RunShape, Loads, source, warehouse
    <3> QED  BY <3>1 DEF OwnersAreKnown, UsersCopied, Running
  <2> QED
    BY <1>4, <2>1, <2>2, <2>3, <2>4 DEF Copies
<1>5. CASE RunFails \/ Build
  <2>1. task'["app"] = "ready" /\ UNCHANGED <<app, raw>>
    BY <1>5 DEF RunFails, Build, Forget, Loads, warehouse
  <2> QED  BY <2>1 DEF OwnersAreKnown, UsersCopied, Running
<1> QED
  BY <1>1, <1>2, <1>3, <1>4, <1>5, CopySteps

\* The only refusal is of an empty snapshot of a table with rows.
LEMMA FailsStep ==
  ASSUME TableTypes, RunShape, CopyShape, AttemptSees, FailsOnlyWhenEmptied, Next
  PROVE  FailsOnlyWhenEmptied'
<1>1. CASE AppWrites
  <2> PICK c \in Collections, s \in Students, version \in Nat : Write(c, s, version)
    BY <1>1 DEF AppWrites
  <2>1. UNCHANGED <<task, raw, faulty>>
        /\ \A k \in Collections, r \in Students : during[k][r] \subseteq during'[k][r]
    BY WriteSets
  <2> QED  BY <2>1 DEF FailsOnlyWhenEmptied, HasRows
<1>2. CASE Aside
  BY <1>2 DEF Aside, FailsOnlyWhenEmptied, HasRows, source
<1>3. CASE Outages
  BY <1>3 DEF Outages, Outage, Fault, FailsOnlyWhenEmptied
<1>4. CASE Copies
  <2>1. CASE StartApp \/ Commit \/ \E s \in Students : Read(s)
    <3>1. task'["app"] # "failed"
      BY <2>1 DEF StartApp, Commit, Read, RunShape, Loads, dag
    <3> QED  BY <3>1 DEF FailsOnlyWhenEmptied
  <2>2. CASE Refuse
    <3> DEFINE c == AllowedFields[at]
    <3>1. /\ c \in Collections /\ Running("app") /\ unread = {} /\ Refused(c)
          /\ UNCHANGED <<raw, during, faulty>>
      BY <2>2, PlacesAreDistinct DEF Refuse, Running, CopyShape, source, warehouse
    <3>2. /\ HasRows(raw[c]) /\ \A s \in Students : incoming[s] = 0
      BY <3>1 DEF Refused, HasRows
    <3>3. ~wrong => \A s \in Students : 0 \in during[c][s]
      BY <3>1, <3>2 DEF AttemptSees
    <3>4. wrong => faulty
      BY DEF CopyShape
    <3> HIDE DEF c
    <3> QED  BY <3>1, <3>2, <3>3, <3>4 DEF FailsOnlyWhenEmptied
  <2> QED
    BY <1>4, <2>1, <2>2 DEF Copies
<1>5. CASE RunFails \/ Build
  <2>1. task'["app"] = "ready"
    BY <1>5 DEF RunFails, Build, Forget, Loads
  <2> QED  BY <2>1 DEF FailsOnlyWhenEmptied
<1> QED
  BY <1>1, <1>2, <1>3, <1>4, <1>5, CopySteps

(***************************************************************************)
(* The rates.                                                              *)
(***************************************************************************)
\* Steps that have nothing to do with rates: they neither start a load of them
\* nor end one, and the run's day stays.
Elsewhere ==
  /\ UNCHANGED <<rates, loaded, loadedOn, good, fetched, today, runDay>>
  /\ task'["fx"] = "running" => Running("fx")
  /\ phase' = "build" => phase = "build"

LEMMA RateSteps ==
  ASSUME RunShape, Next, TableTypes
  PROVE  \/ Elsewhere \/ (\E d \in Days : Publish(d)) \/ NextDay \/ RunStarts
         \/ (phase = "loads" /\ FetchRates) \/ (phase = "loads" /\ LoadRates)
         \/ RunFails \/ Freshness \/ Build
<1>1. ASSUME AppWrites PROVE Elsewhere
  BY <1>1 DEF AppWrites, Write, Elsewhere, Running, rates, dag, warehouse
<1>2. ASSUME Outages PROVE Elsewhere
  BY <1>2 DEF Outages, Outage, AttemptFails, Elsewhere, Running, RunShape, Loads, rates, warehouse
<1>3. ASSUME Copies PROVE Elsewhere
  <2>1. CASE StartApp
    BY <1>3, <2>1 DEF Copies, StartApp, Elsewhere, Running, RunShape, Loads, rates, warehouse
  <2>2. ASSUME NEW s \in Students, Read(s) PROVE Elsewhere
    BY <2>2 DEF Read, Elsewhere, Running, rates, dag, warehouse
  <2>3. CASE Commit
    BY <1>3, <2>3 DEF Copies, Commit, Elsewhere, Running, RunShape, Loads, rates
  <2>4. CASE Refuse
    BY <1>3, <2>4 DEF Copies, Refuse, AttemptFails, Elsewhere, Running, RunShape, Loads, rates, warehouse
  <2> QED
    BY <1>3, <2>1, <2>2, <2>3, <2>4 DEF Copies
<1> QED
  BY <1>1, <1>2, <1>3, StepsByKind

LEMMA RateTypesStep ==
  ASSUME RateTypes, TableTypes, RunShape, Next PROVE RateTypes'
<1>1. CASE UNCHANGED <<rates, loaded, loadedOn, good, fetched>>
  BY <1>1 DEF RateTypes, rates
<1>2. ASSUME NEW d \in Days, Publish(d) PROVE RateTypes'
  BY <1>2 DEF Publish, RateTypes, RunShape, warehouse
<1>3. CASE FetchRates
  <2>1. fetched' \in [Days -> Nat]
    BY <1>3 DEF FetchRates, RateTypes
  <2> QED  BY <1>3, <2>1 DEF FetchRates, RateTypes, rates, warehouse
<1>4. CASE LoadRates
  <2>1. \A d \in Days : Upsert(d) \in Nat
    BY DEF Upsert, RateTypes
  <2> QED  BY <1>4, <2>1 DEF LoadRates, RateTypes, RunShape, NoRates, rates
<1>5. CASE RunFails
  BY <1>5 DEF RunFails, Forget, RateTypes, NoRates, rates, warehouse
<1>6. CASE Build
  BY <1>6 DEF Build, Forget, RateTypes, NoRates, rates
<1> QED
  BY <1>1, <1>2, <1>3, <1>4, <1>5, <1>6, RateSteps
     DEF Elsewhere, NextDay, RunStarts, Freshness, warehouse

LEMMA RatesInHandStep ==
  ASSUME RateTypes, TableTypes, RunShape, RatesInHand, Next PROVE RatesInHand'
<1>1. CASE Elsewhere
  BY <1>1 DEF Elsewhere, RatesInHand, Running, Window, rates
<1>2. ASSUME NEW e \in Days, Publish(e) PROVE RatesInHand'
  <2>1. /\ UNCHANGED <<loadedOn, good, fetched, today, runDay, task>>
        /\ published' = [published EXCEPT ![e] = @ + 1]
        /\ changed' = [changed EXCEPT ![e] = today]
    BY <1>2 DEF Publish, warehouse, dag
  <2>2. \A d \in Days : /\ published[d] # 0 => published'[d] # 0
                        /\ changed'[d] = IF d = e THEN today ELSE changed[d]
                        /\ d # e => published'[d] = published[d]
                        /\ d = e => published'[d] # 0
    BY <2>1 DEF RateTypes
  <2>3. \A d \in Days : changed'[d] <= today /\ (changed'[d] # 0 => published'[d] # 0)
    BY <2>2 DEF RatesInHand, RunShape
  <2>4. ASSUME Running("fx"), NEW d \in Days
        PROVE  /\ fetched[d] # 0 => d \in Window(runDay) /\ published'[d] # 0
               /\ d \in Window(runDay) => changed'[d] = today \/ fetched[d] = published'[d]
    BY <2>2, <2>4 DEF RatesInHand
  <2>5. loadedOn # 0 => \E d \in Days : published'[d] # 0 /\ loadedOn <= d + Lookback
    BY <2>2 DEF RatesInHand
  <2> QED  BY <2>1, <2>3, <2>4, <2>5 DEF RatesInHand, Running, Window
<1>3. CASE NextDay
  <2>1. ~Running("fx")
    BY <1>3 DEF NextDay, RunShape, Loads
  <2>2. UNCHANGED <<task, published, changed, good, loadedOn>> /\ today' = today + 1
    BY <1>3 DEF NextDay, rates, dag, warehouse
  <2> QED  BY <2>1, <2>2 DEF RatesInHand, RunShape, RateTypes, Running
<1>4. CASE RunStarts
  <2>1. ~Running("fx")
    BY <1>4 DEF RunStarts, RunShape, Loads
  <2>2. UNCHANGED <<task, published, changed, good, loadedOn, today>>
    BY <1>4 DEF RunStarts, rates, warehouse
  <2> QED  BY <2>1, <2>2 DEF RatesInHand, Running
<1>5. CASE FetchRates
  <2>1. UNCHANGED <<published, changed, good, loadedOn, today, runDay>>
    BY <1>5 DEF FetchRates, rates, warehouse
  <2>2. \A d \in Days : fetched'[d] = IF d \in Window(runDay) THEN published[d] ELSE 0
    BY <1>5 DEF FetchRates
  <2> QED  BY <2>1, <2>2 DEF RatesInHand, Window
<1>6. CASE phase = "loads" /\ LoadRates
  <2>1. UNCHANGED <<published, changed, today, runDay>> /\ good' = good \union {runDay}
        /\ Running("fx") /\ task' = [task EXCEPT !["fx"] = "done"]
        /\ loadedOn' = IF fetched = NoRates THEN loadedOn ELSE today
    BY <1>6 DEF LoadRates, rates, Running
  <2>2. ~Running("fx")'
    BY <2>1 DEF Running, RunShape, Loads
  <2>3. \A r \in good' : r <= today
    BY <2>1 DEF RatesInHand, RunShape
  <2>4. loadedOn' # 0 => \E d \in Days : published[d] # 0 /\ loadedOn' <= d + Lookback
    <3>1. CASE fetched = NoRates
      BY <2>1, <3>1 DEF RatesInHand
    <3>2. CASE fetched # NoRates
      <4>1. PICK d \in Days : fetched[d] # 0
        BY <3>2 DEF RateTypes, NoRates
      <4>2. published[d] # 0 /\ d \in Window(runDay)
        BY <2>1, <4>1 DEF RatesInHand
      <4>3. loadedOn' = runDay
        BY <1>6, <2>1, <3>2 DEF RunShape
      <4> QED  BY <4>2, <4>3 DEF Window
    <3> QED  BY <3>1, <3>2
  <2> QED  BY <2>1, <2>2, <2>3, <2>4 DEF RatesInHand
<1>7. CASE RunFails \/ Build
  <2>1. UNCHANGED <<published, changed, good, loadedOn, today>> /\ ~Running("fx")'
    BY <1>7 DEF RunFails, Build, Forget, Running, Loads, rates, warehouse
  <2> QED  BY <2>1 DEF RatesInHand
<1>8. CASE Freshness
  BY <1>8 DEF Freshness, RatesInHand, Running, Window, rates, warehouse
<1> QED
  BY <1>1, <1>2, <1>3, <1>4, <1>5, <1>6, <1>7, <1>8, RateSteps

\* An older run's promise survives a newer load: what that brings is the
\* source's rate, unless it was published on the very day.
LEMMA LateRatesStep ==
  ASSUME RateTypes, TableTypes, RunShape, RatesInHand, LateRatesArrive, Next
  PROVE  LateRatesArrive'
<1>1. CASE UNCHANGED <<published, changed, loaded, good>>
  BY <1>1 DEF LateRatesArrive
<1>2. ASSUME NEW e \in Days, Publish(e) PROVE LateRatesArrive'
  <2>1. /\ UNCHANGED <<loaded, good>>
        /\ published' = [published EXCEPT ![e] = @ + 1]
        /\ changed' = [changed EXCEPT ![e] = today]
    BY <1>2 DEF Publish, warehouse
  <2> SUFFICES ASSUME NEW d \in Days, NEW r \in good, changed'[d] # 0, changed'[d] < r,
                      d <= r, r <= d + Lookback
               PROVE  loaded[d] = published'[d]
    BY <2>1 DEF LateRatesArrive
  <2>2. CASE d = e
    <3>1. changed'[d] = today /\ r <= today /\ r \in Nat
      BY <2>1, <2>2 DEF RateTypes, RatesInHand
    <3> QED  BY <3>1 DEF RunShape
  <2>3. CASE d # e
    BY <2>1, <2>3 DEF RateTypes, LateRatesArrive
  <2> QED  BY <2>2, <2>3
<1>3. CASE phase = "loads" /\ LoadRates
  <2>1. UNCHANGED <<published, changed>> /\ good' = good \union {runDay} /\ Running("fx")
        /\ loaded' = [d \in Days |-> Upsert(d)] /\ runDay = today
    BY <1>3 DEF LoadRates, rates, Running, RunShape
  <2> SUFFICES ASSUME NEW d \in Days, NEW r \in good', changed[d] # 0, changed[d] < r,
                      d <= r, r <= d + Lookback
               PROVE  loaded'[d] = published[d]
    BY <2>1 DEF LateRatesArrive
  <2>2. changed[d] \in Nat /\ r \in Nat /\ r <= today /\ published[d] # 0
    BY <2>1 DEF RateTypes, RatesInHand, RunShape
  <2>3. changed[d] # today
    BY <2>2 DEF RunShape
  <2>4. fetched[d] # 0 => fetched[d] = published[d]
    BY <2>1, <2>3 DEF RatesInHand
  <2>5. CASE r = runDay
    <3>1. d \in Window(runDay)
      BY <2>5 DEF Window
    <3>2. fetched[d] = published[d]
      BY <2>1, <2>3, <3>1 DEF RatesInHand
    <3> QED  BY <2>1, <2>2, <3>2 DEF Upsert
  <2>6. CASE r # runDay
    <3>1. loaded[d] = published[d]
      BY <2>1, <2>6 DEF LateRatesArrive
    <3> QED  BY <2>1, <2>4, <3>1 DEF Upsert
  <2> QED  BY <2>5, <2>6
<1> QED
  BY <1>1, <1>2, <1>3, RateSteps
     DEF Elsewhere, NextDay, RunStarts, FetchRates, RunFails, Freshness, Build, rates, warehouse

LEMMA StallStep ==
  ASSUME RateTypes, TableTypes, RunShape, RatesInHand, StallIsNoticed, Next
  PROVE  StallIsNoticed'
<1>1. CASE Elsewhere
  BY <1>1 DEF Elsewhere, StallIsNoticed, rates
<1>2. ASSUME NEW e \in Days, Publish(e) PROVE StallIsNoticed'
  <2>1. UNCHANGED <<phase, runDay>> /\ \A d \in Days : published[d] # 0 => published'[d] # 0
    BY <1>2 DEF Publish, RateTypes, dag
  <2> QED  BY <2>1 DEF StallIsNoticed
<1>3. CASE Freshness
  <2>1. /\ loadedOn \in Nat \ {0} /\ today <= loadedOn + StaleAfter
        /\ runDay' = today /\ published' = published
    BY <1>3 DEF Freshness, Fresh, LoadsEnded, RunShape, RateTypes, rates
  <2>2. PICK d \in Days : published[d] # 0 /\ loadedOn <= d + Lookback
    BY <2>1 DEF RatesInHand
  <2>3. today <= d + Lookback + StaleAfter
    BY <2>1, <2>2, Numbers DEF RunShape, Days
  <2> QED  BY <2>1, <2>2, <2>3 DEF StallIsNoticed
<1>4. CASE phase' # "build"
  BY <1>4 DEF StallIsNoticed
<1>5. NextDay => phase' # "build"
  BY DEF NextDay, dag
<1>6. phase = "loads" /\ (FetchRates \/ LoadRates) => phase' # "build"
  BY DEF FetchRates, LoadRates
<1>7. RunStarts \/ RunFails \/ Build => phase' # "build"
  BY DEF RunStarts, RunFails, Build
<1> QED
  BY <1>1, <1>2, <1>3, <1>4, <1>5, <1>6, <1>7, RateSteps

(***************************************************************************)
(* The theorems.                                                           *)
(***************************************************************************)
LEMMA WarehouseStep == WarehouseInv /\ [Next]_vars => WarehouseInv'
<1> SUFFICES ASSUME WarehouseInv, [Next]_vars PROVE WarehouseInv'
  OBVIOUS
<1>1. CASE Next
  <2> USE DEF WarehouseInv, TableInv, RateInv, CopyInv
  <2>1. RunShape'
    BY <1>1, RunShapeStep
  <2>2. TableInv'
    BY <1>1, TableTypesStep, AttemptSeesStep, UsersStayStep, MartsStep
  <2>3. RateTypes' /\ RatesInHand'
    BY <1>1, RateTypesStep, RatesInHandStep
  <2>4. RatesAreCurrent'
    BY <1>1, LateRatesStep, StallStep DEF RatesAreCurrent
  <2>5. CopyInv'
    BY <1>1, CopyShapeStep, CountedStep, CopiesAreSeenStep, OwnersAreKnownStep, FailsStep
  <2> QED  BY <2>1, <2>2, <2>3, <2>4, <2>5
<1>2. CASE UNCHANGED vars
  <2>1. CopyInv'
    BY <1>2 DEF vars, source, copying, rates, dag, warehouse, WarehouseInv, CopyInv, CopyShape, Counted,
                CopiesAreSeen, OwnersAreKnown, FailsOnlyWhenEmptied, UsersCopied, IsCopied, Running,
                Newcomer, HasRows
  <2> QED
  BY <1>2, <2>1 DEF vars, source, copying, rates, dag, warehouse, WarehouseInv, TableInv, RateInv,
              RunShape, TableTypes, AttemptSees, UsersStay, MartsAreOwned, RateTypes, RatesInHand,
              RatesAreCurrent, LateRatesArrive, StallIsNoticed, Running, Window
<1> QED
  BY <1>1, <1>2

\* The invariant of the daily run.
THEOREM WarehouseIsSound == Spec => []WarehouseInv
<1> QED
  BY WarehouseInitially, WarehouseStep, PTL DEF Spec

\* Whatever is written during a copy, whichever attempt fails and whichever
\* database answers, the hours never count a student the warehouse does not know,
\* and a row the facts have without one has its student among the users when the
\* next build begins (the tests of _staging.yml, replace_snapshot).
THEOREM MartsKeepOwners == Spec => []MartsHaveOwners
<1>1. WarehouseInv => MartsHaveOwners
  <2> SUFFICES ASSUME WarehouseInv, NEW m \in Marts, NEW s \in Students, marts[m][s] # 0,
                      "users" \in Upstream[m] \/ phase = "build"
               PROVE  raw["users"][s] # 0
    BY DEF MartsHaveOwners
  <2>1. CASE "users" \in Upstream[m]
    BY <2>1 DEF WarehouseInv, TableInv, MartsAreOwned
  <2>2. CASE phase = "build"
    <3>1. raw["users"][s] \in during["users"][s]
      BY <2>2, HasUsers DEF WarehouseInv, CopyInv, CopiesAreSeen, IsCopied
    <3> QED  BY <3>1 DEF WarehouseInv, TableInv, MartsAreOwned
  <2> QED  BY <2>1, <2>2
<1> QED
  BY <1>1, WarehouseIsSound, PTL

\* Hours built anew are those of all the shifts in the facts: what the join would
\* drop fails the relationships test, which reads nothing the hours do not
\* (mart_weekly_work_hours.sql, _staging.yml).
THEOREM HoursStayWhole == Spec => HoursAreWhole
<1> DEFINE Whole ==
      \A m \in Marts : "users" \in Upstream[m] /\ marts'[m] # marts[m] =>
        marts'[m] = marts'["fct_work_shifts"]
<1>1. WarehouseInv /\ Next => Whole
  <2> SUFFICES ASSUME WarehouseInv, Next, NEW m \in Marts, "users" \in Upstream[m],
                      marts'[m] # marts[m]
               PROVE  marts'[m] = marts'["fct_work_shifts"]
    OBVIOUS
  <2> DEFINE facts == "fct_work_shifts"
  <2>1. TableTypes
    BY DEF WarehouseInv, TableInv
  <2>2. /\ Table[m] = "shifts" /\ Upstream[m] = {"shifts", "users"} /\ "shifts" \in Tested
        /\ facts \in Marts /\ Table[facts] = "shifts" /\ Upstream[facts] = {"shifts"}
    BY DEF Marts, Upstream, Table, Tested, Owned
  <2>3. Build
    BY <2>1, StepsByKind DEF AppWrites, Write, Publish, Outages, Outage, NextDay, RunStarts, Copies,
       StartApp, Read, Commit, Refuse, FetchRates, LoadRates, RunFails, Freshness, warehouse
  <2>4. PICK late \in SUBSET Students :
          marts' = [k \in Marts |-> IF TestsPass(k, late) THEN Rows(k) ELSE marts[k]]
    BY <2>3 DEF Build
  <2>5. TestsPass(m, late) /\ marts'[m] = Rows(m)
    BY <2>4
  <2>6. RowsHaveOwners("shifts")
    BY <2>2, <2>5 DEF TestsPass
  <2>7. TestsPass(facts, late)
    BY <2>2 DEF TestsPass
  <2>8. marts'[facts] = Rows(facts)
    BY <2>2, <2>4, <2>7
  <2>9. \A s \in Students : Rows(m)[s] = raw["shifts"][s] /\ Rows(facts)[s] = raw["shifts"][s]
    BY <2>2, <2>6 DEF Rows, RowsHaveOwners
  <2>10. Rows(m) \in [Students -> Nat] /\ Rows(facts) \in [Students -> Nat]
    BY <2>1, <2>2, RowsAreCopied
  <2>11. Rows(m) = Rows(facts)
    BY <2>9, <2>10
  <2> QED  BY <2>5, <2>8, <2>11
<1>2. WarehouseInv /\ [Next]_vars => [Whole]_vars
  BY <1>1
<1> QED
  BY <1>2, WarehouseIsSound, PTL DEF Spec, HoursAreWhole

\* A rate published before a run that loaded rates, within its window, is in
\* the warehouse as the source has it, and a build is never of rates older than
\* the lookback and the allowed age together (rate_window, upsert_fx_rates,
\* sources.yml).
THEOREM RatesStayCurrent == Spec => []RatesAreCurrent
<1>1. WarehouseInv => RatesAreCurrent
  BY DEF WarehouseInv, RateInv
<1> QED
  BY <1>1, WarehouseIsSound, PTL

\* A build reads tables that are well formed and all of this run's attempt, and
\* a row in them lacks its student only if that student signed up during the
\* copy: the users are copied first (load_app_data, the order of the DAG).
THEOREM BuildsAreConsistent == Spec => []Consistent
<1>1. WarehouseInv => Consistent
  <2> SUFFICES ASSUME WarehouseInv PROVE Consistent
    OBVIOUS
  <2> USE DEF WarehouseInv, TableInv, RateInv, CopyInv
  <2>1. now <= MaxEvents + 1 /\ AllowedFields[at] \in Collections
    BY Numbers, PlacesAreDistinct DEF Counted, TableTypes, CopyShape
  <2>2. /\ \A c \in Collections, s \in Students : app[c][s] \in Times /\ raw[c][s] \in Times
        /\ \A m \in Marts, s \in Students : marts[m][s] \in Times
        /\ \A s \in Students : incoming[s] \in Times
    BY <2>1, Numbers DEF Counted, TableTypes, Times
  <2>3. app \in [Collections -> Documents] /\ raw \in [Collections -> Documents]
    BY <2>2 DEF TableTypes, Documents
  <2>4. marts \in [Marts -> Documents] /\ incoming \in Documents
    BY <2>1, <2>2 DEF TableTypes, Documents
  <2>5. published \in [Days -> Times] /\ loaded \in [Days -> Times]
    <3>1. \A d \in Days : published[d] \in Times /\ loaded[d] \in Times
      BY Numbers DEF Counted, RateTypes, Times
    <3> QED  BY <3>1 DEF RateTypes
  <2>6. tries \in [Loads -> 0..(Retries + 1)]
    <3>1. Retries \in Nat /\ tries \in [Loads -> Nat] /\ \A t \in Loads : tries[t] <= Retries + 1
      BY BoundsAreNatural DEF CopyShape
    <3> QED  BY <3>1
  <2>7. runDay \in 0..today /\ stamp \in Times
    BY <2>1, Numbers DEF RunShape, CopyShape, TableTypes, Times
  <2>8. TypeOK
    BY <2>3, <2>4, <2>5, <2>6, <2>7 DEF TypeOK, RunShape, CopyShape
  <2>9. BuildSeesThisRun
    BY DEF BuildSeesThisRun, CopiesAreSeen, IsCopied
  <2>10. OrphansAreNewcomers
    BY DEF OrphansAreNewcomers, OwnersAreKnown, CopiesAreSeen, UsersCopied, Newcomer, Owned
  <2> QED  BY <2>8, <2>9, <2>10 DEF Consistent
<1> QED
  BY <1>1, WarehouseIsSound, PTL

\* Without an outage the load fails only because the application emptied a
\* collection the warehouse has rows of (EmptySnapshotError).
THEOREM OnlyEmptiedFails == Spec => []FailsOnlyWhenEmptied
<1>1. WarehouseInv => FailsOnlyWhenEmptied
  BY DEF WarehouseInv, CopyInv
<1> QED
  BY <1>1, WarehouseIsSound, PTL

\* A committed table holds of every document a version it had since the attempt
\* began, for any number of collections and in whichever order they are copied
\* (extract, replace_snapshot).
THEOREM SnapshotsAreFaithful == Spec => SnapshotIsFaithful
<1> DEFINE Faithful ==
      \A c \in Collections : raw'[c] # raw[c] =>
        \A s \in Students : raw'[c][s] \in during[c][s]
<1>1. WarehouseInv /\ Next => Faithful
  <2> SUFFICES ASSUME WarehouseInv, Next, NEW c \in Collections, raw'[c] # raw[c],
                      NEW s \in Students
               PROVE  raw'[c][s] \in during[c][s]
    OBVIOUS
  <2>1. TableTypes /\ AttemptSees /\ UsersStay
    BY DEF WarehouseInv, TableInv
  <2>2. Commit
    BY <2>1, StepsByKind DEF AppWrites, Write, Publish, Outages, Outage, NextDay, RunStarts, Copies,
       StartApp, Read, Refuse, FetchRates, LoadRates, RunFails, Freshness, Build, warehouse
  <2>3. Running("app") /\ unread = {} /\ ~Refused(AllowedFields[at])
        /\ raw' = [raw EXCEPT ![AllowedFields[at]] = incoming]
    BY <2>2 DEF Commit, Running
  <2>4. c = AllowedFields[at] /\ raw'[c] = incoming
    BY <2>1, <2>3 DEF TableTypes
  <2>5. CASE ~wrong
    BY <2>1, <2>3, <2>4, <2>5 DEF AttemptSees
  <2>6. CASE wrong
    <3>1. incoming \in [Students -> Nat] /\ raw[c] \in [Students -> Nat]
      BY <2>1, <2>4 DEF TableTypes
    <3>2. \A r \in Students : incoming[r] = 0
      BY <2>1, <2>3, <2>4, <2>6 DEF AttemptSees
    <3>3. \A r \in Students : raw[c][r] = 0
      BY <2>3, <2>4, <3>2 DEF Refused, HasRows
    <3>4. incoming = raw[c]
      BY <3>1, <3>2, <3>3
    <3> QED  BY <2>4, <3>4
  <2> QED  BY <2>5, <2>6
<1>2. WarehouseInv /\ [Next]_vars => [Faithful]_vars
  BY <1>1
<1> QED
  BY <1>2, WarehouseIsSound, PTL DEF Spec, SnapshotIsFaithful
=============================================================================
