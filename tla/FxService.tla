----------------------------- MODULE FxService -----------------------------
(***************************************************************************)
(* Recording observed exchange rates, firing the alerts they cross, and    *)
(* answering "what is the latest rate" (backend/src/fx).                   *)
(*                                                                         *)
(* A call of FxService.record is a process: the poller's jobs and the      *)
(* provider's webhook deliveries, on any instance of the backend.  Every   *)
(* await of the code ends an action, so between two actions of one call    *)
(* any step of another call, of a reader, of a user or of Redis may happen.*)
(*                                                                         *)
(* A definition marked (defect: ...) is the one below it with one fault.   *)
(* The specification never uses it: a property is shown to notice it.      *)
(*                                                                         *)
(* A result that may be missing (findFirst, a cache hit, an unset          *)
(* triggeredAt) is a set with at most one element.                         *)
(***************************************************************************)
EXTENDS Integers

CONSTANTS
  Deliveries,   \* the calls of record made in a behaviour, repeats included
  Readers,      \* the calls of latest made in a behaviour
  Alerts,       \* the ids of the alerts students create
  Pairs,        \* currency pairs
  Times,        \* instants an observation can carry
  Rates,        \* rates and targets, in order
  RedisMayFail  \* whether Redis can be out of reach of a get or a put

ASSUME NumbersAreNatural == Times \subseteq Nat /\ Rates \subseteq Nat
ASSUME RedisFailsOrNot == RedisMayFail \in BOOLEAN

Observations == [pair : Pairs, at : Times, rate : Rates]
Watches == [pair : Pairs, direction : {"AT_OR_ABOVE", "AT_OR_BELOW"}, target : Rates]

VARIABLES
  obs,          \* obs[d]: the observation delivery d carries
  watch,        \* watch[a]: what the student asks alert a to watch for
  rates,        \* the fx_rates collection
  cache,        \* cache[p]: the entry Redis holds for pair p
  created,      \* alerts ever created; an ObjectId is never reused
  stored,       \* the rows of the fx_alerts collection
  triggeredAt,  \* triggeredAt[a]: the field of alert a's row, {} while it is absent
  pc,           \* pc[d]: the await delivery d's call is about to make
  previous,     \* previous[d]: the row the call compares its observation with
  todo,         \* todo[d]: triggers the loop of the call has still to claim
  won,          \* won[d]: the alert the call has claimed and not yet pushed
  pushes,       \* pushes[a]: how many times alert a was emitted to its owner
  owed,         \* owed[a]: history, the calls that had to fire alert a
  rpc,          \* rpc[r]: the await reader r's call is about to make
  asked,        \* asked[r]: the pair reader r asks for
  held          \* held[r]: what reader r read, its answer once it is done

inputs  == <<obs, watch, asked>>
alertDb == <<created, stored, triggeredAt>>
calls   == <<pc, previous, todo, won>>
reads   == <<rpc, held>>
vars    == <<inputs, rates, cache, alertDb, calls, pushes, owed, reads>>

Steps == {"lookup", "previous", "insert", "put", "open", "claim", "notify", "done", "failed"}

(***************************************************************************)
(* Queries.                                                                *)
(***************************************************************************)
HasRow(o) == \E r \in rates : r.pair = o.pair /\ r.at = o.at

\* The unique index on pair and instant refuses o.
IndexOnWholeRow(o) == o \in rates      \* (defect: the rate is part of the key)
IndexRefuses(o) == HasRow(o)

Newest(p) ==
  {r \in rates : r.pair = p /\ \A s \in rates : s.pair = p => s.at <= r.at}

AnyRow(a) == a \in stored              \* (defect: no triggeredAt filter)
Open(a) == a \in stored /\ triggeredAt[a] = {}

CrossedNow(w, now, before) ==          \* (defect: no look at the rate before)
  IF w.direction = "AT_OR_ABOVE" THEN now >= w.target ELSE now <= w.target
CrossedUpwards(w, now, before) == now >= w.target   \* (defect: no direction)

\* The test of alerts.ts: the current rate, or the one before it, is at or
\* past the target.
Crossed(w, now, before) ==
  \/ /\ w.direction = "AT_OR_ABOVE"
     /\ now >= w.target \/ \E b \in before : b.rate >= w.target
  \/ /\ w.direction = "AT_OR_BELOW"
     /\ now <= w.target \/ \E b \in before : b.rate <= w.target

Triggered(o, before) ==
  {a \in Alerts : Open(a) /\ watch[a].pair = o.pair /\ Crossed(watch[a], o.rate, before)}

\* What the owner of a watch waits for, written without the code's test.
Reaches(w, rate) ==
  IF w.direction = "AT_OR_ABOVE" THEN rate >= w.target ELSE rate <= w.target

\* The alerts that must fire because of observation o: open, on its pair, and
\* reached by it or by the observation that was the newest before it.
MustFire(a, o, before) ==
  /\ Open(a) /\ watch[a].pair = o.pair
  /\ Reaches(watch[a], o.rate) \/ \E b \in before : Reaches(watch[a], b.rate)

(***************************************************************************)
(* FxService.record: one action per await.                                 *)
(***************************************************************************)
Goto(d, step) == pc' = [pc EXCEPT ![d] = step]

\* The fast path: a repeat of a stored observation returns [].
Lookup(d) ==
  /\ pc[d] = "lookup"
  /\ Goto(d, IF HasRow(obs[d]) THEN "done" ELSE "previous")
  /\ UNCHANGED <<inputs, rates, cache, alertDb, previous, todo, won, pushes, owed, reads>>

ReadPrevious(d) ==
  /\ pc[d] = "previous"
  /\ previous' = [previous EXCEPT ![d] = Newest(obs[d].pair)]
  /\ Goto(d, "insert")
  /\ UNCHANGED <<inputs, rates, cache, alertDb, todo, won, pushes, owed, reads>>

Insert(d) ==
  /\ pc[d] = "insert"
  /\ ~IndexRefuses(obs[d])
  /\ rates' = rates \union {obs[d]}
  /\ owed' = [a \in Alerts |-> IF MustFire(a, obs[d], previous[d])
                                 THEN owed[a] \union {d} ELSE owed[a]]
  /\ Goto(d, "put")
  /\ UNCHANGED <<inputs, cache, alertDb, previous, todo, won, pushes, reads>>

\* The unique index refused the row (P2002): a repeat, not a failure.
InsertRefused(d) ==
  /\ pc[d] = "insert"
  /\ IndexRefuses(obs[d])
  /\ Goto(d, "done")
  /\ UNCHANGED <<inputs, rates, cache, alertDb, previous, todo, won, pushes, owed, reads>>

\* cache.put: whatever the entry was, unless Redis cannot be reached.
Put(p, o) ==
  \/ cache' = [cache EXCEPT ![p] = {o}]
  \/ RedisMayFail /\ cache' = cache

PutRecorded(d) ==
  /\ pc[d] = "put"
  /\ Put(obs[d].pair, obs[d])
  /\ Goto(d, "open")
  /\ UNCHANGED <<inputs, rates, alertDb, previous, todo, won, pushes, owed, reads>>

\* findMany of the open alerts, and the pure decision which of them fire.
ReadOpen(d) ==
  /\ pc[d] = "open"
  /\ todo' = [todo EXCEPT ![d] = Triggered(obs[d], previous[d])]
  /\ Goto(d, IF Triggered(obs[d], previous[d]) = {} THEN "done" ELSE "claim")
  /\ UNCHANGED <<inputs, rates, cache, alertDb, previous, won, pushes, owed, reads>>

NextTrigger(d, left) == Goto(d, IF left = {} THEN "done" ELSE "claim")

\* The conditional update changed the row: this call won the alert.
Mark(d, a) ==
  /\ triggeredAt' = [triggeredAt EXCEPT ![a] = {obs[d].at}]
  /\ todo' = [todo EXCEPT ![d] = @ \ {a}]
  /\ UNCHANGED <<inputs, rates, cache, created, stored, previous, pushes, owed, reads>>

Win(d, a) ==
  /\ won' = [won EXCEPT ![d] = {a}]
  /\ Goto(d, "notify")

ClaimAlways(d, a) ==                   \* (defect: the update has no condition)
  pc[d] = "claim" /\ a \in todo[d] /\ Mark(d, a) /\ Win(d, a)
Claim(d, a) ==
  pc[d] = "claim" /\ a \in todo[d] /\ Open(a) /\ Mark(d, a) /\ Win(d, a)

\* The conditional update changed nothing: another call claimed the alert, or
\* its owner deleted it, since this call read it.
ClaimLost(d, a) ==
  /\ pc[d] = "claim" /\ a \in todo[d]
  /\ ~Open(a)
  /\ todo' = [todo EXCEPT ![d] = @ \ {a}]
  /\ NextTrigger(d, todo[d] \ {a})
  /\ UNCHANGED <<inputs, rates, cache, alertDb, previous, won, pushes, owed, reads>>

Notify(d) ==
  /\ pc[d] = "notify"
  /\ pushes' = [a \in Alerts |-> IF a \in won[d] THEN pushes[a] + 1 ELSE pushes[a]]
  /\ won' = [won EXCEPT ![d] = {}]
  /\ NextTrigger(d, todo[d])
  /\ UNCHANGED <<inputs, rates, cache, alertDb, previous, todo, owed, reads>>

\* An await throws, or the process dies before the call resumes.  What the
\* database applied stays applied; nothing of the rest of the call happens.
Fail(d) ==
  /\ pc[d] \notin {"done", "failed"}
  /\ Goto(d, "failed")
  /\ UNCHANGED <<inputs, rates, cache, alertDb, previous, todo, won, pushes, owed, reads>>

(***************************************************************************)
(* FxService.latest.                                                       *)
(***************************************************************************)
ReadGoto(r, step) == rpc' = [rpc EXCEPT ![r] = step]

CacheHit(r) ==
  /\ rpc[r] = "get"
  /\ cache[asked[r]] # {}
  /\ held' = [held EXCEPT ![r] = cache[asked[r]]]
  /\ ReadGoto(r, "done")
  /\ UNCHANGED <<inputs, rates, cache, alertDb, calls, pushes, owed>>

\* No entry, or Redis cannot be reached: either way "not cached".
CacheMiss(r) ==
  /\ rpc[r] = "get"
  /\ cache[asked[r]] = {} \/ RedisMayFail
  /\ ReadGoto(r, "row")
  /\ UNCHANGED <<inputs, rates, cache, alertDb, calls, pushes, owed, held>>

ReadRow(r) ==
  /\ rpc[r] = "row"
  /\ held' = [held EXCEPT ![r] = Newest(asked[r])]
  /\ ReadGoto(r, IF Newest(asked[r]) = {} THEN "done" ELSE "fill")
  /\ UNCHANGED <<inputs, rates, cache, alertDb, calls, pushes, owed>>

FillCache(r) ==
  /\ rpc[r] = "fill"
  /\ \E o \in held[r] : Put(asked[r], o)
  /\ ReadGoto(r, "done")
  /\ UNCHANGED <<inputs, rates, alertDb, calls, pushes, owed, held>>

(***************************************************************************)
(* Redis and the students.                                                 *)
(***************************************************************************)
\* EX ttlSeconds: the entry is gone that long after its last put.
Expire(p) ==
  /\ cache[p] # {}
  /\ cache' = [cache EXCEPT ![p] = {}]
  /\ UNCHANGED <<inputs, rates, alertDb, calls, pushes, owed, reads>>

CreateAlert(a) ==
  /\ a \notin created
  /\ created' = created \union {a}
  /\ stored' = stored \union {a}
  /\ UNCHANGED <<inputs, rates, cache, triggeredAt, calls, pushes, owed, reads>>

\* By its owner.  Anybody else's request matches no row and changes nothing.
DeleteAlert(a) ==
  /\ a \in stored
  /\ stored' = stored \ {a}
  /\ UNCHANGED <<inputs, rates, cache, created, triggeredAt, calls, pushes, owed, reads>>

(***************************************************************************)
(* The specification.                                                      *)
(***************************************************************************)
Init ==
  /\ obs \in [Deliveries -> Observations]
  /\ watch \in [Alerts -> Watches]
  /\ asked \in [Readers -> Pairs]
  /\ rates = {}
  /\ cache = [p \in Pairs |-> {}]
  /\ created = {} /\ stored = {}
  /\ triggeredAt = [a \in Alerts |-> {}]
  /\ pc = [d \in Deliveries |-> "lookup"]
  /\ previous = [d \in Deliveries |-> {}]
  /\ todo = [d \in Deliveries |-> {}]
  /\ won = [d \in Deliveries |-> {}]
  /\ pushes = [a \in Alerts |-> 0]
  /\ owed = [a \in Alerts |-> {}]
  /\ rpc = [r \in Readers |-> "get"]
  /\ held = [r \in Readers |-> {}]

\* What a call does by itself once its first lookup came back.
Continue(d) ==
  \/ ReadPrevious(d) \/ Insert(d) \/ InsertRefused(d) \/ PutRecorded(d) \/ ReadOpen(d)
  \/ \E a \in Alerts : Claim(d, a) \/ ClaimLost(d, a)
  \/ Notify(d)

Read(r) == CacheHit(r) \/ CacheMiss(r) \/ ReadRow(r) \/ FillCache(r)

Next ==
  \/ \E d \in Deliveries : Lookup(d) \/ Continue(d) \/ Fail(d)
  \/ \E r \in Readers : Read(r)
  \/ \E p \in Pairs : Expire(p)
  \/ \E a \in Alerts : CreateAlert(a) \/ DeleteAlert(a)

Spec == Init /\ [][Next]_vars

\* A started call or read goes on (or fails).  Nothing makes a delivery arrive,
\* a user act, an await fail or an entry expire.
Fairness ==
  /\ \A d \in Deliveries : WF_vars(Continue(d))
  /\ \A r \in Readers : WF_vars(Read(r))

FairSpec == Spec /\ Fairness

(***************************************************************************)
(* Properties.                                                             *)
(***************************************************************************)

\* The type invariant: every variable stays in its set, results that may be
\* missing among the rows they can be.
TypeOK ==
  /\ obs \in [Deliveries -> Observations]
  /\ watch \in [Alerts -> Watches]
  /\ asked \in [Readers -> Pairs]
  /\ rates \subseteq Observations
  /\ cache \in [Pairs -> SUBSET Observations]
  /\ created \subseteq Alerts /\ stored \subseteq created
  /\ triggeredAt \in [Alerts -> SUBSET Times]
  /\ pc \in [Deliveries -> Steps]
  /\ previous \in [Deliveries -> SUBSET Observations]
  /\ todo \in [Deliveries -> SUBSET Alerts]
  /\ won \in [Deliveries -> SUBSET Alerts]
  /\ pushes \in [Alerts -> Nat]
  /\ owed \in [Alerts -> SUBSET Deliveries]
  /\ rpc \in [Readers -> {"get", "row", "fill", "done"}]
  /\ held \in [Readers -> SUBSET Observations]

\* One row per pair and instant, however many deliveries of the observation
\* pass the lookup of record before any of them inserts.
OneRowPerObservation ==
  \A r, s \in rates : r.pair = s.pair /\ r.at = s.at => r = s

\* A student is told at most once about an alert, whichever of several
\* concurrent record calls saw it open.
NotifiedAtMostOnce == \A a \in Alerts : pushes[a] <= 1

\* A row is marked triggered before its owner is told, and once it is marked
\* the owner is told, unless the call that marked it died in between.
ClaimedIsNotified ==
  \A a \in Alerts :
    /\ pushes[a] > 0 => triggeredAt[a] # {}
    /\ triggeredAt[a] # {} /\ pushes[a] = 0 =>
         \E d \in Deliveries : a \in won[d] /\ pc[d] \in {"notify", "failed"}

\* An alert that was open when an observation reaching its target (or
\* following one that did) was stored is no longer open once the record call
\* of that observation has returned.
NoMissedAlert ==
  \A a \in Alerts : \A d \in owed[a] : pc[d] = "done" => ~Open(a)

\* An alert's row is marked with the instant of a stored observation of its
\* pair, and some stored observation of the pair did reach the target.
FiredOnRecordedRate ==
  \A a \in Alerts : \A t \in triggeredAt[a] :
    /\ \E r \in rates : r.pair = watch[a].pair /\ r.at = t
    /\ \E r \in rates : r.pair = watch[a].pair /\ Reaches(watch[a], r.rate)

\* Whatever Redis lost, kept or expired, an answer of latest and a cache entry
\* are always a stored observation of the pair.
AnswersWereObserved ==
  /\ \A p \in Pairs : \A o \in cache[p] : o \in rates /\ o.pair = p
  /\ \A r \in Readers : \A o \in held[r] : o \in rates /\ o.pair = asked[r]

\* What makes the invariants above inductive.  Of the calls: what a call has
\* read stays stored, and its triggers are alerts its observation crossed.
CallsHoldRows ==
  \A d \in Deliveries :
    /\ \A b \in previous[d] : b \in rates /\ b.pair = obs[d].pair
    /\ pc[d] \in {"put", "open", "claim", "notify"} => obs[d] \in rates
    /\ \A a \in todo[d] : /\ pc[d] \in {"claim", "notify", "failed"}
                          /\ watch[a].pair = obs[d].pair
                          /\ Crossed(watch[a], obs[d].rate, previous[d])

\* Of the claims: one call at most holds an alert, only after its row was
\* marked and before its owner is told, and no row that does not exist is marked.
ClaimsAreExclusive ==
  /\ \A d \in Deliveries : \A a \in won[d] :
       pc[d] \in {"notify", "failed"} /\ triggeredAt[a] # {} /\ pushes[a] = 0
  /\ \A d \in Deliveries : \A a, b \in won[d] : a = b
  /\ \A d, e \in Deliveries : won[d] \intersect won[e] # {} => d = e
  /\ \A a \in Alerts : triggeredAt[a] # {} => a \in created

\* Of the alerts still open: a call that owes one is still on its way to it, or
\* failed, and will find it crossed.
DebtsAreOnTheirWay ==
  \A a \in Alerts : \A d \in owed[a] :
    /\ a \in created
    /\ Open(a) =>
         /\ watch[a].pair = obs[d].pair
         /\ Crossed(watch[a], obs[d].rate, previous[d])
         /\ \/ pc[d] \in {"put", "open", "failed"}
            \/ pc[d] \in {"claim", "notify"} /\ a \in todo[d]

\* The inductive invariant: the safety properties with what supports them.
Inductive ==
  /\ TypeOK /\ OneRowPerObservation /\ NotifiedAtMostOnce /\ ClaimedIsNotified
  /\ FiredOnRecordedRate /\ AnswersWereObserved
  /\ CallsHoldRows /\ ClaimsAreExclusive /\ DebtsAreOnTheirWay

\* An alert a record call owes is settled in the end: it fires or is deleted,
\* unless every call that owed it failed.
OwedIsSettled ==
  \A a \in Alerts : (owed[a] # {}) ~> (~Open(a) \/ \A d \in owed[a] : pc[d] = "failed")

\* Every step of the service is a step of AlertContract, or none of its
\* business: a row waits while it is open, its owner is due a push while some
\* call holds the claimed alert.
Contract == INSTANCE AlertContract WITH
  known   <- created,
  waiting <- {a \in Alerts : Open(a)},
  reached <- {a \in Alerts : \E r \in rates : r.pair = watch[a].pair /\ Reaches(watch[a], r.rate)},
  due     <- {a \in Alerts : \E d \in Deliveries : a \in won[d]},
  told    <- pushes

KeepsContract == Contract!ContractSpec

\* No call of record is in flight, and none has failed.
AtRest == \A d \in Deliveries : pc[d] \in {"lookup", "done"}

\* The cache header and NFR-4, as a step of latest: a read that the cache answers
\* at rest answers the number the newest stored observation of its pair carries.
AnswersNewestAtRest ==
  [][\A r \in Readers :
       AtRest /\ rpc[r] = "get" /\ rpc'[r] = "done" =>
         \A o \in held'[r] : \A n \in Newest(asked[r]) : o.rate = n.rate]_vars
=============================================================================
