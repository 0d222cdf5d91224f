-------------------------- MODULE FxServiceProofs --------------------------
(***************************************************************************)
(* Safety of FxService for every number of calls, readers, alerts, pairs,  *)
(* instants and rates.                                                     *)
(***************************************************************************)
EXTENDS FxService, TLAPS

(***************************************************************************)
(* Type correctness.                                                       *)
(***************************************************************************)

\* Init establishes the type invariant.
LEMMA TypeInit == Init => TypeOK
  BY DEF Init, TypeOK, Steps

\* Every step of the service, whichever await it ends, keeps it.
LEMMA TypeNext == TypeOK /\ [Next]_vars => TypeOK'
<1> SUFFICES ASSUME TypeOK, [Next]_vars PROVE TypeOK'
  OBVIOUS
<1> USE DEF TypeOK, Steps, Goto, ReadGoto, NextTrigger,
            inputs, alertDb, calls, reads, vars
<1>1. ASSUME NEW d \in Deliveries, Lookup(d) PROVE TypeOK'
  BY <1>1 DEF Lookup
<1>2. ASSUME NEW d \in Deliveries, ReadPrevious(d) PROVE TypeOK'
  <2>1. Newest(obs[d].pair) \subseteq Observations
    BY DEF Newest
  <2> QED  BY <1>2, <2>1 DEF ReadPrevious
<1>3. ASSUME NEW d \in Deliveries, Insert(d) PROVE TypeOK'
  BY <1>3 DEF Insert
<1>4. ASSUME NEW d \in Deliveries, InsertRefused(d) PROVE TypeOK'
  BY <1>4 DEF InsertRefused
<1>5. ASSUME NEW d \in Deliveries, PutRecorded(d) PROVE TypeOK'
  BY <1>5 DEF PutRecorded, Put
<1>6. ASSUME NEW d \in Deliveries, ReadOpen(d) PROVE TypeOK'
  <2>1. Triggered(obs[d], previous[d]) \subseteq Alerts
    BY DEF Triggered
  <2> QED  BY <1>6, <2>1 DEF ReadOpen
<1>7. ASSUME NEW d \in Deliveries, NEW a \in Alerts, Claim(d, a) PROVE TypeOK'
  BY <1>7 DEF Claim, Mark, Win, Observations
<1>8. ASSUME NEW d \in Deliveries, NEW a \in Alerts, ClaimLost(d, a) PROVE TypeOK'
  BY <1>8 DEF ClaimLost
<1>9. ASSUME NEW d \in Deliveries, Notify(d) PROVE TypeOK'
  BY <1>9 DEF Notify
<1>10. ASSUME NEW d \in Deliveries, Fail(d) PROVE TypeOK'
  BY <1>10 DEF Fail
<1>11. ASSUME NEW r \in Readers, CacheHit(r) PROVE TypeOK'
  BY <1>11 DEF CacheHit
<1>12. ASSUME NEW r \in Readers, CacheMiss(r) PROVE TypeOK'
  BY <1>12 DEF CacheMiss
<1>13. ASSUME NEW r \in Readers, ReadRow(r) PROVE TypeOK'
  <2>1. Newest(asked[r]) \subseteq Observations
    BY DEF Newest
  <2> QED  BY <1>13, <2>1 DEF ReadRow
<1>14. ASSUME NEW r \in Readers, FillCache(r) PROVE TypeOK'
  BY <1>14 DEF FillCache, Put
<1>15. ASSUME NEW p \in Pairs, Expire(p) PROVE TypeOK'
  BY <1>15 DEF Expire
<1>16. ASSUME NEW a \in Alerts, CreateAlert(a) PROVE TypeOK'
  BY <1>16 DEF CreateAlert
<1>17. ASSUME NEW a \in Alerts, DeleteAlert(a) PROVE TypeOK'
  BY <1>17 DEF DeleteAlert
<1>18. CASE UNCHANGED vars
  BY <1>18
<1> QED
  BY <1>1, <1>2, <1>3, <1>4, <1>5, <1>6, <1>7, <1>8, <1>9, <1>10, <1>11, <1>12,
     <1>13, <1>14, <1>15, <1>16, <1>17, <1>18 DEF Next, Continue, Read

\* The service never stores, caches or holds a value of the wrong kind.
THEOREM TypeCorrect == Spec => []TypeOK
  BY TypeInit, TypeNext, PTL DEF Spec

(***************************************************************************)
(* Stored observations: the index, the calls and the answers.              *)
(***************************************************************************)

\* What record holds in flight, stored rows and answers: no step, not even a
\* delivery racing another past the lookup, breaks them.
LEMMA RowsNext ==
  TypeOK /\ OneRowPerObservation /\ AnswersWereObserved /\ CallsHoldRows /\ [Next]_vars
    => OneRowPerObservation' /\ AnswersWereObserved' /\ CallsHoldRows'
<1> DEFINE RowInv == OneRowPerObservation /\ AnswersWereObserved /\ CallsHoldRows
<1> SUFFICES ASSUME TypeOK, RowInv, [Next]_vars PROVE RowInv'
  OBVIOUS
<1> USE DEF TypeOK, OneRowPerObservation, AnswersWereObserved, CallsHoldRows, Crossed,
            Goto, ReadGoto, NextTrigger, inputs, alertDb, calls, reads, vars
<1>1. ASSUME NEW d \in Deliveries, Lookup(d) PROVE RowInv'
  BY <1>1 DEF Lookup
<1>2. ASSUME NEW d \in Deliveries, ReadPrevious(d) PROVE RowInv'
  BY <1>2 DEF ReadPrevious, Newest
<1>3. ASSUME NEW d \in Deliveries, Insert(d) PROVE RowInv'
  BY <1>3 DEF Insert, IndexRefuses, HasRow
<1>4. ASSUME NEW d \in Deliveries, InsertRefused(d) PROVE RowInv'
  BY <1>4 DEF InsertRefused
<1>5. ASSUME NEW d \in Deliveries, PutRecorded(d) PROVE RowInv'
  BY <1>5 DEF PutRecorded, Put
<1>6. ASSUME NEW d \in Deliveries, ReadOpen(d) PROVE RowInv'
  BY <1>6 DEF ReadOpen, Triggered
<1>7. ASSUME NEW d \in Deliveries, NEW a \in Alerts, Claim(d, a) PROVE RowInv'
  <2>1. /\ UNCHANGED <<obs, watch, asked, rates, cache, previous, held>>
        /\ \A e \in Deliveries : todo'[e] \subseteq todo[e]
        /\ \A e \in Deliveries :
             pc'[e] = pc[e] \/ (e = d /\ pc[e] = "claim" /\ pc'[e] = "notify")
    BY <1>7 DEF Claim, Mark, Win
  <2> QED  BY <2>1
<1>8. ASSUME NEW d \in Deliveries, NEW a \in Alerts, ClaimLost(d, a) PROVE RowInv'
  BY <1>8 DEF ClaimLost
<1>9. ASSUME NEW d \in Deliveries, Notify(d) PROVE RowInv'
  BY <1>9 DEF Notify
<1>10. ASSUME NEW d \in Deliveries, Fail(d) PROVE RowInv'
  BY <1>10 DEF Fail
<1>11. ASSUME NEW r \in Readers, CacheHit(r) PROVE RowInv'
  BY <1>11 DEF CacheHit
<1>12. ASSUME NEW r \in Readers, CacheMiss(r) PROVE RowInv'
  BY <1>12 DEF CacheMiss
<1>13. ASSUME NEW r \in Readers, ReadRow(r) PROVE RowInv'
  BY <1>13 DEF ReadRow, Newest
<1>14. ASSUME NEW r \in Readers, FillCache(r) PROVE RowInv'
  BY <1>14 DEF FillCache, Put
<1>15. ASSUME NEW p \in Pairs, Expire(p) PROVE RowInv'
  BY <1>15 DEF Expire
<1>16. ASSUME NEW a \in Alerts, CreateAlert(a) \/ DeleteAlert(a) PROVE RowInv'
  BY <1>16 DEF CreateAlert, DeleteAlert
<1>17. CASE UNCHANGED vars
  BY <1>17
<1> QED
  BY <1>1, <1>2, <1>3, <1>4, <1>5, <1>6, <1>7, <1>8, <1>9, <1>10, <1>11, <1>12,
     <1>13, <1>14, <1>15, <1>16, <1>17 DEF Next, Continue, Read

(***************************************************************************)
(* Claims and pushes.                                                      *)
(***************************************************************************)

\* However the claim loops of concurrent record calls interleave, a step
\* keeps at most one holder per alert and at most one push.
LEMMA ClaimsNext ==
  TypeOK /\ NotifiedAtMostOnce /\ ClaimedIsNotified /\ ClaimsAreExclusive /\ [Next]_vars
    => NotifiedAtMostOnce' /\ ClaimedIsNotified' /\ ClaimsAreExclusive'
<1> DEFINE ClaimInv == NotifiedAtMostOnce /\ ClaimedIsNotified /\ ClaimsAreExclusive
<1> SUFFICES ASSUME TypeOK, ClaimInv, [Next]_vars PROVE ClaimInv'
  OBVIOUS
<1> USE DEF TypeOK, NotifiedAtMostOnce, ClaimedIsNotified, ClaimsAreExclusive, Open,
            Goto, ReadGoto, NextTrigger, inputs, alertDb, calls, reads, vars
<1>1. ASSUME NEW d \in Deliveries, Lookup(d) PROVE ClaimInv'
  BY <1>1 DEF Lookup
<1>2. ASSUME NEW d \in Deliveries, ReadPrevious(d) PROVE ClaimInv'
  BY <1>2 DEF ReadPrevious
<1>3. ASSUME NEW d \in Deliveries, Insert(d) PROVE ClaimInv'
  BY <1>3 DEF Insert
<1>4. ASSUME NEW d \in Deliveries, InsertRefused(d) PROVE ClaimInv'
  BY <1>4 DEF InsertRefused
<1>5. ASSUME NEW d \in Deliveries, PutRecorded(d) PROVE ClaimInv'
  BY <1>5 DEF PutRecorded
<1>6. ASSUME NEW d \in Deliveries, ReadOpen(d) PROVE ClaimInv'
  BY <1>6 DEF ReadOpen
<1>7. ASSUME NEW d \in Deliveries, NEW a \in Alerts, Claim(d, a) PROVE ClaimInv'
  <2> USE <1>7 DEF Claim, Mark, Win
  <2>1. NotifiedAtMostOnce'
    OBVIOUS
  <2>2. ClaimedIsNotified'
    OBVIOUS
  <2>3. ClaimsAreExclusive'
    <3>1. triggeredAt[a] = {} /\ pushes[a] = 0 /\ \A e \in Deliveries : a \notin won[e]
      BY DEF Steps
    <3>2. a \in created
      OBVIOUS
    <3>3. won[d] = {}
      OBVIOUS
    <3>4. \A e \in Deliveries : won'[e] = IF e = d THEN {a} ELSE won[e]
      OBVIOUS
    <3>5. \A e \in Deliveries : pc'[e] = IF e = d THEN "notify" ELSE pc[e]
      OBVIOUS
    <3>6. \A c \in Alerts : triggeredAt'[c] = IF c = a THEN {obs[d].at} ELSE triggeredAt[c]
      OBVIOUS
    <3>7. pushes' = pushes /\ created' = created
      OBVIOUS
    <3>8. ASSUME NEW e \in Deliveries, NEW c \in won'[e]
          PROVE  pc'[e] \in {"notify", "failed"} /\ triggeredAt'[c] # {} /\ pushes'[c] = 0
      <4>1. CASE e = d
        BY <3>1, <3>4, <3>5, <3>6, <3>7, <4>1
      <4>2. CASE e # d
        <5>1. c \in won[e] /\ c # a
          BY <3>1, <3>4, <3>8, <4>2
        <5>2. c \in Alerts
          BY <5>1
        <5> QED  BY <3>5, <3>6, <3>7, <4>2, <5>1, <5>2
      <4> QED  BY <4>1, <4>2
    <3>9. ASSUME NEW e \in Deliveries, NEW f \in Deliveries, won'[e] \intersect won'[f] # {}
          PROVE  e = f
      BY <3>1, <3>4, <3>9
    <3>10. \A c \in Alerts : triggeredAt'[c] # {} => c \in created'
      BY <3>2, <3>6, <3>7
    <3>11. \A e \in Deliveries : \A b, c \in won'[e] : b = c
      BY <3>4
    <3> QED  BY <3>8, <3>9, <3>10, <3>11
  <2> QED  BY <2>1, <2>2, <2>3
<1>8. ASSUME NEW d \in Deliveries, NEW a \in Alerts, ClaimLost(d, a) PROVE ClaimInv'
  BY <1>8 DEF ClaimLost
<1>9. ASSUME NEW d \in Deliveries, Notify(d) PROVE ClaimInv'
  <2> USE <1>9 DEF Notify
  <2>1. NotifiedAtMostOnce'
    OBVIOUS
  <2>2. ClaimedIsNotified'
    OBVIOUS
  <2>3. ClaimsAreExclusive'
    OBVIOUS
  <2> QED  BY <2>1, <2>2, <2>3
<1>10. ASSUME NEW d \in Deliveries, Fail(d) PROVE ClaimInv'
  BY <1>10 DEF Fail
<1>11. ASSUME NEW r \in Readers, Read(r) PROVE ClaimInv'
  BY <1>11 DEF Read, CacheHit, CacheMiss, ReadRow, FillCache
<1>12. ASSUME NEW p \in Pairs, Expire(p) PROVE ClaimInv'
  BY <1>12 DEF Expire
<1>13. ASSUME NEW a \in Alerts, CreateAlert(a) \/ DeleteAlert(a) PROVE ClaimInv'
  BY <1>13 DEF CreateAlert, DeleteAlert
<1>14. CASE UNCHANGED vars
  BY <1>14
<1> QED
  BY <1>1, <1>2, <1>3, <1>4, <1>5, <1>6, <1>7, <1>8, <1>9, <1>10, <1>11, <1>12,
     <1>13, <1>14 DEF Next, Continue

(***************************************************************************)
(* What a record call owes, and why a row was marked.                      *)
(***************************************************************************)

\* The test of alerts.ts is the owner's expectation, for either direction.
LEMMA CrossedIsReached ==
  ASSUME NEW w \in Watches, NEW now \in Rates, NEW before \in SUBSET Observations
  PROVE  Crossed(w, now, before) <=>
           Reaches(w, now) \/ \E b \in before : Reaches(w, b.rate)
  BY DEF Crossed, Reaches, Watches

\* An alert owed by a call stays on that call's way until it is settled.
LEMMA DebtsNext ==
  TypeOK /\ ClaimsAreExclusive /\ DebtsAreOnTheirWay /\ [Next]_vars => DebtsAreOnTheirWay'
<1> SUFFICES ASSUME TypeOK, ClaimsAreExclusive, DebtsAreOnTheirWay, [Next]_vars
             PROVE  DebtsAreOnTheirWay'
  OBVIOUS
<1> USE DEF TypeOK, ClaimsAreExclusive, DebtsAreOnTheirWay, Open,
            Goto, ReadGoto, NextTrigger, inputs, alertDb, calls, reads, vars
<1>1. ASSUME NEW d \in Deliveries, Lookup(d) PROVE DebtsAreOnTheirWay'
  BY <1>1 DEF Lookup
<1>2. ASSUME NEW d \in Deliveries, ReadPrevious(d) PROVE DebtsAreOnTheirWay'
  BY <1>2 DEF ReadPrevious
<1>3. ASSUME NEW d \in Deliveries, Insert(d) PROVE DebtsAreOnTheirWay'
  <2>1. obs[d].rate \in Rates
    BY DEF Observations
  <2>2. \A a \in Alerts : MustFire(a, obs[d], previous[d]) =>
          Crossed(watch[a], obs[d].rate, previous[d])
    BY <2>1, CrossedIsReached DEF MustFire
  <2> QED  BY <1>3, <2>2 DEF Insert, MustFire
<1>4. ASSUME NEW d \in Deliveries, InsertRefused(d) PROVE DebtsAreOnTheirWay'
  BY <1>4 DEF InsertRefused
<1>5. ASSUME NEW d \in Deliveries, PutRecorded(d) PROVE DebtsAreOnTheirWay'
  BY <1>5 DEF PutRecorded
<1>6. ASSUME NEW d \in Deliveries, ReadOpen(d) PROVE DebtsAreOnTheirWay'
  BY <1>6 DEF ReadOpen, Triggered
<1>7. ASSUME NEW d \in Deliveries, NEW a \in Alerts, Claim(d, a) PROVE DebtsAreOnTheirWay'
  <2>1. /\ UNCHANGED <<obs, watch, created, stored, previous, owed>>
        /\ \A e \in Deliveries : \A c \in todo[e] : c # a => c \in todo'[e]
        /\ \A e \in Deliveries :
             pc'[e] = pc[e] \/ (e = d /\ pc[e] = "claim" /\ pc'[e] = "notify")
        /\ \A c \in Alerts : c # a => triggeredAt'[c] = triggeredAt[c]
        /\ triggeredAt'[a] # {}
    BY <1>7 DEF Claim, Mark, Win
  <2> QED  BY <2>1
<1>8. ASSUME NEW d \in Deliveries, NEW a \in Alerts, ClaimLost(d, a) PROVE DebtsAreOnTheirWay'
  BY <1>8 DEF ClaimLost
<1>9. ASSUME NEW d \in Deliveries, Notify(d) PROVE DebtsAreOnTheirWay'
  BY <1>9 DEF Notify
<1>10. ASSUME NEW d \in Deliveries, Fail(d) PROVE DebtsAreOnTheirWay'
  BY <1>10 DEF Fail
<1>11. ASSUME NEW r \in Readers, Read(r) PROVE DebtsAreOnTheirWay'
  BY <1>11 DEF Read, CacheHit, CacheMiss, ReadRow, FillCache
<1>12. ASSUME NEW p \in Pairs, Expire(p) PROVE DebtsAreOnTheirWay'
  BY <1>12 DEF Expire
<1>13. ASSUME NEW a \in Alerts, CreateAlert(a) \/ DeleteAlert(a) PROVE DebtsAreOnTheirWay'
  BY <1>13 DEF CreateAlert, DeleteAlert
<1>14. CASE UNCHANGED vars
  BY <1>14
<1> QED
  BY <1>1, <1>2, <1>3, <1>4, <1>5, <1>6, <1>7, <1>8, <1>9, <1>10, <1>11, <1>12,
     <1>13, <1>14 DEF Next, Continue

\* A step marks a row only for a stored observation that reached its target.
LEMMA EvidenceNext ==
  TypeOK /\ CallsHoldRows /\ FiredOnRecordedRate /\ [Next]_vars => FiredOnRecordedRate'
<1> SUFFICES ASSUME TypeOK, CallsHoldRows, FiredOnRecordedRate, [Next]_vars
             PROVE  FiredOnRecordedRate'
  OBVIOUS
<1> USE DEF TypeOK, FiredOnRecordedRate, inputs, alertDb, calls, reads, vars
<1>1. ASSUME NEW d \in Deliveries, NEW a \in Alerts, Claim(d, a) PROVE FiredOnRecordedRate'
  <2>1. obs[d] \in rates /\ watch[a].pair = obs[d].pair
    BY <1>1 DEF Claim, CallsHoldRows
  <2>2. Reaches(watch[a], obs[d].rate) \/ \E b \in previous[d] : Reaches(watch[a], b.rate)
    <3>1. Crossed(watch[a], obs[d].rate, previous[d]) /\ obs[d].rate \in Rates
      BY <1>1 DEF Claim, CallsHoldRows, Observations
    <3> QED  BY <3>1, CrossedIsReached
  <2>3. \E r \in rates : r.pair = watch[a].pair /\ Reaches(watch[a], r.rate)
    BY <2>1, <2>2 DEF CallsHoldRows
  <2> QED  BY <1>1, <2>1, <2>3 DEF Claim, Mark
<1>2. ASSUME NEW d \in Deliveries, Insert(d) PROVE FiredOnRecordedRate'
  BY <1>2 DEF Insert
<1>3. ASSUME UNCHANGED <<rates, watch, triggeredAt>> PROVE FiredOnRecordedRate'
  BY <1>3 DEF Reaches
<1> QED
  BY <1>1, <1>2, <1>3 DEF Next, Continue, Read, Lookup, ReadPrevious, InsertRefused,
     PutRecorded, ReadOpen, ClaimLost, Notify, Fail, CacheHit, CacheMiss, ReadRow,
     FillCache, Expire, CreateAlert, DeleteAlert

(***************************************************************************)
(* The inductive invariant and what follows from it.                       *)
(***************************************************************************)

\* The strengthened invariant holds initially and every step keeps it.
THEOREM InductiveInvariant == Spec => []Inductive
<1>1. Init => Inductive
  BY TypeInit DEF Init, Inductive, OneRowPerObservation, NotifiedAtMostOnce,
     ClaimedIsNotified, FiredOnRecordedRate, AnswersWereObserved, CallsHoldRows,
     ClaimsAreExclusive, DebtsAreOnTheirWay
<1>2. Inductive /\ [Next]_vars => Inductive'
  BY TypeNext, RowsNext, ClaimsNext, DebtsNext, EvidenceNext DEF Inductive
<1> QED
  BY <1>1, <1>2, PTL DEF Spec

\* Any number of racing deliveries stores one row per pair and instant.
THEOREM OneRow == Spec => []OneRowPerObservation
<1>1. Inductive => OneRowPerObservation
  BY DEF Inductive
<1> QED  BY <1>1, InductiveInvariant, PTL

\* Any number of record calls that see an alert open push it at most once.
THEOREM AtMostOnePush == Spec => []NotifiedAtMostOnce
<1>1. Inductive => NotifiedAtMostOnce
  BY DEF Inductive
<1> QED  BY <1>1, InductiveInvariant, PTL

\* Marked before told, and told unless the marking call died in between.
THEOREM ClaimThenPush == Spec => []ClaimedIsNotified
<1>1. Inductive => ClaimedIsNotified
  BY DEF Inductive
<1> QED  BY <1>1, InductiveInvariant, PTL

\* A record call that returns has settled every alert it owed.
THEOREM NoneMissed == Spec => []NoMissedAlert
<1>1. Inductive => NoMissedAlert
  BY DEF Inductive, DebtsAreOnTheirWay, NoMissedAlert
<1> QED  BY <1>1, InductiveInvariant, PTL

\* Every marked row has a stored observation that justifies it.
THEOREM FiredWithCause == Spec => []FiredOnRecordedRate
<1>1. Inductive => FiredOnRecordedRate
  BY DEF Inductive
<1> QED  BY <1>1, InductiveInvariant, PTL

\* The cache and the answers only ever show stored observations.
THEOREM CacheShowsRows == Spec => []AnswersWereObserved
<1>1. Inductive => AnswersWereObserved
  BY DEF Inductive
<1> QED  BY <1>1, InductiveInvariant, PTL

(***************************************************************************)
(* FxService implements AlertContract.                                     *)
(***************************************************************************)

\* The initial state of the service is the contract's.
LEMMA ContractStart == Init => Contract!ContractInit
  BY DEF Init, Contract!ContractInit, Open

\* A step of the service is one step of the contract, or changes nothing the
\* contract speaks of.
LEMMA ContractStep ==
  Inductive /\ [Next]_vars => [Contract!ContractNext]_(Contract!contractVars)
<1> DEFINE Stutter == UNCHANGED Contract!contractVars
           Step == Contract!ContractNext \/ Stutter
<1> SUFFICES ASSUME Inductive, [Next]_vars PROVE Step
  OBVIOUS
<1>0. TypeOK /\ ClaimsAreExclusive /\ CallsHoldRows /\ ClaimedIsNotified
  BY DEF Inductive
<1> USE DEF inputs, alertDb, calls, reads, vars
<1>1. ASSUME UNCHANGED <<rates, watch, created, stored, triggeredAt, won, pushes>>
      PROVE  Stutter
  BY <1>1 DEF Contract!contractVars, Open, Reaches
<1>2. ASSUME NEW d \in Deliveries, Insert(d) PROVE Contract!Record
  BY <1>0, <1>2 DEF Insert, Contract!Record, Open, Reaches, TypeOK
<1>3. ASSUME NEW d \in Deliveries, NEW a \in Alerts, Claim(d, a) PROVE Contract!Spend(a)
  <2>1. obs[d] \in rates /\ watch[a].pair = obs[d].pair /\ Open(a)
    BY <1>0, <1>3 DEF Claim, CallsHoldRows
  <2>2. \E r \in rates : r.pair = watch[a].pair /\ Reaches(watch[a], r.rate)
    <3>1. /\ Crossed(watch[a], obs[d].rate, previous[d])
          /\ obs[d].rate \in Rates /\ watch[a] \in Watches
          /\ previous[d] \in SUBSET Observations
      BY <1>0, <1>3 DEF Claim, CallsHoldRows, TypeOK, Observations
    <3>2. Reaches(watch[a], obs[d].rate) \/ \E b \in previous[d] : Reaches(watch[a], b.rate)
      BY <3>1, CrossedIsReached
    <3> QED  BY <1>0, <2>1, <3>2 DEF CallsHoldRows
  <2>3. won[d] = {}
    BY <1>0, <1>3 DEF Claim, ClaimsAreExclusive, TypeOK
  <2>4. /\ \A e \in Deliveries : won'[e] = IF e = d THEN {a} ELSE won[e]
        /\ \A c \in Alerts : triggeredAt'[c] = IF c = a THEN {obs[d].at} ELSE triggeredAt[c]
        /\ UNCHANGED <<created, stored, watch, rates, pushes>>
    BY <1>0, <1>3 DEF Claim, Mark, Win, TypeOK
  <2>5. {c \in Alerts : Open(c)}' = {c \in Alerts : Open(c)} \ {a}
    BY <2>4 DEF Open
  <2>6. {c \in Alerts : \E e \in Deliveries : c \in won[e]}'
          = {c \in Alerts : \E e \in Deliveries : c \in won[e]} \union {a}
    BY <2>3, <2>4
  <2>7. {c \in Alerts : \E r \in rates : r.pair = watch[c].pair /\ Reaches(watch[c], r.rate)}'
          = {c \in Alerts : \E r \in rates : r.pair = watch[c].pair /\ Reaches(watch[c], r.rate)}
    BY <2>4 DEF Reaches
  <2> QED  BY <2>1, <2>2, <2>4, <2>5, <2>6, <2>7 DEF Contract!Spend
<1>4. ASSUME NEW d \in Deliveries, Notify(d) PROVE Step
  <2>1. CASE won[d] = {}
    <3>1. UNCHANGED <<rates, watch, created, stored, triggeredAt, won, pushes>>
      BY <1>0, <1>4, <2>1 DEF Notify, TypeOK
    <3> QED  BY <1>1, <3>1
  <2>2. ASSUME NEW a \in won[d] PROVE Contract!Tell(a)
    <3>1. a \in Alerts /\ won[d] = {a} /\ pushes[a] = 0
      BY <1>0, <2>2 DEF TypeOK, ClaimsAreExclusive
    <3>2. /\ \A e \in Deliveries : won'[e] = IF e = d THEN {} ELSE won[e]
          /\ UNCHANGED <<created, stored, triggeredAt, watch, rates>>
      BY <1>0, <1>4 DEF Notify, TypeOK
    <3>3. pushes' = [pushes EXCEPT ![a] = 1]
      <4>1. pushes' = [c \in Alerts |-> IF c = a THEN pushes[c] + 1 ELSE pushes[c]]
        BY <1>4, <3>1 DEF Notify
      <4>2. pushes' = [c \in Alerts |-> IF c = a THEN 1 ELSE pushes[c]]
        BY <3>1, <4>1
      <4>3. [pushes EXCEPT ![a] = 1] = [c \in Alerts |-> IF c = a THEN 1 ELSE pushes[c]]
        BY <1>0, <3>1 DEF TypeOK
      <4> QED  BY <4>2, <4>3
    <3>4. \A e \in Deliveries : a \in won[e] => e = d
      BY <1>0, <3>1 DEF ClaimsAreExclusive
    <3>5. {c \in Alerts : \E e \in Deliveries : c \in won[e]}'
            = {c \in Alerts : \E e \in Deliveries : c \in won[e]} \ {a}
      BY <3>1, <3>2, <3>4
    <3>6. UNCHANGED {c \in Alerts : Open(c)}
      BY <3>2 DEF Open
    <3>7. UNCHANGED {c \in Alerts : \E r \in rates :
                       r.pair = watch[c].pair /\ Reaches(watch[c], r.rate)}
      BY <3>2 DEF Reaches
    <3> QED  BY <3>1, <3>2, <3>5, <3>6, <3>7, <3>3 DEF Contract!Tell
  <2>3. \A a \in won[d] : a \in Alerts
    BY <1>0 DEF TypeOK
  <2> QED  BY <2>1, <2>2, <2>3 DEF Contract!ContractNext
<1>5. ASSUME NEW a \in Alerts, CreateAlert(a) PROVE Contract!Create(a)
  <2>1. triggeredAt[a] = {} /\ a \notin stored
    BY <1>0, <1>5 DEF CreateAlert, ClaimsAreExclusive, TypeOK
  <2> QED  BY <1>5, <2>1 DEF CreateAlert, Contract!Create, Open, Reaches
<1>6. ASSUME NEW a \in Alerts, DeleteAlert(a) PROVE Contract!Remove(a) \/ Stutter
  <2>1. CASE Open(a)
    BY <1>6, <2>1 DEF DeleteAlert, Contract!Remove, Open, Reaches
  <2>2. CASE ~Open(a)
    BY <1>6, <2>2 DEF DeleteAlert, Contract!contractVars, Open, Reaches
  <2> QED  BY <2>1, <2>2
<1>7. CASE Next
  <2>1. CASE \E d \in Deliveries : Insert(d)
    BY <1>2, <2>1 DEF Contract!ContractNext
  <2>2. CASE \E d \in Deliveries, a \in Alerts : Claim(d, a)
    BY <1>3, <2>2 DEF Contract!ContractNext
  <2>3. CASE \E d \in Deliveries : Notify(d)
    BY <1>4, <2>3
  <2>4. CASE \E a \in Alerts : CreateAlert(a) \/ DeleteAlert(a)
    BY <1>5, <1>6, <2>4 DEF Contract!ContractNext
  <2>5. CASE UNCHANGED <<rates, watch, created, stored, triggeredAt, won, pushes>>
    BY <1>1, <2>5
  <2> QED
    BY <1>7, <2>1, <2>2, <2>3, <2>4, <2>5 DEF Next, Continue, Read, Lookup, ReadPrevious,
       InsertRefused, PutRecorded, ReadOpen, ClaimLost, Fail, CacheHit, CacheMiss, ReadRow,
       FillCache, Expire
<1>8. CASE UNCHANGED vars
  BY <1>1, <1>8
<1> QED  BY <1>7, <1>8

\* What a student is promised about an alert holds of the service, whatever
\* the calls, failures, repeats and cache losses.
THEOREM ImplementsContract == Spec => KeepsContract
<1>1. Spec => []Inductive
  BY InductiveInvariant
<1> QED
  BY <1>1, ContractStart, ContractStep, PTL DEF Spec, KeepsContract, Contract!ContractSpec
=============================================================================
