------------------------------- MODULE Poller -------------------------------
(***************************************************************************)
(* Scheduled rate polling (backend jobs/fxPoller.ts, jobs/pairs.ts, the    *)
(* Frankfurter source, start and shutdown of server.ts).                   *)
(*                                                                         *)
(* The schedules and the queue live in Redis and outlive the processes.    *)
(* An instance adds the schedule of each configured pair, one call after   *)
(* the other, then a first job for each, then works the queue.  What       *)
(* recording a rate does is FxService's; here it moves `seen'.             *)
(***************************************************************************)
EXTENDS Integers, FiniteSets, Functions

CONSTANTS Instances, FxPairs,
          Slots,         \* the worker's concurrency, as a set of slots
          MaxNews,       \* bound: publications of a pair
          MaxJobs,       \* bound: jobs of a pair that wait, counted up to it
          MaxCrashes,    \* bound: crashes
          MaxFailures    \* bound: failed polls, rejected calls, outages of Redis

ASSUME SomeSlotsAndPairs == IsFiniteSet(FxPairs) /\ IsFiniteSet(Slots)
ASSUME PollBounds == {MaxNews, MaxJobs, MaxCrashes, MaxFailures} \subseteq Nat

VARIABLES
  redisUp,
  schedules,    \* Redis: the pairs that have a schedule
  waiting,      \* Redis: waiting[p], jobs of the pair that wait
  stalled,      \* Redis: stalled[p], jobs whose worker has died
  stage,        \* stage[i]: "down", "starting", "running", "unpolled", "closing"
  toSchedule,   \* toSchedule[i], toRun[i]: pairs still to be added by start
  toRun,
  polls,        \* polls[i][s]: the job in a slot
  news,         \* news[p]: the source's latest publication
  seen,         \* seen[p]: the latest publication recorded
  crashes,
  failures

redisVars == <<schedules, waiting, stalled>>
startVars == <<stage, toSchedule, toRun>>
pollVars == <<redisUp, redisVars, startVars, polls, news, seen, crashes, failures>>

Idle == [phase |-> "idle"]
More(n) == IF n < MaxJobs THEN n + 1 ELSE n
JobsOf(i, p) == Cardinality({s \in Slots : polls[i][s].phase # "idle" /\ polls[i][s].pair = p})

(***************************************************************************)
(* Start: every call waits for Redis, which may still refuse it.           *)
(***************************************************************************)
\* server.ts start: the pairs are what this process is configured with, at least one.
StartPoller(i) ==
  /\ stage[i] = "down"
  /\ stage' = [stage EXCEPT ![i] = "starting"]
  /\ \E pairs \in (SUBSET FxPairs) \ {{}} :
       toSchedule' = [toSchedule EXCEPT ![i] = pairs] /\ toRun' = [toRun EXCEPT ![i] = pairs]
  /\ UNCHANGED <<redisUp, redisVars, polls, news, seen, crashes, failures>>

\* One schedule for each name: a second instance finds it there.
Upsert(i, p) ==
  /\ stage[i] = "starting" /\ redisUp /\ p \in toSchedule[i]
  /\ schedules' = schedules \union {p}
  /\ toSchedule' = [toSchedule EXCEPT ![i] = @ \ {p}]
  /\ UNCHANGED <<redisUp, waiting, stalled, stage, toRun, polls, news, seen, crashes, failures>>

\* runNow; after the last job the worker starts.
RunNow(i, p) ==
  /\ stage[i] = "starting" /\ redisUp /\ toSchedule[i] = {} /\ p \in toRun[i]
  /\ waiting' = [waiting EXCEPT ![p] = More(@)]
  /\ toRun' = [toRun EXCEPT ![i] = @ \ {p}]
  /\ stage' = [stage EXCEPT ![i] = IF toRun[i] = {p} THEN "running" ELSE @]
  /\ UNCHANGED <<redisUp, schedules, stalled, toSchedule, polls, news, seen, crashes, failures>>

\* server.ts catches a rejected call and goes on without a poller.  What was
\* added stays; no worker is made, and none until the process is started again.
Rejected(i) ==
  /\ stage[i] = "starting" /\ redisUp /\ failures < MaxFailures
  /\ failures' = failures + 1
  /\ stage' = [stage EXCEPT ![i] = "unpolled"]
  /\ toSchedule' = [toSchedule EXCEPT ![i] = {}] /\ toRun' = [toRun EXCEPT ![i] = {}]
  /\ UNCHANGED <<redisUp, redisVars, polls, news, seen, crashes>>

(***************************************************************************)
(* The queue, as BullMQ keeps it.                                          *)
(***************************************************************************)
Due(p) ==
  /\ redisUp /\ p \in schedules /\ waiting[p] < MaxJobs
  /\ waiting' = [waiting EXCEPT ![p] = @ + 1]
  /\ UNCHANGED <<redisUp, schedules, stalled, startVars, polls, news, seen, crashes, failures>>

Take(i, s, p) ==
  /\ stage[i] = "running" /\ redisUp /\ polls[i][s] = Idle /\ waiting[p] > 0
  /\ waiting' = [waiting EXCEPT ![p] = @ - 1]
  /\ polls' = [polls EXCEPT ![i][s] = [phase |-> "fetching", pair |-> p]]
  /\ UNCHANGED <<redisUp, schedules, stalled, startVars, news, seen, crashes, failures>>

\* A running worker finds a job whose worker has died.
Requeue(i, p) ==
  /\ stage[i] = "running" /\ redisUp /\ stalled[p] > 0
  /\ stalled' = [stalled EXCEPT ![p] = @ - 1]
  /\ waiting' = [waiting EXCEPT ![p] = More(@)]
  /\ UNCHANGED <<redisUp, schedules, startVars, polls, news, seen, crashes, failures>>

RedisFails ==
  /\ redisUp /\ failures < MaxFailures
  /\ redisUp' = FALSE /\ failures' = failures + 1
  /\ UNCHANGED <<redisVars, startVars, polls, news, seen, crashes>>
RedisBack ==
  /\ ~redisUp /\ redisUp' = TRUE
  /\ UNCHANGED <<redisVars, startVars, polls, news, seen, crashes, failures>>

(***************************************************************************)
(* One job: fetch, record, and the queue is told.                          *)
(***************************************************************************)
Publish(p) ==
  /\ news[p] < MaxNews /\ news' = [news EXCEPT ![p] = @ + 1]
  /\ UNCHANGED <<redisUp, redisVars, startVars, polls, seen, crashes, failures>>

Fetch(i, s) ==
  /\ polls[i][s].phase = "fetching"
  /\ LET p == polls[i][s].pair
     IN polls' = [polls EXCEPT ![i][s] = [phase |-> "recording", pair |-> p, got |-> news[p]]]
  /\ UNCHANGED <<redisUp, redisVars, startVars, news, seen, crashes, failures>>

Record(i, s) ==
  /\ polls[i][s].phase = "recording"
  /\ seen' = [seen EXCEPT ![polls[i][s].pair] = IF polls[i][s].got > @ THEN polls[i][s].got ELSE @]
  /\ polls' = [polls EXCEPT ![i][s] = [phase |-> "ending", pair |-> @.pair]]
  /\ UNCHANGED <<redisUp, redisVars, startVars, news, crashes, failures>>

\* The source refuses, answers nonsense or not within its ten seconds, or
\* recording throws: the job fails and its schedule goes on.
\* (defect: a failed poll takes its schedule with it)
FailUnscheduled(i, s) ==
  /\ polls[i][s].phase \in {"fetching", "recording"} /\ failures < MaxFailures
  /\ failures' = failures + 1
  /\ schedules' = schedules \ {polls[i][s].pair}
  /\ polls' = [polls EXCEPT ![i][s] = [phase |-> "ending", pair |-> @.pair]]
  /\ UNCHANGED <<redisUp, waiting, stalled, startVars, news, seen, crashes>>
Fail(i, s) ==
  /\ polls[i][s].phase \in {"fetching", "recording"} /\ failures < MaxFailures
  /\ failures' = failures + 1
  /\ polls' = [polls EXCEPT ![i][s] = [phase |-> "ending", pair |-> @.pair]]
  /\ UNCHANGED <<redisUp, redisVars, startVars, news, seen, crashes>>

EndJob(i, s) ==
  /\ polls[i][s].phase = "ending" /\ redisUp
  /\ polls' = [polls EXCEPT ![i][s] = Idle]
  /\ UNCHANGED <<redisUp, redisVars, startVars, news, seen, crashes, failures>>

(***************************************************************************)
(* The end of a process.                                                   *)
(***************************************************************************)
\* SIGTERM is handled once start has ended; before, it is a crash.
Close(i) ==
  /\ stage[i] \in {"running", "unpolled"}
  /\ stage' = [stage EXCEPT ![i] = "closing"]
  /\ UNCHANGED <<redisUp, redisVars, toSchedule, toRun, polls, news, seen, crashes, failures>>

Gone(i) ==
  /\ stage' = [stage EXCEPT ![i] = "down"]
  /\ toSchedule' = [toSchedule EXCEPT ![i] = {}]
  /\ toRun' = [toRun EXCEPT ![i] = {}]
  /\ polls' = [polls EXCEPT ![i] = [s \in Slots |-> Idle]]
  /\ stalled' = [p \in FxPairs |-> stalled[p] + JobsOf(i, p)]
  /\ UNCHANGED <<redisUp, schedules, waiting, news, seen, failures>>

\* worker.close waits for the jobs at work.
\* (defect: the process exits under its jobs)
ExitAtOnce(i) ==
  stage[i] = "closing" /\ Gone(i) /\ UNCHANGED crashes
Exit(i) ==
  stage[i] = "closing" /\ (\A s \in Slots : polls[i][s] = Idle) /\ Gone(i) /\ UNCHANGED crashes

Crash(i) ==
  stage[i] # "down" /\ crashes < MaxCrashes /\ crashes' = crashes + 1 /\ Gone(i)

PollInit ==
  /\ redisUp \in BOOLEAN
  /\ schedules = {}
  /\ waiting = [p \in FxPairs |-> 0] /\ stalled = [p \in FxPairs |-> 0]
  /\ stage = [i \in Instances |-> "down"]
  /\ toSchedule = [i \in Instances |-> {}] /\ toRun = [i \in Instances |-> {}]
  /\ polls = [i \in Instances |-> [s \in Slots |-> Idle]]
  /\ news = [p \in FxPairs |-> 0] /\ seen = [p \in FxPairs |-> 0]
  /\ crashes = 0 /\ failures = 0

Works(i, s) == Fetch(i, s) \/ Record(i, s) \/ Fail(i, s) \/ EndJob(i, s)
Starts(i) == StartPoller(i) \/ \E p \in FxPairs : Upsert(i, p) \/ RunNow(i, p)
Takes(p) == \E i \in Instances, s \in Slots : Take(i, s, p)

PollNext ==
  \/ RedisFails \/ RedisBack
  \/ \E p \in FxPairs : Due(p) \/ Publish(p) \/ Takes(p)
  \/ \E i \in Instances :
       \/ Starts(i) \/ Rejected(i) \/ Close(i) \/ Exit(i) \/ Crash(i)
       \/ \E s \in Slots : Works(i, s)
       \/ \E p \in FxPairs : Requeue(i, p)

PollSpec == PollInit /\ [][PollNext]_pollVars

(***************************************************************************)
(* Properties.                                                             *)
(***************************************************************************)
\* Work is of a pair; what start still has to run includes what it still has
\* to schedule, and an instance that has nothing to add is not starting.
PollTypeOK ==
  /\ redisUp \in BOOLEAN /\ schedules \subseteq FxPairs
  /\ waiting \in [FxPairs -> 0..MaxJobs] /\ stalled \in [FxPairs -> Nat]
  /\ \A i \in Instances :
       /\ stage[i] \in {"down", "starting", "running", "unpolled", "closing"}
       /\ toSchedule[i] \subseteq toRun[i] /\ toRun[i] \subseteq FxPairs
       /\ (toRun[i] # {}) = (stage[i] = "starting")
       /\ \A s \in Slots : polls[i][s].phase # "idle" => stage[i] \in {"running", "closing"}
  /\ \A p \in FxPairs : seen[p] <= news[p] /\ news[p] <= MaxNews

\* Only a process that died leaves jobs behind, at most those it had in hand:
\* a shutdown ends with no job of its own (fxPoller.ts close).
LeftByCrash ==
  SumFunction(stalled) <= crashes * Cardinality(Slots)

\* Whatever the source publishes of a pair that was ever scheduled is seen,
\* across failed polls, outages, crashes and restarts with other pairs, unless in
\* the end every instance is one whose start was refused and which nothing
\* restarts (fxPoller.ts: polling is the backstop, the schedule survives a
\* restart; the catch of server.ts).
PublishedIsSeen ==
  []<>(\E i \in Instances : stage[i] # "unpolled") =>
    \A p \in FxPairs : \A n \in 1..MaxNews :
      (p \in schedules /\ news[p] = n) ~> (seen[p] >= n)
=============================================================================
