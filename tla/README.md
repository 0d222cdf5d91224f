# FundEd: formal models

FundEd helps international students in Canada with four things: the weekly work-hour cap of their
study permit, commitments in a home currency, exchange-rate alerts, and a plan of when to send
money home. It is a Next.js web app, an Express API over MongoDB, Redis and a BullMQ queue, a
Python optimizer, and a daily export into a Postgres warehouse.

This directory holds TLA+ modules translated from the source, the TLC instances that check them,
and theorems checked by TLAPS. Part 1 lists the system, part 2 what is modelled, part 3 what is
checked, part 4 what is proved, part 5 what the code does against its word, part 6 what is left out
and what could come next.

## 1. The system

| Component | Source | State | Operations | What makes it correct | Modules |
| --- | --- | --- | --- | --- | --- |
| FX service | `backend/src/fx` | `fx_rates`, `fx_alerts`, the Redis entry of a pair | `record` (from poller and webhook), `latest`, create and delete an alert | one row per observation, an alert fires once, none is missed, the cache never invents a rate | `FxService`, `AlertContract` |
| FX poller | `backend/src/jobs`, `fx/sources`, `server.ts` | schedules and jobs in Redis | start, run a job, shut down | what is published is seen, across outages and restarts | `Poller` |
| Realtime notifier | `backend/src/realtime`, `web/src/lib/useFxAlerts.ts` | sockets and rooms | connect, join, emit | a pushed alert is shown in the end | `FxService`, `Dashboard` |
| Accounts | `backend/src/auth` | the `users` row | register, login (with hash upgrade), password change, email-only sign-in | one account per email, one successful sign-up | `Accounts` |
| Sign-in limits | `backend/src/auth/rateLimiter.ts` | counters in the memory of a process | ask, count, reset, sweep | refused exactly while a window is full; guesses are bounded | `SignInLimits` |
| Profile | `backend/src/profile`, `web/src/app/profile` | permit, budget, `onboardedAt` | read, patch by section | setup is finished only with a permit; a form's details stay in their account | `Accounts`, `ShiftLog`, `Session` |
| Work-hour compliance | `backend/src/compliance` | none | split a shift, weekly usage, current week, would-breach | each hour counts once, in its week | `WorkHours`, `WeekSplit`, `ShiftLog` |
| Shift log | `backend/src/shifts`, `web/.../ShiftPanel.tsx` | the `shifts` rows, the form's pending shift | check, confirm, save, delete | over the cap only knowingly | `ShiftLog` |
| Obligations | `backend/src/obligations` | the `obligations` rows | add, remove, expand into dates | every occurrence of a window, on a real date | `Occurrences`, `Planning` |
| Planning | `backend/src/planning`, `backend/src/optimizer`, `PlanPanel.tsx` | none | plan, estimate the saving | what is shown answers the form; an optimizer outage disables one feature only | `Planning` |
| Optimizer | `optimizer/app` | none | plan, baseline, saving | obligations are covered by their dates, the buffer is kept | `Transfers` |
| Optimizer secrets | `optimizer/app/secrets.py` | the kept key, a lock | get, read from the vault | requests are judged by a current key, in time | `KeySource` |
| Deadlines | `backend/src/deadlines`, `DeadlinePanel.tsx` | the `deadlines` rows | add, complete, reopen, remove, status | a 404 means gone | `Dashboard` |
| Dashboard query and panels | `backend/src/graphql`, `web/.../dashboard` | the Apollo cache | query, refresh, panels' writes | at rest, panels show what the server has | `Dashboard` |
| Notification bell | `NotificationBell.tsx`, `notifications.ts` | seen items in localStorage | open | what was seen is not new again | `Dashboard` |
| Onboarding wizard | `web/src/store/budgetWizard.ts`, `web/src/app/onboarding` | the Redux store, the counter of saved commitments | fill, move, add, remove, finish | no step without its data, finish saves everything once | `Onboarding` |
| Web session | `web/src/lib`, the sign-in and sign-up pages | token in localStorage, memory of a tab | sign in, up and out, load a page, save | a page is of who is signed in; no failure ends a session | `Session` |
| Analytics export | `analytics/funded_elt`, `analytics/dags` | raw tables, marts | copy collections, load rates, check freshness, build | copies are faithful, weekly hours are whole and of known students, late rates arrive | `Warehouse` |
| Analytics transforms | the other marts of `analytics/dbt/models`, `analytics/spark` | none | SQL, a Spark job | | not modelled |
| Composition, infrastructure | `backend/src/http`, `server.ts`, `infra`, `docs` | none | wiring, start, shutdown | | start and shutdown in `Poller` |

**How they interact.** The web app calls the API. Poller and webhook both end in
`FxService.record`, which writes Mongo, then Redis, then pushes over a socket. `capFor` reads the
permit that the profile patch wrote whenever shifts are judged. Onboarding drives the profile and
the obligations routes in one sequence of requests. Planning reads obligations and stored rates and
calls the optimizer over HTTP. A dashboard is one query over all collections, refreshed by panels
and pushes. The export reads the database beside all of them.

**What is hard.** No route holds a transaction across awaits: every handler reads, decides and
writes in separate database operations, in one or more API instances. What keeps them right is a
unique index here and a conditional update there, and these are the places the models are about.
Redis may lose a write, providers repeat and reorder deliveries, a process may die between the claim
of an alert and its push, an answer may be lost after its request was carried out, and a page may
be replaced by another over the same memory. Tabs share one token and nothing else. The export copies
collections that are written while it reads. Two pure algorithms have boundary cases that tests
written with round numbers do not meet: cutting a shift at local Mondays, and moving a date by months.

## 2. What is modelled

A module names the code it comes from, a variable says what it stands for, and an action is one
stretch of a handler or a page from one await to the next. Common to all of them: `UNCHANGED` lists what
a stretch leaves alone, a value that may be missing is a set with at most one element, a failure may end
a request at any await and leaves what it wrote, and a history variable (marked so) records what
a property has to remember. Bounds are constants or a `budget`, marked `bound`. Definitions marked
`(defect: ...)` repeat the definition under them with one fault. No specification uses them; they
record which fault each property is there to notice.

### FxService and AlertContract

`FxService` models `record` (look the observation up, read the previous row, insert, put into the
cache, read the open alerts, claim and push one after another), `latest` (cache, row, fill),
creation and deletion of alerts, and the time to live of a cache entry. `RedisMayFail` says whether Redis
can be out of reach of a get or a put. A *delivery* is one call of
`record`; which observation it carries is chosen at the start, so repeats and deliveries out of order
are included. `owed` is a history variable: the alerts that must fire because of an observation,
decided when its row is inserted, in words that do not use the code's `crossed`.

`AlertContract` is the promise in the abstract, with no rows, calls or cache: an alert waits, its
target is reached, it is spent once, its owner is told at most once. `FxService` implements it
under the mapping at the end of that module (`KeepsContract`): an alert is *waiting* while its row is
open, *due* while some call holds the claim on it.

The webhook's signature check and validation are left out, since they only decide whether `record`
is called. The previous rate, as the code has it, is the newest row of the pair at that moment, also
when the observation is older than that row.

### WorkHours, WeekSplit and ShiftLog

`WorkHours` has the calendar as a parameter: `Mondays` are the instants at which the server's local
calendar opens a week, `WeekLength` the constant the code adds to one. `WeekSplit` is the loop of
`splitAcrossWeeks` as a machine, a pass being an action, so that whether it ends is a question at all.
`ShiftLog` builds the usage operators on the same cut and adds the form: submissions from one window or
several, each checking, perhaps being confirmed or cancelled, saving, failing, or losing the answer of its save, while
rows are deleted and the cap changes. A notice can be cancelled while its save is in flight, and another shift's takes its
place. The two parallel reads of the check may come back in either order. Its reference (`Overlap`, `Worked`,
`OverCap`) computes the time worked in a week from the ends of the shift, with no loop.

The instants of the model are whole units, whereas the code adds hours up as floating-point numbers, compares the sum with the
cap as it is, and rounds what it reports to two decimals. `Round2` is that rounding, to the nearest `Hundredth`, a parameter in
units. A floating-point sum is off by far less than a unit of time, so its error can be seen in two places only: where the sum is
the cap, and where it is half a hundredth from the next. `inexact` says that there it goes the wrong way. A sum of one piece or two is
never found above an integer cap it equals, for the cap is a double itself and rounding is monotonic; one of three may be (13 h 20 min, 8 h and 2 h
40 min give 24.000000000000004), which is why `SumIsOver` counts pieces.

### Accounts and SignInLimits

`Accounts` is one email address and its one row. The handlers of `/register`, `/login`, `/password`, `/local` and
`PATCH /me` are processes that read the row once and may write later. `old` says that the stored
hash has cheaper parameters than the current default, which makes a sign-in write. Prisma's upsert in `/local` is
one step. Every password is acceptable, and a limiter is the possibility of a 429 before anything is read.

`SignInLimits` is what decides the 429: the two counters of the sign-in route, by email and by address, with
fixed windows, an expired window dropped when it is looked up, the sweep once too many keys are tracked,
and the reset of the email's counter alone. The route asks first and counts a failure after it
has checked the password, so attempts in flight pass the question together.

### Onboarding

The wizard's store, the page with its counter `posted`, and the server's rows. `finish` is one PATCH,
a POST per obligation not yet counted, one PATCH. A request may fail before the server acts
(`RequestFails`), after it (`PostLost`, `Complete`), or with a refused token (`Unauthorized`), which
leaves for the sign-in page without a reload, so the next page (`Mount`) starts its counter anew over
the old store. `Reload` starts both anew. What a field holds is reduced to whether its step is complete.

### Occurrences, Transfers and Planning

`Occurrences` takes the calendar as a parameter, the days on which months begin; instants are halves of
days, since a due date is stored at noon by the web, at midnight by other clients, and the planning window closes
at a midnight. `Expand` is the code's loop: `Cursor` is where its cursor is at each visit, `Visits` which visits there are.
`BillDays` gives the same days from the months alone.
`Transfers` is the optimizer: which requests it refuses, the constraints (`Covers`, `KeepsBuffer`, `AboveFloor`),
the objective, the rounding of the report, and the monthly baseline. A report files each transfer under its period, so
that they can be counted and summed as sets; the code's list has them in the order of the periods. What CP-SAT finds is a choice: any schedule that
meets the constraints, one of the cheapest when it says OPTIMAL, none when the time limit passes. Both scales of the
code (10^6 for rates, 10^4 for fees) are parameters.

`Planning` is one panel, the handler it is waiting for and the optimizer's calls. `asked` is the key the
closure of `build` or `estimate` holds while its request is out; `plan` and `saving` keep the last results with their keys, and
`for`, history, the request a plan answers. The two calls of a plan end in either order, each with an answer, a 422 or
nothing. An estimate takes one step per simulated path. A refused token, which leaves the page, is not modelled here. The
form's bodies are valid ones: for any other the button is disabled. Daylight saving, under which
adding 24 hours to a midnight does not give the next one, is left out: a day is a number. So are currencies.

### Poller and KeySource

`Poller` has what Redis keeps (schedules, jobs that wait, jobs whose worker died) and what an instance has in memory: a start adds
the schedule of each pair it is configured with, one call after the other, then a first job for each, then works. Any of these
calls may be rejected (`Rejected`): `server.ts` catches that and stays up without a poller, and nothing starts one until the
process itself is started again. A job fetches, records and ends; the source may refuse, answer nonsense or run into its ten
seconds. Redis may be away, a process may crash at any point, a restart may have other pairs. What BullMQ does with the queue is
external, modelled from how `fxPoller.ts` uses it.

`KeySource` is `ApiKeySource.get` with the route that uses it: the key from the environment, else the kept one, else
the vault, read behind a lock by one request at a time, stamped before it is read, and kept for `CacheSeconds`. Reading takes
time, may fail, and the vault's key may be rotated while it is under way.

### Dashboard

One student, one tab. The rows on the server; the dashboard query, whose resolvers read the kinds of rows one by
one between other people's writes; the Apollo cache; the panels of deadlines, alerts and obligations with their requests, double
clicks included; the socket with its room; the bell. A refresh asked for while the query is in flight is that query,
because Apollo sends equal queries once. Another device writes too (`Elsewhere`) and days pass (`Midnight`).
`excused` is history: the kinds whose latest change nothing told the tab to ask about. The button that removes an alert is always on in the
model: the panel keeps one id of an alert being removed, which another removal or an answer resets.

### Session

Two things are shared by the tabs of a browser, the token and the server; a tab has its page, the profile the page was
given, and the Apollo cache, which lives until the next full load. Each page asks who is signed in; requests carry the token
stored when they were sent; a soft navigation leaves them in flight and their answers still do what the code does
outside of React (clear the token on a 401, navigate). A 401 inside `useRequireProfile` moves softly, a sign-out loads
anew. `overtaken` and `tainted` are history: that another tab signed in since the page asked, and that the tab's memory
has outlived a session.

### Warehouse

The run of a day as Airflow orders it: two loads side by side with their retries, the freshness check, the build. A load of the
application copies collection by collection through a cursor that yields documents as they are when it reaches them, and commits each
collection by itself, refusing an empty copy over a table with rows. A load of rates upserts a window ending on the run's
day. A document is the time it was written, a day's rate the number of its publications. The application writes and the
source publishes, corrects and stalls meanwhile; a load may meet an outage, or a database that answers with
nothing (`wrong`).

`dbt build` holds back a model only when a test failed that is upstream of it. A relationships test has two parents and holds back
what has both upstream, so a row without its student fails the test and the run, but not the facts: `fct_fx_alerts` and
`fct_work_shifts` do not read `stg_users` and are built with the row. `mart_weekly_work_hours` reads it, and waits. `Upstream`
says which raw tables a mart is made from, `Rows` what its SQL makes of them (the hours join users to facts and drop who is
missing), `TestsPass` which tests hold it back. An alert that fired while its collection was being copied is later than the copy's
stamp, fails the test of the alerts' times, and holds the alerts back (`late`, the alerts written after the stamp that had fired).

## 3. What is checked

`MC*` modules give a specification small values; the other runs take a module as it is.

| Run | Instance | Shows |
| --- | --- | --- |
| `fx` | 2 deliveries, 1 reader, 1 alert, 1 pair, 2 instants, 2 rates | no interleaving, repetition, reordering or failure duplicates a row or a push, marks an alert without cause, or misses one; every step is one of the contract's; an owed alert is settled |
| `fx_stale_cache` | 2 deliveries with different rates, 1 reader, a Redis that answers every call | **violated**: a read at rest is answered an older number than the newest row's |
| `week_split_dst` | 4 weeks of 4 units, the second a unit longer | **violated**: the loop stands still at the end of the longer week |
| `student_data` | accounts: 3 requests, 2 passwords; shifts: 2 submissions in 2 windows, 3 weeks of 3 units, caps 2 and 8, a hundredth of an hour of 2 units, a lost answer; setup: 3 commitments, a lost answer, a page mounted again | one row, one sign-up, no setup without a permit; usage is the time worked but for the rounding, and fits the breach reported; what the check lets pass stays within the cap while nobody else writes, and it asks only where the cap is reached; a breach is stored only when confirmed and nothing twice without a lost answer; the wizard's rules hold and each commitment is saved, once but for what explains more |
| `accounts_rehash` | 2 requests | **violated**: a sign-in undoes a password change |
| `onboarding_retry` | 2 commitments, 1 lost answer | **violated**: a retry saves a commitment twice |
| `planning` | 2 forms, 2 obligations, horizon of 3 days over a month's end, 2 changes, 1 path | what is shown answers the form, keeps its buffer each day, pays its bills, beats sending monthly; all bills are asked for; every attempt ends |
| `planning_month_end` | 1 obligation due on a day the next month lacks | **violated**: its bill leaves the month |
| `instances` | shifts between any two of 9 instants of four-unit weeks; 1 poller, 2 pairs, 1 crash, 2 failures; 2 emails behind 1 address, limits 2 and 3, 6 sign-ins; 2 requests, 2 keys, kept for 2 of 3 seconds, 1 bad read | a shift is cut exactly; only crashes leave jobs behind and what is published is seen unless in the end every process is up without a poller; a sign-in is refused exactly while its window is full; requests are judged by a current key and answered |
| `dashboard` | 1 deadline, 1 alert, 1 obligation, one of them new, 2 requests each, 3 days, 3 events | at rest panels are fresh but for what nobody told the tab, a 404 means gone, what was seen is not new again, a pushed alert is shown |
| `session` | 2 tabs, 2 students, one set up, 2 requests a tab, 5 events | pages and data are of who is signed in, a form's details stay home, no failure ends a session, no page waits for ever |
| `warehouse` | 2 students, users, shifts and alerts, 3 days, lookback 1, 1 retry, 3 events | copies are faithful, builds see one run's copies, weekly hours are of known students and of all shifts in the facts, a row without its student is gone or has one by the next build, loads fail only for an emptied collection or a fault, late rates arrive and a stall is noticed |

**Two runs have several parts.** `student_data` and `instances` hold specifications that share no
variable. A variable `part` says which of them a behaviour is of; the others keep an initial state. So the run explores each
part by itself, not their product, and a property of a part is checked as it would be in a run of its own. Each of them also
extends the modules whose assumptions TLC has to evaluate.

**Invariants in groups.** A property that is a conjunction is named for what its parts have in common; the
parts are definitions with comments of their own just before it (`RulesHold` is `ShownStepIsReachable` and `SetupIsWhole`,
`EachSavedOnce` is `NothingSkipped` and `DuplicatesAreExplained`, `StoredKnowingly` is `BreachNeedsConfirmation` and
`RowsAreExplained`, `ScheduleHolds` is `ScheduleKeepsBuffer` and `SchedulePaysBills`, `LimitsHold` is `RefusedByWindow` and
`GuessesAreBounded`, `KeysAreCurrent` is `JudgedByCurrent` and `FailsClosed`, `PagesAreOwn` is `ShownIsSignedIn` and
`DetailsStayHome` with the types, `Consistent` of `Warehouse` and of `Dashboard` are the types with the relations between tables, and between
requests and rows, `RatesAreCurrent` is `LateRatesArrive` and `StallIsNoticed`).

**Excuses are part of the statements.** Where the code has a window it does not close, a property says what still holds outside of
it and names the window: `CheckKeepsTheCap` (somebody else wrote meanwhile), `UsageIsWhatWasWorked` (an answer of a save was
lost), `PublishedIsSeen` (for ever, every instance is one whose start was rejected), `EachSavedOnce` (a lost answer, a page
mounted again), `FreshAtRest` (`excused`), `SeenStays` (an opening that did not list the notice), `DataIsOwn` (`tainted`),
`PagesAreOwn` (`overtaken`), `TokenLostForCause` (its causes). Part 5 lists what the windows mean for a student.

**Why the bounds are enough to be interesting.** Two deliveries let one call insert between
another's read of the previous row and its insert, or meet an alert the other has claimed; two instants
and two rates include a repeat, an older and a newer observation, and both sides of a target; more deliveries are covered by
the proofs. Two submissions are one that checks and one that writes in between, in the same window or another; shifts
lie in one week, touch two or span them; the caps are one that a shift of two units reaches and one that two long shifts pass, and a hundredth of two
units has a half, so that a week may be over its cap by less than is shown. Three requests are two that race
and one that comes before, between or after. Three commitments are one saved, one failing and one
to come. A horizon of three days with two due dates has a split forced by the buffer, by the flat fee and
by the smallest transfer, a form that cannot be served, and more bills than a request may carry. Two pairs with one slot make one
pair's job wait for the other's failure; two failures are an outage and a failed poll, a crash comes anywhere between. Two emails
behind one address make the address' counter fill before the emails'; a window of two instants in four closes, and opens again.
Two tabs and two students are all a token can be shared by; five events are two sign-ins, an expiry and two clicks, or
a sign-out, a sign-in and what is still in flight. Three events of the warehouse are a write, a correction and a fault, over two full runs
and their retries. Symmetry is used for interchangeable requests, passwords, submissions and windows, in a run without
liveness only. Deadlock is not checked: each instance has finitely many calls, days or events and stops when they are done.

**Fairness.** Nothing makes a student act, a delivery come, an await fail, a day pass, a source publish or a process crash. What is assumed:

* `FxService`: a call past its first lookup goes on or fails, a read goes on (Node resumes a settled await). Weak fairness each.
  That entries expire is not assumed.
* `WeekSplit`: a synchronous loop makes its next pass.
* `Planning`: the handler goes on, which the timeouts of the optimizer client grant it, and its answer reaches the page.
* `Dashboard`: a query that is sent is resolved and answered, unless it fails; a push under way arrives, unless the connection
  drops.
* `Session`: among the requests in flight some is answered in the end, be it with a failure.
* `Poller`: a process that is down is started again and its calls proceed, or are rejected, while Redis is up; Redis comes back, a
  schedule's job comes due, a job at work goes on or fails, a shutdown ends (weak); and a pair's job is taken in the end (strong,
  since slots and Redis come and go): the queue is first in, first out, and not every worker is stopped for ever before it takes a
  job. Nothing starts a process again that is up without a poller.
* `KeySource`: a request at the lock gets it in the end (strong, since the lock comes and goes), and a read of the vault ends
  (weak, by the timeout of `urlopen`).

`Accounts`, `ShiftLog`, `Onboarding`, `SignInLimits` and `Warehouse` state safety only.

## 4. What is proved

Eight modules hold theorems, one of them (`SharedLemmas`) only lemmas the others cite. TLC first found each invariant to
hold on the instance above; the proofs are for every value of the constants that meets the assumptions named in the
component's module. Where the text says *types*, a theorem states the type invariant too.

**`FxServiceProofs`**, for any calls, readers, alerts, pairs, instants and rates; the assumptions are `NumbersAreNatural` and `RedisFailsOrNot`.
`InductiveInvariant` is the conjunction `Inductive`, which the run `fx` checks too. The safety properties are not inductive alone: that
an alert is pushed once rests on claims being exclusive (`ClaimsAreExclusive`: two calls never hold one
alert, and a held alert is marked and not yet pushed), that none is missed rests on where an
unpaid debt can be (`DebtsAreOnTheirWay`: before the read of the open alerts, or in the list of a call
still working it off), that a mark has a cause rests on what calls remember still being stored
(`CallsHoldRows`). `TypeCorrect`, `OneRow`, `AtMostOnePush`, `ClaimThenPush`, `NoneMissed`, `FiredWithCause` and `CacheShowsRows`
follow; the lemma `CrossedIsReached` states that the code's `crossed` is the owner's view
of it. `ImplementsContract` is the refinement, initial states and each action in turn.

**`StudentDataProofs`** has the three parts of `MCStudentData`, and at its end the composition (`DataIsTyped`).

* Accounts, for any requests and passwords: `OneSignUp` and `SetupHasPermit`, with the types. The invariant adds that a claim of
  an existing row only happens where the email-only sign-in is on, that a 201 means that a row is stored, and that a patch about
  to finish setup without bringing a permit has read a row that has one (`PermitWasRead`), which no request takes away.
* The shift log, for any submissions, windows, caps and calendar under `WeeksCover` (regular weeks, and every worked instant lies
  in one). `UsageIsRight`: what the loop of `splitAcrossWeeks` adds up for a week is what the shifts worked in it, within half a
  hundredth of an hour, a week over its cap is reported as breached, one below it never is, and what remains is not positive in a
  breach. The lemma `PiecesAreParts` says what the loop gives, by induction on the time still to cut; adding the pieces up is the
  same as adding the overlaps up shift by shift (`HoursAreWorked`). `RoundedIsNear` bounds the rounding and keeps its sign, and
  `OverIsAtTheCap` what a comparison with the cap can say. A shift counts once because a submission without a lost answer has one
  row (`OneRowOfEach`, `LoggedOnce`). `CheckIsRight`: an undisturbed submission is asked about only if a week it touches reaches
  the cap, and what is saved unasked breaks none. The invariant says what an undisturbed submission has read (`ReadsHold`), that a
  breach seen is confirmed from the save on (`SavedKnowingly`), which needs that nothing is confirmed before its check is answered
  (`CheckComesFirst`) and that a window has one notice and one request (`OnePerWindow`), and counts saves (`SavesCounted`).
  `NothingUnknown` follows.
* The wizard, for any commitments, lost answers and mounts: `WizardRulesHold` and `CommitmentsAreSavedOnce`, with the types. The
  invariant says that the list has no commitment twice, that those before the counter are saved (`PostedIsSaved`), and those after
  it at most as often as answers were lost or pages mounted (`WaitingIsOwed`), so that the next POST keeps the bound.

**`InstancesProofs`** has the parts of `MCInstances` and their composition (`PartsAreTyped`).

* The cut of a shift, for every calendar, week length and set of shifts in which no local week is shorter
  or longer than `WeekLength`: it is exact (`SplitIsExact`) and each pass advances (`PassAdvances`). The violated run
  is an instance that breaks the hypothesis. `SplitInv` adds to `CountedInItsWeek` where the cursor is.
* The poller, for any instances, slots and pairs: jobs are left in Redis by crashes alone, a slot's worth each. `PollInv` has the
  types, and that a job has a slot only in an instance that runs or closes, so a crash leaves no more than the slots hold.
* The sign-in limits, for any emails, addresses, limits and sign-ins in flight: `GuessesAreLimited`. The reference of the
  property is a recursion over all failures (`LastWindow`); the invariant relates the counter to it (`WindowIsKept`: it is that
  window, or nothing once that window ended) and bounds what is in flight (`InFlightIsBounded`), so that each failure, in flight
  or counted, is one sign-in of the window.
* The optimizer's key, for any requests, keys and times: `KeysStayCurrent`. The invariant says that a key on its way or kept was held by the
  vault at its stamp or later, which is why the stamp is taken before the read, and that one request holds the lock. Assumptions: `KeyTimes`,
  `NoKeyIsNone`.

**`PlanningProofs`**, for any calendar, obligations, forms, rates and numbers of paths.

* `ShownFits`: what is shown beside a form answers it. The invariant, `AnswersFit`, adds that the answer on its way has the key of
  the attempt, which stands still because nothing is under way once the button is free.
* `PlanIsTyped`, `ScheduleIsKept` and `OptimalIsBest`. Of each plan shown the invariant `Attempt` says which request it answers,
  that this is one the form makes of some obligations, and that every number on the page is computed from one answer of `Solve` to
  it (`FiledFits`, `Computed`). That needs what the two calls returned to belong to the one request of the attempt (`CallsFit`),
  which needs that nothing of an earlier attempt is left when one starts (`StageFits`).
* The rest is about requests and schedules. `BufferIsKept`: the constraint is on exact sums of fees, scaled, and each fee reported
  is rounded down, so the sum of the fees reported is no larger (`CostIsPaid`) and every day ends above the buffer.
  `BillsArePaid`: what arrives is rounded down transfer by transfer, so less than a unit for each is missing; the constraint is on
  due dates only, so for any other day the latest due date before it is used. `OptimalIsCheaper` compares exact costs
  (`CheapestIsLeast`) and then rounded ones (`CostIsReported`).
* `AddMonthsKeepsDay`: in any calendar, moving by months keeps a bill's day and time where the month has that day.
* `EveryBillIsAsked`: the loop over months against the formula. At visit n the cursor is on the bill's day of the n-th of its
  months (`CursorComes`, by induction over the visits), so the visits that are made are those months up to the window's end
  (`VisitsAreMonths`), and what is expanded falls on the formula's days (`ExpandedDays`). Two obligations never ask for each
  other's bills, since their ids differ, and the list made of the set has each bill once (`AskedOnEachDay`).

Assumptions: `CalendarAdvances`, `ScalesArePositive`, and `PlanningConstants`, which says that simulated rates are positive, as
the schema of the optimizer demands of every rate, and that a form has a horizon of a day or more. `EveryBillIsAsked` also needs
`ObligationsFit`: finitely many obligations with different ids, each first due within the calendar, and a calendar and a loop
limit that are long enough for the window (`LongEnough`). In the code the limit is 500, its guard against a corrupt cadence: a
monthly bill first due more than 41 years before the window ends would be cut off, and is outside the theorem.

**`DashboardProofs`**, for any rows, clicks, requests and visits. `GoneIsGone`: the types, and that a 404 is only answered for a
row that is gone. A row that was shown must exist (`RowsExist`), and a row not yet there is being added by one request
(`OneAdds`). `PanelsAreFresh`: as long as a kind is not excused each row of it is shown as it is, or the query in flight has it
right or will still read it, or something is under way that will refresh it (`Covered`); at rest only the first is left.
`BellRemembers`: what was shown and no later opening lacked is in what was seen, in memory and in storage (`Remembered`).
Assumptions: `Apart`, `Days`.

**`SessionProofs`**, for any students, tabs, and number of requests and events: `PagesStayOwn` and `DataStaysOwn`. The invariant
has, for each tab, which requests its page can have alive in which status (`Shape`), that what they were sent with is the stored
token until the tab is overtaken (`Current`), that a form being filled belongs to it (`Forms`), and that until it is tainted
everything in the tab, what is in flight included, is of one student (`Own`). `TokenNotLost` takes the steps that empty the
browser's token one by one; a request that is answered as its page is left may be equal to one already left behind, and then its
live twin is the one that ends (`LeavingEnds`).

**`WarehouseProofs`**, for any students, collections, ages, lookback and retries: all safety properties of the run. For the tables
the invariant says that what an attempt has read was there since it began (`AttemptSees`) and that a copy of the users, finished
or not, has every user the warehouse already has (`UsersStay`); for the rates, that a rate in hand is the source's unless it was
published on that very day (`RatesInHand`), which is why an older run's promise survives a newer load. For the marts it says that
the student of each row is in the application for good, so that no copy of the users begun later misses it (`MartsAreOwned`).
`HoursStayWhole`: hours are built only if no shift lacks its student, and then the join drops none. `RatesStayCurrent` and
`SnapshotsAreFaithful` do not need the order of the copies. `BuildsAreConsistent` does: users are copied first, so that a row
without a user among them belongs to somebody who signed up during the copy (`OwnersAreKnown`); and a database that answers with
nothing is refused once the warehouse has users, while one that has none is not fresh and is not built (`CopiesAreSeen`, which
`MartsKeepOwners` needs too). `OnlyEmptiedFails` is inductive with them. Assumptions: `HasUsers`, `Numbers`, `NamedInAllowlist`.

**How induction over data is done.** The library's induction theorems take an operator, which the provers here cannot instantiate.
`SharedLemmas` derives what is needed from well-founded minimal elements, stated over *sets* instead of predicates
(`SetInduction`, `NumberInduction`), and with them what adding a function up over a finite set gives (`SumPeels`, `SumOfPart`,
`SumAdds`, `SumRenamed`, `SumOfChange`, `SumOrdered`, `SumScaled`, `SumOfEqual`). Of a recursive function the proofs first show
that some function meets its equations, then that it is unique. So these results hold for data of any size.

**Model-checked only.** Every invariant and action property of the passing runs is a theorem. Liveness is not, since the prover
cannot reason about fairness here: `OwedIsSettled`, `AttemptEnds`, `FiredIsShown`, `Settles`, `PublishedIsSeen`,
`CallsAreAnswered`.

## 5. What the code does against its word

Five runs end in a violation of what the repository says of itself:

* `fx_stale_cache`: `record` puts any observation it stored into the cache, also one that is older than the newest row. Two calls
  that put in the other order than their observations were made are enough; no call fails and Redis answers each. A read is then
  answered the older number until the entry expires. The cache header says a read never resolves "to a wrong number".
* `week_split_dst`: the Monday after a week in which clocks go back is 169 hours away, the code adds 168. A shift past Sunday
  23:00 of that week makes `splitAcrossWeeks` loop for ever, in any request that reads that student's usage, on a server whose
  time zone has daylight saving.
* `accounts_rehash`: the hash upgrade of a sign-in writes the password it verified over one that was changed in the meantime. It
  takes a raise of the hash parameters to be possible.
* `onboarding_retry`: a commitment whose answer was lost is sent again.
* `planning_month_end`: `setMonth` rolls the 31st over into the month after a short one, where the comment says that it clamps;
  the bill then stays on the rolled day.

Also met while modelling, with no run of their own.

*Money.* An alert fires whenever the current rate is past its target,
also with no crossing, which `alerts.ts` says it needs. A plan says that it covers the payments "due by" the horizon's last day, and leaves out
a bill at noon of that day (`AsksForEveryBill` states the window as it is). An answer without transfers is shown as "No
schedule can cover these commitments" also when the solver only ran out of time. The amounts received are rounded
down one by one, so their sum may fall short of the bills by a unit per transfer (`SchedulePaysBills` states it so).
The monthly comparison ignores the buffer, so a plan may cost more than it; the panel then says "Same cost".
Commitments keep the currency they were added in, and the plan (`planning/router.ts:77`) adds all of them up at one assumed rate, so
a change of the home currency plans older ones as if they were in the new one, where `docs/TECHNICAL_DESIGN.md:36` wants the currency explicit.

*Shifts.* The notice of a shift can be cancelled while its save is in flight. Two windows may both pass the check for the last hours of a week. `remainingHours`
is rounded after `breached` is decided, so 24 hours and 10 seconds under a cap of 24 are a breach with `-0` hours remaining, where `workHours.ts:34` says
"Negative once the cap is exceeded" (`UsageIsWhatWasWorked` states that it is not positive). `breached` compares a floating-point sum with the cap:
shifts of 13 h 20 min, 8 h and 2 h 40 min add up to 24.000000000000004, and the student is warned of a breach that is none (`CheckKeepsTheCap` states that a
warning means a cap that is reached). `fct_work_shifts.sql:1-2` counts a whole shift in the week it starts, "matching how the app's own weekly cap is
reported", whereas the app splits it.

*Dashboard.* A refresh asked for while the query is in flight shows what that query had read. A socket that joins its room again
does not refresh, so an alert fired in between shows after the next visit. A bell opened before the data has loaded stores that
nothing was seen, where `notifications.ts` says that what was seen survives a reload. A second click on a row's delete button
shows the 404 of its second request.

*Session.* A 401 met by a page, or a sign-out in another tab, moves to the sign-in page softly: the next student to sign in there
sees the first one's dashboard until the network answers, though `session.ts:111-112` discards the cache for that reason. A
profile form saved after somebody else signed in in another tab writes its details into the other account. A late 401, or a wrong
password, in one tab clears the token of the others.

*Instances.* `rateLimiter.ts` says a student who gets it right is never locked out by their own typos; the counter of the address
is not reset. `server.ts` handles SIGTERM only once the poller has started, and then closes Mongo and Redis beside the worker,
whose jobs may still be at work. A pair taken out of `FX_PAIRS` is polled on. If a queue call of the start is rejected,
`server.ts:101-103` logs it and the process serves on with no poller: rates then come by the webhook only, until somebody restarts
the process (`PublishedIsSeen` excuses it).

*Warehouse.* A source that stops publishing passes the freshness check until its last rate has left the window, `Lookback` days
and the allowed age together, though `dags/funded_elt.py:14-15` says that a stalled source fails the run (`StallIsNoticed` states
it as it is). When the last alert is deleted the load is refused from then on: the alert lives on in the warehouse, where
`warehouse.py:7-9` says that deleted rows go. A backfill from the command line stamps old rates as fresh. The Spark job's
`dropDuplicates` keeps any one of the versions of a corrected rate. A row whose student signed up during the copy fails its
relationships test and the run, yet the facts are built with it; only the weekly hours are held back, until the next run. A load
started by hand beside the scheduled one may leave the union of two copies.

## 6. Not modelled, and what could come next

Password hashing, tokens' signatures, HMAC and input schemas: pure, and what they decide appears as the outcome of a step. The
CP-SAT search and the bootstrap's statistics: numerical, out of reach of state exploration; their constraints and control are in
`Transfers` and `Planning`. The dimensions, the marts of rates and the Spark job compute numbers from one snapshot and keep no
state, and `mart_weekly_alert_activity` counts the facts of alerts and is held back with them; the gate, the order and the tests
around them are in `Warehouse`. The command line of the export and its backfill share the loads but not the day's order. HTTP
wiring, error mapping and health checks hold no state. Pages that only draw, styling, Docker, Terraform and hosting files: display
or configuration of other engines. Currencies, labels, formatting and rounding of what is shown, but for the hours. The limiter's
bound on memory: the model has the sweep, not a number of bytes. The wizard of `Onboarding` has one student, so that somebody else
signs in over its store is in no module.

Next, in this order: the shutdown of `Poller` before it has started and beside the worker (in the model only a crash
leaves jobs behind); a commitment's currency as a parameter of `Planning`; the wizard's store across students, as a composition of
`Onboarding` with `Session`.
