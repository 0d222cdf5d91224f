----------------------------- MODULE Planning -----------------------------
(***************************************************************************)
(* Asking for a plan: the dashboard's panel, the API's planning routes and *)
(* its client of the optimizer, while the form is edited and obligations   *)
(* come and go (web PlanPanel, backend planning/router and                 *)
(* optimizer/client).                                                      *)
(*                                                                         *)
(* One panel has one attempt under way at a time, a plan or an estimate of *)
(* the saving; form, stored obligations and observed rates change freely   *)
(* in the meantime.  Forms are those for which the panel can build a       *)
(* request body; the button is disabled for any other.                     *)
(***************************************************************************)
EXTENDS Transfers

CONSTANTS
  Today,          \* the day the horizon starts on
  Obligations,    \* the obligations that may be stored
  Forms,          \* request bodies the form and the budget can make
  Paths,          \* SAVING_PATHS
  PathRates,      \* the rates of the simulated paths
  MinHistory,     \* MIN_HISTORY
  MaxObserved, MaxChanges   \* bounds: rates observed; edits and changes of obligations

ASSUME PlanningConstants ==
  /\ Today \in Nat /\ Paths \in Nat \ {0} /\ {MinHistory, MaxObserved, MaxChanges} \subseteq Nat
  /\ PathRates \subseteq Nat \ {0} /\ \A f \in Forms : f.horizonDays \in Nat \ {0}

VARIABLES
  form,        \* page: the body the form makes at this moment
  anyListed,   \* page: whether the obligations last loaded are any
  busy,        \* page: "plan" or "saving" while that request is out, else "none"
  asked,       \* page: the body that request was sent with, the key of its result
  plan,        \* page: [key, result, for] of the last plan, a set of at most one;
               \*   for is history: the request it answers
  saving,      \* page: [key, result] of the last estimate, likewise
  error,       \* page: the error banner is shown
  note,        \* page: why there is no estimate is shown
  stage,       \* API: the await the handler is at
  request,     \* API: the prepared optimiser request, a set of at most one
  planned,     \* API: the plan call's outcome, a set of at most one
  compared,    \* API: the baseline call's outcome, likewise
  gains,       \* optimizer: what the plan saves on each simulated path so far
  simulated,   \* optimizer: the paths simulated so far
  answer,      \* the API's answer on its way to the page, a set of at most one
  stored,      \* the obligations rows
  observed,    \* the number of rates stored for the student's pair
  changes      \* edits so far, to keep behaviours short

page == <<form, anyListed, busy, asked, plan, saving, error, note>>
api == <<stage, request, planned, compared, gains, simulated, answer>>
data == <<stored, observed>>
vars == <<page, api, data, changes>>

Init ==
  /\ form \in Forms /\ stored \in SUBSET Obligations
  /\ anyListed = (stored # {})
  /\ busy = "none" /\ asked = form /\ plan = {} /\ saving = {} /\ error = FALSE /\ note = FALSE
  /\ stage = "idle" /\ request = {} /\ planned = {} /\ compared = {}
  /\ gains = <<>> /\ simulated = 0 /\ answer = {}
  /\ observed = 0 /\ changes = 0

(***************************************************************************)
(* What the page shows: results of other inputs than the form's are kept   *)
(* but not shown.                                                          *)
(***************************************************************************)
CurrentPlan == {p \in plan : p.key = form}
CurrentSaving == {s \in saving : s.key = form}
HasSchedule(result) == DOMAIN result.transfers # {}
ShowsSchedule == \E p \in CurrentPlan : HasSchedule(p.result)

\* The offer to estimate the saving stands under a schedule without an estimate.
OffersEstimate == ShowsSchedule /\ CurrentSaving = {}

(***************************************************************************)
(* The student and the world.                                              *)
(***************************************************************************)
Change == changes < MaxChanges /\ changes' = changes + 1

\* Without a commitment to plan for the panel has a notice in the form's place.
EditForm ==
  /\ anyListed
  /\ Change
  /\ form' \in Forms \ {form}
  /\ UNCHANGED <<anyListed, busy, asked, plan, saving, error, note, api, data>>

\* The panel below, another tab, another device.
ChangeObligations ==
  /\ Change
  /\ \E o \in Obligations : stored' = IF o \in stored THEN stored \ {o} ELSE stored \union {o}
  /\ UNCHANGED <<page, api, observed>>

Refetch ==
  /\ anyListed' = (stored # {})
  /\ UNCHANGED <<form, busy, asked, plan, saving, error, note, api, data, changes>>

Observe ==
  /\ observed < MaxObserved
  /\ observed' = observed + 1
  /\ UNCHANGED <<page, api, stored, changes>>

Ask(what) ==
  /\ busy = "none"
  /\ busy' = what /\ asked' = form /\ stage' = "prepare"
  /\ UNCHANGED <<form, anyListed, plan, saving,
                 request, planned, compared, gains, simulated, answer, data, changes>>

Build == anyListed /\ Ask("plan") /\ error' = FALSE /\ note' = FALSE

\* The button under a shown schedule; an error of an earlier attempt stays.
Estimate ==
  /\ OffersEstimate
  /\ Ask("saving")
  /\ note' = FALSE /\ UNCHANGED error

(***************************************************************************)
(* The routes.                                                             *)
(***************************************************************************)
LastDayOf(body) == Today + body.horizonDays - 1

ASSUME ObligationsFit ==
  /\ IsFiniteSet(Obligations) /\ \A o, q \in Obligations : o.id = q.id => o = q
  /\ \A o \in Obligations : o.nextDueOn \in Nat /\ \A f \in Forms : LongEnough(o, LastDayOf(f))

\* The stored obligations expanded over the horizon, as a request.
PeriodsOf(body) ==
  [i \in 1 .. body.horizonDays |->
     [on |-> Today + i - 1, rate |-> body.rate, income |-> body.income, spending |-> body.spending]]

RequestOf(body, bills) ==
  [periods |-> PeriodsOf(body),
   obligations |-> SetToSeq({[dueOn |-> DayOf(b.dueOn), amount |-> b.amount, of |-> b.of] : b \in bills}),
   fixed |-> body.fixed, bps |-> body.bps, opening |-> body.opening,
   minimum |-> body.minimum, minTransfer |-> body.minTransfer]

\* The requests there can be, also on simulated rates, each with what solve may return.
OnPath(r, rates) == [r EXCEPT !.periods = [i \in DOMAIN @ |-> [@[i] EXCEPT !.rate = rates[i]]]]

BillsToAskFor(obligations, body) ==
  OccurrencesFor(obligations, Midnight(Today), Midnight(LastDayOf(body)))

Requests ==
  {RequestOf(c[1], BillsToAskFor(c[2], c[1])) : c \in Forms \X SUBSET Obligations}

Simulations ==
  UNION {{OnPath(r, rates) : rates \in [Days(r) -> PathRates]} : r \in Requests}

Solutions ==
  {[of |-> r, solved |-> Solve(r), monthly |-> MonthlyBaseline(r)] :
     r \in {q \in Requests \union Simulations : Valid(q)}}

Solution(r) == CHOOSE s \in Solutions : s.of = r

Say(kind, result) ==
  /\ answer' = {[kind |-> kind, result |-> result]} /\ stage' = "answer"
  /\ planned' = {} /\ compared' = {} /\ gains' = <<>> /\ simulated' = 0

Prepare ==
  /\ stage = "prepare"
  /\ LET bills == BillsToAskFor(stored, asked)
     IN  IF bills = {}
         THEN request' = {} /\ Say("rejected", {})
         ELSE /\ request' = {RequestOf(asked, bills)}
              /\ stage' = IF busy = "plan" THEN "calls" ELSE "history"
              /\ UNCHANGED <<planned, compared, gains, simulated, answer>>
  /\ UNCHANGED <<page, data, changes>>

\* A call ends with an answer, with a 422, or with a timeout, a refused connection,
\* another status or an answer of the wrong shape, which all are "unavailable".
Outcomes(r, refuses, results) ==
  {[kind |-> "unavailable", result |-> {}]}
  \union (IF refuses THEN {[kind |-> "rejected", result |-> {}]}
          ELSE {[kind |-> "ok", result |-> {res}] : res \in results})

CallPlan ==
  /\ stage = "calls" /\ planned = {}
  /\ \E r \in request :
       \E o \in Outcomes(r, ~Valid(r) \/ Unfundable(r), Solution(r).solved) : planned' = {o}
  /\ UNCHANGED <<page, stage, request, compared, gains, simulated, answer, data, changes>>

CallBaseline ==
  /\ stage = "calls" /\ compared = {}
  /\ \E r \in request : \E o \in Outcomes(r, ~Valid(r), {Solution(r).monthly}) : compared' = {o}
  /\ UNCHANGED <<page, stage, request, planned, gains, simulated, answer, data, changes>>

PlanResult(p, c) ==
  [body      |-> asked,
   to        |-> LastDayOf(asked),
   status    |-> p.status,
   transfers |-> p.transfers,
   cost      |-> p.cost,
   closing   |-> p.closing,
   baseline  |-> {[transfers |-> Cardinality(DOMAIN b.transfers), cost |-> b.cost] : b \in c},
   saving    |-> IF HasSchedule(p) THEN {b.cost - p.cost : b \in c} ELSE {}]

\* Promise.all: both have come back.
Respond ==
  /\ stage = "calls"
  /\ \E p \in planned, c \in compared :
       IF p.kind = "ok"
       THEN \E result \in p.result : Say("ok", {PlanResult(result, c.result)})
       ELSE Say(p.kind, {})
  /\ UNCHANGED <<page, request, data, changes>>

ReadHistory ==
  /\ stage = "history"
  /\ IF observed < MinHistory THEN Say("rejected", {})
     ELSE stage' = "paths" /\ UNCHANGED <<planned, compared, gains, simulated, answer>>
  /\ UNCHANGED <<page, request, data, changes>>

(***************************************************************************)
(* The estimate: plan and baseline on one simulated rate path after the    *)
(* other.  Paths without a schedule are left out.                          *)
(***************************************************************************)
Simulate ==
  /\ stage = "paths" /\ simulated < Paths
  /\ \E r \in request :
       /\ Valid(r) /\ ~Unfundable(r)
       /\ \E rates \in [Days(r) -> PathRates] :
            LET s == Solution(OnPath(r, rates))
            IN  \E result \in s.solved :
                  gains' = IF HasSchedule(result) THEN Append(gains, s.monthly.cost - result.cost)
                           ELSE gains
  /\ simulated' = simulated + 1
  /\ UNCHANGED <<page, stage, request, planned, compared, answer, data, changes>>

\* The ends of the interval are quantiles of resampled means.
SavingResults ==
  LET lowest == Min(Range(gains))
      highest == Max(Range(gains))
  IN  {[body |-> asked, feasible |-> Len(gains), low |-> low, significant |-> low > 0] :
         low \in lowest .. highest}

EstimateEnds ==
  /\ stage = "paths"
  /\ \E r \in request :
       \/ Say("unavailable", {})
       \/ /\ ~Valid(r) \/ Unfundable(r) \/ (simulated = Paths /\ gains = <<>>)
          /\ Say("rejected", {})
       \/ /\ simulated = Paths /\ gains # <<>>
          /\ \E result \in SavingResults : Say("ok", {result})
  /\ UNCHANGED <<page, request, data, changes>>

(***************************************************************************)
(* The answer on the page.                                                 *)
(***************************************************************************)
LeaveGains ==                          \* (defect: an estimate adds to the one before)
  /\ busy' = "none" /\ stage' = "idle" /\ request' = {} /\ answer' = {}
  /\ planned' = {} /\ compared' = {} /\ gains' = gains /\ simulated' = 0

AttemptOver ==
  /\ busy' = "none" /\ stage' = "idle" /\ request' = {} /\ answer' = {}
  /\ planned' = {} /\ compared' = {} /\ gains' = <<>> /\ simulated' = 0

DeliverToForm ==                       \* (defect: the result filed under the form as it is now)
  /\ AttemptOver
  /\ \E a \in answer :
       IF busy = "plan" /\ a.kind = "ok"
       THEN plan' = {[key |-> form, result |-> res, for |-> request] : res \in a.result}
       ELSE UNCHANGED plan
  /\ UNCHANGED <<form, anyListed, asked, saving, error, note, data, changes>>

DeliverOkOnly ==                       \* (defect: the button freed by success only)
  /\ \E a \in answer : a.kind = "ok" /\ plan' = plan
  /\ AttemptOver
  /\ UNCHANGED <<form, anyListed, asked, saving, error, note, data, changes>>

Deliver ==
  /\ AttemptOver
  /\ \E a \in answer :
       /\ plan' = IF busy = "plan" /\ a.kind = "ok"
                  THEN {[key |-> asked, result |-> res, for |-> request] : res \in a.result}
                  ELSE plan
       /\ saving' = IF busy = "saving" /\ a.kind = "ok"
                    THEN {[key |-> asked, result |-> res] : res \in a.result}
                    ELSE saving
       /\ note' = (note \/ (busy = "saving" /\ a.kind = "rejected"))
       /\ error' = (error \/ a.kind = "unavailable" \/ (busy = "plan" /\ a.kind = "rejected"))
  /\ UNCHANGED <<form, anyListed, asked, data, changes>>

\* The request fails between page and API, or the handler does.
AttemptFails ==
  /\ busy # "none"
  /\ AttemptOver /\ error' = TRUE
  /\ UNCHANGED <<form, anyListed, asked, plan, saving, note, data, changes>>

Handler ==
  \/ Prepare \/ CallPlan \/ CallBaseline \/ Respond
  \/ ReadHistory \/ Simulate \/ EstimateEnds

Next ==
  \/ EditForm \/ ChangeObligations \/ Refetch \/ Observe
  \/ Build \/ Estimate \/ Handler \/ Deliver \/ AttemptFails

\* The client's timeouts end every call to the optimizer, and a settled await is resumed.
Fairness == WF_vars(Handler) /\ WF_vars(Deliver)

Spec == Init /\ [][Next]_vars /\ Fairness

(***************************************************************************)
(* Properties.                                                             *)
(***************************************************************************)

\* The type invariant.
TypeOK ==
  /\ form \in Forms /\ asked \in Forms /\ busy \in {"none", "plan", "saving"}
  /\ {anyListed, error, note} \subseteq BOOLEAN
  /\ stage \in {"idle", "prepare", "calls", "history", "paths", "answer"}
  /\ \A S \in {plan, saving, request, planned, compared, answer} : Cardinality(S) <= 1
  /\ stored \subseteq Obligations
  /\ simulated \in 0 .. Paths /\ Len(gains) <= simulated
  /\ observed \in 0 .. MaxObserved /\ changes \in 0 .. MaxChanges

\* "An edited form never sits next to a schedule computed for different numbers": the
\* schedule and the estimate shown answer the form as it is, edited during the request or not.
ShownFitsForm ==
  \A p \in CurrentPlan \union CurrentSaving : p.result.body = form

\* The schedule shown, carried out with the fees it names, never takes the balance
\* below the buffer on any day, and leaves what it says it leaves.
MadeBy(result, day) == {i \in DOMAIN result.transfers : result.transfers[i].on <= day}

Balance(p, day) ==
  LET body == p.result.body
  IN  body.opening + (day - Today + 1) * (body.income - body.spending)
        - Sum([i \in MadeBy(p.result, day) |->
                 p.result.transfers[i].amount + p.result.transfers[i].fee])

ScheduleKeepsBuffer ==
  \A p \in CurrentPlan : HasSchedule(p.result) =>
    /\ \A day \in Today .. p.result.to : Balance(p, day) >= form.minimum
    /\ Balance(p, p.result.to) = p.result.closing

\* At any due date the transfers made by then have paid, at the assumed rate, every bill
\* that has come due, but for the units lost by rounding each transfer down.
SchedulePaysBills ==
  \A p \in CurrentPlan, r \in UNION {q.for : q \in CurrentPlan} : HasSchedule(p.result) =>
    \A day \in Today .. p.result.to :
      DueBy(r, day) # {} =>
        Sum([i \in MadeBy(p.result, day) |-> p.result.transfers[i].received + 1])
          > Owed(r, DueBy(r, day))

\* A schedule the solver calls optimal costs no more than sending monthly, rounding of the
\* monthly fees apart, whenever sending monthly would itself respect buffer and minimum.
OptimalBeatsMonthly ==
  \A p \in CurrentPlan, r \in UNION {q.for : q \in CurrentPlan} :
    p.result.status = "OPTIMAL" /\ MonthlySent(r) \in Feasible(r) =>
      /\ HasSchedule(p.result)
      /\ \A s \in p.result.saving, b \in p.result.baseline : s > -b.transfers

\* The days on which the requests of R, at most one, ask for the bills of o.
AskedFor(R, o) ==
  UNION {{<<b, r.obligations[b].dueOn>> : b \in {c \in Bills(r) : r.obligations[c].of = o.id}} : r \in R}

\* The obligations stored when a request is prepared are asked for on each of their days before
\* the window closes, which is at the first instant of the horizon's last day, once each,
\* where every month has the day; with none there is no request.
AsksForEveryBill ==
  [][stage = "prepare" /\ stage' \in {"calls", "history", "answer"} =>
       \A o \in {q \in stored : EveryMonthHasItsDay(q)} :
         LET days == BillDays(o, Today, LastDayOf(asked) - (o.nextDueOn % 2))
         IN  /\ {a[2] : a \in AskedFor(request', o)} = days
             /\ Cardinality(AskedFor(request', o)) = Cardinality(days)]_vars

\* "A bill dated the 31st lands on the last day available": also where a month is too short.
MonthEndBillsStayInMonth ==
  \A o \in Obligations :
    {a[2] : a \in AskedFor(request, o)} \subseteq BillDays(o, Today, LastDayOf(asked))

\* Every attempt ends, and frees the button.
AttemptEnds == (busy # "none") ~> (busy = "none")

\* A schedule that is shown can be carried out, and does what it is for.
ScheduleHolds == ScheduleKeepsBuffer /\ SchedulePaysBills
=============================================================================
