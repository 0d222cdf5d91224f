-------------------------- MODULE PlanningProofs --------------------------
(***************************************************************************)
(* Proofs about Planning and the calendar arithmetic it rests on.          *)
(***************************************************************************)
EXTENDS Planning, SharedLemmas

(***************************************************************************)
(* What is shown fits the form.  A result is filed under the key its       *)
(* request was sent with; that this is the key of the body it answers      *)
(* needs that key to stand still from the click to the answer, that is,    *)
(* that nothing is on its way, at any stage, once the button is free.      *)
(***************************************************************************)
AnswersFit ==
  /\ \A p \in plan \union saving : p.result.body = p.key
  /\ \A a \in answer : \A result \in a.result : result.body = asked
  /\ busy = "none" => stage = "idle" /\ answer = {}

\* Initially nothing is shown or under way.
LEMMA AnswersFitInitially == Init => AnswersFit
  BY DEF Init, AnswersFit

\* An attempt starts only when none is under way, so the key changes under no answer.
LEMMA AskKeepsFit ==
  ASSUME AnswersFit, NEW what \in {"plan", "saving"}, Ask(what)
  PROVE  AnswersFit'
  BY DEF Ask, AnswersFit

\* What the handlers say carries the body they were asked with.
LEMMA HandlerKeepsFit ==
  ASSUME AnswersFit, Handler
  PROVE  AnswersFit'
<1> USE DEF AnswersFit, page
<1>1. CASE Prepare
  BY <1>1 DEF Prepare, Say
<1>2. CASE CallPlan \/ CallBaseline
  BY <1>2 DEF CallPlan, CallBaseline
<1>3. CASE Respond
  <2>1. PICK p \in planned, c \in compared :
          IF p.kind = "ok"
          THEN \E result \in p.result : Say("ok", {PlanResult(result, c.result)})
          ELSE Say(p.kind, {})
    BY <1>3 DEF Respond
  <2>2. \A r, b : PlanResult(r, b).body = asked
    BY DEF PlanResult
  <2>3. \A a \in answer' : \A result \in a.result : result.body = asked
    BY <2>1, <2>2 DEF Say
  <2> QED
    BY <1>3, <2>3 DEF Respond
<1>4. CASE ReadHistory
  BY <1>4 DEF ReadHistory, Say
<1>5. CASE Simulate
  BY <1>5 DEF Simulate
<1>6. CASE EstimateEnds
  <2>1. \A result \in SavingResults : result.body = asked
    BY DEF SavingResults
  <2>2. \A a \in answer' : \A result \in a.result : result.body = asked
    BY <1>6, <2>1 DEF EstimateEnds, Say
  <2> QED
    BY <1>6, <2>2 DEF EstimateEnds
<1> QED
  BY <1>1, <1>2, <1>3, <1>4, <1>5, <1>6 DEF Handler

\* Filing an answer keeps each result with the key it was asked under.
LEMMA DeliverKeepsFit ==
  ASSUME AnswersFit, Deliver
  PROVE  AnswersFit'
<1>1. PICK a \in answer :
        /\ plan' = IF busy = "plan" /\ a.kind = "ok"
                   THEN {[key |-> asked, result |-> res, for |-> request] : res \in a.result}
                   ELSE plan
        /\ saving' = IF busy = "saving" /\ a.kind = "ok"
                     THEN {[key |-> asked, result |-> res] : res \in a.result}
                     ELSE saving
  BY DEF Deliver
<1>2. \A res \in a.result : res.body = asked
  BY DEF AnswersFit
<1>3. \A p \in plan' : p.result.body = p.key
  BY <1>1, <1>2 DEF AnswersFit
<1>4. \A s \in saving' : s.result.body = s.key
  BY <1>1, <1>2 DEF AnswersFit
<1> QED
  BY <1>3, <1>4 DEF Deliver, AttemptOver, AnswersFit

\* Every step keeps it.
LEMMA AnswersFitKept == AnswersFit /\ [Next]_vars => AnswersFit'
<1> SUFFICES ASSUME AnswersFit, [Next]_vars PROVE AnswersFit'
  OBVIOUS
<1>1. CASE EditForm \/ ChangeObligations \/ Refetch \/ Observe
  BY <1>1 DEF EditForm, ChangeObligations, Refetch, Observe, AnswersFit, page, api
<1>2. CASE Build
  BY <1>2, AskKeepsFit DEF Build
<1>3. CASE Estimate
  BY <1>3, AskKeepsFit DEF Estimate
<1>4. CASE Handler
  BY <1>4, HandlerKeepsFit
<1>5. CASE Deliver
  BY <1>5, DeliverKeepsFit
<1>6. CASE AttemptFails
  BY <1>6 DEF AttemptFails, AttemptOver, AnswersFit
<1>7. CASE UNCHANGED vars
  BY <1>7 DEF vars, page, api, AnswersFit
<1> QED
  BY <1>1, <1>2, <1>3, <1>4, <1>5, <1>6, <1>7 DEF Next

\* "An edited form never sits next to a schedule computed for different numbers": PlanPanel
\* shows a schedule or an estimate only beside the form it answers.
THEOREM ShownFits == Spec => []ShownFitsForm
<1>1. AnswersFit => ShownFitsForm
  BY DEF AnswersFit, ShownFitsForm, CurrentPlan, CurrentSaving
<1> QED
  BY AnswersFitInitially, AnswersFitKept, <1>1, PTL DEF Spec

(***************************************************************************)
(* Month arithmetic.                                                       *)
(***************************************************************************)

\* Months begin one after the other.
LEMMA MonthsInOrder ==
  /\ Months = 1 .. Len(FirstDay) /\ Len(FirstDay) \in Nat /\ 1 \in Months /\ FirstDay[1] = 0
  /\ \A m \in Months : FirstDay[m] \in Nat
  /\ \A m, n \in Months : (m < n => FirstDay[m] < FirstDay[n]) /\ (m <= n => FirstDay[m] <= FirstDay[n])
<1>1. /\ Months = 1 .. Len(FirstDay) /\ Len(FirstDay) \in Nat /\ 1 \in Months /\ FirstDay[1] = 0
      /\ \A m \in Months : FirstDay[m] \in Nat
  BY CalendarAdvances DEF Months
<1>2. \A m, n \in Months : m < n => FirstDay[m] < FirstDay[n]
  BY CalendarAdvances DEF Months
<1>3. \A m, n \in Months : m <= n => FirstDay[m] <= FirstDay[n]
  <2> SUFFICES ASSUME NEW m \in Months, NEW n \in Months, m <= n PROVE FirstDay[m] <= FirstDay[n]
    OBVIOUS
  <2>1. m = n \/ m < n
    BY <1>1
  <2>2. FirstDay[m] \in Nat /\ FirstDay[n] \in Nat
    BY <1>1
  <2> QED  BY <1>2, <2>1, <2>2
<1> QED  BY <1>1, <1>2, <1>3

\* The months are the intervals between their first days.
LEMMA MonthOfDay ==
  ASSUME NEW m \in Months, m + 1 \in Months, NEW day \in Nat,
         FirstDay[m] <= day, day < FirstDay[m + 1]
  PROVE  MonthOf(day) = m
<1> DEFINE In(k) == FirstDay[k] <= day /\ (k + 1 \in Months => day < FirstDay[k + 1])
<1>1. ASSUME NEW k \in Months, In(k)
      PROVE  k = m
  <2>1. m \in Nat /\ k \in Nat /\ FirstDay[m] \in Nat /\ FirstDay[k] \in Nat /\ FirstDay[m + 1] \in Nat
    BY MonthsInOrder
  <2>2. CASE m < k
    <3>1. FirstDay[m + 1] <= FirstDay[k]
      BY <2>1, <2>2, MonthsInOrder
    <3> QED  BY <1>1, <2>1, <3>1
  <2>3. CASE k < m
    <3>1. k + 1 \in Months /\ k + 1 <= m
      BY <2>1, <2>3, MonthsInOrder
    <3>2. FirstDay[k + 1] <= FirstDay[m] /\ FirstDay[k + 1] \in Nat
      BY <3>1, MonthsInOrder
    <3> QED  BY <1>1, <2>1, <3>1, <3>2
  <2> QED  BY <2>1, <2>2, <2>3
<1>2. In(m)
  OBVIOUS
<1> QED  BY <1>1, <1>2 DEF MonthOf

\* Where the month has the day, expand keeps a bill on it: the cursor moves by whole months
\* to the same day, at the same time of day.
THEOREM AddMonthsKeepsDay ==
  ASSUME NEW m \in Months, NEW months \in Nat, m + 1 \in Months, m + months + 1 \in Months,
         NEW instant \in Nat,
         FirstDay[m] <= DayOf(instant), DayOf(instant) < FirstDay[m + 1],
         FirstDay[m + months] + (DayOf(instant) - FirstDay[m]) < FirstDay[m + months + 1]
  PROVE  LET next == AddMonths(instant, months)
         IN  /\ MonthOf(DayOf(next)) = m + months
             /\ DayOf(next) - FirstDay[m + months] = DayOf(instant) - FirstDay[m]
             /\ next % 2 = instant % 2
<1> DEFINE moved == FirstDay[m + months] - FirstDay[m]
<1>1. m \in Nat /\ m + months \in Months
  BY CalendarAdvances DEF Months
<1>2. FirstDay[m] \in Nat /\ FirstDay[m + months] \in Nat /\ FirstDay[m + months + 1] \in Nat
  BY <1>1, CalendarAdvances DEF Months
<1>3. DayOf(instant) \in Nat /\ MonthOf(DayOf(instant)) = m
  BY MonthOfDay DEF DayOf
<1>4. AddMonths(instant, months) = instant + 2 * moved
  BY <1>3 DEF AddMonths
<1>5. moved \in Int
  BY <1>2
<1>6. DayOf(instant + 2 * moved) = DayOf(instant) + moved
  BY <1>5 DEF DayOf
<1>7. (instant + 2 * moved) % 2 = instant % 2
  BY <1>5
<1>8. MonthOf(DayOf(instant) + moved) = m + months
  BY <1>1, <1>2, <1>3, MonthOfDay
<1> QED
  BY <1>2, <1>3, <1>4, <1>6, <1>7, <1>8

(***************************************************************************)
(* The optimizer's answers: what a schedule costs, and what its report     *)
(* says, whole units of which each fee and each amount is rounded to.      *)
(***************************************************************************)

\* Division with a remainder.
LEMMA Division ==
  ASSUME NEW a \in Nat, NEW b \in Nat \ {0}
  PROVE  /\ a \div b \in Nat /\ b * (a \div b) \in Nat
         /\ b * (a \div b) <= a /\ a < b * ((a \div b) + 1)
OBVIOUS

\* Dividing both sides by a number that is not zero.
LEMMA Cancel ==
  ASSUME NEW k \in Nat \ {0}, NEW a \in Int, NEW b \in Int
  PROVE  (k * a <= k * b => a <= b) /\ (k * a < k * b => a < b)
<1>1. ASSUME a > b PROVE k * a > k * b
  BY <1>1
<1>2. ASSUME a >= b PROVE k * a >= k * b
  BY <1>2
<1> QED  BY <1>1, <1>2

LEMMA Scales ==
  RateScale \in Nat \ {0} /\ BpsScale \in Nat \ {0}
BY ScalesArePositive

\* What the schema admits is made of numbers.
LEMMA ValidIsTyped ==
  ASSUME NEW r, Valid(r)
  PROVE  /\ IsFiniteSet(Days(r)) /\ IsFiniteSet(Bills(r)) /\ Bills(r) # {} /\ Days(r) # {}
         /\ \A i \in Days(r) :
              /\ r.periods[i].rate \in Nat \ {0} /\ r.periods[i].on \in Nat
              /\ r.periods[i].income \in Nat /\ r.periods[i].spending \in Nat
         /\ \A b \in Bills(r) : r.obligations[b].amount \in Nat \ {0} /\ r.obligations[b].dueOn \in Nat
         /\ r.fixed \in Nat /\ r.bps \in Nat /\ r.opening \in Nat /\ r.minimum \in Nat
<1>1. PICK n \in 1 .. MaxPeriods : Days(r) = 1 .. n
  BY DEF Valid
<1>2. PICK m \in 1 .. MaxObligations : Bills(r) = 1 .. m
  BY DEF Valid
<1>3. n \in Int /\ m \in Int /\ 1 <= n /\ 1 <= m
  OBVIOUS
<1>4. IsFiniteSet(1 .. n) /\ IsFiniteSet(1 .. m)
  BY <1>3, FS_Interval
<1>5. 1 \in 1 .. n /\ 1 \in 1 .. m
  BY <1>3
<1>6. r.bps \in Nat
  BY ScalesArePositive DEF Valid
<1> QED  BY <1>1, <1>2, <1>4, <1>5, <1>6 DEF Valid

\* A sum over a finite set of a function that is written down for it.
LEMMA SumIsTyped ==
  ASSUME NEW S, IsFiniteSet(S), NEW f, DOMAIN f = S, \A x \in S : f[x] \in Nat
  PROVE  Sum(f) \in Nat /\ Sum(f) = SumFunctionOnSet(f, S)
BY SumIsNat DEF Sum, SumFunction

\* A schedule is a number for each period.
LEMMA FeasibleIsTyped ==
  ASSUME NEW r, Valid(r), NEW sent \in Feasible(r)
  PROVE  sent \in [Days(r) -> Nat] /\ Covers(r, sent) /\ KeepsBuffer(r, sent)
<1> DEFINE incomes == [i \in Days(r) |-> r.periods[i].income]
<1>1. Sum(incomes) \in Nat
  <2>1. DOMAIN incomes = Days(r) /\ \A i \in Days(r) : incomes[i] \in Nat
    BY ValidIsTyped
  <2> HIDE DEF incomes
  <2> QED  BY <2>1, ValidIsTyped, SumIsTyped
<1>2. Ceiling(r) \in Nat
  BY <1>1, ValidIsTyped DEF Ceiling
<1>3. sent \in [Days(r) -> 0 .. Ceiling(r)] /\ Covers(r, sent) /\ KeepsBuffer(r, sent)
  BY DEF Feasible
<1>4. 0 .. Ceiling(r) \subseteq Nat
  BY <1>2
<1> QED  BY <1>3, <1>4

(***************************************************************************)
(* The exact cost of the transfers of some periods is at least what they   *)
(* are reported to cost, and less than a unit a transfer above it.         *)
(***************************************************************************)
PaidOn(r, sent) == [i \in Days(r) |-> sent[i] + Fee(r, sent[i])]
CostOn(r, sent) ==
  [i \in Days(r) |-> sent[i] * (BpsScale + r.bps) + (IF sent[i] > 0 THEN r.fixed * BpsScale ELSE 0)]

LEMMA FeeIsTyped ==
  ASSUME NEW r, Valid(r), NEW amount \in Nat
  PROVE  /\ Fee(r, amount) \in Nat
         /\ BpsScale * (amount + Fee(r, amount)) <= amount * (BpsScale + r.bps) + r.fixed * BpsScale
         /\ amount * (BpsScale + r.bps) + r.fixed * BpsScale < BpsScale * (amount + Fee(r, amount) + 1)
<1> DEFINE p == amount * r.bps
           q == p \div BpsScale
<1>1. r.bps \in Nat /\ r.fixed \in Nat /\ BpsScale \in Nat \ {0} /\ p \in Nat
  BY ValidIsTyped, Scales
<1> HIDE DEF p
<1>2. q \in Nat /\ BpsScale * q \in Nat /\ BpsScale * q <= p /\ p < BpsScale * (q + 1)
  BY <1>1, Division
<1> HIDE DEF q
<1>3. Fee(r, amount) = r.fixed + q
  BY DEF Fee, p, q
<1>4. amount * (BpsScale + r.bps) = BpsScale * amount + p
  BY <1>1 DEF p
<1>5. BpsScale * (amount + Fee(r, amount)) = BpsScale * amount + r.fixed * BpsScale + BpsScale * q
  BY <1>1, <1>2, <1>3
<1>6. BpsScale * (amount + Fee(r, amount) + 1) = BpsScale * amount + r.fixed * BpsScale + BpsScale * (q + 1)
  BY <1>1, <1>2, <1>3
<1>7. BpsScale * amount \in Nat /\ r.fixed * BpsScale \in Nat /\ BpsScale * (q + 1) \in Nat
  BY <1>1, <1>2
<1> QED  BY <1>1, <1>2, <1>3, <1>4, <1>5, <1>6, <1>7

LEMMA CostIsPaid ==
  ASSUME NEW r, Valid(r), NEW sent \in [Days(r) -> Nat], NEW I \in SUBSET Days(r)
  PROVE  LET S == Sends(sent) \intersect I
             paid == SumFunctionOnSet(PaidOn(r, sent), S)
         IN  /\ paid \in Nat /\ CostScaled(r, sent, I) \in Nat /\ Cardinality(S) \in Nat
             /\ BpsScale * paid <= CostScaled(r, sent, I)
             /\ CostScaled(r, sent, I) + Cardinality(S) <= BpsScale * (paid + Cardinality(S))
<1> DEFINE S == Sends(sent) \intersect I
           one == PaidOn(r, sent)
           cost == CostOn(r, sent)
           ones == [i \in S |-> 1]
           onMore == [i \in S |-> one[i] + ones[i]]
           costMore == [i \in S |-> cost[i] + ones[i]]
           low == [i \in S |-> BpsScale * one[i]]
           high == [i \in S |-> BpsScale * onMore[i]]
<1>1. IsFiniteSet(I) /\ IsFiniteSet(S) /\ S \subseteq I /\ BpsScale \in Nat
  BY ValidIsTyped, FS_Subset, Scales
<1>2. \A i \in I : /\ sent[i] \in Nat /\ one[i] = sent[i] + Fee(r, sent[i]) /\ one[i] \in Nat
                   /\ cost[i] = sent[i] * (BpsScale + r.bps) + (IF sent[i] > 0 THEN r.fixed * BpsScale ELSE 0)
                   /\ (i \in S) = (sent[i] > 0)
  BY FeeIsTyped DEF PaidOn, CostOn, Sends
<1>3. \A i \in I : cost[i] \in Nat
  <2> SUFFICES ASSUME NEW i \in I PROVE cost[i] \in Nat
    OBVIOUS
  <2>1. sent[i] \in Nat /\ r.bps \in Nat /\ r.fixed \in Nat /\ BpsScale \in Nat
    BY <1>1, <1>2, ValidIsTyped
  <2>2. sent[i] * (BpsScale + r.bps) \in Nat /\ r.fixed * BpsScale \in Nat
    BY <2>1
  <2>3. cost[i] = sent[i] * (BpsScale + r.bps) + (IF sent[i] > 0 THEN r.fixed * BpsScale ELSE 0)
    BY <1>2
  <2> HIDE DEF cost
  <2> QED  BY <2>2, <2>3
<1>4. \A i \in I \ S : cost[i] = 0
  <2> SUFFICES ASSUME NEW i \in I \ S PROVE cost[i] = 0
    OBVIOUS
  <2>1. sent[i] = 0 /\ cost[i] = sent[i] * (BpsScale + r.bps) + 0
    BY <1>2
  <2> QED  BY <2>1, <1>1, ValidIsTyped
<1>5. \A i \in S : /\ BpsScale * one[i] <= cost[i] /\ cost[i] + 1 <= BpsScale * (one[i] + 1)
                   /\ BpsScale * one[i] \in Nat /\ BpsScale * (one[i] + 1) \in Nat
  <2> SUFFICES ASSUME NEW i \in S
               PROVE  /\ BpsScale * one[i] <= cost[i] /\ cost[i] + 1 <= BpsScale * (one[i] + 1)
                      /\ BpsScale * one[i] \in Nat /\ BpsScale * (one[i] + 1) \in Nat
    OBVIOUS
  <2>1. i \in I /\ sent[i] > 0 /\ sent[i] \in Nat
    BY <1>1, <1>2
  <2>2. one[i] = sent[i] + Fee(r, sent[i]) /\ one[i] \in Nat /\ cost[i] \in Nat
        /\ cost[i] = sent[i] * (BpsScale + r.bps) + r.fixed * BpsScale
    BY <2>1, <1>2, <1>3
  <2> HIDE DEF one, cost
  <2>3. BpsScale * one[i] <= cost[i] /\ cost[i] < BpsScale * (one[i] + 1)
    BY <2>1, <2>2, FeeIsTyped
  <2>4. BpsScale * one[i] \in Nat /\ BpsScale * (one[i] + 1) \in Nat
    BY <2>2, <1>1
  <2> QED  BY <2>2, <2>3, <2>4
<1>6. CostScaled(r, sent, I) = SumFunctionOnSet(cost, I)
  <2> DEFINE here == [i \in I |-> sent[i] * (BpsScale + r.bps) + (IF sent[i] > 0 THEN r.fixed * BpsScale ELSE 0)]
  <2>1. \A i \in I : cost[i] \in Nat /\ here[i] = cost[i]
    BY <1>2, <1>3
  <2>2. CostScaled(r, sent, I) = SumFunctionOnSet(here, I)
    BY DEF CostScaled, Sum, SumFunction
  <2> HIDE DEF here, cost
  <2>3. SumFunctionOnSet(here, I) = SumFunctionOnSet(cost, I)
    BY <2>1, <1>1, SumAgrees
  <2> QED  BY <2>2, <2>3
<1>7. /\ \A i \in S : one[i] \in Nat /\ cost[i] \in Nat
      /\ \A i \in S : ones[i] = 1 /\ onMore[i] = one[i] + ones[i] /\ costMore[i] = cost[i] + ones[i]
      /\ \A i \in S : low[i] = BpsScale * one[i] /\ high[i] = BpsScale * onMore[i]
  BY <1>1, <1>2, <1>3
<1> HIDE DEF S, one, cost, ones, onMore, costMore, low, high
<1>8. SumFunctionOnSet(cost, I) = SumFunctionOnSet(cost, S)
  BY <1>1, <1>3, <1>4, SumDropsZeros
<1>9. \A i \in S : /\ onMore[i] \in Nat /\ costMore[i] \in Nat /\ low[i] \in Nat /\ high[i] \in Nat
                   /\ low[i] <= cost[i] /\ costMore[i] <= high[i]
  BY <1>5, <1>7
<1>10. SumFunctionOnSet(ones, S) = 1 * Cardinality(S) /\ Cardinality(S) \in Nat
  BY <1>1, <1>7, SumOfEqual
<1>11. SumFunctionOnSet(onMore, S) = SumFunctionOnSet(one, S) + SumFunctionOnSet(ones, S)
  BY <1>1, <1>7, SumAdds
<1>12. SumFunctionOnSet(costMore, S) = SumFunctionOnSet(cost, S) + SumFunctionOnSet(ones, S)
  BY <1>1, <1>7, SumAdds
<1>13. SumFunctionOnSet(low, S) = BpsScale * SumFunctionOnSet(one, S)
  BY <1>1, <1>7, SumScaled
<1>14. SumFunctionOnSet(high, S) = BpsScale * SumFunctionOnSet(onMore, S)
  BY <1>1, <1>7, <1>9, SumScaled
<1>15. SumFunctionOnSet(low, S) <= SumFunctionOnSet(cost, S) /\ SumFunctionOnSet(cost, S) \in Nat
  BY <1>1, <1>7, <1>9, SumOrdered
<1>16. SumFunctionOnSet(costMore, S) <= SumFunctionOnSet(high, S)
  BY <1>1, <1>9, SumOrdered
<1>17. SumFunctionOnSet(one, S) \in Nat
  BY <1>1, <1>7, SumIsNat
<1> QED  BY <1>6, <1>8, <1>10, <1>11, <1>12, <1>13, <1>14, <1>15, <1>16, <1>17 DEF S, one

\* A report adds up what is sent and what it names as fees.
LEMMA ReportAddsUp ==
  ASSUME NEW r, Valid(r), NEW sent \in [Days(r) -> Nat], NEW status
  PROVE  LET report == Report(r, status, sent)
             paid == SumFunctionOnSet(PaidOn(r, sent), Sends(sent))
         IN  /\ report.cost = paid /\ paid \in Nat
             /\ report.closing = Cash(r, Days(r)) - paid
             /\ report.status = status /\ DOMAIN report.transfers = Sends(sent)
             /\ \A i \in Sends(sent) :
                  /\ report.transfers[i].on = r.periods[i].on
                  /\ report.transfers[i].amount + report.transfers[i].fee = PaidOn(r, sent)[i]
                  /\ report.transfers[i].received = (sent[i] * r.periods[i].rate) \div RateScale
<1> DEFINE S == Sends(sent)
           paid == PaidOn(r, sent)
           amounts == [i \in S |-> sent[i]]
           charged == [i \in S |-> Fee(r, sent[i])]
           report == Report(r, status, sent)
<1>1. IsFiniteSet(S) /\ S \subseteq Days(r)
  BY ValidIsTyped, FS_Subset DEF Sends
<1>2. \A i \in S : /\ amounts[i] \in Nat /\ charged[i] \in Nat /\ paid[i] = amounts[i] + charged[i]
                   /\ amounts[i] = sent[i] /\ charged[i] = Fee(r, sent[i])
  BY <1>1, FeeIsTyped DEF PaidOn
<1>3. DOMAIN amounts = S /\ DOMAIN charged = S
  OBVIOUS
<1>4. /\ report.cost = Sum(amounts) + Sum(charged)
      /\ report.closing = Cash(r, Days(r)) - Sum(amounts) - Sum(charged)
      /\ report.status = status /\ DOMAIN report.transfers = S
      /\ \A i \in S : /\ report.transfers[i].on = r.periods[i].on
                      /\ report.transfers[i].amount = sent[i] /\ report.transfers[i].fee = Fee(r, sent[i])
                      /\ report.transfers[i].received = (sent[i] * r.periods[i].rate) \div RateScale
  BY DEF Report
<1>5. Cash(r, Days(r)) \in Int
  <2> DEFINE incomes == [i \in Days(r) |-> r.periods[i].income]
             spendings == [i \in Days(r) |-> r.periods[i].spending]
  <2>1. /\ DOMAIN incomes = Days(r) /\ DOMAIN spendings = Days(r)
        /\ \A i \in Days(r) : incomes[i] \in Nat /\ spendings[i] \in Nat
    BY ValidIsTyped
  <2>2. Cash(r, Days(r)) = r.opening + Sum(incomes) - Sum(spendings)
    BY DEF Cash
  <2> HIDE DEF incomes, spendings
  <2>3. Sum(incomes) \in Nat /\ Sum(spendings) \in Nat /\ r.opening \in Nat
    BY <2>1, ValidIsTyped, SumIsTyped
  <2> QED  BY <2>2, <2>3
<1> HIDE DEF S, paid, amounts, charged, report
<1>6. /\ Sum(amounts) = SumFunctionOnSet(amounts, S) /\ Sum(amounts) \in Nat
      /\ Sum(charged) = SumFunctionOnSet(charged, S) /\ Sum(charged) \in Nat
  BY <1>1, <1>2, <1>3, SumIsTyped
<1>7. SumFunctionOnSet(paid, S) = SumFunctionOnSet(amounts, S) + SumFunctionOnSet(charged, S)
  BY <1>1, <1>2, SumAdds
<1> QED  BY <1>2, <1>4, <1>5, <1>6, <1>7 DEF S, paid, report

(***************************************************************************)
(* The requests the API makes of a form.                                   *)
(***************************************************************************)
RequestsFor(body) ==
  {RequestOf(body, BillsToAskFor(O, body)) : O \in SUBSET Obligations}

LEMMA RequestIsTheForm ==
  ASSUME NEW body \in Forms, NEW r \in RequestsFor(body)
  PROVE  /\ Days(r) = 1 .. body.horizonDays /\ body.horizonDays \in Nat \ {0} /\ Today \in Nat
         /\ \A i \in Days(r) : /\ r.periods[i].on = Today + i - 1
                              /\ r.periods[i].income = body.income /\ r.periods[i].spending = body.spending
         /\ r.opening = body.opening /\ r.minimum = body.minimum
<1>1. PICK O \in SUBSET Obligations : r = RequestOf(body, BillsToAskFor(O, body))
  BY DEF RequestsFor
<1>2. r.periods = PeriodsOf(body) /\ r.opening = body.opening /\ r.minimum = body.minimum
  BY <1>1 DEF RequestOf
<1>3. body.horizonDays \in Nat \ {0} /\ Today \in Nat
  BY PlanningConstants
<1>4. DOMAIN PeriodsOf(body) = 1 .. body.horizonDays
  BY DEF PeriodsOf
<1>5. \A i \in 1 .. body.horizonDays :
        /\ PeriodsOf(body)[i].on = Today + i - 1
        /\ PeriodsOf(body)[i].income = body.income /\ PeriodsOf(body)[i].spending = body.spending
  BY DEF PeriodsOf
<1> QED  BY <1>2, <1>3, <1>4, <1>5 DEF Days

\* The same income and the same spending every day.
LEMMA CashOfDays ==
  ASSUME NEW body \in Forms, NEW r \in RequestsFor(body), Valid(r), NEW n \in Days(r)
  PROVE  /\ Cash(r, 1 .. n) = body.opening + n * (body.income - body.spending)
         /\ body.opening \in Nat /\ body.income \in Nat /\ body.spending \in Nat
<1> DEFINE incomes == [i \in 1 .. n |-> r.periods[i].income]
           spendings == [i \in 1 .. n |-> r.periods[i].spending]
<1>1. /\ n \in Nat \ {0} /\ 1 .. n \subseteq Days(r)
      /\ body.income \in Nat /\ body.spending \in Nat /\ body.opening \in Nat /\ r.opening = body.opening
  BY RequestIsTheForm, ValidIsTyped
<1>2. IsFiniteSet(1 .. n) /\ Cardinality(1 .. n) = n
  <2>1. IsFiniteSet(1 .. n) /\ Cardinality(1 .. n) = IF 1 > n THEN 0 ELSE n - 1 + 1
    BY ONLY <1>1, FS_Interval
  <2> QED  BY <1>1, <2>1
<1>3. /\ DOMAIN incomes = 1 .. n /\ DOMAIN spendings = 1 .. n
      /\ \A i \in 1 .. n : incomes[i] = body.income /\ spendings[i] = body.spending
  BY <1>1, RequestIsTheForm
<1>4. Cash(r, 1 .. n) = r.opening + Sum(incomes) - Sum(spendings)
  BY DEF Cash
<1> HIDE DEF incomes, spendings
<1>5. Sum(incomes) = SumFunctionOnSet(incomes, 1 .. n) /\ Sum(spendings) = SumFunctionOnSet(spendings, 1 .. n)
  BY <1>3 DEF Sum, SumFunction
<1>6. SumFunctionOnSet(incomes, 1 .. n) = body.income * n
  BY <1>1, <1>2, <1>3, SumOfEqual
<1>7. SumFunctionOnSet(spendings, 1 .. n) = body.spending * n
  BY <1>1, <1>2, <1>3, SumOfEqual
<1>8. \A a, b \in Nat : n * (a - b) = a * n - b * n
  BY <1>1
<1>9. \A a \in Nat : a * n \in Nat
  BY <1>1
<1> QED  BY <1>1, <1>4, <1>5, <1>6, <1>7, <1>8, <1>9

\* Carried out with the fees it names, a schedule keeps the buffer on every day.
LEMMA BufferIsKept ==
  ASSUME NEW p, p.result.body \in Forms, NEW r \in RequestsFor(p.result.body), Valid(r),
         NEW sent \in Feasible(r), NEW status,
         p.result.transfers = Report(r, status, sent).transfers,
         p.result.closing = Report(r, status, sent).closing,
         NEW day \in Today .. LastDayOf(p.result.body)
  PROVE  /\ Balance(p, day) >= p.result.body.minimum
         /\ Balance(p, LastDayOf(p.result.body)) = p.result.closing
<1> DEFINE body == p.result.body
           made(d) == MadeBy(p.result, d)
           paidBy(d) == SumFunctionOnSet(PaidOn(r, sent), Sends(sent) \intersect (1 .. (d - Today + 1)))
<1>1. sent \in [Days(r) -> Nat] /\ KeepsBuffer(r, sent)
  BY FeasibleIsTyped
<1>2. /\ body.horizonDays \in Nat \ {0} /\ Today \in Nat /\ LastDayOf(body) = Today + body.horizonDays - 1
      /\ Days(r) = 1 .. body.horizonDays /\ r.minimum = body.minimum /\ r.minimum \in Nat
  BY RequestIsTheForm, ValidIsTyped DEF LastDayOf
<1>3. ASSUME NEW d \in Today .. LastDayOf(body)
      PROVE  /\ d - Today + 1 \in Days(r) /\ 1 .. (d - Today + 1) \in SUBSET Days(r)
             /\ Balance(p, d) = Cash(r, 1 .. (d - Today + 1)) - paidBy(d)
             /\ Cash(r, 1 .. (d - Today + 1)) \in Int /\ paidBy(d) \in Nat
  <2> DEFINE n == d - Today + 1
             sums == [i \in made(d) |-> p.result.transfers[i].amount + p.result.transfers[i].fee]
             earned == n * (body.income - body.spending)
  <2>1. n \in Days(r) /\ 1 .. n \in SUBSET Days(r)
    BY <1>2
  <2>2. made(d) = Sends(sent) \intersect (1 .. n)
    <3>1. Sends(sent) \subseteq Days(r)
      BY <1>1 DEF Sends
    <3>2. \A i \in Sends(sent) : r.periods[i].on = Today + i - 1 /\ i \in Int /\ 1 <= i
      BY <3>1, <1>2, RequestIsTheForm
    <3>3. DOMAIN p.result.transfers = Sends(sent) /\ \A i \in Sends(sent) : p.result.transfers[i].on = r.periods[i].on
      BY <1>1, ReportAddsUp
    <3> QED  BY <1>2, <3>2, <3>3 DEF MadeBy
  <2>3. \A i \in made(d) : /\ PaidOn(r, sent)[i] \in Nat /\ sums[i] = PaidOn(r, sent)[i]
    <3>1. \A i \in made(d) : i \in Sends(sent) /\ i \in Days(r)
      BY <2>1, <2>2
    <3>2. \A i \in made(d) : sums[i] = PaidOn(r, sent)[i]
      BY <3>1, <1>1, ReportAddsUp
    <3>3. \A i \in Days(r) : PaidOn(r, sent)[i] \in Nat
      BY <1>1, FeeIsTyped DEF PaidOn
    <3> QED  BY <3>1, <3>2, <3>3
  <2>4. Sum(sums) = SumFunctionOnSet(sums, made(d))
    BY DEF Sum, SumFunction
  <2>5. IsFiniteSet(made(d))
    BY <2>1, <2>2, ValidIsTyped, FS_Subset
  <2>6. Balance(p, d) = body.opening + (earned - Sum(sums))
    BY DEF Balance
  <2> HIDE DEF sums, made, n
  <2>7. SumFunctionOnSet(sums, made(d)) = SumFunctionOnSet(PaidOn(r, sent), made(d))
    BY <2>3, <2>5, SumAgrees
  <2>8. SumFunctionOnSet(PaidOn(r, sent), made(d)) \in Nat
    BY <2>3, <2>5, SumIsNat
  <2>9. /\ Cash(r, 1 .. n) = body.opening + earned
        /\ body.opening \in Nat /\ earned \in Int
    <3> HIDE DEF body
    <3>1. body \in Forms /\ r \in RequestsFor(body) /\ Valid(r) /\ n \in Days(r)
      BY <2>1 DEF body
    <3>2. /\ Cash(r, 1 .. n) = body.opening + earned
          /\ body.opening \in Nat /\ body.income \in Nat /\ body.spending \in Nat
      BY ONLY <3>1, CashOfDays
    <3>3. n \in Nat
      BY <2>1, <1>2
    <3> QED  BY <3>2, <3>3
  <2>10. Cash(r, 1 .. n) \in Int
    BY <2>9
  <2>11. Balance(p, d) = Cash(r, 1 .. n) - paidBy(d)
    <3>1. Sum(sums) = paidBy(d)
      BY <2>2, <2>4, <2>7 DEF n
    <3>2. Sum(sums) \in Nat
      BY <2>4, <2>7, <2>8
    <3> HIDE DEF paidBy, earned
    <3> QED  BY <3>1, <3>2, <2>6, <2>9
  <2>12. paidBy(d) \in Nat
    BY <2>2, <2>8 DEF n
  <2> HIDE DEF paidBy
  <2> QED  BY <2>1, <2>10, <2>11, <2>12 DEF n
<1>4. Balance(p, day) >= body.minimum
  <2> DEFINE n == day - Today + 1
             cash == Cash(r, 1 .. n)
             paid == paidBy(day)
             cost == CostScaled(r, sent, 1 .. n)
  <2>1. n \in Days(r) /\ 1 .. n \in SUBSET Days(r) /\ Balance(p, day) = cash - paid /\ cash \in Int /\ paid \in Nat
    BY <1>3
  <2>2. BpsScale * cash - cost >= r.minimum * BpsScale
    BY <1>1, <2>1 DEF KeepsBuffer
  <2>3. BpsScale * paid <= cost /\ cost \in Nat
    BY <1>1, <2>1, CostIsPaid
  <2> HIDE DEF cash, paid, cost
  <2>4. BpsScale \in Nat \ {0}
    BY Scales
  <2>5. BpsScale * (cash - paid) = BpsScale * cash - BpsScale * paid /\ BpsScale * paid \in Int /\ BpsScale * cash \in Int
        /\ r.minimum * BpsScale = BpsScale * r.minimum /\ BpsScale * r.minimum \in Int
    <3>1. \A k, a, b \in Int : k * (a - b) = k * a - k * b
      OBVIOUS
    <3>2. \A k, a \in Int : k * a \in Int /\ a * k = k * a
      OBVIOUS
    <3>3. BpsScale \in Int /\ cash \in Int /\ paid \in Int /\ r.minimum \in Int
      BY <1>2, <2>1, <2>4
    <3> QED  BY <3>1, <3>2, <3>3
  <2>6. BpsScale * r.minimum <= BpsScale * (cash - paid)
    BY <2>2, <2>3, <2>5
  <2>7. r.minimum <= cash - paid
    BY <1>2, <2>1, <2>4, <2>6, Cancel
  <2> QED  BY <1>2, <2>1, <2>7
<1>5. Balance(p, LastDayOf(body)) = p.result.closing
  <2>1. LastDayOf(body) \in Today .. LastDayOf(body) /\ LastDayOf(body) - Today + 1 = body.horizonDays
    BY <1>2
  <2>2. Sends(sent) \intersect Days(r) = Sends(sent)
    BY <1>1 DEF Sends
  <2>3. p.result.closing = Cash(r, Days(r)) - SumFunctionOnSet(PaidOn(r, sent), Sends(sent))
    BY <1>1, ReportAddsUp
  <2>4. Balance(p, LastDayOf(body)) = Cash(r, Days(r)) - paidBy(LastDayOf(body))
    BY <2>1, <1>2, <1>3
  <2>5. paidBy(LastDayOf(body)) = SumFunctionOnSet(PaidOn(r, sent), Sends(sent))
    BY <2>1, <2>2, <1>2
  <2> QED  BY <2>3, <2>4, <2>5
<1> QED  BY <1>4, <1>5

\* What has arrived of the transfers made by a day pays what is due, but for the units
\* lost by rounding each transfer down.
LEMMA BillsArePaid ==
  ASSUME NEW r, Valid(r), NEW sent \in Feasible(r), NEW status, NEW result,
         result.transfers = Report(r, status, sent).transfers,
         NEW day \in Nat, DueBy(r, day) # {}
  PROVE  Sum([i \in MadeBy(result, day) |-> result.transfers[i].received + 1])
           > Owed(r, DueBy(r, day))
<1> DEFINE D == DueBy(r, day)
           M == Sends(sent) \intersect Until(r, day)
           dueOn == [b \in Bills(r) |-> r.obligations[b].dueOn]
           owing == [b \in D |-> r.obligations[b].amount]
           got == [i \in Days(r) |-> sent[i] * r.periods[i].rate]
           more == [i \in M |-> got[i] \div RateScale + 1]
           ones == [i \in M |-> 1]
           gotMore == [i \in M |-> got[i] + ones[i]]
           scaled == [i \in M |-> RateScale * more[i]]
           received == [i \in MadeBy(result, day) |-> result.transfers[i].received + 1]
<1>1. sent \in [Days(r) -> Nat] /\ Covers(r, sent) /\ RateScale \in Nat \ {0}
  BY FeasibleIsTyped, Scales
<1>2. IsFiniteSet(D) /\ D \subseteq Bills(r) /\ IsFiniteSet(M) /\ M \subseteq Days(r)
  BY ValidIsTyped, FS_Subset DEF DueBy, Until
<1>3. \A i \in Days(r) : sent[i] \in Nat /\ got[i] = sent[i] * r.periods[i].rate /\ got[i] \in Nat
                         /\ (sent[i] = 0 => got[i] = 0)
  <2> SUFFICES ASSUME NEW i \in Days(r)
               PROVE  sent[i] \in Nat /\ got[i] \in Nat /\ (sent[i] = 0 => got[i] = 0)
    OBVIOUS
  <2>1. sent[i] \in Nat /\ r.periods[i].rate \in Nat
    BY <1>1, ValidIsTyped
  <2>2. \A a, b \in Nat : a * b \in Nat /\ (a = 0 => a * b = 0)
    OBVIOUS
  <2> QED  BY <2>1, <2>2
\* Every bill that is due is due by the last of their dates.
<1>4. PICK b \in D : DueBy(r, r.obligations[b].dueOn) = D /\ r.obligations[b].dueOn <= day
  <2>1. \A c \in D : dueOn[c] \in Nat /\ dueOn[c] = r.obligations[c].dueOn
    BY <1>2, ValidIsTyped
  <2> HIDE DEF dueOn, D
  <2>2. PICK b \in D : \A c \in D : dueOn[c] <= dueOn[b]
    BY <1>2, <2>1, Largest DEF D
  <2>3. \A c \in Bills(r) : r.obligations[c].dueOn \in Nat
    BY ValidIsTyped
  <2>4. r.obligations[b].dueOn <= day /\ b \in Bills(r)
    BY DEF D, DueBy
  <2>5. ASSUME NEW c \in Bills(r) PROVE (r.obligations[c].dueOn <= r.obligations[b].dueOn) = (r.obligations[c].dueOn <= day)
    <3>1. r.obligations[c].dueOn <= day => r.obligations[c].dueOn <= r.obligations[b].dueOn
      BY <2>1, <2>2 DEF D, DueBy
    <3> QED  BY <2>3, <2>4, <3>1
  <2>6. DueBy(r, r.obligations[b].dueOn) = D
    BY <2>5 DEF D, DueBy
  <2> QED  BY <2>4, <2>6
<1> DEFINE U == Until(r, r.obligations[b].dueOn)
<1>5. IsFiniteSet(U) /\ U \subseteq Days(r) /\ U \intersect Sends(sent) \subseteq M
  <2>1. r.obligations[b].dueOn \in Nat /\ \A i \in Days(r) : r.periods[i].on \in Nat
    BY <1>2, ValidIsTyped
  <2>2. U \subseteq Until(r, day)
    BY <1>4, <2>1 DEF Until
  <2> QED  BY <2>2, ValidIsTyped, FS_Subset DEF Until
\* What has arrived by that date was made by the day.
<1>6. /\ Arrived(r, sent, r.obligations[b].dueOn) <= SumFunctionOnSet(got, M)
      /\ SumFunctionOnSet(got, M) \in Nat
  <2> DEFINE here == [i \in U |-> sent[i] * r.periods[i].rate]
             V == U \intersect Sends(sent)
  <2>1. \A i \in U : got[i] \in Nat /\ here[i] = got[i]
    BY <1>3, <1>5
  <2>2. Arrived(r, sent, r.obligations[b].dueOn) = SumFunctionOnSet(here, U)
    BY DEF Arrived, Sum, SumFunction
  <2>3. \A i \in U \ V : got[i] = 0
    BY <1>1, <1>3, <1>5 DEF Sends
  <2>4. \A i \in M : got[i] \in Nat
    BY <1>2, <1>3
  <2>5. V \subseteq M /\ V \subseteq U
    BY <1>5
  <2> HIDE DEF here, got, U, V, M
  <2>6. SumFunctionOnSet(here, U) = SumFunctionOnSet(got, U)
    BY <1>5, <2>1, SumAgrees
  <2>7. SumFunctionOnSet(got, U) = SumFunctionOnSet(got, V)
    BY <1>5, <2>1, <2>3, <2>5, SumDropsZeros
  <2>8. SumFunctionOnSet(got, V) <= SumFunctionOnSet(got, M) /\ SumFunctionOnSet(got, M) \in Nat
    BY <1>2, <2>4, <2>5, SumOfPart, SumIsNat
  <2> QED  BY <2>2, <2>6, <2>7, <2>8
<1>7. Owed(r, D) \in Nat \ {0}
  <2>1. \A c \in D : owing[c] \in Nat \ {0}
    BY <1>2, ValidIsTyped
  <2>2. Owed(r, D) = SumFunctionOnSet(owing, D)
    BY DEF Owed, Sum, SumFunction
  <2> HIDE DEF D, owing
  <2>3. /\ SumFunctionOnSet(owing, D) = owing[b] + SumFunctionOnSet(owing, D \ {b})
        /\ SumFunctionOnSet(owing, D \ {b}) \in Nat
    BY <1>2, <2>1, SumPeels
  <2> QED  BY <2>1, <2>2, <2>3
<1>8. RateScale * Owed(r, D) <= SumFunctionOnSet(got, M)
  <2>1. Arrived(r, sent, r.obligations[b].dueOn) >= Owed(r, D) * RateScale
    BY <1>1, <1>2, <1>4 DEF Covers
  <2>2. Owed(r, D) * RateScale = RateScale * Owed(r, D) /\ RateScale * Owed(r, D) \in Nat
    BY <1>1, <1>7
  <2>3. Arrived(r, sent, r.obligations[b].dueOn) \in Int
    <3> DEFINE here == [i \in U |-> sent[i] * r.periods[i].rate]
    <3>1. \A i \in U : here[i] \in Nat
      BY <1>3, <1>5
    <3>2. Arrived(r, sent, r.obligations[b].dueOn) = SumFunctionOnSet(here, U)
      BY DEF Arrived, Sum, SumFunction
    <3> HIDE DEF here, U
    <3>3. SumFunctionOnSet(here, U) \in Nat
      BY <1>5, <3>1, SumIsNat
    <3> QED  BY <3>2, <3>3
  <2> HIDE DEF D, M, got
  <2> QED  BY <1>6, <2>1, <2>2, <2>3
<1>9. M # {}
  <2>1. ASSUME M = {} PROVE FALSE
    <3>1. SumFunctionOnSet(got, M) = 0
      BY <2>1, SumOfNone
    <3>2. RateScale * Owed(r, D) > 0 /\ RateScale * Owed(r, D) \in Nat
      BY <1>1, <1>7
    <3> HIDE DEF D, M, got
    <3> QED  BY <3>1, <3>2, <1>8
  <2> QED  BY <2>1
\* A transfer brings less than one unit more than is reported.
<1>10. \A i \in M : /\ got[i] \in Nat /\ more[i] \in Nat /\ ones[i] = 1
                    /\ gotMore[i] = got[i] + ones[i] /\ scaled[i] = RateScale * more[i]
                    /\ gotMore[i] \in Nat /\ scaled[i] \in Nat /\ gotMore[i] <= scaled[i]
  <2> SUFFICES ASSUME NEW i \in M
               PROVE  /\ got[i] \in Nat /\ more[i] \in Nat
                      /\ gotMore[i] = got[i] + 1 /\ gotMore[i] \in Nat
                      /\ scaled[i] = RateScale * more[i] /\ scaled[i] \in Nat /\ gotMore[i] <= scaled[i]
    OBVIOUS
  <2>1. got[i] \in Nat
    BY <1>2, <1>3
  <2>2. more[i] = got[i] \div RateScale + 1 /\ gotMore[i] = got[i] + 1 /\ scaled[i] = RateScale * more[i]
    OBVIOUS
  <2> HIDE DEF got, more, gotMore, scaled
  <2>3. got[i] \div RateScale \in Nat /\ got[i] < RateScale * (got[i] \div RateScale + 1)
    BY <1>1, <2>1, Division
  <2>4. \A a \in Nat : RateScale * a \in Nat
    BY <1>1
  <2> QED  BY <2>1, <2>2, <2>3, <2>4
<1>11. /\ MadeBy(result, day) = M
       /\ \A i \in M : received[i] = more[i]
  <2>1. DOMAIN result.transfers = Sends(sent)
        /\ \A i \in Sends(sent) : /\ result.transfers[i].on = r.periods[i].on
                                  /\ result.transfers[i].received = (sent[i] * r.periods[i].rate) \div RateScale
    BY <1>1, ReportAddsUp
  <2>2. Sends(sent) \subseteq Days(r)
    BY <1>1 DEF Sends
  <2>3. MadeBy(result, day) = M
    BY <2>1, <2>2 DEF MadeBy, Until
  <2>4. \A i \in M : received[i] = result.transfers[i].received + 1
    BY <2>3
  <2>5. \A i \in M : more[i] = (sent[i] * r.periods[i].rate) \div RateScale + 1
    BY <1>2
  <2> QED  BY <2>1, <2>3, <2>4, <2>5
<1>12. Sum(received) = SumFunctionOnSet(received, M)
  BY <1>11 DEF Sum, SumFunction
<1> HIDE DEF D, M, got, more, ones, gotMore, scaled, received
<1>13. SumFunctionOnSet(received, M) = SumFunctionOnSet(more, M) /\ SumFunctionOnSet(more, M) \in Nat
  BY <1>2, <1>10, <1>11, SumAgrees, SumIsNat
<1>14. SumFunctionOnSet(gotMore, M) = SumFunctionOnSet(got, M) + SumFunctionOnSet(ones, M)
  <2>1. \A i \in M : got[i] \in Nat /\ ones[i] \in Nat /\ gotMore[i] = got[i] + ones[i]
    BY <1>10
  <2> QED  BY ONLY <1>2, <2>1, SumAdds
<1>15. SumFunctionOnSet(scaled, M) = RateScale * SumFunctionOnSet(more, M)
  BY <1>1, <1>2, <1>10, SumScaled
<1>16. SumFunctionOnSet(gotMore, M) <= SumFunctionOnSet(scaled, M)
  BY <1>2, <1>10, SumOrdered
<1>17. SumFunctionOnSet(ones, M) = 1 * Cardinality(M) /\ Cardinality(M) \in Nat /\ Cardinality(M) # 0
  BY <1>2, <1>9, <1>10, SumOfEqual, FS_EmptySet
<1>18. RateScale * Owed(r, D) < RateScale * SumFunctionOnSet(more, M)
  <2>1. RateScale * Owed(r, D) \in Nat
    BY <1>1, <1>7
  <2>2. RateScale * SumFunctionOnSet(more, M) \in Nat
    BY <1>1, <1>13
  <2>3. SumFunctionOnSet(got, M) + Cardinality(M) <= RateScale * SumFunctionOnSet(more, M)
    BY <1>14, <1>15, <1>16, <1>17
  <2> QED  BY <1>6, <1>8, <1>17, <2>1, <2>2, <2>3
<1>19. Owed(r, D) < SumFunctionOnSet(more, M)
  BY <1>1, <1>7, <1>13, <1>18, Cancel
<1> QED  BY <1>7, <1>12, <1>13, <1>19 DEF D, received

\* There is something to pay, so a schedule sends something.
LEMMA SendsSomething ==
  ASSUME NEW r, Valid(r), NEW sent \in Feasible(r)
  PROVE  Sends(sent) # {}
<1> SUFFICES ASSUME Sends(sent) = {} PROVE FALSE
  OBVIOUS
<1> DEFINE report == Report(r, "FEASIBLE", sent)
<1>1. PICK b \in Bills(r) : TRUE
  BY ValidIsTyped
<1> DEFINE day == r.obligations[b].dueOn
           D == DueBy(r, day)
           owing == [c \in D |-> r.obligations[c].amount]
           received == [i \in MadeBy(report, day) |-> report.transfers[i].received + 1]
<1>2. day \in Nat /\ b \in D /\ IsFiniteSet(D) /\ D \subseteq Bills(r)
  BY ValidIsTyped, FS_Subset DEF DueBy
<1>3. Sum(received) > Owed(r, D)
  <2> HIDE DEF report
  <2>1. report.transfers = Report(r, "FEASIBLE", sent).transfers
    BY DEF report
  <2> QED  BY <1>2, <2>1, BillsArePaid
<1>4. MadeBy(report, day) = {}
  <2>1. DOMAIN report.transfers = {}
    BY FeasibleIsTyped, ReportAddsUp
  <2> QED  BY <2>1 DEF MadeBy
<1>5. Sum(received) = 0
  <2>1. Sum(received) = SumFunctionOnSet(received, {})
    BY <1>4 DEF Sum, SumFunction
  <2> QED  BY <2>1, SumOfNone
<1>6. Owed(r, D) \in Nat
  <2>1. \A c \in D : owing[c] \in Nat
    BY <1>2, ValidIsTyped
  <2>2. Owed(r, D) = Sum(owing) /\ DOMAIN owing = D
    BY DEF Owed
  <2> HIDE DEF owing, D
  <2> QED  BY <1>2, <2>1, <2>2, SumIsTyped
<1> HIDE DEF D, received
<1> QED  BY <1>3, <1>5, <1>6

\* What a schedule costs, in the units the solver minimises and in those it reports.
LEMMA CostIsReported ==
  ASSUME NEW r, Valid(r), NEW sent \in [Days(r) -> Nat], NEW status
  PROVE  LET report == Report(r, status, sent)
             cost == CostScaled(r, sent, Days(r))
             n == Cardinality(DOMAIN report.transfers)
         IN  /\ cost \in Nat /\ report.cost \in Nat /\ n \in Nat /\ n = Cardinality(Sends(sent))
             /\ BpsScale * report.cost <= cost /\ cost + n <= BpsScale * (report.cost + n)
<1>1. Sends(sent) \intersect Days(r) = Sends(sent)
  BY DEF Sends
<1>2. Days(r) \in SUBSET Days(r)
  OBVIOUS
<1>3. LET paid == SumFunctionOnSet(PaidOn(r, sent), Sends(sent))
      IN  /\ paid \in Nat /\ CostScaled(r, sent, Days(r)) \in Nat /\ Cardinality(Sends(sent)) \in Nat
          /\ BpsScale * paid <= CostScaled(r, sent, Days(r))
          /\ CostScaled(r, sent, Days(r)) + Cardinality(Sends(sent))
               <= BpsScale * (paid + Cardinality(Sends(sent)))
  <2>1. LET S == Sends(sent) \intersect Days(r)
            paid == SumFunctionOnSet(PaidOn(r, sent), S)
        IN  /\ paid \in Nat /\ CostScaled(r, sent, Days(r)) \in Nat /\ Cardinality(S) \in Nat
            /\ BpsScale * paid <= CostScaled(r, sent, Days(r))
            /\ CostScaled(r, sent, Days(r)) + Cardinality(S) <= BpsScale * (paid + Cardinality(S))
    BY <1>2, CostIsPaid
  <2> QED  BY <1>1, <2>1
<1>4. /\ Report(r, status, sent).cost = SumFunctionOnSet(PaidOn(r, sent), Sends(sent))
      /\ DOMAIN Report(r, status, sent).transfers = Sends(sent)
  BY ReportAddsUp
<1> QED  BY <1>3, <1>4

\* The cheapest of the schedules is no dearer than any of them.
LEMMA CheapestIsLeast ==
  ASSUME NEW r, Valid(r), NEW sent \in Cheapest(r, Feasible(r)), NEW other \in Feasible(r)
  PROVE  /\ sent \in Feasible(r)
         /\ CostScaled(r, sent, Days(r)) <= CostScaled(r, other, Days(r))
<1> DEFINE costs == {CostScaled(r, s, Days(r)) : s \in Feasible(r)}
<1>1. costs \subseteq Nat /\ costs # {}
  <2>1. \A s \in Feasible(r) : CostScaled(r, s, Days(r)) \in Nat
    <3> TAKE s \in Feasible(r)
    <3>1. s \in [Days(r) -> Nat]
      BY FeasibleIsTyped
    <3> QED  BY <3>1, CostIsReported
  <2> QED  BY <2>1
<1>2. sent \in Feasible(r) /\ CostScaled(r, sent, Days(r)) = Min(costs)
  BY DEF Cheapest
<1>3. CostScaled(r, other, Days(r)) \in costs
  OBVIOUS
<1> HIDE DEF costs
<1>4. \A y \in costs : Min(costs) <= y
  BY <1>1, Smallest DEF Min
<1> QED  BY <1>2, <1>3, <1>4

\* An optimal schedule sends something, and costs no more than sending monthly but for the
\* units its fees were rounded down by, less than one a transfer.
LEMMA OptimalIsCheaper ==
  ASSUME NEW r, Valid(r), NEW sent \in Cheapest(r, Feasible(r)), MonthlySent(r) \in Feasible(r), NEW status
  PROVE  LET monthly == MonthlyBaseline(r)
             report == Report(r, status, sent)
         IN  /\ DOMAIN report.transfers # {}
             /\ monthly.cost - report.cost > -Cardinality(DOMAIN monthly.transfers)
<1> DEFINE monthly == MonthlyBaseline(r)
           report == Report(r, status, sent)
           mine == CostScaled(r, sent, Days(r))
           theirs == CostScaled(r, MonthlySent(r), Days(r))
           n == Cardinality(DOMAIN monthly.transfers)
<1>1. sent \in Feasible(r) /\ mine <= theirs
  BY CheapestIsLeast
<1>2. sent \in [Days(r) -> Nat] /\ MonthlySent(r) \in [Days(r) -> Nat]
  BY <1>1, FeasibleIsTyped
<1>3. mine \in Nat /\ report.cost \in Nat /\ BpsScale * report.cost <= mine
  BY <1>2, CostIsReported
<1>4. /\ theirs \in Nat /\ monthly.cost \in Nat /\ n \in Nat /\ n = Cardinality(Sends(MonthlySent(r)))
      /\ theirs + n <= BpsScale * (monthly.cost + n)
  BY <1>2, CostIsReported DEF MonthlyBaseline
<1>5. n # 0
  <2>1. IsFiniteSet(Sends(MonthlySent(r))) /\ Sends(MonthlySent(r)) # {}
    BY <1>2, ValidIsTyped, FS_Subset, SendsSomething DEF Sends
  <2> QED  BY <2>1, <1>4, FS_EmptySet
<1>6. DOMAIN report.transfers = Sends(sent) /\ Sends(sent) # {}
  BY <1>1, <1>2, ReportAddsUp, SendsSomething
<1> HIDE DEF monthly, report, mine, theirs, n
<1>7. BpsScale * report.cost \in Nat /\ BpsScale * (monthly.cost + n) \in Nat /\ BpsScale \in Nat \ {0}
  BY <1>3, <1>4, Scales
<1>8. BpsScale * report.cost < BpsScale * (monthly.cost + n)
  BY <1>1, <1>3, <1>4, <1>5, <1>7
<1>9. report.cost < monthly.cost + n
  BY <1>3, <1>4, <1>7, <1>8, Cancel
<1>10. monthly.cost - report.cost > -n
  BY <1>3, <1>4, <1>9
<1> QED  BY <1>6, <1>10 DEF monthly, report, n

(***************************************************************************)
(* What the service returns for a request it accepts.                      *)
(***************************************************************************)

\* The monthly strategy sends a number on each period.
LEMMA MonthlyIsTyped ==
  ASSUME NEW r, Valid(r)
  PROVE  MonthlySent(r) \in [Days(r) -> Nat]
<1>1. ASSUME NEW i \in Days(r)
      PROVE  MonthlySent(r)[i] \in Nat
  <2> DEFINE B == {b \in Bills(r) : FundedBy(r, b) = i}
             owing == [b \in B |-> r.obligations[b].amount]
  <2>1. IsFiniteSet(B) /\ DOMAIN owing = B /\ \A b \in B : owing[b] \in Nat
    BY ValidIsTyped, FS_Subset
  <2>2. Owed(r, B) = Sum(owing)
    BY DEF Owed
  <2>3. MonthlySent(r)[i] = CeilDiv(RateScale * Owed(r, B), r.periods[i].rate)
    BY <1>1 DEF MonthlySent
  <2> HIDE DEF B, owing
  <2>4. Owed(r, B) \in Nat /\ RateScale \in Nat
    BY <2>1, <2>2, SumIsTyped, Scales
  <2>5. RateScale * Owed(r, B) \in Nat
    BY <2>4
  <2>6. r.periods[i].rate \in Nat \ {0}
    BY <1>1, ValidIsTyped
  <2>7. \A a \in Nat, k \in Nat \ {0} : a + k - 1 \in Nat
    OBVIOUS
  <2>8. \A a \in Nat, k \in Nat \ {0} : CeilDiv(a, k) \in Nat
    BY <2>7, Division DEF CeilDiv
  <2> QED  BY <2>3, <2>5, <2>6, <2>8
<1> QED  BY <1>1 DEF MonthlySent

\* Every answer of solve is a schedule of the request, or none.
LEMMA SolveAnswers ==
  ASSUME NEW r, Valid(r), NEW s \in Solve(r)
  PROVE  /\ s.cost \in Nat
         /\ HasSchedule(s) =>
              \E sent \in Feasible(r) : s = Report(r, s.status, sent)
         /\ s.status = "OPTIMAL" =>
              \E sent \in Cheapest(r, Feasible(r)) : s = Report(r, s.status, sent)
<1>1. \A sent, status : Report(r, status, sent).status = status
  BY DEF Report
<1>2. ASSUME NEW status
      PROVE  /\ NoSchedule(r, status).status = status /\ NoSchedule(r, status).cost = 0
             /\ ~HasSchedule(NoSchedule(r, status))
  BY DEF NoSchedule, HasSchedule
<1>3. \A sent \in Feasible(r) : \A status : Report(r, status, sent).cost \in Nat
  BY FeasibleIsTyped, CostIsReported
<1>4. Cheapest(r, Feasible(r)) \subseteq Feasible(r)
  BY DEF Cheapest
<1>5. \/ \E sent \in Cheapest(r, Feasible(r)) : s = Report(r, "OPTIMAL", sent)
      \/ \E sent \in Feasible(r) : s = Report(r, "FEASIBLE", sent)
      \/ s = NoSchedule(r, "UNKNOWN") \/ s = NoSchedule(r, "INFEASIBLE")
  BY DEF Solve
<1> QED  BY <1>1, <1>2, <1>3, <1>4, <1>5

\* On a simulated path a request is as valid as before.
LEMMA PathIsValid ==
  ASSUME NEW body \in Forms, NEW r \in RequestsFor(body), Valid(r), NEW rates \in [Days(r) -> PathRates]
  PROVE  Valid(OnPath(r, rates))
<1> DEFINE on == OnPath(r, rates)
           periods == [i \in DOMAIN r.periods |-> [r.periods[i] EXCEPT !.rate = rates[i]]]
<1>1. PICK O \in SUBSET Obligations : r = RequestOf(body, BillsToAskFor(O, body))
  BY DEF RequestsFor
<1>2. /\ on.periods = periods /\ on.obligations = r.obligations /\ on.fixed = r.fixed
      /\ on.bps = r.bps /\ on.opening = r.opening /\ on.minimum = r.minimum
      /\ on.minTransfer = r.minTransfer
  BY <1>1 DEF OnPath, RequestOf
<1>3. r.periods = PeriodsOf(body)
  BY <1>1 DEF RequestOf
<1>4. DOMAIN periods = Days(r)
  BY DEF Days
<1>5. ASSUME NEW i \in Days(r)
      PROVE  /\ periods[i].rate = rates[i] /\ periods[i].on = r.periods[i].on
             /\ periods[i].income = r.periods[i].income /\ periods[i].spending = r.periods[i].spending
  BY <1>3, <1>5 DEF Days, PeriodsOf
<1>6. \A i \in Days(r) : rates[i] \in Nat \ {0}
  BY PlanningConstants
<1>7. Days(on) = Days(r) /\ Bills(on) = Bills(r)
  BY <1>2, <1>4 DEF Days, Bills
<1> HIDE DEF on, periods
<1>8. /\ \E n \in 1 .. MaxPeriods : Days(on) = 1 .. n
      /\ \E n \in 1 .. MaxObligations : Bills(on) = 1 .. n
      /\ {on.fixed, on.opening, on.minimum, on.minTransfer} \subseteq Nat /\ on.bps \in 0 .. BpsScale
  BY <1>2, <1>7 DEF Valid
<1>9. \A i \in Days(on) : /\ on.periods[i].rate \in Nat \ {0}
                          /\ {on.periods[i].on, on.periods[i].income, on.periods[i].spending} \subseteq Nat
  BY <1>2, <1>5, <1>6, <1>7, ValidIsTyped
<1>10. \A b \in Bills(on) :
         /\ on.obligations[b].amount \in Nat \ {0} /\ on.obligations[b].dueOn \in Nat
         /\ \E i \in Days(on) : on.obligations[b].dueOn <= on.periods[i].on
  <2>1. \A b \in Bills(r) :
          /\ r.obligations[b].amount \in Nat \ {0} /\ r.obligations[b].dueOn \in Nat
          /\ \E i \in Days(r) : r.obligations[b].dueOn <= r.periods[i].on
    BY DEF Valid
  <2>2. \A i \in Days(on) : on.periods[i].on = r.periods[i].on
    BY <1>2, <1>5, <1>7
  <2> QED  BY <2>1, <2>2, <1>2, <1>7
<1>11. Valid(on)
  BY ONLY <1>8, <1>9, <1>10 DEF Valid
<1> QED  BY <1>11 DEF on

\* The table of solutions has what the service answers, for a request and on each path.
LEMMA SolutionIsTheirs ==
  ASSUME NEW body \in Forms, NEW r \in RequestsFor(body), Valid(r)
  PROVE  /\ Solution(r).solved = Solve(r) /\ Solution(r).monthly = MonthlyBaseline(r)
         /\ \A rates \in [Days(r) -> PathRates] :
              LET q == OnPath(r, rates)
              IN  Valid(q) /\ Solution(q).solved = Solve(q) /\ Solution(q).monthly = MonthlyBaseline(q)
<1>1. r \in Requests
  <2>1. PICK O \in SUBSET Obligations : r = RequestOf(body, BillsToAskFor(O, body))
    BY DEF RequestsFor
  <2>2. <<body, O>> \in Forms \X SUBSET Obligations /\ <<body, O>>[1] = body /\ <<body, O>>[2] = O
    OBVIOUS
  <2> QED  BY <2>1, <2>2 DEF Requests
<1>2. ASSUME NEW q \in Requests \union Simulations, Valid(q)
      PROVE  Solution(q).solved = Solve(q) /\ Solution(q).monthly = MonthlyBaseline(q)
  <2> DEFINE one(x) == [of |-> x, solved |-> Solve(x), monthly |-> MonthlyBaseline(x)]
  <2>1. one(q) \in Solutions /\ one(q).of = q
    BY <1>2 DEF Solutions
  <2>2. Solution(q) \in Solutions /\ Solution(q).of = q
    BY <2>1 DEF Solution
  <2>3. PICK x : Solution(q) = one(x)
    BY <2>2 DEF Solutions
  <2>4. x = q
    BY <2>2, <2>3
  <2> QED  BY <2>3, <2>4
<1>3. \A rates \in [Days(r) -> PathRates] : OnPath(r, rates) \in Simulations
  BY <1>1 DEF Simulations
<1> QED  BY <1>1, <1>2, <1>3, PathIsValid

(***************************************************************************)
(* The attempt under way.  Its stages tell what can be there; the outcomes *)
(* of the calls answer the request, which is one the body that was asked   *)
(* with makes; and so does every plan that was filed.                      *)
(***************************************************************************)
Single(S) == \A x, y \in S : x = y
Results(outcomes) == UNION {o.result : o \in outcomes}

StateTyped ==
  /\ form \in Forms /\ asked \in Forms /\ busy \in {"none", "plan", "saving"}
  /\ anyListed \in BOOLEAN /\ error \in BOOLEAN /\ note \in BOOLEAN
  /\ stage \in {"idle", "prepare", "calls", "history", "paths", "answer"}
  /\ Single(plan) /\ Single(saving) /\ Single(request)
  /\ Single(planned) /\ Single(compared) /\ Single(answer)
  /\ Single(Results(planned)) /\ Single(Results(compared)) /\ Single(Results(answer))
  /\ stored \subseteq Obligations
  /\ gains \in Seq(Int) /\ simulated \in 0 .. Paths /\ Len(gains) <= simulated
  /\ observed \in 0 .. MaxObserved /\ changes \in 0 .. MaxChanges

StageFits ==
  /\ busy = "none" => stage = "idle"
  /\ stage \in {"idle", "prepare"} => request = {}
  /\ stage = "calls" => busy = "plan"
  /\ stage \in {"history", "paths"} => busy = "saving"
  /\ stage # "calls" => planned = {} /\ compared = {}
  /\ stage # "answer" => answer = {}

\* What the page is told of a request the solver has planned and compared.
Computed(result, r) ==
  /\ Valid(r) /\ result.to = LastDayOf(result.body)
  /\ \E s \in Solve(r) :
       /\ result.status = s.status /\ result.transfers = s.transfers /\ result.closing = s.closing
       /\ \A saved \in result.saving : saved = MonthlyBaseline(r).cost - s.cost
  /\ \A b \in result.baseline : b.transfers = Cardinality(DOMAIN MonthlyBaseline(r).transfers)

CallsFit ==
  /\ request \subseteq RequestsFor(asked)
  /\ \A result \in Results(planned) : \E r \in request : Valid(r) /\ result \in Solve(r)
  /\ \A result \in Results(compared) : \E r \in request : Valid(r) /\ result = MonthlyBaseline(r)
  /\ busy = "plan" => \A result \in Results(answer) : \E r \in request : Computed(result, r)

FiledFits ==
  \A p \in plan : \E r \in RequestsFor(p.key) :
    p.key \in Forms /\ p.for = {r} /\ Computed(p.result, r)

Attempt == StateTyped /\ StageFits /\ CallsFit /\ FiledFits

\* Initially there is no attempt.
LEMMA AttemptInitially == Init => Attempt
<1> SUFFICES ASSUME Init PROVE Attempt
  OBVIOUS
<1>1. StateTyped
  <2>1. MaxObserved \in Nat /\ MaxChanges \in Nat /\ Paths \in Nat
    BY PlanningConstants
  <2>2. Results({}) = {} /\ Single({})
    BY DEF Results, Single
  <2>3. anyListed \in BOOLEAN /\ error \in BOOLEAN /\ note \in BOOLEAN
    BY DEF Init
  <2>4. gains \in Seq(Int) /\ Len(gains) <= simulated /\ simulated \in 0 .. Paths
    BY <2>1 DEF Init
  <2>5. form \in Forms /\ asked \in Forms /\ busy = "none" /\ stage = "idle" /\ stored \subseteq Obligations
    BY DEF Init
  <2>6. observed \in 0 .. MaxObserved /\ changes \in 0 .. MaxChanges
    BY <2>1 DEF Init
  <2>7. \A S \in {plan, saving, request, planned, compared, answer} : S = {}
    BY DEF Init
  <2> QED  BY <2>2, <2>3, <2>4, <2>5, <2>6, <2>7 DEF StateTyped
<1>2. StageFits
  BY DEF Init, StageFits
<1>3. CallsFit
  BY DEF Init, CallsFit, Results
<1>4. FiledFits
  BY DEF Init, FiledFits
<1> QED  BY <1>1, <1>2, <1>3, <1>4 DEF Attempt

\* What the student and the world do leaves the attempt alone.
LEMMA WorldKeepsAttempt ==
  ASSUME Attempt, EditForm \/ ChangeObligations \/ Refetch \/ Observe
  PROVE  Attempt'
<1>1. /\ UNCHANGED <<busy, asked, plan, saving, error, note, api>>
      /\ form' \in Forms /\ anyListed' \in BOOLEAN /\ stored' \subseteq Obligations
      /\ observed' \in 0 .. MaxObserved /\ changes' \in 0 .. MaxChanges
  <2> USE DEF Attempt, StateTyped, Change, page, data
  <2>1. MaxObserved \in Nat /\ MaxChanges \in Nat
    BY PlanningConstants
  <2>2. CASE EditForm
    BY <2>1, <2>2 DEF EditForm
  <2>3. CASE ChangeObligations
    BY <2>1, <2>3 DEF ChangeObligations
  <2>4. CASE Refetch
    BY <2>1, <2>4 DEF Refetch
  <2>5. CASE Observe
    BY <2>1, <2>5 DEF Observe
  <2> QED  BY <2>2, <2>3, <2>4, <2>5
<1>2. StateTyped'
  BY <1>1 DEF Attempt, StateTyped, Results, api
<1>3. StageFits' /\ CallsFit' /\ FiledFits'
  BY <1>1 DEF Attempt, StageFits, CallsFit, FiledFits, Results, api
<1> QED  BY <1>2, <1>3 DEF Attempt

\* A new attempt starts with nothing of an earlier one left.
LEMMA AskStartsAttempt ==
  ASSUME Attempt, Build \/ Estimate
  PROVE  Attempt'
<1>1. PICK what \in {"plan", "saving"} : Ask(what)
  BY DEF Build, Estimate
<1>2. error' \in BOOLEAN /\ note' \in BOOLEAN
  BY DEF Build, Estimate, Attempt, StateTyped
<1>3. /\ busy = "none" /\ busy' = what /\ asked' = form /\ stage' = "prepare"
      /\ UNCHANGED <<form, anyListed, plan, saving, request, planned, compared, gains,
                     simulated, answer, data, changes>>
  BY <1>1 DEF Ask
<1>4. request = {} /\ planned = {} /\ compared = {} /\ answer = {}
  BY <1>3 DEF Attempt, StageFits
<1>5. StateTyped'
  BY <1>2, <1>3 DEF Attempt, StateTyped, Results, data
<1>6. StageFits' /\ CallsFit'
  BY <1>3, <1>4 DEF StageFits, CallsFit, Results
<1>7. FiledFits'
  BY <1>3 DEF Attempt, FiledFits
<1> QED  BY <1>5, <1>6, <1>7 DEF Attempt

\* The handlers leave the page as it is.
LEMMA HandlerLeavesPage ==
  ASSUME Attempt, Handler
  PROVE  /\ UNCHANGED <<form, anyListed, busy, asked, plan, saving, error, note, stored, observed, changes>>
         /\ FiledFits'
BY DEF Handler, Prepare, CallPlan, CallBaseline, Respond, ReadHistory, Simulate, EstimateEnds,
       page, data, Attempt, FiledFits

\* An answer without a result ends the handler's part of an attempt.
LEMMA SaysNothing ==
  ASSUME Attempt, NEW kind, Say(kind, {}), request' = {} \/ request' = request,
         UNCHANGED <<form, anyListed, busy, asked, plan, saving, error, note, stored, observed, changes>>,
         busy # "none"
  PROVE  Attempt'
<1>1. /\ answer' = {[kind |-> kind, result |-> {}]} /\ stage' = "answer"
      /\ planned' = {} /\ compared' = {} /\ gains' = <<>> /\ simulated' = 0
  BY DEF Say
<1>2. Results(answer') = {} /\ Results({}) = {}
  BY <1>1 DEF Results
<1>3. StateTyped'
  <2>1. Paths \in Nat
    BY PlanningConstants
  <2>2. Single(answer') /\ Single({}) /\ Single(request')
    BY <1>1 DEF Single, Attempt, StateTyped
  <2>3. Results(answer)' = {} /\ Results(planned)' = {} /\ Results(compared)' = {}
    BY <1>1, <1>2
  <2>4. gains' \in Seq(Int) /\ simulated' \in 0 .. Paths /\ Len(gains') <= simulated'
    BY <1>1, <2>1
  <2> QED  BY <1>1, <2>2, <2>3, <2>4 DEF Attempt, StateTyped
<1>4. StageFits'
  BY <1>1 DEF StageFits
<1>5. CallsFit'
  BY <1>1, <1>2 DEF Attempt, CallsFit, Results
<1>6. FiledFits'
  BY DEF Attempt, FiledFits
<1> QED  BY <1>3, <1>4, <1>5, <1>6 DEF Attempt

\* The request prepared is one the body asked with makes.
LEMMA PrepareKeepsAttempt ==
  ASSUME Attempt, Prepare
  PROVE  Attempt'
<1> DEFINE bills == BillsToAskFor(stored, asked)
<1>1. /\ UNCHANGED <<form, anyListed, busy, asked, plan, saving, error, note, stored, observed, changes>>
      /\ FiledFits' /\ stage = "prepare" /\ busy \in {"plan", "saving"}
  BY HandlerLeavesPage DEF Handler, Prepare, Attempt, StageFits, StateTyped
<1>2. CASE bills = {}
  BY <1>1, <1>2, SaysNothing DEF Prepare
<1>3. CASE bills # {}
  <2>1. /\ request' = {RequestOf(asked, bills)} /\ stage' = IF busy = "plan" THEN "calls" ELSE "history"
        /\ UNCHANGED <<planned, compared, gains, simulated, answer>>
    BY <1>3 DEF Prepare
  <2>2. planned = {} /\ compared = {} /\ answer = {}
    BY <1>1 DEF Attempt, StageFits
  <2>3. StateTyped'
    BY <1>1, <2>1 DEF Attempt, StateTyped, Single, Results
  <2>4. StageFits'
    BY <1>1, <2>1, <2>2 DEF StageFits
  <2>5. RequestOf(asked, bills) \in RequestsFor(asked)
    BY DEF RequestsFor, Attempt, StateTyped
  <2>6. CallsFit'
    <3>1. request' \subseteq RequestsFor(asked')
      BY <1>1, <2>1, <2>5
    <3> QED  BY <3>1, <2>1, <2>2 DEF CallsFit, Results
  <2> QED  BY <1>1, <2>3, <2>4, <2>6 DEF Attempt
<1> QED  BY <1>2, <1>3

\* What a call may end with: one result at most, and one of the results it may have.
LEMMA OutcomeHasOne ==
  ASSUME NEW r, NEW refuses, NEW results, NEW o \in Outcomes(r, refuses, results)
  PROVE  /\ Single(Results({o})) /\ Results({o}) \subseteq results
         /\ Results({o}) # {} => ~refuses
<1>1. Results({o}) = o.result
  BY DEF Results
<1>2. o.result = {} \/ (~refuses /\ \E x \in results : o.result = {x})
  BY DEF Outcomes
<1> QED  BY <1>1, <1>2 DEF Single

\* A plan call's result is one the solver may return for the request, a baseline's the baseline.
LEMMA CallsKeepAttempt ==
  ASSUME Attempt, CallPlan \/ CallBaseline
  PROVE  Attempt'
<1>1. /\ UNCHANGED <<form, anyListed, busy, asked, plan, saving, error, note, stored, observed, changes>>
      /\ FiledFits' /\ UNCHANGED <<stage, request, gains, simulated, answer>> /\ stage = "calls"
  BY HandlerLeavesPage DEF Handler, CallPlan, CallBaseline
<1>2. asked \in Forms /\ request \subseteq RequestsFor(asked)
  BY DEF Attempt, StateTyped, CallsFit
<1>3. StageFits'
  BY <1>1 DEF Attempt, StageFits
<1>4. CASE CallPlan
  <2>1. compared' = compared
    BY <1>4 DEF CallPlan
  <2>2. PICK r \in request : \E o \in Outcomes(r, ~Valid(r) \/ Unfundable(r), Solution(r).solved) : planned' = {o}
    BY <1>4 DEF CallPlan
  <2> PICK o \in Outcomes(r, ~Valid(r) \/ Unfundable(r), Solution(r).solved) : planned' = {o}
    BY <2>2
  <2>3. Single(Results(planned')) /\ \A x \in Results(planned') : Valid(r) /\ x \in Solution(r).solved
    BY <2>2, OutcomeHasOne
  <2>4. \A x \in Results(planned') : Valid(r) /\ x \in Solve(r)
    BY <2>3, <1>2, SolutionIsTheirs
  <2>5. StateTyped'
    BY <1>1, <2>1, <2>2, <2>3 DEF Attempt, StateTyped, Single, Results
  <2>6. CallsFit'
    BY <1>1, <2>1, <2>4 DEF Attempt, CallsFit, Results
  <2> QED  BY <1>1, <1>3, <2>5, <2>6 DEF Attempt
<1>5. CASE CallBaseline
  <2>1. planned' = planned
    BY <1>5 DEF CallBaseline
  <2>2. PICK r \in request : \E o \in Outcomes(r, ~Valid(r), {Solution(r).monthly}) : compared' = {o}
    BY <1>5 DEF CallBaseline
  <2> PICK o \in Outcomes(r, ~Valid(r), {Solution(r).monthly}) : compared' = {o}
    BY <2>2
  <2>3. Single(Results(compared')) /\ \A x \in Results(compared') : Valid(r) /\ x = Solution(r).monthly
    <3>1. /\ Single(Results({o})) /\ Results({o}) \subseteq {Solution(r).monthly}
          /\ Results({o}) # {} => ~(~Valid(r))
      BY OutcomeHasOne
    <3> QED  BY <3>1
  <2>4. \A x \in Results(compared') : Valid(r) /\ x = MonthlyBaseline(r)
    BY <2>3, <1>2, SolutionIsTheirs
  <2>5. StateTyped'
    BY <1>1, <2>1, <2>2, <2>3 DEF Attempt, StateTyped, Single, Results
  <2>6. CallsFit'
    BY <1>1, <2>1, <2>4 DEF Attempt, CallsFit, Results
  <2> QED  BY <1>1, <1>3, <2>5, <2>6 DEF Attempt
<1> QED  BY <1>4, <1>5

\* The answer of the plan route is computed from the two outcomes, of the same request.
LEMMA RespondKeepsAttempt ==
  ASSUME Attempt, Respond
  PROVE  Attempt'
<1>1. /\ UNCHANGED <<form, anyListed, busy, asked, plan, saving, error, note, stored, observed, changes>>
      /\ FiledFits' /\ request' = request /\ stage = "calls" /\ busy = "plan"
  BY HandlerLeavesPage DEF Handler, Respond, Attempt, StageFits
<1>2. PICK p \in planned, c \in compared :
        IF p.kind = "ok"
        THEN \E result \in p.result : Say("ok", {PlanResult(result, c.result)})
        ELSE Say(p.kind, {})
  BY DEF Respond
<1>3. CASE p.kind # "ok"
  BY <1>1, <1>2, <1>3, SaysNothing
<1>4. CASE p.kind = "ok"
  <2>1. PICK s \in p.result : Say("ok", {PlanResult(s, c.result)})
    BY <1>2, <1>4
  <2> DEFINE said == PlanResult(s, c.result)
  <2>2. /\ answer' = {[kind |-> "ok", result |-> {said}]} /\ stage' = "answer"
        /\ planned' = {} /\ compared' = {} /\ gains' = <<>> /\ simulated' = 0
    BY <2>1 DEF Say
  <2>3. PICK r \in request : Valid(r) /\ s \in Solve(r)
    BY DEF Attempt, CallsFit, Results
  <2>4. \A b \in c.result : b = MonthlyBaseline(r)
    <3>1. \A b \in c.result : \E q \in request : b = MonthlyBaseline(q)
      BY DEF Attempt, CallsFit, Results
    <3>2. \A q \in request : q = r
      BY DEF Attempt, StateTyped, Single
    <3> QED  BY <3>1, <3>2
  <2>5. Computed(said, r)
    <3>1. /\ said.body = asked /\ said.to = LastDayOf(asked) /\ said.status = s.status
          /\ said.transfers = s.transfers /\ said.closing = s.closing
          /\ said.baseline = {[transfers |-> Cardinality(DOMAIN b.transfers), cost |-> b.cost] : b \in c.result}
          /\ said.saving = IF HasSchedule(s) THEN {b.cost - s.cost : b \in c.result} ELSE {}
      BY DEF PlanResult
    <3>2. \A saved \in said.saving : saved = MonthlyBaseline(r).cost - s.cost
      BY <3>1, <2>4
    <3>3. \A b \in said.baseline : b.transfers = Cardinality(DOMAIN MonthlyBaseline(r).transfers)
      BY <3>1, <2>4
    <3> QED  BY <3>1, <3>2, <3>3, <2>3 DEF Computed
  <2> HIDE DEF said
  <2>6. Results(answer') = {said} /\ Results({}) = {} /\ Single({said}) /\ Single({})
    BY <2>2 DEF Results, Single
  <2>7. StateTyped'
    <3>1. Paths \in Nat
      BY PlanningConstants
    <3>2. Single(answer') /\ Single(Results(answer)') /\ Single(Results(planned)') /\ Single(Results(compared)')
      BY <2>2, <2>6 DEF Single
    <3>3. gains' \in Seq(Int) /\ simulated' \in 0 .. Paths /\ Len(gains') <= simulated'
      BY <2>2, <3>1
    <3> QED  BY <1>1, <2>2, <2>6, <3>2, <3>3 DEF Attempt, StateTyped
  <2>8. StageFits'
    BY <1>1, <2>2 DEF StageFits
  <2>9. CallsFit'
    BY <1>1, <2>2, <2>3, <2>5, <2>6 DEF Attempt, CallsFit
  <2> QED  BY <1>1, <2>7, <2>8, <2>9 DEF Attempt
<1> QED  BY <1>3, <1>4

\* Without enough rates there is no estimate; otherwise the paths are next.
LEMMA ReadHistoryKeepsAttempt ==
  ASSUME Attempt, ReadHistory
  PROVE  Attempt'
<1>1. /\ UNCHANGED <<form, anyListed, busy, asked, plan, saving, error, note, stored, observed, changes>>
      /\ FiledFits' /\ request' = request /\ stage = "history" /\ busy = "saving"
  BY HandlerLeavesPage DEF Handler, ReadHistory, Attempt, StageFits
<1>2. CASE observed < MinHistory
  BY <1>1, <1>2, SaysNothing DEF ReadHistory
<1>3. CASE ~(observed < MinHistory)
  <2>1. stage' = "paths" /\ UNCHANGED <<planned, compared, gains, simulated, answer>>
    BY <1>3 DEF ReadHistory
  <2>2. StateTyped' /\ StageFits' /\ CallsFit'
    BY <1>1, <2>1 DEF Attempt, StateTyped, StageFits, CallsFit, Results
  <2> QED  BY <1>1, <2>2 DEF Attempt
<1> QED  BY <1>2, <1>3

\* Each path adds one number at most to what has been gained.
LEMMA SimulateKeepsAttempt ==
  ASSUME Attempt, Simulate
  PROVE  Attempt'
<1>1. /\ UNCHANGED <<form, anyListed, busy, asked, plan, saving, error, note, stored, observed, changes>>
      /\ UNCHANGED <<stage, request, planned, compared, answer>>
      /\ FiledFits' /\ simulated < Paths /\ simulated' = simulated + 1
  BY HandlerLeavesPage DEF Handler, Simulate
<1>2. gains \in Seq(Int) /\ simulated \in 0 .. Paths /\ Len(gains) <= simulated /\ Paths \in Nat
  BY PlanningConstants DEF Attempt, StateTyped
<1>3. gains' = gains \/ \E gain \in Int : gains' = Append(gains, gain)
  <2>1. PICK r \in request : /\ Valid(r)
                             /\ \E rates \in [Days(r) -> PathRates] :
                                  LET s == Solution(OnPath(r, rates))
                                  IN  \E result \in s.solved :
                                        gains' = IF HasSchedule(result)
                                                 THEN Append(gains, s.monthly.cost - result.cost)
                                                 ELSE gains
    BY DEF Simulate
  <2>2. PICK rates \in [Days(r) -> PathRates] :
          \E result \in Solution(OnPath(r, rates)).solved :
            gains' = IF HasSchedule(result)
                     THEN Append(gains, Solution(OnPath(r, rates)).monthly.cost - result.cost)
                     ELSE gains
    BY <2>1
  <2> DEFINE q == OnPath(r, rates)
  <2>3. Valid(q) /\ Solution(q).solved = Solve(q) /\ Solution(q).monthly = MonthlyBaseline(q)
    <3>1. asked \in Forms /\ r \in RequestsFor(asked)
      BY DEF Attempt, StateTyped, CallsFit
    <3> QED  BY <2>1, <3>1, SolutionIsTheirs
  <2>4. MonthlyBaseline(q).cost \in Nat
    BY <2>3, MonthlyIsTyped, CostIsReported DEF MonthlyBaseline
  <2>5. \A s \in Solve(q) : s.cost \in Nat
    BY <2>3, SolveAnswers
  <2> HIDE DEF q
  <2>6. PICK result \in Solve(q) :
          gains' = IF HasSchedule(result) THEN Append(gains, MonthlyBaseline(q).cost - result.cost)
                   ELSE gains
    BY <2>2, <2>3 DEF q
  <2>7. MonthlyBaseline(q).cost - result.cost \in Int
    BY <2>4, <2>5
  <2> QED  BY <2>6, <2>7
<1>4. gains' \in Seq(Int) /\ simulated' \in 0 .. Paths /\ Len(gains') <= simulated'
  BY <1>1, <1>2, <1>3
<1>5. StateTyped' /\ StageFits' /\ CallsFit'
  BY <1>1, <1>4 DEF Attempt, StateTyped, StageFits, CallsFit, Results
<1> QED  BY <1>1, <1>5 DEF Attempt

\* The estimate's answer holds one result at most.
LEMMA EstimateEndsKeepsAttempt ==
  ASSUME Attempt, EstimateEnds
  PROVE  Attempt'
<1>1. /\ UNCHANGED <<form, anyListed, busy, asked, plan, saving, error, note, stored, observed, changes>>
      /\ FiledFits' /\ request' = request /\ stage = "paths" /\ busy = "saving"
  BY HandlerLeavesPage DEF Handler, EstimateEnds, Attempt, StageFits
<1>2. CASE Say("unavailable", {}) \/ Say("rejected", {})
  BY <1>1, <1>2, SaysNothing
<1>3. ASSUME NEW result, Say("ok", {result})
      PROVE  Attempt'
  <2>1. /\ answer' = {[kind |-> "ok", result |-> {result}]} /\ stage' = "answer"
        /\ planned' = {} /\ compared' = {} /\ gains' = <<>> /\ simulated' = 0
    BY <1>3 DEF Say
  <2>2. Results(answer') = {result} /\ Results({}) = {} /\ Single({result}) /\ Single({})
    BY <2>1 DEF Results, Single
  <2>3. StateTyped'
    <3>1. Paths \in Nat
      BY PlanningConstants
    <3>2. Single(answer') /\ Single(Results(answer)') /\ Single(Results(planned)') /\ Single(Results(compared)')
      BY <2>1, <2>2 DEF Single
    <3>3. gains' \in Seq(Int) /\ simulated' \in 0 .. Paths /\ Len(gains') <= simulated'
      BY <2>1, <3>1
    <3> QED  BY <1>1, <2>1, <2>2, <3>2, <3>3 DEF Attempt, StateTyped
  <2>4. StageFits'
    BY <1>1, <2>1 DEF StageFits
  <2>5. CallsFit'
    BY <1>1, <2>1, <2>2 DEF Attempt, CallsFit
  <2> QED  BY <1>1, <2>3, <2>4, <2>5 DEF Attempt
<1> QED  BY <1>2, <1>3 DEF EstimateEnds

\* However it ends, an attempt leaves nothing behind it.
LEMMA OverKeepsAttempt ==
  ASSUME Attempt, AttemptOver, FiledFits', Single(plan'), Single(saving'),
         error' \in BOOLEAN, note' \in BOOLEAN,
         UNCHANGED <<form, anyListed, asked, stored, observed, changes>>
  PROVE  Attempt'
<1>1. /\ busy' = "none" /\ stage' = "idle" /\ request' = {} /\ answer' = {}
      /\ planned' = {} /\ compared' = {} /\ gains' = <<>> /\ simulated' = 0
  BY DEF AttemptOver
<1>2. Results({}) = {} /\ Single({})
  BY DEF Results, Single
<1>3. StateTyped'
  <2>1. Paths \in Nat
    BY PlanningConstants
  <2>2. Single(Results(answer)') /\ Single(Results(planned)') /\ Single(Results(compared)')
    BY <1>1, <1>2
  <2>3. gains' \in Seq(Int) /\ simulated' \in 0 .. Paths /\ Len(gains') <= simulated'
    BY <1>1, <2>1
  <2> QED  BY <1>1, <1>2, <2>2, <2>3 DEF Attempt, StateTyped
<1>4. StageFits' /\ CallsFit'
  BY <1>1, <1>2 DEF StageFits, CallsFit
<1> QED  BY <1>3, <1>4 DEF Attempt

\* A plan is filed with the request it answers, which the key it is filed under makes.
LEMMA DeliverKeepsAttempt ==
  ASSUME Attempt, AnswersFit, Deliver
  PROVE  Attempt'
<1>1. AttemptOver /\ UNCHANGED <<form, anyListed, asked, stored, observed, changes>>
  BY DEF Deliver, data
<1>2. PICK a \in answer :
        /\ plan' = IF busy = "plan" /\ a.kind = "ok"
                   THEN {[key |-> asked, result |-> res, for |-> request] : res \in a.result}
                   ELSE plan
        /\ saving' = IF busy = "saving" /\ a.kind = "ok"
                     THEN {[key |-> asked, result |-> res] : res \in a.result}
                     ELSE saving
        /\ note' = (note \/ (busy = "saving" /\ a.kind = "rejected"))
        /\ error' = (error \/ a.kind = "unavailable" \/ (busy = "plan" /\ a.kind = "rejected"))
  BY DEF Deliver
<1>3. Single(plan') /\ Single(saving')
  <2>1. Single(a.result) /\ Single(plan) /\ Single(saving)
    BY DEF Attempt, StateTyped, Single, Results
  <2> QED  BY <1>2, <2>1 DEF Single
<1>4. error' \in BOOLEAN
  BY <1>2
<1>5. note' \in BOOLEAN
  BY <1>2
<1>6. FiledFits'
  <2>1. CASE busy = "plan" /\ a.kind = "ok"
    <3>1. \A res \in a.result : \E r \in request : Computed(res, r)
      BY <2>1 DEF Attempt, CallsFit, Results
    <3>2. \A r \in request : request = {r} /\ r \in RequestsFor(asked)
      BY DEF Attempt, StateTyped, CallsFit, Single
    <3>3. asked \in Forms
      BY DEF Attempt, StateTyped
    <3>4. ASSUME NEW p \in plan'
          PROVE  \E r \in RequestsFor(p.key) : p.key \in Forms /\ p.for = {r} /\ Computed(p.result, r)
      <4>1. PICK res \in a.result : p = [key |-> asked, result |-> res, for |-> request]
        BY <1>2, <2>1, <3>4
      <4>2. p.key = asked /\ p.result = res /\ p.for = request
        BY <4>1
      <4> QED  BY <3>1, <3>2, <3>3, <4>2
    <3> QED  BY <3>4 DEF FiledFits
  <2>2. CASE ~(busy = "plan" /\ a.kind = "ok")
    BY <1>2, <2>2 DEF Attempt, FiledFits
  <2> QED  BY <2>1, <2>2
<1> QED  BY <1>1, <1>3, <1>4, <1>5, <1>6, OverKeepsAttempt

\* A failure frees the button and files nothing.
LEMMA FailureKeepsAttempt ==
  ASSUME Attempt, AttemptFails
  PROVE  Attempt'
<1>1. /\ AttemptOver /\ error' = TRUE
      /\ UNCHANGED <<form, anyListed, asked, plan, saving, note, stored, observed, changes>>
  BY DEF AttemptFails, data
<1>2. error' \in BOOLEAN /\ note' \in BOOLEAN /\ Single(plan') /\ Single(saving') /\ FiledFits'
  BY <1>1 DEF Attempt, StateTyped, FiledFits
<1> QED  BY <1>1, <1>2, OverKeepsAttempt

\* Every step keeps it.
LEMMA AttemptKept == Attempt /\ AnswersFit /\ [Next]_vars => Attempt'
<1> SUFFICES ASSUME Attempt, AnswersFit, [Next]_vars PROVE Attempt'
  OBVIOUS
<1>1. CASE EditForm \/ ChangeObligations \/ Refetch \/ Observe
  BY <1>1, WorldKeepsAttempt
<1>2. CASE Build \/ Estimate
  BY <1>2, AskStartsAttempt
<1>3. CASE Handler
  BY <1>3, PrepareKeepsAttempt, CallsKeepAttempt, RespondKeepsAttempt, ReadHistoryKeepsAttempt,
     SimulateKeepsAttempt, EstimateEndsKeepsAttempt DEF Handler
<1>4. CASE Deliver
  BY <1>4, DeliverKeepsAttempt
<1>5. CASE AttemptFails
  BY <1>5, FailureKeepsAttempt
<1>6. CASE UNCHANGED vars
  BY <1>6 DEF vars, page, api, data, Attempt, StateTyped, StageFits, CallsFit, FiledFits, Results
<1> QED
  BY <1>1, <1>2, <1>3, <1>4, <1>5, <1>6 DEF Next

\* A set of at most one has at most one element.
LEMMA SingleCounts ==
  ASSUME NEW S, Single(S)
  PROVE  Cardinality(S) <= 1
<1>1. S = {} \/ \E x : S = {x}
  BY DEF Single
<1>2. Cardinality({}) = 0
  BY FS_EmptySet
<1>3. \A x : Cardinality({x}) = 1
  BY FS_Singleton
<1> QED  BY <1>1, <1>2, <1>3

\* The attempts of PlanPanel's routes stay within their stages, counters and sets.
THEOREM PlanIsTyped == Spec => []TypeOK
<1>1. ASSUME Attempt
      PROVE  TypeOK
  <2>1. \A S \in {plan, saving, request, planned, compared, answer} : Single(S)
    BY <1>1 DEF Attempt, StateTyped
  <2>2. \A S \in {plan, saving, request, planned, compared, answer} : Cardinality(S) <= 1
    BY <2>1, SingleCounts
  <2>3. {anyListed, error, note} \subseteq BOOLEAN
    BY <1>1 DEF Attempt, StateTyped
  <2> QED  BY <1>1, <2>2, <2>3 DEF TypeOK, Attempt, StateTyped
<1> QED
  BY AnswersFitInitially, AnswersFitKept, AttemptInitially, AttemptKept, <1>1, PTL DEF Spec

\* The schedule of PlanPanel can be carried out on the form's own numbers: fees included, no
\* day ends below the buffer, and whenever bills have come due the transfers made have paid them.
THEOREM ScheduleIsKept == Spec => []ScheduleHolds
<1>1. ASSUME Attempt, AnswersFit, NEW p \in CurrentPlan, HasSchedule(p.result)
      PROVE  /\ \A day \in Today .. p.result.to : Balance(p, day) >= form.minimum
             /\ Balance(p, p.result.to) = p.result.closing
             /\ \A r \in p.for, day \in Today .. p.result.to :
                  DueBy(r, day) # {} =>
                    Sum([i \in MadeBy(p.result, day) |-> p.result.transfers[i].received + 1])
                      > Owed(r, DueBy(r, day))
  <2>1. PICK r \in RequestsFor(p.key) : p.key \in Forms /\ p.for = {r} /\ Computed(p.result, r)
    BY <1>1 DEF CurrentPlan, Attempt, FiledFits
  <2>2. p.result.body = p.key /\ p.key = form
    BY <1>1 DEF CurrentPlan, AnswersFit
  <2>3. Valid(r) /\ p.result.to = LastDayOf(p.result.body)
    BY <2>1 DEF Computed
  <2>4. PICK s \in Solve(r) : p.result.transfers = s.transfers /\ p.result.closing = s.closing
    BY <2>1 DEF Computed
  <2>5. HasSchedule(s)
    BY <1>1, <2>4 DEF HasSchedule
  <2>6. PICK sent \in Feasible(r) : s = Report(r, s.status, sent)
    BY <2>3, <2>5, SolveAnswers
  <2>7. \A day \in Today .. p.result.to :
          Balance(p, day) >= form.minimum /\ Balance(p, p.result.to) = p.result.closing
    BY <2>1, <2>2, <2>3, <2>4, <2>6, BufferIsKept
  <2>8. Today \in Today .. p.result.to
    BY <2>1, <2>2, <2>3, RequestIsTheForm DEF LastDayOf
  <2>9. ASSUME NEW day \in Today .. p.result.to, DueBy(r, day) # {}
        PROVE  Sum([i \in MadeBy(p.result, day) |-> p.result.transfers[i].received + 1])
                 > Owed(r, DueBy(r, day))
    <3>1. day \in Nat
      BY PlanningConstants
    <3> QED  BY <2>3, <2>4, <2>6, <2>9, <3>1, BillsArePaid
  <2> QED  BY <2>1, <2>7, <2>8, <2>9
<1>2. ASSUME Attempt, AnswersFit
      PROVE  ScheduleKeepsBuffer
  BY <1>1, <1>2 DEF ScheduleKeepsBuffer
<1>3. ASSUME Attempt, AnswersFit
      PROVE  SchedulePaysBills
  <2>1. \A p, q \in CurrentPlan : p = q
    BY <1>3 DEF CurrentPlan, Attempt, StateTyped, Single
  <2>2. \A p \in CurrentPlan, r \in UNION {q.for : q \in CurrentPlan} : r \in p.for
    BY <2>1
  <2> QED  BY <1>1, <1>3, <2>2 DEF SchedulePaysBills
<1> QED
  BY AnswersFitInitially, AnswersFitKept, AttemptInitially, AttemptKept, <1>2, <1>3, PTL
     DEF Spec, ScheduleHolds

\* A schedule the solver calls optimal is no dearer than sending monthly, up to the rounding of
\* the monthly fees, whenever sending monthly would do: what PlanPanel says is saved is a saving.
THEOREM OptimalIsBest == Spec => []OptimalBeatsMonthly
<1>1. ASSUME Attempt, NEW p \in CurrentPlan, NEW r \in p.for, p.result.status = "OPTIMAL",
             MonthlySent(r) \in Feasible(r)
      PROVE  /\ HasSchedule(p.result)
             /\ \A s \in p.result.saving, b \in p.result.baseline : s > -b.transfers
  <2>1. Computed(p.result, r)
    BY <1>1 DEF CurrentPlan, Attempt, FiledFits
  <2>2. Valid(r)
    BY <2>1 DEF Computed
  <2>3. PICK s \in Solve(r) :
          /\ s.status = "OPTIMAL" /\ p.result.transfers = s.transfers
          /\ \A saved \in p.result.saving : saved = MonthlyBaseline(r).cost - s.cost
    BY <1>1, <2>1 DEF Computed
  <2>4. PICK sent \in Cheapest(r, Feasible(r)) : s = Report(r, s.status, sent)
    BY <2>2, <2>3, SolveAnswers
  <2>5. /\ DOMAIN s.transfers # {}
        /\ MonthlyBaseline(r).cost - s.cost > -Cardinality(DOMAIN MonthlyBaseline(r).transfers)
    BY <1>1, <2>2, <2>4, OptimalIsCheaper
  <2>6. \A b \in p.result.baseline : b.transfers = Cardinality(DOMAIN MonthlyBaseline(r).transfers)
    BY <2>1 DEF Computed
  <2> QED  BY <2>3, <2>5, <2>6 DEF HasSchedule
<1>2. ASSUME Attempt
      PROVE  OptimalBeatsMonthly
  <2>1. \A p, q \in CurrentPlan : p = q
    BY <1>2 DEF CurrentPlan, Attempt, StateTyped, Single
  <2>2. \A p \in CurrentPlan, r \in UNION {q.for : q \in CurrentPlan} : r \in p.for
    BY <2>1
  <2> QED  BY <1>1, <1>2, <2>2 DEF OptimalBeatsMonthly
<1> QED
  BY AnswersFitInitially, AnswersFitKept, AttemptInitially, AttemptKept, <1>2, PTL DEF Spec

(***************************************************************************)
(* Every bill of the window is asked for.  The cursor of expand visits the *)
(* days of the bill one after the other, as long as the months have them.  *)
(***************************************************************************)

\* Every day lies in a month: the last that has begun.
LEMMA MonthHasBegun ==
  ASSUME NEW day \in Nat
  PROVE  /\ MonthOf(day) \in Months /\ FirstDay[MonthOf(day)] <= day
         /\ MonthOf(day) + 1 \in Months => day < FirstDay[MonthOf(day) + 1]
<1> DEFINE begun == {m \in Months : FirstDay[m] <= day}
           self == [m \in begun |-> m]
<1>1. IsFiniteSet(begun) /\ begun # {}
  <2>1. IsFiniteSet(Months)
    BY MonthsInOrder, FS_Interval
  <2>2. IsFiniteSet(begun)
    BY <2>1, FS_Subset
  <2>3. 1 \in begun
    BY MonthsInOrder
  <2> QED  BY <2>2, <2>3
<1>2. \A m \in begun : self[m] \in Nat /\ self[m] = m
  BY MonthsInOrder
<1>3. \E m \in begun : \A n \in begun : self[n] <= self[m]
  <2> HIDE DEF begun, self
  <2> QED  BY <1>1, <1>2, Largest
<1>4. PICK m \in begun : \A n \in begun : n <= m
  BY <1>2, <1>3
<1>5. m + 1 \in Months => day < FirstDay[m + 1]
  <2> SUFFICES ASSUME m + 1 \in Months, ~(day < FirstDay[m + 1]) PROVE FALSE
    OBVIOUS
  <2>1. FirstDay[m + 1] \in Nat /\ m \in Nat
    BY MonthsInOrder
  <2>2. m + 1 \in begun
    BY <2>1
  <2> QED  BY <1>4, <2>1, <2>2
<1> QED  BY <1>4, <1>5 DEF MonthOf

LEMMA StepIsPositive == \A cadence : MonthsIn(cadence) \in Nat \ {0}
BY DEF MonthsIn

\* Where the cursor is, visit by visit.
LEMMA CursorMoves ==
  ASSUME NEW o
  PROVE  /\ Cursor(o)[0] = o.nextDueOn
         /\ \A n \in 1 .. Limit : Cursor(o)[n] = AddMonths(Cursor(o)[n - 1], MonthsIn(o.cadence))
<1> DEFINE Moved(v, n) == IF n = 0 THEN o.nextDueOn ELSE AddMonths(v[n - 1], MonthsIn(o.cadence))
           Good == {j \in Nat : \E v : \A n \in 0 .. j : v[n] = Moved(v, n)}
<1>1. Limit \in Nat
  BY CalendarAdvances
<1>2. ASSUME NEW j \in Nat, \A i \in 0 .. (j - 1) : i \in Good
      PROVE  j \in Good
  <2>1. CASE j = 0
    <3> DEFINE v == [n \in {0} |-> o.nextDueOn]
    <3>1. \A n \in 0 .. j : v[n] = Moved(v, n)
      BY <2>1
    <3> QED  BY <3>1
  <2>2. CASE j # 0
    <3>1. j - 1 \in 0 .. (j - 1) /\ j - 1 \in Nat
      BY <2>2
    <3>2. PICK v : \A n \in 0 .. (j - 1) : v[n] = Moved(v, n)
      BY <1>2, <3>1
    <3> DEFINE w == [n \in 0 .. j |-> IF n = j THEN Moved(v, j) ELSE v[n]]
    <3>3. ASSUME NEW n \in 0 .. j
          PROVE  w[n] = Moved(w, n)
      <4>1. n # 0 => w[n - 1] = v[n - 1]
        BY <3>3
      <4>2. Moved(w, n) = Moved(v, n)
        BY <4>1
      <4>3. w[n] = Moved(v, n)
        BY <3>1, <3>2, <3>3
      <4> QED  BY <4>2, <4>3
    <3> HIDE DEF w
    <3> QED  BY <3>3
  <2> QED  BY <2>1, <2>2
<1>3. Limit \in Good
  <2> HIDE DEF Good
  <2> QED  BY <1>1, <1>2, NumberInduction
<1>4. PICK v : \A n \in 0 .. Limit : v[n] = Moved(v, n)
  BY <1>3
<1> DEFINE w == [n \in 0 .. Limit |-> v[n]]
<1>5. w = [n \in 0 .. Limit |-> Moved(w, n)]
  <2>1. ASSUME NEW n \in 0 .. Limit
        PROVE  Moved(w, n) = v[n]
    <3>1. n # 0 => w[n - 1] = v[n - 1]
      BY <1>1, <2>1
    <3> QED  BY <1>4, <2>1, <3>1
  <2> QED  BY <2>1
<1> HIDE DEF w
<1> DEFINE at == CHOOSE f : f = [n \in 0 .. Limit |-> Moved(f, n)]
<1>6. at = [n \in 0 .. Limit |-> Moved(at, n)]
  BY <1>5
<1>7. Cursor(o) = at
  BY DEF Cursor
<1> HIDE DEF at
<1>8. /\ at[0] = o.nextDueOn
      /\ \A n \in 1 .. Limit : at[n] = AddMonths(at[n - 1], MonthsIn(o.cadence))
  BY <1>1, <1>6
<1> QED  BY <1>7, <1>8

(***************************************************************************)
(* The instant at which a bill comes in a month that has its day.          *)
(***************************************************************************)
FirstMonth(o) == MonthOf(DayOf(o.nextDueOn))
ComesAt(o, m) == o.nextDueOn + 2 * (FirstDay[m] - FirstDay[FirstMonth(o)])

\* In such a month it comes on its day, at the time of the day it first came at.
LEMMA ComesOnItsDay ==
  ASSUME NEW o, o.nextDueOn \in Nat, EveryMonthHasItsDay(o), NEW m \in BillMonths(o)
  PROVE  /\ ComesAt(o, m) \in Nat /\ BillDay(o, m) \in Nat /\ MonthOf(BillDay(o, m)) = m
         /\ DayOf(ComesAt(o, m)) = BillDay(o, m)
         /\ ComesAt(o, m) = 2 * BillDay(o, m) + (o.nextDueOn % 2)
         /\ FirstDay[m] <= BillDay(o, m)
<1> DEFINE first == DayOf(o.nextDueOn)
           m0 == FirstMonth(o)
           day == FirstDay[m] + (first - FirstDay[m0])
<1>1. first \in Nat /\ o.nextDueOn % 2 \in 0 .. 1 /\ o.nextDueOn = 2 * first + (o.nextDueOn % 2)
  BY DEF DayOf
<1>2. m0 \in Months /\ FirstDay[m0] <= first /\ m \in Months /\ m + 1 \in Months
  BY <1>1, MonthHasBegun DEF BillMonths, FirstMonth
<1>3. FirstDay[m0] \in Nat /\ FirstDay[m] \in Nat /\ FirstDay[m + 1] \in Nat
  BY <1>2, MonthsInOrder
<1>4. day <= LastDay(m)
  BY DEF EveryMonthHasItsDay, FirstMonth
<1>5. day \in Nat /\ FirstDay[m] <= day /\ day < FirstDay[m + 1]
  BY <1>1, <1>2, <1>3, <1>4 DEF LastDay
<1>6. BillDay(o, m) = day
  BY <1>4, <1>5, <1>3 DEF BillDay, FirstMonth, LastDay
<1>7. ComesAt(o, m) = o.nextDueOn + 2 * (FirstDay[m] - FirstDay[m0])
  BY DEF ComesAt
<1>8. MonthOf(day) = m
  <2> HIDE DEF day
  <2> QED  BY <1>2, <1>5, MonthOfDay
<1> HIDE DEF first, m0
<1>9. ComesAt(o, m) = 2 * day + (o.nextDueOn % 2)
  BY <1>1, <1>3, <1>7
<1> HIDE DEF day
<1>10. ComesAt(o, m) \in Nat /\ DayOf(ComesAt(o, m)) = day
  BY <1>1, <1>5, <1>9 DEF DayOf
<1> QED  BY <1>5, <1>6, <1>8, <1>9, <1>10

\* A step is one, three or twelve months.
LEMMA WholeSteps ==
  ASSUME NEW step \in {1, 3, 12}
  PROVE  /\ \A n \in Nat : n * step \in Nat /\ (n * step) % step = 0 /\ (n + 1) * step = n * step + step
         /\ \A d \in Nat : d % step = 0 => \E n \in Nat : d = n * step
         /\ \A n, k \in Nat : (n * step < k * step => n < k) /\ (n <= k => n * step <= k * step)
<1>1. ASSUME NEW d \in Nat, d % step = 0
      PROVE  d \div step \in Nat /\ d = (d \div step) * step
  <2>1. CASE step = 1
    BY <1>1, <2>1
  <2>2. CASE step = 3
    BY <1>1, <2>2
  <2>3. CASE step = 12
    BY <1>1, <2>3
  <2> QED  BY <2>1, <2>2, <2>3
<1>2. CASE step = 1
  BY <1>1, <1>2
<1>3. CASE step = 3
  BY <1>1, <1>3
<1>4. CASE step = 12
  BY <1>1, <1>4
<1> QED  BY <1>2, <1>3, <1>4

\* A bill that comes within the window comes before its end in months too.
LEMMA ComesBefore ==
  ASSUME NEW o, o.nextDueOn \in Nat, EveryMonthHasItsDay(o), NEW last \in Nat, NEW end \in Months,
         last < FirstDay[end], NEW m \in BillMonths(o), ComesAt(o, m) <= 2 * last
  PROVE  m \in Nat /\ m < end
<1>1. BillDay(o, m) \in Nat /\ FirstDay[m] <= BillDay(o, m) /\ BillDay(o, m) <= last
  <2>1. /\ BillDay(o, m) \in Nat /\ FirstDay[m] <= BillDay(o, m)
        /\ 2 * BillDay(o, m) + (o.nextDueOn % 2) <= 2 * last
    BY ComesOnItsDay
  <2> QED  BY <2>1
<1>2. m \in Months /\ FirstDay[m] \in Nat /\ FirstDay[end] \in Nat /\ m \in Nat /\ end \in Nat
  BY MonthsInOrder DEF BillMonths
<1>3. end <= m => FirstDay[end] <= FirstDay[m]
  BY <1>2, MonthsInOrder
<1> QED  BY <1>1, <1>2, <1>3

\* The cursor is there at its visits, as long as it has not passed the window.
LEMMA CursorComes ==
  ASSUME NEW o, o.nextDueOn \in Nat, EveryMonthHasItsDay(o), NEW last \in Nat, LongEnough(o, last),
         NEW n \in 0 .. Limit,
         n # 0 => o.cadence # "ONCE" /\ \A k \in 0 .. n - 1 : Cursor(o)[k] <= 2 * last
  PROVE  LET m == FirstMonth(o) + n * MonthsIn(o.cadence)
         IN  m \in BillMonths(o) /\ Cursor(o)[n] = ComesAt(o, m)
<1> DEFINE step == MonthsIn(o.cadence)
           m0 == FirstMonth(o)
           month(j) == m0 + j * step
           at == Cursor(o)
           Good == {j \in Nat : j <= n => month(j) \in BillMonths(o) /\ at[j] = ComesAt(o, month(j))}
<1>1. /\ Limit \in Nat /\ n \in Nat /\ step \in {1, 3, 12} /\ step \in Nat
      /\ m0 \in Months /\ m0 \in Nat /\ m0 + 1 \in Months
  <2>1. DayOf(o.nextDueOn) \in Nat
    BY DEF DayOf
  <2> QED  BY <2>1, MonthHasBegun, MonthsInOrder, CalendarAdvances DEF FirstMonth, MonthsIn, LongEnough
<1>2. at[0] = o.nextDueOn /\ \A j \in 1 .. Limit : at[j] = AddMonths(at[j - 1], step)
  BY CursorMoves
<1>3. ASSUME NEW j \in Nat, \A i \in 0 .. (j - 1) : i \in Good, j <= n
      PROVE  month(j) \in BillMonths(o) /\ at[j] = ComesAt(o, month(j))
  <2>1. CASE j = 0
    <3>1. month(0) = m0 /\ (m0 - m0) % step = 0
      BY <1>1, WholeSteps
    <3>2. m0 \in BillMonths(o)
      BY <1>1, <3>1 DEF BillMonths, FirstMonth
    <3>3. ComesAt(o, m0) = o.nextDueOn
      BY <1>1, MonthsInOrder DEF ComesAt
    <3> QED  BY <1>2, <2>1, <3>1, <3>2, <3>3
  <2>2. CASE j # 0
    <3> DEFINE m == month(j - 1)
    <3>1. /\ j - 1 \in 0 .. (j - 1) /\ j - 1 \in Nat /\ j - 1 <= n /\ j - 1 \in 0 .. n - 1
          /\ j \in 1 .. Limit /\ n # 0
      BY <1>1, <1>3, <2>2
    <3>2. m \in BillMonths(o) /\ at[j - 1] = ComesAt(o, m)
      BY <1>3, <3>1
    <3>3. o.cadence # "ONCE" /\ ComesAt(o, m) <= 2 * last
      BY <3>1, <3>2
    <3>4. PICK end \in Months : last < FirstDay[end] /\ end + step \in Months
      BY <3>3 DEF LongEnough
    <3>5. m \in Nat /\ m < end
      <4> HIDE DEF m
      <4> QED  BY <3>2, <3>3, <3>4, ComesBefore
    <3>6. m + step = month(j)
      <4>1. ((j - 1) + 1) * step = (j - 1) * step + step /\ (j - 1) * step \in Nat /\ (j - 1) + 1 = j
        BY <1>1, <3>1, WholeSteps
      <4> QED  BY <1>1, <4>1
    <3>7. m + step \in Months /\ (m + step) + 1 \in Months
      <4>1. /\ Months = 1 .. Len(FirstDay) /\ Len(FirstDay) \in Nat
            /\ m \in Months /\ end \in Months /\ end + step \in Months /\ step \in Nat /\ m < end
        BY <1>1, <3>2, <3>4, <3>5, MonthsInOrder DEF BillMonths
      <4> HIDE DEF m, step
      <4> QED  BY <4>1
    <3>8. month(j) \in BillMonths(o)
      <4>1. j * step \in Nat /\ (j * step) % step = 0
        BY <1>1, WholeSteps
      <4>2. month(j) >= m0 /\ month(j) - m0 = j * step
        BY <1>1, <4>1
      <4> QED  BY <3>3, <3>6, <3>7, <4>1, <4>2 DEF BillMonths, FirstMonth
    <3>9. MonthOf(DayOf(at[j - 1])) = m
      BY <3>2, ComesOnItsDay
    <3>10. at[j] = ComesAt(o, m) + 2 * (FirstDay[m + step] - FirstDay[m])
      BY <1>2, <3>1, <3>2, <3>9 DEF AddMonths
    <3>11. ComesAt(o, m) + 2 * (FirstDay[m + step] - FirstDay[m]) = ComesAt(o, m + step)
      <4>1. m \in Months
        BY <3>2 DEF BillMonths
      <4> HIDE DEF m, step
      <4>2. FirstDay[m] \in Nat /\ FirstDay[m + step] \in Nat /\ FirstDay[m0] \in Nat
        BY <1>1, <3>7, <4>1, MonthsInOrder
      <4> HIDE DEF m0
      <4>3. /\ ComesAt(o, m) = o.nextDueOn + 2 * (FirstDay[m] - FirstDay[m0])
            /\ ComesAt(o, m + step) = o.nextDueOn + 2 * (FirstDay[m + step] - FirstDay[m0])
        BY DEF ComesAt, m0
      <4> QED  BY <4>2, <4>3
    <3> QED  BY <3>6, <3>8, <3>10, <3>11
  <2> QED  BY <2>1, <2>2
<1>4. ASSUME NEW j \in Nat, \A i \in 0 .. (j - 1) : i \in Good
      PROVE  j \in Good
  BY <1>3, <1>4
<1>5. n \in Good
  <2> HIDE DEF Good
  <2> QED  BY <1>1, <1>4, NumberInduction
<1> QED  BY <1>1, <1>5

\* The visits are the bill's months up to the end of the window.
LEMMA VisitsAreMonths ==
  ASSUME NEW o, o.nextDueOn \in Nat, EveryMonthHasItsDay(o), NEW last \in Nat, LongEnough(o, last)
  PROVE  /\ \A n \in Visits(o, 2 * last) :
              /\ Cursor(o)[n] <= 2 * last
              /\ \E m \in BillMonths(o) : Cursor(o)[n] = ComesAt(o, m)
         /\ \A m \in BillMonths(o) :
              ComesAt(o, m) <= 2 * last => \E n \in Visits(o, 2 * last) : Cursor(o)[n] = ComesAt(o, m)
<1> DEFINE step == MonthsIn(o.cadence)
           m0 == FirstMonth(o)
           at == Cursor(o)
<1>1. /\ Limit \in Nat /\ step \in {1, 3, 12} /\ step \in Nat
      /\ m0 \in Months /\ m0 \in Nat /\ m0 + 1 \in Months
  <2>1. DayOf(o.nextDueOn) \in Nat
    BY DEF DayOf
  <2> QED  BY <2>1, MonthHasBegun, MonthsInOrder, CalendarAdvances DEF FirstMonth, MonthsIn, LongEnough
<1>2. ASSUME NEW n \in Visits(o, 2 * last)
      PROVE  at[n] <= 2 * last /\ \E m \in BillMonths(o) : at[n] = ComesAt(o, m)
  <2>1. /\ n \in 0 .. Limit - 1 /\ (o.cadence = "ONCE" => n = 0)
        /\ \A k \in 0 .. n : at[k] <= 2 * last
    BY <1>2 DEF Visits
  <2>2. /\ n \in 0 .. Limit /\ n \in 0 .. n
        /\ n # 0 => o.cadence # "ONCE" /\ \A k \in 0 .. n - 1 : at[k] <= 2 * last
    BY <1>1, <2>1
  <2>3. m0 + n * step \in BillMonths(o) /\ at[n] = ComesAt(o, m0 + n * step)
    BY <2>2, CursorComes
  <2> QED  BY <2>1, <2>2, <2>3
<1>3. ASSUME NEW m \in BillMonths(o), ComesAt(o, m) <= 2 * last
      PROVE  \E n \in Visits(o, 2 * last) : at[n] = ComesAt(o, m)
  <2> DEFINE one == IF o.cadence = "ONCE" THEN 1 ELSE step
  <2>1. PICK end \in Months : last < FirstDay[end] /\ end <= m0 + Limit * one
    BY DEF LongEnough, FirstMonth
  <2>2. m \in Months /\ m \in Nat /\ m < end /\ end \in Nat /\ m >= m0
    BY <1>3, <2>1, ComesBefore, MonthsInOrder DEF BillMonths, FirstMonth
  <2>3. CASE o.cadence = "ONCE"
    <3>1. m = m0
      BY <2>3 DEF BillMonths, FirstMonth
    <3>2. 0 \in 0 .. Limit - 1
      BY <1>1, <2>1, <2>2, <2>3, <3>1
    <3>3. at[0] = o.nextDueOn /\ ComesAt(o, m) = o.nextDueOn
      BY <1>1, <3>1, CursorMoves, MonthsInOrder DEF ComesAt
    <3>4. 0 \in Visits(o, 2 * last)
      BY <1>3, <3>2, <3>3 DEF Visits
    <3> QED  BY <3>3, <3>4
  <2>4. CASE o.cadence # "ONCE"
    <3>1. PICK n \in Nat : m = m0 + n * step
      <4>1. (m - m0) % step = 0 /\ m - m0 \in Nat
        BY <1>1, <2>2, <2>4 DEF BillMonths, FirstMonth
      <4>2. PICK n \in Nat : m - m0 = n * step
        BY <1>1, <4>1, WholeSteps
      <4>3. n * step \in Nat
        BY <1>1, WholeSteps
      <4> QED  BY <1>1, <2>2, <4>2, <4>3
    <3>2. n < Limit
      <4>1. n * step \in Nat /\ Limit * step \in Nat
        BY <1>1, WholeSteps
      <4>2. n * step < Limit * step
        BY <1>1, <2>1, <2>2, <2>4, <3>1, <4>1
      <4> QED  BY <1>1, <4>2, WholeSteps
    <3>3. ASSUME NEW k \in 0 .. n, \A j \in 0 .. k - 1 : at[j] <= 2 * last
          PROVE  at[k] = ComesAt(o, m0 + k * step) /\ at[k] <= 2 * last
      <4>1. k \in 0 .. Limit
        BY <1>1, <3>2
      <4>2. m0 + k * step \in BillMonths(o) /\ at[k] = ComesAt(o, m0 + k * step)
        BY <2>4, <3>3, <4>1, CursorComes
      <4>3. k * step \in Nat /\ n * step \in Nat /\ k * step <= n * step
        BY <1>1, WholeSteps
      <4> DEFINE q == m0 + k * step
      <4>4. q <= m /\ q \in Months
        BY <1>1, <3>1, <4>2, <4>3 DEF BillMonths
      <4> HIDE DEF q
      <4>5. FirstDay[q] \in Nat /\ FirstDay[m] \in Nat /\ FirstDay[m0] \in Nat /\ FirstDay[q] <= FirstDay[m]
        BY <1>1, <2>2, <4>4, MonthsInOrder
      <4> HIDE DEF m0
      <4>6. /\ ComesAt(o, q) = o.nextDueOn + 2 * (FirstDay[q] - FirstDay[m0])
            /\ ComesAt(o, m) = o.nextDueOn + 2 * (FirstDay[m] - FirstDay[m0])
        BY DEF ComesAt, m0
      <4>7. ComesAt(o, q) <= ComesAt(o, m) /\ ComesAt(o, q) \in Int /\ ComesAt(o, m) \in Int
        BY <4>5, <4>6
      <4>8. ComesAt(o, q) <= 2 * last
        BY <1>3, <4>7
      <4> QED  BY <4>2, <4>8 DEF q
    <3> DEFINE Good == {k \in Nat : k <= n => at[k] <= 2 * last}
    <3>4. \A k \in Nat : (\A j \in 0 .. (k - 1) : j \in Good) => k \in Good
      BY <3>3
    <3>5. Nat \subseteq Good
      <4> HIDE DEF Good
      <4> QED  BY <3>4, NumberInduction
    <3>6. \A k \in 0 .. n : at[k] <= 2 * last
      BY <3>5
    <3>7. at[n] = ComesAt(o, m)
      BY <3>1, <3>3, <3>6
    <3>8. n \in Visits(o, 2 * last)
      BY <1>1, <2>4, <3>2, <3>6 DEF Visits
    <3> QED  BY <3>7, <3>8
  <2> QED  BY <2>3, <2>4
<1> QED  BY <1>2, <1>3

\* The days of the dates expanded are the bill's days, and each date has its own.
LEMMA ExpandedDays ==
  ASSUME NEW o, o.nextDueOn \in Nat, EveryMonthHasItsDay(o),
         NEW first \in Nat, NEW last \in Nat, LongEnough(o, last)
  PROVE  {DayOf(b.dueOn) : b \in Expand(o, Midnight(first), Midnight(last))}
           = BillDays(o, first, last - (o.nextDueOn % 2))
<1> DEFINE late == o.nextDueOn % 2
           bills == Expand(o, Midnight(first), Midnight(last))
           visits == {n \in Visits(o, 2 * last) : Cursor(o)[n] >= 2 * first}
<1>1. late \in 0 .. 1
  OBVIOUS
<1> DEFINE bill(n) == [of |-> o.id, index |-> n + 1, dueOn |-> Cursor(o)[n], amount |-> o.amount]
           A == {DayOf(b.dueOn) : b \in bills}
           B == BillDays(o, first, last - late)
<1>2. bills = {bill(n) : n \in visits} /\ \A n : bill(n).dueOn = Cursor(o)[n]
  BY DEF Expand, Midnight
<1>3. \A d : d \in A <=> \E n \in visits : d = DayOf(Cursor(o)[n])
  <2> HIDE DEF bill, bills, visits
  <2> QED  BY <1>2
<1>4. \A d : d \in B <=> \E m \in BillMonths(o) : d = BillDay(o, m) /\ d \in first .. (last - late)
  BY DEF BillDays
<1> HIDE DEF A, B, bill
<1> HIDE DEF late, bills
<1>5. ASSUME NEW m \in BillMonths(o)
      PROVE  /\ BillDay(o, m) \in Nat /\ DayOf(ComesAt(o, m)) = BillDay(o, m)
             /\ ComesAt(o, m) <= 2 * last <=> BillDay(o, m) <= last - late
             /\ ComesAt(o, m) >= 2 * first <=> BillDay(o, m) >= first
  <2>1. /\ BillDay(o, m) \in Nat /\ DayOf(ComesAt(o, m)) = BillDay(o, m)
        /\ ComesAt(o, m) = 2 * BillDay(o, m) + late
    BY ComesOnItsDay DEF late
  <2> QED  BY <1>1, <2>1
<1>6. ASSUME NEW n \in visits
      PROVE  \E m \in BillMonths(o) : /\ DayOf(Cursor(o)[n]) = BillDay(o, m)
                                      /\ DayOf(Cursor(o)[n]) \in first .. (last - late)
  <2>1. PICK m \in BillMonths(o) : Cursor(o)[n] = ComesAt(o, m)
    BY VisitsAreMonths
  <2>2. ComesAt(o, m) <= 2 * last /\ ComesAt(o, m) >= 2 * first
    BY <2>1, VisitsAreMonths
  <2> QED  BY <1>1, <1>5, <2>1, <2>2
<1>7. ASSUME NEW m \in BillMonths(o), BillDay(o, m) \in first .. (last - late)
      PROVE  \E n \in visits : BillDay(o, m) = DayOf(Cursor(o)[n])
  <2>1. ComesAt(o, m) <= 2 * last /\ ComesAt(o, m) >= 2 * first
    BY <1>1, <1>5, <1>7
  <2>2. PICK n \in Visits(o, 2 * last) : Cursor(o)[n] = ComesAt(o, m)
    BY <2>1, VisitsAreMonths
  <2> QED  BY <1>5, <2>1, <2>2
<1>8. \A d : d \in A <=> d \in B
  <2>1. ASSUME NEW d \in A
        PROVE  d \in B
    <3>1. PICK n \in visits : d = DayOf(Cursor(o)[n])
      BY <1>3
    <3> HIDE DEF visits
    <3> QED  BY <1>4, <1>6, <3>1
  <2>2. ASSUME NEW d \in B
        PROVE  d \in A
    <3>1. PICK m \in BillMonths(o) : d = BillDay(o, m) /\ d \in first .. (last - late)
      BY <1>4
    <3> HIDE DEF visits
    <3> QED  BY <1>3, <1>7, <3>1
  <2> QED  BY <2>1, <2>2
<1>9. A = B
  BY <1>8
<1> QED  BY <1>9 DEF A, B, bills, late

\* Expanding gives finitely many dates.
LEMMA ExpandIsFinite ==
  ASSUME NEW o, NEW from, NEW to
  PROVE  IsFiniteSet(Expand(o, from, to))
<1> DEFINE visits == {n \in Visits(o, to) : Cursor(o)[n] >= from}
           bill == [n \in visits |->
                      [of |-> o.id, index |-> n + 1, dueOn |-> Cursor(o)[n], amount |-> o.amount]]
<1>1. IsFiniteSet(visits)
  <2>1. Limit \in Nat
    BY CalendarAdvances
  <2>2. IsFiniteSet(0 .. Limit - 1)
    BY <2>1, FS_Interval
  <2> QED  BY <2>2, FS_Subset DEF Visits
<1>2. Expand(o, from, to) = {bill[n] : n \in visits}
  BY DEF Expand
<1>3. DOMAIN bill = visits /\ bill \in [visits -> {bill[n] : n \in visits}]
  OBVIOUS
<1> HIDE DEF visits, bill
<1>4. bill \in Surjection(visits, {bill[n] : n \in visits})
  BY <1>3 DEF Surjection
<1> QED  BY <1>1, <1>2, <1>4, FS_Surjection

\* A finite set listed has each of its elements in one place.
LEMMA ListedOnce ==
  ASSUME NEW S, IsFiniteSet(S)
  PROVE  /\ Cardinality(S) \in Nat /\ DOMAIN SetToSeq(S) = 1 .. Cardinality(S)
         /\ \A i \in 1 .. Cardinality(S) : SetToSeq(S)[i] \in S
         /\ \A i, j \in 1 .. Cardinality(S) : SetToSeq(S)[i] = SetToSeq(S)[j] => i = j
         /\ \A x \in S : \E i \in 1 .. Cardinality(S) : SetToSeq(S)[i] = x
<1> DEFINE n == Cardinality(S)
           f == SetToSeq(S)
<1>1. n \in Nat /\ \E g : g \in Bijection(1 .. n, S)
  BY FS_CardinalityType DEF ExistsBijection
<1>2. PICK g : g \in Bijection(1 .. n, S)
  BY <1>1
<1>3. g \in [1 .. n -> S] /\ IsInjective(g)
  BY <1>2 DEF Bijection, Injection, Surjection, IsInjective
<1>4. f \in [1 .. n -> S] /\ IsInjective(f)
  BY <1>3 DEF SetToSeq
<1> HIDE DEF f
<1>5. \A i, j \in 1 .. n : f[i] = f[j] => i = j
  BY <1>4 DEF IsInjective
<1>6. f \in Injection(1 .. n, S)
  BY <1>4, <1>5 DEF Injection
<1>7. IsFiniteSet(1 .. n) /\ Cardinality(1 .. n) = n
  BY <1>1, FS_Interval
<1>8. f \in Surjection(1 .. n, S)
  BY <1>6, <1>7, FS_Injection
<1>9. \A x \in S : \E i \in 1 .. n : f[i] = x
  BY <1>8 DEF Surjection
<1> QED  BY <1>1, <1>4, <1>5, <1>9 DEF f

\* The values of a function on a finite set are finitely many.
LEMMA ValuesAreFinite ==
  ASSUME NEW S, IsFiniteSet(S), NEW f, f \in [S -> {f[x] : x \in S}]
  PROVE  IsFiniteSet({f[x] : x \in S})
<1>1. f \in Surjection(S, {f[x] : x \in S})
  BY DEF Surjection
<1> QED  BY <1>1, FS_Surjection

\* The bills to ask for, each as its day, its amount and its obligation.
AsAsked(b) == [dueOn |-> DayOf(b.dueOn), amount |-> b.amount, of |-> b.of]

\* They are finitely many, and those of an obligation differ in their day only.
LEMMA BillsToAskForAre ==
  ASSUME NEW body \in Forms, NEW O \in SUBSET Obligations, NEW o \in O, EveryMonthHasItsDay(o)
  PROVE  LET bills == {AsAsked(b) : b \in BillsToAskFor(O, body)}
             days == BillDays(o, Today, LastDayOf(body) - (o.nextDueOn % 2))
         IN  /\ IsFiniteSet(bills)
             /\ \A x \in bills : x.of = o.id =>
                  x.dueOn \in days /\ x = [dueOn |-> x.dueOn, amount |-> o.amount, of |-> o.id]
             /\ \A d \in days : \E x \in bills : x.of = o.id /\ x.dueOn = d
<1> DEFINE from == Midnight(Today)
           to == Midnight(LastDayOf(body))
           asked1 == BillsToAskFor(O, body)
           dates == [q \in O |-> Expand(q, from, to)]
           says == [b \in asked1 |-> AsAsked(b)]
           days == BillDays(o, Today, LastDayOf(body) - (o.nextDueOn % 2))
<1>1. asked1 = UNION {dates[q] : q \in O}
  BY DEF BillsToAskFor, OccurrencesFor
<1>2. IsFiniteSet(asked1)
  <2>1. IsFiniteSet(O)
    BY ObligationsFit, FS_Subset
  <2>2. dates \in [O -> {dates[q] : q \in O}]
    OBVIOUS
  <2>3. \A q \in O : IsFiniteSet(dates[q])
    BY ExpandIsFinite
  <2> HIDE DEF dates, asked1
  <2>4. IsFiniteSet({dates[q] : q \in O})
    BY <2>1, <2>2, ValuesAreFinite
  <2>5. \A T \in {dates[q] : q \in O} : IsFiniteSet(T)
    BY <2>3
  <2> QED  BY <1>1, <2>4, <2>5, FS_UNION
<1>3. IsFiniteSet({AsAsked(b) : b \in asked1})
  <2>1. says \in [asked1 -> {says[b] : b \in asked1}] /\ {says[b] : b \in asked1} = {AsAsked(b) : b \in asked1}
    OBVIOUS
  <2> HIDE DEF says, asked1
  <2> QED  BY <1>2, <2>1, ValuesAreFinite
<1>4. {DayOf(b.dueOn) : b \in Expand(o, from, to)} = days
  <2>1. Today \in Nat /\ LastDayOf(body) \in Nat /\ o.nextDueOn \in Nat /\ LongEnough(o, LastDayOf(body))
    BY PlanningConstants, ObligationsFit DEF LastDayOf
  <2> QED  BY <2>1, ExpandedDays
<1>5. ASSUME NEW q \in O, NEW b \in Expand(q, from, to)
      PROVE  b.of = q.id /\ b.amount = q.amount
  BY <1>5 DEF Expand
<1>6. Expand(o, from, to) \subseteq asked1
  BY <1>1
<1>7. \A b \in asked1 : \E q \in O : b \in Expand(q, from, to)
  BY <1>1
<1>8. \A b : AsAsked(b).of = b.of /\ AsAsked(b).dueOn = DayOf(b.dueOn) /\ AsAsked(b).amount = b.amount
  BY DEF AsAsked
<1>9. \A b : AsAsked(b) = [dueOn |-> AsAsked(b).dueOn, amount |-> b.amount, of |-> b.of]
  BY DEF AsAsked
<1> HIDE DEF from, to, asked1, days
<1>10. ASSUME NEW b \in asked1, b.of = o.id
       PROVE  DayOf(b.dueOn) \in days /\ b.amount = o.amount
  <2>1. PICK q \in O : b \in Expand(q, from, to)
    BY <1>7
  <2>2. q.id = o.id
    BY <1>5, <1>10, <2>1
  <2>3. q = o
    BY <2>2, ObligationsFit
  <2> QED  BY <1>4, <1>5, <2>1, <2>3
<1>11. ASSUME NEW x \in {AsAsked(b) : b \in asked1}, x.of = o.id
       PROVE  x.dueOn \in days /\ x = [dueOn |-> x.dueOn, amount |-> o.amount, of |-> o.id]
  <2>1. PICK b \in asked1 : x = AsAsked(b)
    OBVIOUS
  <2>2. b.of = o.id
    BY <1>8, <1>11, <2>1
  <2> QED  BY <1>8, <1>9, <1>10, <2>1, <2>2
<1>12. ASSUME NEW d \in days
       PROVE  \E x \in {AsAsked(b) : b \in asked1} : x.of = o.id /\ x.dueOn = d
  <2>1. PICK b \in Expand(o, from, to) : d = DayOf(b.dueOn)
    BY <1>4
  <2> QED  BY <1>5, <1>6, <1>8, <2>1
<1> QED  BY <1>3, <1>11, <1>12 DEF asked1, days

\* A request asks for the bills of an obligation on each of their days, once.
LEMMA AskedOnEachDay ==
  ASSUME NEW body \in Forms, NEW O \in SUBSET Obligations, NEW o \in O, EveryMonthHasItsDay(o)
  PROVE  LET R == {RequestOf(body, BillsToAskFor(O, body))}
             days == BillDays(o, Today, LastDayOf(body) - (o.nextDueOn % 2))
         IN  /\ {a[2] : a \in AskedFor(R, o)} = days
             /\ Cardinality(AskedFor(R, o)) = Cardinality(days)
<1> DEFINE r == RequestOf(body, BillsToAskFor(O, body))
           bills == {AsAsked(b) : b \in BillsToAskFor(O, body)}
           days == BillDays(o, Today, LastDayOf(body) - (o.nextDueOn % 2))
           f == SetToSeq(bills)
           n == Cardinality(bills)
           places == {c \in 1 .. n : f[c].of = o.id}
           entry == [c \in places |-> <<c, f[c].dueOn>>]
           day == [c \in places |-> f[c].dueOn]
           entries == AskedFor({r}, o)
<1>1. /\ IsFiniteSet(bills)
      /\ \A x \in bills : x.of = o.id =>
           x.dueOn \in days /\ x = [dueOn |-> x.dueOn, amount |-> o.amount, of |-> o.id]
      /\ \A d \in days : \E x \in bills : x.of = o.id /\ x.dueOn = d
  BY BillsToAskForAre
<1>2. /\ n \in Nat /\ DOMAIN f = 1 .. n /\ \A i \in 1 .. n : f[i] \in bills
      /\ \A i, j \in 1 .. n : f[i] = f[j] => i = j
      /\ \A x \in bills : \E i \in 1 .. n : f[i] = x
  <2> HIDE DEF bills
  <2> QED  BY <1>1, ListedOnce
<1>3. r.obligations = f
  BY DEF RequestOf, AsAsked
<1> HIDE DEF bills, f, n, days, r
<1>4. entries = {entry[c] : c \in places}
  BY <1>2, <1>3 DEF AskedFor, Bills
<1>5. IsFiniteSet(places)
  <2>1. IsFiniteSet(1 .. n)
    BY <1>2, FS_Interval
  <2> QED  BY <2>1, FS_Subset
<1>6. \A c \in places : /\ day[c] = f[c].dueOn /\ day[c] \in days /\ entry[c] = <<c, day[c]>>
                        /\ f[c] = [dueOn |-> day[c], amount |-> o.amount, of |-> o.id]
  BY <1>1, <1>2
<1>7. \A d \in days : \E c \in places : day[c] = d
  BY <1>1, <1>2
<1>8. \A c, e \in places : day[c] = day[e] => c = e
  <2> SUFFICES ASSUME NEW c \in places, NEW e \in places, day[c] = day[e] PROVE c = e
    OBVIOUS
  <2>1. f[c] = f[e]
    BY <1>6
  <2> QED  BY <1>2, <2>1
<1>9. day \in [places -> days] /\ entry \in [places -> entries]
  <2>1. day \in [places -> days]
    BY <1>6
  <2>2. entry \in [places -> entries]
    BY <1>4
  <2> QED  BY <2>1, <2>2
<1> HIDE DEF day, entry, places, entries
<1>10. day \in Bijection(places, days)
  BY <1>7, <1>8, <1>9 DEF Bijection, Injection, Surjection, IsInjective
<1>11. entry \in Bijection(places, entries)
  <2>1. ASSUME NEW c \in places, NEW e \in places, entry[c] = entry[e] PROVE c = e
    <3>1. <<c, day[c]>> = <<e, day[e]>>
      BY <1>6, <2>1
    <3> QED  BY <3>1
  <2>2. \A a \in entries : \E c \in places : entry[c] = a
    BY <1>4
  <2> QED  BY <1>9, <2>1, <2>2 DEF Bijection, Injection, Surjection, IsInjective
<1>12. Cardinality(entries) = Cardinality(days)
  <2>1. Cardinality(days) = Cardinality(places)
    BY <1>5, <1>10, FS_Bijection DEF ExistsBijection
  <2>2. Cardinality(entries) = Cardinality(places)
    BY <1>5, <1>11, FS_Bijection DEF ExistsBijection
  <2> QED  BY <2>1, <2>2
<1>13. {a[2] : a \in entries} = days
  <2>1. ASSUME NEW c \in places PROVE entry[c][2] = day[c]
    <3>1. entry[c] = <<c, day[c]>> /\ <<c, day[c]>>[2] = day[c]
      BY <1>6, <2>1
    <3> QED  BY <3>1
  <2>2. \A d : d \in {a[2] : a \in entries} <=> \E c \in places : d = day[c]
    BY <1>4, <2>1
  <2>3. \A d : d \in days <=> \E c \in places : d = day[c]
    BY <1>6, <1>7
  <2> QED  BY <2>2, <2>3
<1> QED  BY <1>12, <1>13 DEF entries, days, r

\* What prepare asks the optimizer for is what is due: every bill of an obligation stored at that
\* moment, on each of its days in the window, once, and no request when nothing is due.
THEOREM EveryBillIsAsked == Spec => AsksForEveryBill
<1>1. ASSUME Attempt, [Next]_vars, stage = "prepare", stage' \in {"calls", "history", "answer"},
             NEW o \in {q \in stored : EveryMonthHasItsDay(q)}
      PROVE  LET days == BillDays(o, Today, LastDayOf(asked) - (o.nextDueOn % 2))
             IN  /\ {a[2] : a \in AskedFor(request', o)} = days
                 /\ Cardinality(AskedFor(request', o)) = Cardinality(days)
  <2> DEFINE days == BillDays(o, Today, LastDayOf(asked) - (o.nextDueOn % 2))
             bills == BillsToAskFor(stored, asked)
  <2>1. asked \in Forms /\ stored \in SUBSET Obligations /\ o \in stored /\ EveryMonthHasItsDay(o)
    BY <1>1 DEF Attempt, StateTyped
  <2>2. Prepare
    <3>1. busy # "none" /\ answer = {}
      BY <1>1 DEF Attempt, StageFits
    <3>2. ~(EditForm \/ ChangeObligations \/ Refetch \/ Observe)
      BY <1>1 DEF EditForm, ChangeObligations, Refetch, Observe, page, api
    <3>3. ~(Build \/ Estimate)
      BY <3>1 DEF Build, Estimate, Ask
    <3>4. ~(Deliver \/ AttemptFails)
      BY <1>1 DEF Deliver, AttemptFails, AttemptOver
    <3>5. ~(CallPlan \/ CallBaseline \/ Respond \/ ReadHistory \/ Simulate \/ EstimateEnds)
      BY <1>1 DEF CallPlan, CallBaseline, Respond, ReadHistory, Simulate, EstimateEnds
    <3>6. ~(UNCHANGED vars)
      BY <1>1 DEF vars, api
    <3> QED  BY <1>1, <3>2, <3>3, <3>4, <3>5, <3>6 DEF Next, Handler
  <2>3. CASE bills # {}
    <3>1. request' = {RequestOf(asked, bills)}
      BY <2>2, <2>3 DEF Prepare
    <3> QED  BY <2>1, <3>1, AskedOnEachDay
  <2>4. CASE bills = {}
    <3>1. request' = {}
      BY <2>2, <2>4 DEF Prepare
    <3>2. AskedFor(request', o) = {}
      BY <3>1 DEF AskedFor
    <3>3. days = {}
      <4>1. \A d \in days : \E x \in {AsAsked(b) : b \in bills} : x.of = o.id /\ x.dueOn = d
        BY <2>1, BillsToAskForAre
      <4> QED  BY <2>4, <4>1
    <3> QED  BY <3>2, <3>3
  <2> QED  BY <2>3, <2>4
<1>2. ASSUME Attempt, [Next]_vars
      PROVE  [stage = "prepare" /\ stage' \in {"calls", "history", "answer"} =>
                \A o \in {q \in stored : EveryMonthHasItsDay(q)} :
                  LET days == BillDays(o, Today, LastDayOf(asked) - (o.nextDueOn % 2))
                  IN  /\ {a[2] : a \in AskedFor(request', o)} = days
                      /\ Cardinality(AskedFor(request', o)) = Cardinality(days)]_vars
  BY <1>1, <1>2
<1> QED
  BY AnswersFitInitially, AnswersFitKept, AttemptInitially, AttemptKept, <1>2, PTL DEF Spec, AsksForEveryBill
=============================================================================
