---------------------------- MODULE Occurrences ----------------------------
(***************************************************************************)
(* Recurring obligations and the dated occurrences a window holds          *)
(* (backend obligations/repository.ts).                                    *)
(*                                                                         *)
(* A day is a number; FirstDay lists the days on which the months of the   *)
(* calendar begin, from day 0, and any calendar will do.  An instant is a  *)
(* half of a day: the code compares instants, stores a due date at noon    *)
(* and opens and closes its windows at midnight.                           *)
(***************************************************************************)
EXTENDS Integers, Sequences

CONSTANTS
  FirstDay,  \* FirstDay[m]: the day month m begins on
  Limit      \* LIMIT: the occurrences expand visits at most

ASSUME CalendarAdvances ==
  /\ FirstDay \in Seq(Nat) /\ Limit \in Nat
  /\ \A m, n \in DOMAIN FirstDay : m < n => FirstDay[m] < FirstDay[n]
  /\ 1 \in DOMAIN FirstDay /\ FirstDay[1] = 0

Months == DOMAIN FirstDay

Midnight(day) == 2 * day
Noon(day) == 2 * day + 1
DayOf(instant) == instant \div 2       \* isoDate

MonthOf(day) ==
  CHOOSE m \in Months : FirstDay[m] <= day /\ (m + 1 \in Months => day < FirstDay[m + 1])

AddFixedDays(instant, months) ==       \* (defect: every month as long as the first)
  instant + 2 * months * (FirstDay[2] - FirstDay[1])

\* setMonth(getMonth() + months).  A day the month does not have is counted on
\* into the months after it; the time of day is kept.
AddMonths(instant, months) ==
  LET from == MonthOf(DayOf(instant))
  IN  instant + 2 * (FirstDay[from + months] - FirstDay[from])

MonthsIn(cadence) ==
  CASE cadence = "MONTHLY" -> 1 [] cadence = "QUARTERLY" -> 3 [] OTHER -> 12

\* Where the cursor of the loop is at each of its visits.
Cursor(obligation) ==
  LET at[n \in 0 .. Limit] ==
        IF n = 0 THEN obligation.nextDueOn
        ELSE AddMonths(at[n - 1], MonthsIn(obligation.cadence))
  IN  at

\* The loop visits until the cursor has passed to, once if the bill comes once.
Visits(obligation, to) ==
  {n \in 0 .. Limit - 1 : /\ obligation.cadence = "ONCE" => n = 0
                          /\ \A k \in 0 .. n : Cursor(obligation)[k] <= to}

Expand(obligation, from, to) ==
  {[of |-> obligation.id, index |-> n + 1, dueOn |-> Cursor(obligation)[n], amount |-> obligation.amount] :
     n \in {v \in Visits(obligation, to) : Cursor(obligation)[v] >= from}}

OccurrencesFor(obligations, from, to) ==
  UNION {Expand(o, from, to) : o \in obligations}

(***************************************************************************)
(* The same dates without the cursor: a bill comes on the day of the month *)
(* it first came on, in each of its months, on the last day of a month     *)
(* that is too short.                                                      *)
(***************************************************************************)
LastDay(month) == FirstDay[month + 1] - 1

BillDay(obligation, month) ==
  LET first == DayOf(obligation.nextDueOn)
      day == FirstDay[month] + (first - FirstDay[MonthOf(first)])
  IN  IF day > LastDay(month) THEN LastDay(month) ELSE day

BillMonths(obligation) ==
  LET first == MonthOf(DayOf(obligation.nextDueOn))
  IN  {m \in Months : /\ m >= first /\ m + 1 \in Months
                      /\ IF obligation.cadence = "ONCE" THEN m = first
                         ELSE (m - first) % MonthsIn(obligation.cadence) = 0}

\* The days in first .. last on which the obligation falls due.
BillDays(obligation, first, last) ==
  {BillDay(obligation, m) : m \in BillMonths(obligation)} \intersect (first .. last)

\* No month of the calendar is too short for the day the bill first came on.
EveryMonthHasItsDay(obligation) ==
  LET first == DayOf(obligation.nextDueOn)
  IN  \A m \in BillMonths(obligation) :
        FirstDay[m] + (first - FirstDay[MonthOf(first)]) <= LastDay(m)

\* Calendar and limit are long enough for a bill in a window that ends on a day: the month it
\* first came on has an end, some month begins after the window, and the step that goes past
\* it is within the calendar and within the limit.
LongEnough(obligation, last) ==
  LET first == MonthOf(DayOf(obligation.nextDueOn))
      step == IF obligation.cadence = "ONCE" THEN 1 ELSE MonthsIn(obligation.cadence)
  IN  /\ first + 1 \in Months
      /\ \E m \in Months : last < FirstDay[m] /\ m + step \in Months /\ m <= first + Limit * step
=============================================================================
