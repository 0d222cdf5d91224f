----------------------------- MODULE WorkHours -----------------------------
(***************************************************************************)
(* Cutting a work shift into weeks (backend/src/compliance/workHours.ts).  *)
(*                                                                         *)
(* Instants are numbers of one unit of worked time.  Mondays is the set of *)
(* instants at which the local calendar of the server opens a week, which  *)
(* setHours and setDate compute; WeekLength is the constant WEEK_MS the    *)
(* code adds to one.  The two agree in a calendar without daylight saving. *)
(* Where clocks change, one week is an hour longer and one an hour shorter *)
(* than WEEK_MS.                                                           *)
(***************************************************************************)
EXTENDS Integers

CONSTANTS Mondays, WeekLength

ASSUME WeekIsPositive == Mondays \subseteq Int /\ WeekLength \in Nat \ {0}

\* The calendar opens a week every WeekLength units, and never in between.
RegularWeeks == \A m, n \in Mondays : m < n => m + WeekLength <= n
Covered(t) == \E m \in Mondays : m <= t /\ t < m + WeekLength

WeekStartOf(t) ==
  CHOOSE m \in Mondays : m <= t /\ \A n \in Mondays : n <= t => n <= m

\* Where the pass of splitAcrossWeeks that starts at cursor ends.
RestOfShift(cursor, end) == end        \* (defect: never cut at a Monday)
SliceEnd(cursor, end) ==
  LET nextWeekStart == WeekStartOf(cursor) + WeekLength
  IN  IF nextWeekStart < end THEN nextWeekStart ELSE end
=============================================================================
