----------------------------- MODULE WeekSplit -----------------------------
(***************************************************************************)
(* The loop of splitAcrossWeeks on one shift: one action per pass.         *)
(***************************************************************************)
EXTENDS WorkHours

CONSTANT Instants   \* the instants a shift may start or end at

ASSUME InstantsAreIntegers == Instants \subseteq Int

VARIABLES shift, cursor, pieces
splitVars == <<shift, cursor, pieces>>

Shifts == [from : Instants, to : Instants]

\* A shift that does not end after it starts has no pieces: no pass is made.
SplitInit ==
  /\ shift \in Shifts
  /\ cursor = shift.from
  /\ pieces = {}

Pass ==
  /\ cursor < shift.to
  /\ pieces' = pieces \union {[week |-> WeekStartOf(cursor), from |-> cursor,
                               to |-> SliceEnd(cursor, shift.to)]}
  /\ cursor' = SliceEnd(cursor, shift.to)
  /\ UNCHANGED shift

SplitSpec == SplitInit /\ [][Pass]_splitVars

\* The loop is synchronous: it runs as long as its condition holds.
SplitFairSpec == SplitSpec /\ WF_splitVars(Pass)

\* "each piece belongs to exactly one week": every instant worked before the
\* cursor is counted in a piece, in the week of that instant, and in no other.
CountedInItsWeek ==
  /\ \A t \in shift.from .. (cursor - 1) : \E p \in pieces :
       p.from <= t /\ t < p.to /\ p.week = WeekStartOf(t)
  /\ \A p \in pieces : p.from < p.to /\ shift.from <= p.from /\ p.to <= cursor
  /\ \A p, q \in pieces : p # q => p.to <= q.from \/ q.to <= p.from

\* Every shift is split: the loop ends, so the request that asked for the usage
\* is answered and the process it runs in serves the next one.
SplitReturns == <>(cursor >= shift.to)
=============================================================================
