---------------------------- MODULE MCWeekSplit ----------------------------
(***************************************************************************)
(* A calendar of four-unit weeks whose second week is a unit longer, as    *)
(* the week in which clocks go back is.                                    *)
(***************************************************************************)
EXTENDS WeekSplit

FallBackMondays == {0, 4, 9, 13}
=============================================================================
