----------------------------- MODULE MCPlanning -----------------------------
(***************************************************************************)
(* Months of two or three days, a horizon that crosses two month ends, and *)
(* amounts for which fees and rates do not come out whole.                 *)
(***************************************************************************)
EXTENDS Planning

Calendar == <<0, 3, 5, 8, 10, 13, 15, 18>>

\* From day 4, for three days: due before it and twice in it, stored at midnight as by a
\* client of the API; due once, at noon as the web stores it; first due on the third day of
\* a month, before one of two days.
Rent == [id |-> "rent", amount |-> 2, cadence |-> "MONTHLY", nextDueOn |-> Midnight(1)]
Loan == [id |-> "loan", amount |-> 3, cadence |-> "ONCE", nextDueOn |-> Noon(5)]
Dues == [id |-> "dues", amount |-> 1, cadence |-> "MONTHLY", nextDueOn |-> Noon(2)]

RentAndLoan == {Rent, Loan}
OnlyDues == {Dues}

\* Income comes by the day, so that buffer, flat fee and minimum transfer each force splits.
Body(horizon, opening, minimum, fixed, minTransfer) ==
  [horizonDays |-> horizon, opening |-> opening, minimum |-> minimum, minTransfer |-> minTransfer,
   income |-> 1, spending |-> 0, fixed |-> fixed, bps |-> 1, rate |-> 3]

TwoForms == {Body(3, 4, 1, 1, 0), Body(3, 2, 1, 0, 2)}
=============================================================================
