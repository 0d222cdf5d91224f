----------------------------- MODULE Transfers -----------------------------
(***************************************************************************)
(* The optimizer service: what it accepts, the schedules its solver may    *)
(* answer with, and the monthly strategy it is compared with (optimizer    *)
(* models.py, solver.py, baseline.py).                                     *)
(*                                                                         *)
(* A request is a record whose periods and obligations are sequences.      *)
(* Rates are numbers of 1 / RateScale, fees per amount of 1 / BpsScale.    *)
(* The transfers of an answer are filed under the periods they are made in.*)
(* The search is CP-SAT's: here it may answer with any schedule that meets *)
(* the constraints, with one of the cheapest when it calls it OPTIMAL.     *)
(***************************************************************************)
EXTENDS Occurrences, SequencesExt

CONSTANTS
  RateScale,      \* RATE_SCALE
  BpsScale,       \* BPS_SCALE
  MaxPeriods,     \* the longest list of periods the schema admits
  MaxObligations  \* the longest list of obligations it admits

ASSUME ScalesArePositive == {RateScale, BpsScale} \subseteq Nat \ {0}

Sum(f) == SumFunction(f)
CeilDiv(a, b) == (a + b - 1) \div b

Days(r) == DOMAIN r.periods
Bills(r) == DOMAIN r.obligations

\* What the request schema admits.
Valid(r) ==
  /\ \E n \in 1 .. MaxPeriods : Days(r) = 1 .. n
  /\ \E n \in 1 .. MaxObligations : Bills(r) = 1 .. n
  /\ \A i \in Days(r) : /\ r.periods[i].rate \in Nat \ {0}
                        /\ {r.periods[i].on, r.periods[i].income, r.periods[i].spending} \subseteq Nat
  /\ \A b \in Bills(r) : /\ r.obligations[b].amount \in Nat \ {0} /\ r.obligations[b].dueOn \in Nat
                         /\ \E i \in Days(r) : r.obligations[b].dueOn <= r.periods[i].on
  /\ {r.fixed, r.opening, r.minimum, r.minTransfer} \subseteq Nat /\ r.bps \in 0 .. BpsScale

\* What solve refuses: an obligation with no period to fund it.
Unfundable(r) ==
  \E b \in Bills(r) : \A i \in Days(r) : r.obligations[b].dueOn < r.periods[i].on

\* The most one transfer can be: what the student could ever have.
Ceiling(r) == r.opening + Sum([i \in Days(r) |-> r.periods[i].income])

(***************************************************************************)
(* The constraints.  sent[i] is the amount sent on the i-th period; a      *)
(* transfer happens, and pays its flat fee, when the amount is not zero.   *)
(***************************************************************************)
Sends(sent) == {i \in DOMAIN sent : sent[i] > 0}

\* What has arrived by a day, and what has fallen due.
Until(r, day) == {i \in Days(r) : r.periods[i].on <= day}
DueBy(r, day) == {b \in Bills(r) : r.obligations[b].dueOn <= day}

Arrived(r, sent, day) == Sum([i \in Until(r, day) |-> sent[i] * r.periods[i].rate])
Owed(r, B) == Sum([b \in B |-> r.obligations[b].amount])

AboveFloor(r, sent) == \A i \in Sends(sent) : sent[i] >= r.minTransfer

CoversEachBill(r, sent) ==             \* (defect: one transfer counted for several bills)
  \A b \in Bills(r) :
    Arrived(r, sent, r.obligations[b].dueOn) >= r.obligations[b].amount * RateScale

Covers(r, sent) ==
  \A b \in Bills(r) :
    LET due == r.obligations[b].dueOn
    IN  Arrived(r, sent, due) >= Owed(r, DueBy(r, due)) * RateScale

\* The scaled cost of the transfers of some periods, and the cash before them.
CostScaled(r, sent, I) ==
  Sum([i \in I |-> sent[i] * (BpsScale + r.bps)
                     + (IF sent[i] > 0 THEN r.fixed * BpsScale ELSE 0)])

Cash(r, I) ==
  r.opening + Sum([i \in I |-> r.periods[i].income]) - Sum([i \in I |-> r.periods[i].spending])

KeepsBuffer(r, sent) ==
  \A i \in Days(r) :
    BpsScale * Cash(r, 1 .. i) - CostScaled(r, sent, 1 .. i) >= r.minimum * BpsScale

Feasible(r) ==
  {sent \in [Days(r) -> 0 .. Ceiling(r)] :
     AboveFloor(r, sent) /\ Covers(r, sent) /\ KeepsBuffer(r, sent)}

CheapestSent(r, schedules) ==          \* (defect: the flat fees not minimised)
  LET cost(sent) == Sum([i \in Days(r) |-> sent[i] * (BpsScale + r.bps)])
      least == Min({cost(sent) : sent \in schedules})
  IN  {sent \in schedules : cost(sent) = least}

Cheapest(r, schedules) ==
  LET least == Min({CostScaled(r, sent, Days(r)) : sent \in schedules})
  IN  {sent \in schedules : CostScaled(r, sent, Days(r)) = least}

(***************************************************************************)
(* The answers, in whole minor units: each fee and each amount received is *)
(* rounded down on its own.                                                *)
(***************************************************************************)
Fee(r, amount) == r.fixed + (amount * r.bps) \div BpsScale

Report(r, status, sent) ==
  LET total == Sum([i \in Sends(sent) |-> sent[i]])
      fees == Sum([i \in Sends(sent) |-> Fee(r, sent[i])])
  IN  [status    |-> status,
       transfers |-> [i \in Sends(sent) |->
                        [on       |-> r.periods[i].on,
                         amount   |-> sent[i],
                         fee      |-> Fee(r, sent[i]),
                         received |-> (sent[i] * r.periods[i].rate) \div RateScale]],
       fees      |-> fees,
       cost      |-> total + fees,
       closing   |-> Cash(r, Days(r)) - total - fees]

\* Without a schedule the balance reported is the opening one.
NoSchedule(r, status) ==
  [status |-> status, transfers |-> [i \in {} |-> {}], fees |-> 0, cost |-> 0, closing |-> r.opening]

\* What solve may return.  The time limit may pass with the best schedule so far,
\* or with none.
Solve(r) ==
  LET feasible == Feasible(r)
  IN  {Report(r, "OPTIMAL", sent) : sent \in Cheapest(r, feasible)}
      \union {Report(r, "FEASIBLE", sent) : sent \in feasible}
      \union {NoSchedule(r, "UNKNOWN")}
      \union (IF feasible = {} THEN {NoSchedule(r, "INFEASIBLE")} ELSE {})

\* Send on the first period of each month what falls due before the next send;
\* what falls due before the first send is charged to it.
MonthlySends(r) ==
  {i \in Days(r) : \A j \in 1 .. i - 1 : MonthOf(r.periods[j].on) # MonthOf(r.periods[i].on)}

FundedBy(r, b) ==
  LET eligible == {i \in MonthlySends(r) : r.periods[i].on <= r.obligations[b].dueOn}
  IN  IF eligible = {} THEN Min(MonthlySends(r)) ELSE Max(eligible)

MonthlySent(r) ==
  [i \in Days(r) |->
     CeilDiv(RateScale * Owed(r, {b \in Bills(r) : FundedBy(r, b) = i}), r.periods[i].rate)]

MonthlyBaseline(r) == Report(r, "BASELINE", MonthlySent(r))
=============================================================================
