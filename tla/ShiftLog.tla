------------------------------ MODULE ShiftLog ------------------------------
(***************************************************************************)
(* A student logging shifts from several windows: the check before saving, *)
(* the confirmation it may ask for, the save, deletions, and changes of    *)
(* the permit's cap (web ShiftPanel, backend shifts and compliance).       *)
(*                                                                         *)
(* A submission is a process: one use of the form with its payload.  The   *)
(* would-breach request reads the stored shifts and the cap in parallel,   *)
(* and the save is a second request that checks nothing.                   *)
(***************************************************************************)
EXTENDS WorkHours, FiniteSetsExt

CONSTANTS Submissions, Panels, Instants, Caps, DefaultCap,
          Hundredth,          \* a hundredth of an hour, in units of worked time
          MaxLostSaves        \* bound: saves whose answer is lost

ASSUME HundredthIsPositive == Hundredth \in Nat \ {0}
ASSUME InstantsAreNumbers == Instants \subseteq Int
ASSUME CapsArePositive == Caps \subseteq Nat \ {0} /\ DefaultCap \in Caps

VARIABLES
  payload,    \* payload[s]: the shift submission s is about
  panel,      \* panel[s]: the window it is made in
  phase,      \* phase[s]: where it is
  stored,     \* the rows of the shifts collection, <<s, n>> for the n-th save of s
  saves,      \* saves[s]: saves of s the server has committed
  cap,        \* the cap the permit gives, DefaultCap until one is recorded
  seenShifts, \* seenShifts[s]: the rows listFor returned, {} before
  seenCap,    \* seenCap[s]: the cap capFor returned, 0 before
  confirmed,  \* submissions the student confirmed although they breach
  lostSaves,  \* history: lostSaves[s], saves that were committed and not answered
  disturbed   \* history: submissions during which somebody else wrote

form == <<payload, panel>>
rows == <<stored, saves, lostSaves>>
check == <<seenShifts, seenCap>>
shiftVars == <<form, phase, rows, cap, check, confirmed, disturbed>>

\* The schema refuses a shift that does not end after it starts.
Payloads == {s \in [from : Instants, to : Instants, onCampus : BOOLEAN] : s.from < s.to}
Phases == {"form", "reading", "readingCap", "readingShifts", "read", "asked", "saving",
           "withdrawn", "saved", "dropped"}

(***************************************************************************)
(* compliance/workHours.ts, over a set of rows.  The candidate of a check  *)
(* is a row that is not stored.                                            *)
(*                                                                         *)
(* The code counts in hours, as floating-point numbers.  One of them is    *)
(* off by less than a unit of time, so only two comparisons can tell: that *)
(* of a sum with a cap it equals, and that of a hundredth with its half.   *)
(* inexact says that they go the wrong way.  One or two pieces that fill   *)
(* the cap always add up to it; of three, some do not.                     *)
(***************************************************************************)
Candidate(s) == <<s, 0>>
Shift(row) == payload[row[1]]

StartWeekOnly(row) ==                  \* (defect: the whole shift in its start week)
  {[of |-> row, week |-> WeekStartOf(Shift(row).from), from |-> Shift(row).from,
    to |-> Shift(row).to]}

Pieces(row) ==
  LET end == Shift(row).to
      after[c \in Shift(row).from .. end] ==
        IF c >= end THEN {}
        ELSE {[of |-> row, week |-> WeekStartOf(c), from |-> c, to |-> SliceEnd(c, end)]}
               \union after[SliceEnd(c, end)]
  IN  after[Shift(row).from]

AllPieces(S) == UNION {Pieces(row) : row \in S}
PiecesOf(S, week, onCampus) ==
  {p \in AllPieces(S) : p.week = week /\ Shift(p.of).onCampus = onCampus}

Hours(S, week, onCampus) ==
  SumFunction([p \in PiecesOf(S, week, onCampus) |-> p.to - p.from])

\* Math.round(value * 100) / 100: the half goes up, or down where it is not met.
Round2(x, inexact) ==
  Hundredth * ((2 * x + Hundredth - (IF inexact THEN 1 ELSE 0)) \div (2 * Hundredth))

SumIsOver(S, week, capHours, inexact) ==
  \/ Hours(S, week, FALSE) > capHours
  \/ /\ inexact /\ Hours(S, week, FALSE) = capHours
     /\ Cardinality(PiecesOf(S, week, FALSE)) > 2

WeeklyUsage(S, capHours, inexact) ==
  [w \in {p.week : p \in AllPieces(S)} |->
     [offCampus |-> Round2(Hours(S, w, FALSE), inexact),
      onCampus  |-> Round2(Hours(S, w, TRUE), inexact),
      remaining |-> Round2(capHours - Hours(S, w, FALSE), inexact),
      breached  |-> SumIsOver(S, w, capHours, inexact)]]

CurrentWeek(S, capHours, asOf, inexact) ==
  LET usage == WeeklyUsage(S, capHours, inexact)
      week  == WeekStartOf(asOf)
  IN  IF week \in DOMAIN usage THEN usage[week]
      ELSE [offCampus |-> 0, onCampus |-> 0, remaining |-> capHours, breached |-> FALSE]

BreachInStartWeek(S, s, capHours, inexact) ==   \* (defect: only the week it starts in)
  WeeklyUsage(S \union {Candidate(s)}, capHours, inexact)[WeekStartOf(payload[s].from)].breached

WouldBreach(S, s, capHours, inexact) ==
  \E p \in Pieces(Candidate(s)) :
    WeeklyUsage(S \union {Candidate(s)}, capHours, inexact)[p.week].breached

(***************************************************************************)
(* The same, defined without the code's loop: the part of a shift that     *)
(* lies between a Monday and the next.                                     *)
(***************************************************************************)
Overlap(row, week) ==
  Max({0, Min({Shift(row).to, week + WeekLength}) - Max({Shift(row).from, week})})

Worked(S, week, onCampus) ==
  SumFunction([row \in {r \in S : Shift(r).onCampus = onCampus} |-> Overlap(row, week)])

\* The shifts somebody logged, each of them once.
Logged(S) == {Candidate(row[1]) : row \in S}

\* With submission s, a week it works in is over the cap, or is at it.
OverCap(S, s, capHours) ==
  \E w \in Mondays : /\ Overlap(Candidate(s), w) > 0
                     /\ Worked(S \union {Candidate(s)}, w, FALSE) > capHours
CapReached(S, s, capHours) ==
  \E w \in Mondays : /\ Overlap(Candidate(s), w) > 0
                     /\ Worked(S \union {Candidate(s)}, w, FALSE) >= capHours

(***************************************************************************)
(* The form and its two requests.  A window sends one at a time, and shows *)
(* one shift to confirm.                                                   *)
(***************************************************************************)
To(s, step) == phase' = [phase EXCEPT ![s] = step]
Checking == {"reading", "readingCap", "readingShifts", "read"}
InFlight == {"saving", "withdrawn"}

PanelOf(s) == {t \in Submissions : panel[t] = panel[s]}
Busy(s) == \E t \in PanelOf(s) : phase[t] \in Checking \union InFlight

\* The notice of the window is taken down, or shows s instead of another.
NoticeGone(s, step) ==
  phase' = [t \in Submissions |-> IF t = s THEN step
                                  ELSE IF t \in PanelOf(s) /\ phase[t] = "asked" THEN "dropped" ELSE phase[t]]

Submit(s) ==
  /\ phase[s] = "form" /\ ~Busy(s)
  /\ To(s, "reading")
  /\ UNCHANGED <<form, rows, cap, check, confirmed, disturbed>>

\* listFor and capFor run in parallel: either may come back first.
ReadShifts(s) ==
  /\ phase[s] \in {"reading", "readingShifts"}
  /\ seenShifts' = [seenShifts EXCEPT ![s] = stored]
  /\ To(s, IF phase[s] = "reading" THEN "readingCap" ELSE "read")
  /\ UNCHANGED <<form, rows, cap, seenCap, confirmed, disturbed>>

ReadCap(s) ==
  /\ phase[s] \in {"reading", "readingCap"}
  /\ seenCap' = [seenCap EXCEPT ![s] = cap]
  /\ To(s, IF phase[s] = "reading" THEN "readingShifts" ELSE "read")
  /\ UNCHANGED <<form, rows, cap, seenShifts, confirmed, disturbed>>

\* The answer decides between asking the student and saving at once.
Answer(s) ==
  /\ phase[s] = "read"
  /\ \E inexact \in BOOLEAN :
       IF WouldBreach(seenShifts[s], s, seenCap[s], inexact)
         THEN NoticeGone(s, "asked") ELSE To(s, "saving")
  /\ UNCHANGED <<form, rows, cap, check, confirmed, disturbed>>

\* (defect: the button works while a save is on its way)
ConfirmTwice(s) ==
  /\ phase[s] \in {"asked"} \union (IF s \in confirmed THEN {"saved"} ELSE {})
  /\ confirmed' = confirmed \union {s}
  /\ To(s, "saving")
  /\ UNCHANGED <<form, rows, cap, check, disturbed>>

Confirm(s) ==
  /\ phase[s] = "asked" /\ ~Busy(s)
  /\ confirmed' = confirmed \union {s}
  /\ To(s, "saving")
  /\ UNCHANGED <<form, rows, cap, check, disturbed>>

\* The notice can be cancelled while the save it started is on its way.
Cancel(s) ==
  /\ phase[s] \in {"asked"} \union (IF s \in confirmed THEN {"saving"} ELSE {})
  /\ To(s, IF phase[s] = "asked" THEN "dropped" ELSE "withdrawn")
  /\ UNCHANGED <<form, rows, cap, check, confirmed, disturbed>>

\* Everybody else who is between a check and a save is disturbed by a write.
Disturb(others) ==
  disturbed' = disturbed \union {s \in others : phase[s] \in Checking \union InFlight \union {"asked"}}

Insert(s) ==
  /\ saves' = [saves EXCEPT ![s] = @ + 1]
  /\ stored' = stored \union {<<s, saves[s] + 1>>}
  /\ Disturb(Submissions \ {s})

Save(s) ==
  /\ phase[s] \in InFlight
  /\ Insert(s)
  /\ NoticeGone(s, "saved")
  /\ UNCHANGED <<form, lostSaves, cap, check, confirmed>>

\* A request fails and the panel shows an error: nothing more is stored.  A
\* confirmed shift is still pending, and can be confirmed again.
AfterError(s) == IF s \in confirmed /\ phase[s] # "withdrawn" THEN "asked" ELSE "dropped"

Drop(s) ==
  /\ phase[s] \in Checking \union InFlight
  /\ To(s, AfterError(s))
  /\ UNCHANGED <<form, rows, cap, check, confirmed, disturbed>>

\* The row was made and the answer lost, which the panel cannot tell apart.
SaveLost(s) ==
  /\ phase[s] \in InFlight /\ lostSaves[s] < MaxLostSaves
  /\ Insert(s)
  /\ lostSaves' = [lostSaves EXCEPT ![s] = @ + 1]
  /\ To(s, AfterError(s))
  /\ UNCHANGED <<form, cap, check, confirmed>>

Delete(row) ==
  /\ stored' = stored \ {row}
  /\ Disturb(Submissions)
  /\ UNCHANGED <<form, phase, saves, lostSaves, cap, check, confirmed>>

SetCap(c) ==
  /\ c # cap
  /\ cap' = c
  /\ Disturb(Submissions)
  /\ UNCHANGED <<form, phase, rows, check, confirmed>>

ShiftInit ==
  /\ payload \in [Submissions -> Payloads]
  /\ panel \in [Submissions -> Panels]
  /\ phase = [s \in Submissions |-> "form"]
  /\ stored = {} /\ confirmed = {} /\ disturbed = {}
  /\ saves = [s \in Submissions |-> 0] /\ lostSaves = [s \in Submissions |-> 0]
  /\ cap = DefaultCap
  /\ seenShifts = [s \in Submissions |-> {}]
  /\ seenCap = [s \in Submissions |-> 0]

ShiftNext ==
  \/ \E s \in Submissions :
       \/ Submit(s) \/ ReadShifts(s) \/ ReadCap(s) \/ Answer(s) \/ Confirm(s) \/ Cancel(s)
       \/ Save(s) \/ SaveLost(s) \/ Drop(s)
  \/ \E row \in stored : Delete(row)
  \/ \E c \in Caps : SetCap(c)

ShiftSpec == ShiftInit /\ [][ShiftNext]_shiftVars

(***************************************************************************)
(* Properties.                                                             *)
(***************************************************************************)

\* The type invariant; a window shows one shift to confirm and waits for one
\* request.
ShiftTypeOK ==
  /\ payload \in [Submissions -> Payloads]
  /\ phase \in [Submissions -> Phases]
  /\ stored \subseteq Submissions \X Nat /\ confirmed \subseteq Submissions
  /\ \A row \in stored : row[2] \in 1 .. saves[row[1]]
  /\ disturbed \subseteq Submissions
  /\ cap \in Caps
  /\ seenCap \in [Submissions -> Caps \union {0}]
  /\ \A s, t \in Submissions : s # t /\ panel[s] = panel[t] =>
       /\ ~(phase[s] = "asked" /\ phase[t] = "asked")
       /\ phase[s] \in Checking \union InFlight => phase[t] \notin Checking \union InFlight

\* Half a hundredth of an hour apart at most: what rounding to it may change.
Near(x, y) == 2 * (x - y) \in -Hundredth .. Hundredth

\* FR-1 and FR-2: the usage reported of the stored shifts is, week by week, the
\* part of each shift worked in that week, on campus and off, as near as it is
\* rounded; what is over the cap is reported as a breach, and what is below it
\* is not; the hours remaining never contradict the breach.  A shift logged once
\* counts once while no answer of a save was lost.
UsageIsWhatWasWorked ==
  \A w \in Mondays :
    LET worked == Worked(stored, w, FALSE)
        onCampus == Worked(stored, w, TRUE)
    IN  /\ \A inexact \in BOOLEAN :
             LET u == CurrentWeek(stored, cap, w, inexact)
             IN  /\ Near(u.offCampus, worked) /\ Near(u.onCampus, onCampus)
                 /\ Near(u.remaining, cap - worked)
                 /\ worked > cap => u.breached
                 /\ u.breached => worked >= cap /\ u.remaining <= 0
                 /\ u.remaining < 0 => u.breached
        /\ (\A s \in Submissions : lostSaves[s] = 0) =>
             worked = Worked(Logged(stored), w, FALSE) /\ onCampus = Worked(Logged(stored), w, TRUE)

\* FR-3: while nobody else writes, the student is asked only of a shift that
\* brings a week it touches to the cap or over, and a save without asking stays
\* within it.
CheckKeepsTheCap ==
  \A s \in Submissions \ disturbed :
    /\ phase[s] = "asked" => CapReached(stored, s, cap)
    /\ phase[s] = "saving" /\ s \notin confirmed => ~OverCap(stored, s, cap)

\* Only the student's confirmation stores a shift whose check said it breaches.
BreachNeedsConfirmation ==
  \A row \in stored :
    LET s == row[1] IN OverCap(seenShifts[s], s, seenCap[s]) => s \in confirmed

\* A shift logged once counts once, but for the saves whose answer was lost:
\* errors, second clicks and cancelled notices never make another row.
RowsAreExplained == \A s \in Submissions : saves[s] <= 1 + lostSaves[s]

\* What is stored, the student stored: a breach knowingly, and nothing twice but
\* where an answer was lost.
StoredKnowingly == BreachNeedsConfirmation /\ RowsAreExplained
=============================================================================
