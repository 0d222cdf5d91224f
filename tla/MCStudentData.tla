--------------------------- MODULE MCStudentData ---------------------------
(***************************************************************************)
(* Three parts of a student's data that share no state: the requests about *)
(* the account, the shifts, and the setup wizard.  A behaviour is one of   *)
(* Accounts, of ShiftLog or of Onboarding; the others keep one initial     *)
(* state.                                                                  *)
(***************************************************************************)
EXTENDS Accounts, ShiftLog, Onboarding, TLC

VARIABLE part

allVars == <<part, accountVars, shiftVars, setupVars>>

\* Weeks of three units, hundredths of an hour of two: a shift may lie in one
\* week, begin and end at a Monday, or cross one.
Weeks == {0, 3, 6}

Interchangeable ==
  Permutations(Requests) \union Permutations(Passwords)
    \union Permutations(Submissions) \union Permutations(Panels)

\* The parts that do not run.
NoAccount ==
  /\ allowLocal = FALSE /\ users = {} /\ latest = {}
  /\ ask = [r \in Requests |-> [kind |-> "local"]]
  /\ pc = [r \in Requests |-> "start"] /\ answer = [r \in Requests |-> 0]
  /\ seen = [r \in Requests |-> {}]
NoShifts ==
  \A s, t \in Submissions : payload[s] = (CHOOSE p \in Payloads : TRUE) /\ panel[s] = panel[t]

Init ==
  /\ part \in {"account", "shifts", "setup"}
  /\ IF part = "account" THEN AccountsInit ELSE NoAccount
  /\ ShiftInit /\ (part # "shifts" => NoShifts)
  /\ SetupInit

Next ==
  \/ part = "account" /\ AccountsNext /\ UNCHANGED <<part, shiftVars, setupVars>>
  \/ part = "shifts" /\ ShiftNext /\ UNCHANGED <<part, accountVars, setupVars>>
  \/ part = "setup" /\ SetupNext /\ UNCHANGED <<part, accountVars, shiftVars>>

Spec == Init /\ [][Next]_allVars

\* The type invariant of the three parts, with the unique index on email and one
\* notice and one request for each window.
TypeOK == AccountsTypeOK /\ ShiftTypeOK /\ SetupTypeOK
=============================================================================
