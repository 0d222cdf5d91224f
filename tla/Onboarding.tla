----------------------------- MODULE Onboarding -----------------------------
(***************************************************************************)
(* Account setup: the wizard's store (web budgetWizard.ts), the finish     *)
(* button that sends it in several requests (web onboarding/page.tsx), and *)
(* the rows these leave on the server (profile and obligations routers).   *)
(*                                                                         *)
(* The store outlives the page: signing in again after a refused token     *)
(* mounts a new page over the old store, a reload starts both anew.  Any   *)
(* request may fail, before the server acted on it or after.               *)
(***************************************************************************)
EXTENDS Sequences, Naturals

CONSTANTS Drafts, MaxLost, MaxMounts   \* the Max bounds keep behaviours short

ASSUME BoundsAreNatural == MaxLost \in Nat /\ MaxMounts \in Nat

VARIABLES
  step,       \* store: the position in STEPS of the step shown
  profileOk,  \* store: the fields of the profile step are filled in
  incomeOk,   \* store: the income is positive
  list,       \* store: obligations
  page,       \* the request finish is about to make, or where the student is
  sending,    \* page: the obligations of the finish under way
  posted,     \* page: postedObligations, kept from one finish to the next
  recorded,   \* server: the account has its permit and budget
  copies,     \* server: copies[d], the obligation rows made from draft d
  onboarded,  \* server: onboardedAt is set
  lost,       \* history: POSTs that made a row and whose answer was lost
  mounts,     \* history: pages mounted over a store that was not empty
  shifted     \* history: this page removed a draft it had already posted

store  == <<step, profileOk, incomeOk, list>>
server == <<recorded, copies, onboarded>>
past   == <<lost, mounts, shifted>>
setupVars   == <<store, page, sending, posted, server, past>>

Profile == 1      Income == 2      Obligations == 3      Buffer == 4
Steps == {Profile, Income, Obligations, Buffer}
Saving == {"record", "post", "complete"}

(***************************************************************************)
(* The store.                                                              *)
(***************************************************************************)
StepIsComplete(s) ==
  /\ s = Profile => profileOk
  /\ s = Income => incomeOk
  /\ s = Obligations => list # <<>>

CanReach(s) == \A earlier \in Steps : earlier < s => StepIsComplete(earlier)

CanSubmit == \A s \in Steps : StepIsComplete(s)

Show(s) == step' = s /\ UNCHANGED <<profileOk, incomeOk, list>>
Editing == page = "form"
OnlyStore == UNCHANGED <<page, sending, posted, server, past>>

Set(profile, income) ==
  profileOk' = profile /\ incomeOk' = income /\ UNCHANGED <<step, list>>

AddObligation(d) ==
  list' = Append(list, d) /\ UNCHANGED <<step, profileOk, incomeOk>>

RemoveObligation(i) ==
  /\ list' = SubSeq(list, 1, i - 1) \o SubSeq(list, i + 1, Len(list))
  /\ UNCHANGED <<step, profileOk, incomeOk>>

(***************************************************************************)
(* The forms of the steps.  The last one only sets an amount of which any  *)
(* value will do, and shows what was entered.                              *)
(***************************************************************************)
ProfileStep(ok) == Editing /\ step = Profile /\ Set(ok, incomeOk) /\ OnlyStore

IncomeStep(ok) == Editing /\ step = Income /\ Set(profileOk, ok) /\ OnlyStore

\* A draft that is not filled in is ignored; every other one is the last.
ObligationsStep(d) ==
  /\ Editing /\ step = Obligations
  /\ copies[d] = 0 /\ \A i \in DOMAIN list : list[i] # d
  /\ AddObligation(d) /\ OnlyStore

ListRemove(i) ==
  /\ Editing /\ step = Obligations
  /\ RemoveObligation(i)
  /\ shifted' = (shifted \/ i <= posted)
  /\ UNCHANGED <<page, sending, posted, server, lost, mounts>>

NextStep ==
  Editing /\ step # Buffer /\ StepIsComplete(step) /\ Show(step + 1) /\ OnlyStore

Back == Editing /\ step # Profile /\ Show(step - 1) /\ OnlyStore

GoTo(s) == Editing /\ CanReach(s) /\ Show(s) /\ OnlyStore

(***************************************************************************)
(* finish: PATCH the profile, POST each obligation, PATCH setup as done.   *)
(***************************************************************************)
FinishAnew ==                          \* (defect: counted within one attempt)
  /\ Editing /\ step = Buffer /\ CanSubmit
  /\ page' = "record"
  /\ posted' = 0
  /\ UNCHANGED <<store, sending, server, past>>

Finish ==
  /\ Editing /\ step = Buffer /\ CanSubmit
  /\ page' = "record"
  /\ UNCHANGED <<store, sending, posted, server, past>>

\* The request that comes after i obligations of s have been sent.
AfterAllButOne(i, s) ==                \* (defect: off by one)
  IF i + 1 < Len(s) THEN "post" ELSE "complete"
AfterPosts(i, s) == IF i < Len(s) THEN "post" ELSE "complete"

\* The PATCH of permit and budget; the loop then takes what it has to send.
Record ==
  /\ page = "record"
  /\ recorded' = TRUE
  /\ sending' = list
  /\ page' = AfterPosts(posted, list)
  /\ UNCHANGED <<store, posted, copies, onboarded, past>>

Post ==
  /\ page = "post"
  /\ copies' = [copies EXCEPT ![sending[posted + 1]] = @ + 1]
  /\ posted' = posted + 1
  /\ page' = AfterPosts(posted + 1, sending)
  /\ UNCHANGED <<store, sending, recorded, onboarded, past>>

\* The server made the row and its answer never came: the page shows an error.
PostLost ==
  /\ page = "post" /\ lost < MaxLost
  /\ copies' = [copies EXCEPT ![sending[posted + 1]] = @ + 1]
  /\ lost' = lost + 1
  /\ page' = "form"
  /\ UNCHANGED <<store, sending, posted, recorded, onboarded, mounts, shifted>>

\* The server refuses setup as done while it has no permit.
Complete ==
  /\ page = "complete" /\ recorded
  /\ onboarded' = TRUE
  /\ page' \in {"finished", "form"}    \* answered, or the answer was lost
  /\ UNCHANGED <<store, sending, posted, recorded, copies, past>>

\* A request failed before the server acted on it.
RequestFails ==
  /\ page \in Saving
  /\ page' = "form"
  /\ UNCHANGED <<store, sending, posted, server, past>>

(***************************************************************************)
(* Pages come and go.                                                      *)
(***************************************************************************)
\* The token is refused: on to the sign-in page, the store stays.
Unauthorized ==
  /\ page \in Saving
  /\ page' = "login"
  /\ UNCHANGED <<store, sending, posted, server, past>>

\* An account that is set up is sent on.
Entry == IF onboarded THEN "dashboard" ELSE "form"

\* Prefilled from the account, which never wipes what is there.
Hydrated(was) == was \/ recorded

\* Signed in again.  The new page counts from nothing and prefills the store
\* from what the account holds.
Mount ==
  /\ page = "login" /\ mounts < MaxMounts
  /\ page' = Entry
  /\ profileOk' = Hydrated(profileOk) /\ incomeOk' = Hydrated(incomeOk)
  /\ posted' = 0 /\ sending' = <<>>
  /\ mounts' = mounts + 1 /\ shifted' = FALSE
  /\ UNCHANGED <<step, list, server, lost>>

\* A reload, or signing out and in, which loads the application anew.
Reload ==
  /\ page \in {"form", "login"} \union Saving
  /\ page' = Entry
  /\ step' = Profile /\ list' = <<>>
  /\ profileOk' = Hydrated(FALSE) /\ incomeOk' = Hydrated(FALSE)
  /\ posted' = 0 /\ sending' = <<>> /\ shifted' = FALSE
  /\ UNCHANGED <<server, lost, mounts>>

SetupInit ==
  /\ step = Profile /\ list = <<>> /\ profileOk = FALSE /\ incomeOk = FALSE
  /\ page = "form" /\ posted = 0 /\ sending = <<>>
  /\ recorded = FALSE /\ onboarded = FALSE /\ copies = [d \in Drafts |-> 0]
  /\ lost = 0 /\ mounts = 0 /\ shifted = FALSE

SetupNext ==
  \/ \E ok \in BOOLEAN : ProfileStep(ok) \/ IncomeStep(ok)
  \/ \E d \in Drafts : ObligationsStep(d)
  \/ \E i \in DOMAIN list : ListRemove(i)
  \/ NextStep \/ Back
  \/ \E s \in Steps : GoTo(s)
  \/ Finish \/ Record \/ Post \/ PostLost \/ Complete \/ RequestFails
  \/ Unauthorized \/ Mount \/ Reload

SetupSpec == SetupInit /\ [][SetupNext]_setupVars

(***************************************************************************)
(* Properties.                                                             *)
(***************************************************************************)

\* The type invariant.
SetupTypeOK ==
  /\ step \in Steps
  /\ profileOk \in BOOLEAN /\ incomeOk \in BOOLEAN
  /\ list \in Seq(Drafts) /\ sending \in Seq(Drafts)
  /\ page \in {"form", "finished", "login", "dashboard"} \union Saving
  /\ posted \in Nat /\ lost \in 0 .. MaxLost /\ mounts \in 0 .. MaxMounts
  /\ recorded \in BOOLEAN /\ onboarded \in BOOLEAN /\ shifted \in BOOLEAN
  /\ copies \in [Drafts -> Nat]

\* "The rules below stop anyone reaching a later step, or finishing, with data
\* the product cannot use", whatever is edited, removed or prefilled on the way.
ShownStepIsReachable == CanReach(step) /\ (page \in Saving => CanSubmit)

\* An account that counts as set up has its permit and budget, and at least one
\* obligation to plan for.
SetupIsWhole == onboarded => recorded /\ \E d \in Drafts : copies[d] > 0

\* When finish tells the student that setup is done, every obligation on the
\* list was saved, whatever failed before, unless a draft that was already
\* saved was taken off the list between two attempts.
NothingSkipped ==
  page = "finished" /\ ~shifted => \A i \in DOMAIN list : copies[list[i]] > 0

\* A commitment is saved twice only where an answer was lost or a new page took
\* over the store: failures the page is told of never duplicate anything.
DuplicatesAreExplained == \A d \in Drafts : copies[d] <= 1 + lost + mounts

\* The comment in finish: if the connection drops between two commitments, a
\* retry sends only the rest "rather than duplicating the first two".
RetrySendsOnlyTheRest == \A d \in Drafts : copies[d] <= 1

\* The wizard never shows, sends or counts as set up what its rules forbid.
RulesHold == ShownStepIsReachable /\ SetupIsWhole

\* Finish saves each commitment, and once, but for the cases its parts name.
EachSavedOnce == NothingSkipped /\ DuplicatesAreExplained
=============================================================================
