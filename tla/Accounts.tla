------------------------------ MODULE Accounts ------------------------------
(***************************************************************************)
(* Requests about the account of one email address: sign-up, sign-in,      *)
(* password change, the email-only sign-in of development, and the profile *)
(* patches that record a permit and finish setup (backend/src/auth,        *)
(* backend/src/profile).                                                   *)
(*                                                                         *)
(* A request is a process whose actions end at its awaits: each reads the  *)
(* user row once, decides on what it read, and may write later.  Checking  *)
(* and making a hash take long enough for other requests to come between.  *)
(*                                                                         *)
(* The users collection is a set with at most one row, the unique index on *)
(* email making it so.  A result that may be missing is such a set too.    *)
(***************************************************************************)
EXTENDS FiniteSets, Naturals

CONSTANTS Requests, Passwords

VARIABLES
  allowLocal, \* whether the deployment has the email-only sign-in
  ask,        \* ask[r]: what request r asks for
  users,      \* the rows of the email address
  pc,         \* pc[r]: the await request r is about to make
  seen,       \* seen[r]: the rows r has read
  answer,     \* answer[r]: the status r was answered with, 0 before
  latest      \* history: the password the last sign-up or change stored

inputs == <<allowLocal, ask>>
accountVars == <<inputs, users, pc, seen, answer, latest>>

Rows == [password : {{}} \union {{p} : p \in Passwords}, old : BOOLEAN,
         permit : BOOLEAN, onboarded : BOOLEAN]

\* old: the hash was made with cheaper parameters.
ReachableRows ==
  {u \in Rows : (u.old => u.password # {}) /\ (u.onboarded => u.permit)}

Asks ==
  [kind : {"register"}, new : Passwords] \union [kind : {"login"}, given : Passwords]
    \union [kind : {"password"}, given : Passwords, new : Passwords]
    \union [kind : {"local"}] \union [kind : {"patch"}, permit : BOOLEAN, complete : BOOLEAN]

Stored == UNION {u.password : u \in users}

(***************************************************************************)
(* What every handler does.                                                *)
(***************************************************************************)
At(r, kind, step) == ask[r].kind = kind /\ pc[r] = step
Goto(r, step) == pc' = [pc EXCEPT ![r] = step] /\ answer' = answer
Reply(r, status) ==
  pc' = [pc EXCEPT ![r] = "done"] /\ answer' = [answer EXCEPT ![r] = status]

\* findUnique, remembered in the handler's variable.
Look(r) == seen' = [seen EXCEPT ![r] = users]

\* update, by field: whatever else the row holds stays.
SetPassword(p) == users' = {[u EXCEPT !.password = {p}, !.old = FALSE] : u \in users}

(***************************************************************************)
(* POST /register.                                                         *)
(***************************************************************************)
RegisterLook(r) ==
  /\ At(r, "register", "start")
  /\ Look(r)
  /\ \/ users = {} /\ Goto(r, "create")
     \/ /\ \E u \in users : u.password # {} \/ ~allowLocal
        /\ Reply(r, 409)
     \/ /\ \E u \in users : u.password = {} /\ allowLocal
        /\ Goto(r, "claim")
  /\ UNCHANGED <<inputs, users, latest>>

RegisterClaim(r) ==
  /\ At(r, "register", "claim")
  /\ SetPassword(ask[r].new)
  /\ latest' = {ask[r].new}
  /\ Reply(r, 201)
  /\ UNCHANGED <<inputs, seen>>

NewRow(password) == [password |-> password, old |-> FALSE, permit |-> FALSE, onboarded |-> FALSE]

\* The unique index decides between sign-ups that all read no row.
RegisterOver(r) ==                     \* (defect: an upsert instead of a create)
  /\ At(r, "register", "create")
  /\ users' = {NewRow({ask[r].new})}
  /\ latest' = {ask[r].new}
  /\ Reply(r, 201)
  /\ UNCHANGED <<inputs, seen>>

RegisterTwice(r) ==                    \* (defect: no unique index)
  /\ At(r, "register", "create")
  /\ users' = users \union {NewRow({ask[r].new})}
  /\ latest' = {ask[r].new}
  /\ Reply(r, 201)
  /\ UNCHANGED <<inputs, seen>>

RegisterCreate(r) ==
  /\ At(r, "register", "create")
  /\ \/ /\ users = {}
        /\ users' = {NewRow({ask[r].new})}
        /\ latest' = {ask[r].new}
        /\ Reply(r, 201)
     \/ /\ users # {}
        /\ Reply(r, 409)
        /\ UNCHANGED <<users, latest>>
  /\ UNCHANGED <<inputs, seen>>

(***************************************************************************)
(* POST /login.                                                            *)
(***************************************************************************)
LoginLook(r) ==
  /\ At(r, "login", "start")
  /\ Look(r)
  /\ Goto(r, "verify")
  /\ UNCHANGED <<inputs, users, latest>>

LoginVerify(r) ==
  /\ At(r, "login", "verify")
  /\ \/ /\ ~\E u \in seen[r] : ask[r].given \in u.password
        /\ Reply(r, 401)
     \/ /\ \E u \in seen[r] : ask[r].given \in u.password /\ ~u.old
        /\ Reply(r, 200)
     \/ /\ \E u \in seen[r] : ask[r].given \in u.password /\ u.old
        /\ Goto(r, "rehash")
  /\ UNCHANGED <<inputs, users, seen, latest>>

\* The hash is made again from the password that was right when it was read.
LoginRehash(r) ==
  /\ At(r, "login", "rehash")
  /\ SetPassword(ask[r].given)
  /\ Reply(r, 200)
  /\ UNCHANGED <<inputs, seen, latest>>

(***************************************************************************)
(* POST /password, for somebody signed in: the account exists.             *)
(***************************************************************************)
ChangeLook(r) ==
  /\ At(r, "password", "start")
  /\ users # {}
  /\ Look(r)
  /\ Goto(r, "verify")
  /\ UNCHANGED <<inputs, users, latest>>

ChangeVerify(r) ==
  /\ At(r, "password", "verify")
  /\ \/ /\ \E u \in seen[r] : u.password # {} /\ (ask[r].given \notin u.password
                                                    \/ ask[r].new = ask[r].given)
        /\ Reply(r, 400)
     \/ /\ \E u \in seen[r] : \/ u.password = {}
                              \/ ask[r].given \in u.password /\ ask[r].new # ask[r].given
        /\ Goto(r, "write")
  /\ UNCHANGED <<inputs, users, seen, latest>>

ChangeWrite(r) ==
  /\ At(r, "password", "write")
  /\ SetPassword(ask[r].new)
  /\ latest' = {ask[r].new}
  /\ Reply(r, 204)
  /\ UNCHANGED <<inputs, seen>>

(***************************************************************************)
(* POST /local, in development.                                            *)
(***************************************************************************)
LocalSignIn(r) ==
  /\ At(r, "local", "start")
  /\ IF allowLocal THEN Reply(r, 200) ELSE Reply(r, 404)
  /\ users' = IF allowLocal /\ users = {} THEN {NewRow({})} ELSE users
  /\ UNCHANGED <<inputs, seen, latest>>

(***************************************************************************)
(* PATCH /me.                                                              *)
(***************************************************************************)
PatchUnchecked(r) ==                   \* (defect: setup finished without a permit)
  /\ At(r, "patch", "start")
  /\ users # {}
  /\ Look(r)
  /\ Goto(r, "write")
  /\ UNCHANGED <<inputs, users, latest>>

PatchLook(r) ==
  /\ At(r, "patch", "start")
  /\ users # {}
  /\ Look(r)
  /\ IF ask[r].complete /\ ~ask[r].permit /\ \E u \in users : ~u.permit
       THEN Reply(r, 422) ELSE Goto(r, "write")
  /\ UNCHANGED <<inputs, users, latest>>

\* The sections that were sent, and the date setup was finished unless the row
\* that was read has one.
PatchWrite(r) ==
  /\ At(r, "patch", "write")
  /\ users' = {[u EXCEPT !.permit = @ \/ ask[r].permit,
                         !.onboarded = @ \/ ask[r].complete] : u \in users}
  /\ Reply(r, 200)
  /\ UNCHANGED <<inputs, seen, latest>>

(***************************************************************************)
(* The specification.                                                      *)
(***************************************************************************)
\* A limiter blocks the request before it reads anything.
Blocked(r) ==
  /\ ask[r].kind \in {"register", "login", "password"} /\ pc[r] = "start"
  /\ Reply(r, 429)
  /\ UNCHANGED <<inputs, users, seen, latest>>

\* An await throws or the process dies: what was written stays written.
Fail(r) ==
  /\ pc[r] # "done"
  /\ Reply(r, 500)
  /\ UNCHANGED <<inputs, users, seen, latest>>

AccountsInit ==
  /\ allowLocal \in BOOLEAN
  /\ ask \in [Requests -> Asks]
  /\ users \in {{}} \union {{u} : u \in ReachableRows}
  /\ pc = [r \in Requests |-> "start"]
  /\ seen = [r \in Requests |-> {}]
  /\ answer = [r \in Requests |-> 0]
  /\ latest = Stored

Step(r) ==
  \/ RegisterLook(r) \/ RegisterClaim(r) \/ RegisterCreate(r)
  \/ LoginLook(r) \/ LoginVerify(r) \/ LoginRehash(r)
  \/ ChangeLook(r) \/ ChangeVerify(r) \/ ChangeWrite(r)
  \/ LocalSignIn(r) \/ PatchLook(r) \/ PatchWrite(r)

AccountsNext == \E r \in Requests : Step(r) \/ Blocked(r) \/ Fail(r)

AccountsSpec == AccountsInit /\ [][AccountsNext]_accountVars

(***************************************************************************)
(* Properties.                                                             *)
(***************************************************************************)

\* The type invariant, with the unique index: one row at most.
AccountsTypeOK ==
  /\ allowLocal \in BOOLEAN
  /\ ask \in [Requests -> Asks]
  /\ users \subseteq Rows /\ Cardinality(users) <= 1
  /\ pc \in [Requests -> {"start", "create", "claim", "verify", "rehash", "write", "done"}]
  /\ seen \in [Requests -> SUBSET Rows]
  /\ answer \in [Requests -> {0, 200, 201, 204, 400, 401, 404, 409, 422, 429, 500}]
  /\ latest \subseteq Passwords

\* Where the email-only sign-in is off, one sign-up for an email is answered
\* 201 however many of them race, and none once the account exists.
OneSignUpSucceeds ==
  ~allowLocal => \A r, s \in Requests :
    answer[r] = 201 /\ answer[s] = 201 => r = s

\* Setup is only finished on an account with a permit, though the patch decides
\* on a row it read before it writes.
OnboardedHasPermit == \A u \in users : u.onboarded => u.permit

\* The password is the one the last sign-up or change stored: nothing that
\* merely signs a student in puts another in its place.
SignInKeepsPassword == Stored = latest
=============================================================================
