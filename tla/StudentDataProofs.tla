------------------------- MODULE StudentDataProofs -------------------------
(***************************************************************************)
(* The parts of MCStudentData, for any requests, passwords, shifts and     *)
(* drafts, every calendar and every length of a week: first each part by   *)
(* itself, then all three.                                                 *)
(***************************************************************************)
EXTENDS MCStudentData, SequenceTheorems, SharedLemmas

(***************************************************************************)
(* The account, for any number of requests in flight and any passwords.    *)
(* What the requests remember across their awaits is carried by            *)
(* AccountsInv: a sign-up that claims a row knows the deployment allows    *)
(* it, one that was answered 201 left a row behind, and a patch about to   *)
(* finish setup without bringing a permit has read a row that has one.     *)
(***************************************************************************)
AccountSteps == {"start", "create", "claim", "verify", "rehash", "write", "done"}
Statuses == {0, 200, 201, 204, 400, 401, 404, 409, 422, 429, 500}

OneRow == \A u, v \in users : u = v

AccountTyped ==
  /\ allowLocal \in BOOLEAN /\ ask \in [Requests -> Asks]
  /\ users \subseteq Rows /\ OneRow
  /\ pc \in [Requests -> AccountSteps] /\ answer \in [Requests -> Statuses]
  /\ seen \in [Requests -> SUBSET Rows] /\ latest \subseteq Passwords

ClaimIsAllowed == \A r \in Requests : pc[r] = "claim" => allowLocal

SignedUpIsStored ==
  ~allowLocal => \A r \in Requests : answer[r] = 201 => users # {}

\* A patch that is going to finish setup and brings no permit.
RestsOnRow(r) ==
  ask[r].kind = "patch" /\ pc[r] = "write" /\ ask[r].complete /\ ~ask[r].permit

PermitWasRead ==
  \A r \in Requests : RestsOnRow(r) => users # {} /\ \A u \in users : u.permit

AccountsInv ==
  /\ AccountTyped /\ ClaimIsAllowed /\ SignedUpIsStored /\ PermitWasRead
  /\ OneSignUpSucceeds /\ OnboardedHasPermit

(***************************************************************************)
(* Requests, rows and the ways a step changes them.                        *)
(***************************************************************************)
LEMMA AskFields ==
  ASSUME NEW a \in Asks
  PROVE  /\ a.kind = "register" => a.new \in Passwords
         /\ a.kind = "login" => a.given \in Passwords
         /\ a.kind = "password" => a.new \in Passwords
         /\ a.kind = "patch" => a.permit \in BOOLEAN /\ a.complete \in BOOLEAN
  BY DEF Asks

LEMMA PasswordSet ==
  ASSUME users \subseteq Rows, OneRow, NEW p \in Passwords, SetPassword(p)
  PROVE  /\ users' \subseteq Rows /\ OneRow'
         /\ \A v \in users' : \E u \in users : v.permit = u.permit /\ v.onboarded = u.onboarded
         /\ users # {} => users' # {}
<1>1. \A u \in users : [u EXCEPT !.password = {p}, !.old = FALSE] \in Rows
  BY DEF Rows
<1>2. \A u \in users : /\ [u EXCEPT !.password = {p}, !.old = FALSE].permit = u.permit
                       /\ [u EXCEPT !.password = {p}, !.old = FALSE].onboarded = u.onboarded
  BY DEF Rows
<1>3. users' = {[u EXCEPT !.password = {p}, !.old = FALSE] : u \in users}
  BY DEF SetPassword
<1> QED
  BY <1>1, <1>2, <1>3 DEF OneRow

LEMMA RowMade ==
  ASSUME NEW q \in {{}} \union {{p} : p \in Passwords}, users' = {NewRow(q)}
  PROVE  users' \subseteq Rows /\ OneRow' /\ users' # {} /\ \A v \in users' : ~v.onboarded
  BY DEF NewRow, Rows, OneRow

LEMMA PatchMade ==
  ASSUME AccountTyped, NEW r \in Requests, PatchWrite(r)
  PROVE  /\ users' \subseteq Rows /\ OneRow'
         /\ \A v \in users' : \E u \in users :
              /\ v.permit = (u.permit \/ ask[r].permit)
              /\ v.onboarded = (u.onboarded \/ ask[r].complete)
         /\ users # {} => users' # {}
<1> DEFINE patched(u) == [u EXCEPT !.permit = @ \/ ask[r].permit,
                                   !.onboarded = @ \/ ask[r].complete]
<1>1. ask[r].permit \in BOOLEAN /\ ask[r].complete \in BOOLEAN
  BY AskFields DEF AccountTyped, PatchWrite, At
<1>2. \A u \in users : /\ patched(u) \in Rows
                       /\ patched(u).permit = (u.permit \/ ask[r].permit)
                       /\ patched(u).onboarded = (u.onboarded \/ ask[r].complete)
  BY <1>1 DEF AccountTyped, Rows
<1>3. users' = {patched(u) : u \in users}
  BY DEF PatchWrite
<1> HIDE DEF patched
<1>4. \A v \in users' : \E u \in users : v = patched(u)
  BY <1>3
<1>5. OneRow'
  BY <1>3 DEF AccountTyped, OneRow
<1>6. users # {} => users' # {}
  BY <1>3
<1> QED
  BY <1>2, <1>4, <1>5, <1>6

\* Rows are added to an empty collection and never removed, and no step takes
\* a permit away.
PermitsStay ==
  users # {} => users' # {} /\ \A v \in users' : \E u \in users : u.permit => v.permit

\* What a step of r that is no patch leaves of setup.
SetupStays ==
  \A v \in users' : v.onboarded => \E u \in users : u.permit = v.permit /\ u.onboarded

\* How a step of r changes the rows: not at all, by rewriting a password, by
\* making the first row, or by the patch.
LEMMA UsersStep ==
  ASSUME AccountTyped, NEW r \in Requests, Step(r) \/ Blocked(r) \/ Fail(r)
  PROVE  /\ users' \subseteq Rows /\ OneRow' /\ PermitsStay
         /\ PatchWrite(r) \/ SetupStays \/ (\A v \in users' : ~v.onboarded)
<1>1. CASE UNCHANGED users
  BY <1>1 DEF AccountTyped, OneRow, PermitsStay, SetupStays
<1>2. ASSUME NEW p \in Passwords, SetPassword(p)
      PROVE  users' \subseteq Rows /\ OneRow' /\ PermitsStay /\ SetupStays
  BY <1>2, PasswordSet DEF AccountTyped, PermitsStay, SetupStays
<1>3. ASSUME NEW q \in {{}} \union {{p} : p \in Passwords}, users = {}, users' = {NewRow(q)}
      PROVE  users' \subseteq Rows /\ OneRow' /\ PermitsStay /\ \A v \in users' : ~v.onboarded
  BY <1>3, RowMade DEF PermitsStay
<1>4. CASE PatchWrite(r)
  BY <1>4, PatchMade DEF PermitsStay
<1>5. CASE RegisterClaim(r)
  BY <1>2, <1>5, AskFields DEF RegisterClaim, At, AccountTyped
<1>6. CASE RegisterCreate(r)
  BY <1>1, <1>3, <1>6, AskFields DEF RegisterCreate, At, AccountTyped
<1>7. CASE LoginRehash(r)
  BY <1>2, <1>7, AskFields DEF LoginRehash, At, AccountTyped
<1>8. CASE ChangeWrite(r)
  BY <1>2, <1>8, AskFields DEF ChangeWrite, At, AccountTyped
<1>9. CASE LocalSignIn(r)
  BY <1>1, <1>3, <1>9 DEF LocalSignIn
<1>10. ASSUME RegisterLook(r) \/ LoginLook(r) \/ LoginVerify(r) \/ ChangeLook(r)
                \/ ChangeVerify(r) \/ PatchLook(r) \/ Blocked(r) \/ Fail(r)
       PROVE  UNCHANGED users
  BY <1>10 DEF RegisterLook, LoginLook, LoginVerify, ChangeLook, ChangeVerify,
               PatchLook, Blocked, Fail
<1> QED
  BY <1>1, <1>4, <1>5, <1>6, <1>7, <1>8, <1>9, <1>10 DEF Step

RequestMoves(r) == Step(r) \/ Blocked(r) \/ Fail(r)

\* Every step of r sends r to another await or answers it, and says 201 only
\* where a row was stored.
GoesOn(r) == \E next \in AccountSteps : Goto(r, next)
Ends(r) == \E s \in Statuses \ {201} : Reply(r, s)
Creates(r) ==
  /\ Reply(r, 201)
  /\ RegisterClaim(r) \/ (RegisterCreate(r) /\ users = {} /\ users' # {})

LEMMA EveryStep ==
  ASSUME NEW r \in Requests, RequestMoves(r)
  PROVE  (GoesOn(r) \/ Ends(r) \/ Creates(r)) /\ UNCHANGED inputs
<1>1. /\ \A s \in {200, 204, 400, 401, 404, 409, 422, 429, 500} : Reply(r, s) => Ends(r)
      /\ \A next \in {"create", "claim", "verify", "rehash", "write"} : Goto(r, next) => GoesOn(r)
  BY DEF Ends, GoesOn, Statuses, AccountSteps
<1>2. CASE RegisterLook(r)
  BY <1>1, <1>2 DEF RegisterLook
<1>3. CASE RegisterClaim(r)
  <2>1. Reply(r, 201) /\ UNCHANGED inputs
    BY <1>3 DEF RegisterClaim
  <2> QED  BY <1>3, <2>1 DEF Creates
<1>4. CASE RegisterCreate(r)
  <2>1. users = {} => users' # {} /\ Reply(r, 201)
    BY <1>4 DEF RegisterCreate
  <2>2. users # {} => Reply(r, 409)
    BY <1>4 DEF RegisterCreate
  <2>3. UNCHANGED inputs
    BY <1>4 DEF RegisterCreate
  <2> QED  BY <1>1, <1>4, <2>1, <2>2, <2>3 DEF Creates
<1>5. CASE LoginLook(r) \/ LoginVerify(r) \/ LoginRehash(r)
  BY <1>1, <1>5 DEF LoginLook, LoginVerify, LoginRehash
<1>6. CASE ChangeLook(r) \/ ChangeVerify(r) \/ ChangeWrite(r)
  BY <1>1, <1>6 DEF ChangeLook, ChangeVerify, ChangeWrite
<1>7. CASE LocalSignIn(r)
  <2>1. /\ allowLocal => Reply(r, 200)
        /\ ~allowLocal => Reply(r, 404)
        /\ UNCHANGED inputs
    BY <1>7 DEF LocalSignIn
  <2> QED  BY <1>1, <2>1
<1>8. CASE PatchLook(r) \/ PatchWrite(r)
  <2>1. (Reply(r, 422) \/ Goto(r, "write") \/ Reply(r, 200)) /\ UNCHANGED inputs
    BY <1>8 DEF PatchLook, PatchWrite
  <2> QED  BY <1>1, <2>1
<1>9. CASE Blocked(r) \/ Fail(r)
  BY <1>1, <1>9 DEF Blocked, Fail
<1> QED
  BY <1>2, <1>3, <1>4, <1>5, <1>6, <1>7, <1>8, <1>9 DEF RequestMoves, Step

\* What r did not do stays as it was.
LEMMA OnlyMoves ==
  ASSUME AccountTyped, NEW r \in Requests, RequestMoves(r)
  PROVE  /\ UNCHANGED inputs
         /\ \E next \in AccountSteps : pc' = [pc EXCEPT ![r] = next]
         /\ answer' = answer \/ \E s \in Statuses : answer' = [answer EXCEPT ![r] = s]
         /\ seen' = seen \/ seen' = [seen EXCEPT ![r] = users]
<1>1. UNCHANGED inputs /\ (GoesOn(r) \/ \E s \in Statuses : Reply(r, s))
  BY EveryStep DEF Ends, Creates, Statuses
<1>2. /\ \E next \in AccountSteps : pc' = [pc EXCEPT ![r] = next]
      /\ answer' = answer \/ \E s \in Statuses : answer' = [answer EXCEPT ![r] = s]
  BY <1>1 DEF GoesOn, Goto, Reply, AccountSteps
<1>3. seen' = seen \/ seen' = [seen EXCEPT ![r] = users]
  BY DEF RequestMoves, Step, RegisterLook, RegisterClaim, RegisterCreate, LoginLook, LoginVerify,
         LoginRehash, ChangeLook, ChangeVerify, ChangeWrite, LocalSignIn, PatchLook, PatchWrite,
         Blocked, Fail, Look
<1> QED
  BY <1>1, <1>2, <1>3

LEMMA LatestNext ==
  ASSUME AccountTyped, NEW r \in Requests, RequestMoves(r)
  PROVE  latest' \subseteq Passwords
<1>1. CASE UNCHANGED latest
  BY <1>1 DEF AccountTyped
<1>2. CASE RegisterClaim(r) \/ RegisterCreate(r)
  <2>1. ask[r].new \in Passwords
    BY <1>2, AskFields DEF AccountTyped, RegisterClaim, RegisterCreate, At
  <2> QED  BY <1>1, <1>2, <2>1 DEF RegisterClaim, RegisterCreate
<1>3. CASE ChangeWrite(r)
  <2>1. ask[r].new \in Passwords
    BY <1>3, AskFields DEF AccountTyped, ChangeWrite, At
  <2> QED  BY <1>3, <2>1 DEF ChangeWrite
<1>4. ASSUME ~RegisterClaim(r), ~RegisterCreate(r), ~ChangeWrite(r)
      PROVE  UNCHANGED latest
  BY <1>4 DEF RequestMoves, Step, RegisterLook, LoginLook, LoginVerify, LoginRehash, ChangeLook,
              ChangeVerify, LocalSignIn, PatchLook, PatchWrite, Blocked, Fail
<1> QED
  BY <1>1, <1>2, <1>3, <1>4

LEMMA AccountTypedNext ==
  ASSUME AccountTyped, NEW r \in Requests, RequestMoves(r)
  PROVE  AccountTyped'
<1>1. users' \subseteq Rows /\ OneRow'
  BY UsersStep DEF RequestMoves
<1>2. allowLocal' \in BOOLEAN /\ ask' \in [Requests -> Asks]
  BY OnlyMoves DEF AccountTyped, inputs
<1>3. pc' \in [Requests -> AccountSteps]
  BY OnlyMoves DEF AccountTyped
<1>4. answer' \in [Requests -> Statuses]
  BY OnlyMoves DEF AccountTyped
<1>5. seen' \in [Requests -> SUBSET Rows]
  BY OnlyMoves DEF AccountTyped
<1> QED
  BY <1>1, <1>2, <1>3, <1>4, <1>5, LatestNext DEF AccountTyped

(***************************************************************************)
(* What the requests know.                                                 *)
(***************************************************************************)
LEMMA ClaimNext ==
  ASSUME AccountTyped, ClaimIsAllowed, NEW r \in Requests, RequestMoves(r)
  PROVE  ClaimIsAllowed'
<1>1. UNCHANGED allowLocal /\ \A s \in Requests \ {r} : pc'[s] = pc[s]
  BY OnlyMoves DEF AccountTyped, inputs
<1>2. pc'[r] = "claim" => allowLocal
  BY DEF AccountTyped, RequestMoves, Step, RegisterLook, RegisterClaim, RegisterCreate, LoginLook, LoginVerify,
         LoginRehash, ChangeLook, ChangeVerify, ChangeWrite, LocalSignIn, PatchLook, PatchWrite,
         Blocked, Fail, Reply, Goto
<1> QED
  BY <1>1, <1>2 DEF ClaimIsAllowed

LEMMA SaysCreated ==
  ASSUME AccountTyped, NEW r \in Requests, RequestMoves(r), answer'[r] = 201, answer[r] # 201
  PROVE  Creates(r)
<1>1. ~GoesOn(r)
  BY DEF GoesOn, Goto
<1>2. ~Ends(r)
  BY DEF Ends, Reply, AccountTyped
<1> QED
  BY <1>1, <1>2, EveryStep

LEMMA SignUpNext ==
  ASSUME AccountTyped, ClaimIsAllowed, SignedUpIsStored, OneSignUpSucceeds,
         NEW r \in Requests, RequestMoves(r)
  PROVE  SignedUpIsStored' /\ OneSignUpSucceeds'
<1>1. UNCHANGED allowLocal /\ \A s \in Requests \ {r} : answer'[s] = answer[s]
  BY OnlyMoves DEF AccountTyped, inputs
<1>2. users # {} => users' # {}
  BY UsersStep DEF RequestMoves, PermitsStay
<1>3. CASE answer'[r] = 201 /\ answer[r] # 201
  <2>1. CASE RegisterClaim(r)
    <3>1. allowLocal
      BY <2>1 DEF RegisterClaim, At, ClaimIsAllowed
    <3> QED  BY <1>1, <3>1 DEF SignedUpIsStored, OneSignUpSucceeds
  <2>2. CASE RegisterCreate(r) /\ users = {} /\ users' # {}
    BY <1>1, <2>2 DEF SignedUpIsStored, OneSignUpSucceeds
  <2> QED  BY <1>3, <2>1, <2>2, SaysCreated DEF Creates
<1>4. CASE ~(answer'[r] = 201 /\ answer[r] # 201)
  BY <1>1, <1>2, <1>4 DEF SignedUpIsStored, OneSignUpSucceeds
<1> QED
  BY <1>3, <1>4

LEMMA PermitNext ==
  ASSUME AccountTyped, PermitWasRead, OnboardedHasPermit, NEW r \in Requests, RequestMoves(r)
  PROVE  PermitWasRead' /\ OnboardedHasPermit'
<1>1. UNCHANGED ask /\ \A s \in Requests \ {r} : pc'[s] = pc[s]
  BY OnlyMoves DEF AccountTyped, inputs
<1>2. PermitsStay /\ (PatchWrite(r) \/ SetupStays \/ (\A v \in users' : ~v.onboarded))
  BY UsersStep DEF RequestMoves
<1>3. ASSUME NEW s \in Requests, RestsOnRow(s)
      PROVE  users' # {} /\ \A v \in users' : v.permit
  BY <1>2, <1>3 DEF PermitWasRead, PermitsStay
<1>4. ASSUME RestsOnRow(r)', ~RestsOnRow(r)
      PROVE  users' # {} /\ \A v \in users' : v.permit
  <2>1. ask[r].kind = "patch" /\ pc'[r] = "write" /\ pc[r] # "write" /\ ask[r].complete /\ ~ask[r].permit
    BY <1>1, <1>4 DEF RestsOnRow
  <2>2. ~Ends(r) /\ ~Creates(r)
    BY <2>1 DEF Ends, Creates, Reply, AccountTyped
  <2>3. PatchLook(r)
    BY <2>1, <2>2, EveryStep DEF RequestMoves, Step, At, RegisterLook, RegisterClaim, RegisterCreate,
       LoginLook, LoginVerify, LoginRehash, ChangeLook, ChangeVerify, ChangeWrite, LocalSignIn,
       PatchWrite, Blocked, Fail, Reply, AccountTyped
  <2>4. UNCHANGED users /\ users # {}
    BY <2>3 DEF PatchLook
  <2>5. ~\E u \in users : ~u.permit
    BY <2>1, <2>3 DEF PatchLook, Reply, AccountTyped
  <2> QED  BY <2>4, <2>5
<1>5. PermitWasRead'
  <2> SUFFICES ASSUME NEW s \in Requests, RestsOnRow(s)'
               PROVE  users' # {} /\ \A v \in users' : v.permit
    BY DEF PermitWasRead
  <2>1. CASE RestsOnRow(s)
    BY <1>3, <2>1
  <2>2. CASE ~RestsOnRow(s)
    BY <1>1, <1>4, <2>2 DEF RestsOnRow
  <2> QED  BY <2>1, <2>2
<1>6. OnboardedHasPermit'
  <2>1. CASE PatchWrite(r)
    <3>1. ask[r].permit \in BOOLEAN /\ ask[r].complete \in BOOLEAN /\ ask[r].kind = "patch" /\ pc[r] = "write"
      BY <2>1, AskFields DEF AccountTyped, PatchWrite, At
    <3>2. ASSUME NEW v \in users', v.onboarded PROVE v.permit
      <4>1. PICK u \in users : /\ v.permit = (u.permit \/ ask[r].permit)
                               /\ v.onboarded = (u.onboarded \/ ask[r].complete)
        BY <2>1, PatchMade
      <4>2. u.permit \in BOOLEAN /\ u.onboarded \in BOOLEAN
        BY DEF AccountTyped, Rows
      <4>3. CASE u.onboarded
        BY <4>1, <4>2, <4>3 DEF OnboardedHasPermit
      <4>4. CASE ask[r].complete /\ ~ask[r].permit
        BY <3>1, <4>1, <4>2, <4>4 DEF PermitWasRead, RestsOnRow
      <4> QED  BY <3>1, <3>2, <4>1, <4>2, <4>3, <4>4
    <3> QED  BY <3>2 DEF OnboardedHasPermit
  <2>2. CASE SetupStays \/ (\A v \in users' : ~v.onboarded)
    BY <2>2 DEF OnboardedHasPermit, SetupStays
  <2> QED  BY <1>2, <2>1, <2>2
<1> QED
  BY <1>5, <1>6

(***************************************************************************)
(* The theorems.                                                           *)
(***************************************************************************)
LEMMA AccountsInitially == AccountsInit => AccountsInv
<1> SUFFICES ASSUME AccountsInit PROVE AccountsInv
  OBVIOUS
<1>1. users \subseteq ReachableRows /\ OneRow
  BY DEF AccountsInit, OneRow
<1>2. Stored \subseteq Passwords
  <2>1. \A u \in Rows : u.password \subseteq Passwords
    BY DEF Rows
  <2> QED  BY <1>1, <2>1 DEF Stored, ReachableRows
<1>3. AccountTyped
  BY <1>1, <1>2 DEF AccountsInit, AccountTyped, ReachableRows, AccountSteps, Statuses
<1>4. ClaimIsAllowed /\ SignedUpIsStored /\ PermitWasRead /\ OneSignUpSucceeds
  BY DEF AccountsInit, ClaimIsAllowed, SignedUpIsStored, PermitWasRead, RestsOnRow, OneSignUpSucceeds
<1>5. OnboardedHasPermit
  BY <1>1 DEF OnboardedHasPermit, ReachableRows
<1> QED
  BY <1>3, <1>4, <1>5 DEF AccountsInv

LEMMA AccountsStep == AccountsInv /\ [AccountsNext]_accountVars => AccountsInv'
<1> SUFFICES ASSUME AccountsInv, [AccountsNext]_accountVars PROVE AccountsInv'
  OBVIOUS
<1>1. CASE UNCHANGED accountVars
  BY <1>1 DEF AccountsInv, accountVars, inputs, AccountTyped, OneRow, ClaimIsAllowed, SignedUpIsStored,
     PermitWasRead, RestsOnRow, OneSignUpSucceeds, OnboardedHasPermit
<1>2. ASSUME NEW r \in Requests, RequestMoves(r) PROVE AccountsInv'
  BY <1>2, AccountTypedNext, ClaimNext, SignUpNext, PermitNext DEF AccountsInv
<1> QED  BY <1>1, <1>2 DEF AccountsNext, RequestMoves

\* One row at most is all the type invariant adds to the ranges.
LEMMA AccountTypes == AccountsInv => AccountsTypeOK
<1> SUFFICES ASSUME AccountsInv PROVE AccountsTypeOK
  OBVIOUS
<1>1. users = {} \/ \E u \in users : users = {u}
  BY DEF AccountsInv, AccountTyped, OneRow
<1>2. Cardinality(users) <= 1
  BY <1>1, FS_EmptySet, FS_Singleton
<1> QED  BY <1>2 DEF AccountsInv, AccountsTypeOK, AccountTyped, AccountSteps, Statuses

\* The invariant of the accounts.
THEOREM AccountsAreSound == AccountsSpec => []AccountsInv
BY AccountsInitially, AccountsStep, PTL DEF AccountsSpec

\* Every variable of the accounts keeps its type, and the collection never
\* holds two rows for one email address, however many sign-ups race.
THEOREM AccountsTyped == AccountsSpec => []AccountsTypeOK
BY AccountsAreSound, AccountTypes, PTL

\* However many sign-ups for one email race, one of them is answered 201 where
\* the email-only sign-in is off (POST /register of auth/router.ts).
THEOREM OneSignUp == AccountsSpec => []OneSignUpSucceeds
<1>1. AccountsInv => OneSignUpSucceeds
  BY DEF AccountsInv
<1> QED
  BY <1>1, AccountsAreSound, PTL

\* Setup is never finished on an account without a permit, though the patch
\* decides on a row it read before it writes (PATCH /me of profile/router.ts).
THEOREM SetupHasPermit == AccountsSpec => []OnboardedHasPermit
<1>1. AccountsInv => OnboardedHasPermit
  BY DEF AccountsInv
<1> QED
  BY <1>1, AccountsAreSound, PTL

(***************************************************************************)
(* The setup wizard, for any drafts, any number of lost answers and any    *)
(* number of pages. SetupInv says what the counter of the page stands for: *)
(* the drafts before it were saved, unless one was removed from among      *)
(* them, and each draft after it was saved once for every lost answer or   *)
(* new page at most.                                                       *)
(***************************************************************************)
Distinct == \A i, j \in 1 .. Len(list) : list[i] = list[j] => i = j

\* What finish has made sure of by the time it makes a request.
FinishKnows ==
  /\ page \in {"post", "complete"} => recorded /\ sending = list
  /\ page = "post" => posted < Len(list)
  /\ page \in {"complete", "finished"} => Len(list) <= posted

PostedIsSaved ==
  /\ posted > 0 => \E d \in Drafts : copies[d] > 0
  /\ ~shifted => posted <= Len(list) /\ \A i \in 1 .. posted : copies[list[i]] > 0

WaitingIsOwed ==
  \A i \in 1 .. Len(list) : posted < i => copies[list[i]] <= lost + mounts

SavedInv ==
  /\ Distinct /\ FinishKnows /\ PostedIsSaved /\ WaitingIsOwed
  /\ SetupIsWhole /\ DuplicatesAreExplained

SetupInv == SetupTypeOK /\ ShownStepIsReachable /\ SavedInv

(***************************************************************************)
(* The list.                                                               *)
(***************************************************************************)
LEMMA Listed ==
  ASSUME SetupTypeOK
  PROVE  /\ Len(list) \in Nat /\ DOMAIN list = 1 .. Len(list)
         /\ \A i \in 1 .. Len(list) : list[i] \in Drafts
         /\ list # <<>> <=> Len(list) > 0
<1>1. list \in Seq(Drafts)
  BY DEF SetupTypeOK
<1>2. list # <<>> <=> Len(list) > 0
  BY <1>1, EmptySeq, LenProperties
<1> QED
  BY <1>1, <1>2, LenProperties, ElementOfSeq

LEMMA Added ==
  ASSUME SetupTypeOK, NEW d \in Drafts, AddObligation(d)
  PROVE  /\ list' \in Seq(Drafts) /\ Len(list') = Len(list) + 1
         /\ \A i \in 1 .. Len(list) : list'[i] = list[i]
         /\ list'[Len(list) + 1] = d
<1>1. list \in Seq(Drafts) /\ list' = Append(list, d)
  BY DEF SetupTypeOK, AddObligation
<1> QED
  BY <1>1, AppendProperties

LEMMA Removed ==
  ASSUME SetupTypeOK, NEW k \in 1 .. Len(list), RemoveObligation(k)
  PROVE  /\ list' \in Seq(Drafts) /\ Len(list') = Len(list) - 1
         /\ \A i \in 1 .. Len(list) - 1 :
              list'[i] = IF i < k THEN list[i] ELSE list[i + 1]
<1> DEFINE before == SubSeq(list, 1, k - 1)
           after == SubSeq(list, k + 1, Len(list))
<1>1. Len(list) \in Nat /\ \A i \in 1 .. Len(list) : list[i] \in Drafts
  BY Listed
<1>2. /\ before \in Seq(Drafts) /\ Len(before) = k - 1
      /\ \A i \in 1 .. k - 1 : before[i] = list[i]
  <2>1. \A i \in 1 .. k - 1 : list[i] \in Drafts
    BY <1>1
  <2> QED  BY <1>1, <2>1, SubSeqProperties
<1>3. /\ after \in Seq(Drafts) /\ Len(after) = Len(list) - k
      /\ \A i \in 1 .. Len(list) - k : after[i] = list[k + i]
  <2>1. \A i \in k + 1 .. Len(list) : list[i] \in Drafts
    BY <1>1
  <2>2. \A i \in 1 .. Len(list) - (k + 1) + 1 : after[i] = list[(k + 1) + i - 1]
    BY <1>1, <2>1, SubSeqProperties
  <2>3. after \in Seq(Drafts)
        /\ Len(after) = IF k + 1 <= Len(list) THEN Len(list) - (k + 1) + 1 ELSE 0
    BY <1>1, <2>1, SubSeqProperties
  <2> QED  BY <1>1, <2>2, <2>3
<1>4. list' = before \o after
  BY DEF RemoveObligation
<1> HIDE DEF before, after
<1>5. /\ list' \in Seq(Drafts) /\ Len(list') = Len(before) + Len(after)
      /\ \A i \in 1 .. Len(before) + Len(after) :
           list'[i] = IF i <= Len(before) THEN before[i] ELSE after[i - Len(before)]
  BY <1>2, <1>3, <1>4, ConcatProperties
<1>6. Len(list') = Len(list) - 1
  BY <1>1, <1>2, <1>3, <1>5
<1>7. ASSUME NEW i \in 1 .. Len(list) - 1
      PROVE  list'[i] = IF i < k THEN list[i] ELSE list[i + 1]
  <2>1. list'[i] = IF i <= k - 1 THEN before[i] ELSE after[i - (k - 1)]
    BY <1>1, <1>2, <1>3, <1>5
  <2>2. CASE i < k
    BY <1>1, <1>2, <2>1, <2>2
  <2>3. CASE ~(i < k)
    <3>1. i - (k - 1) \in 1 .. Len(list) - k /\ k + (i - (k - 1)) = i + 1
      BY <1>1, <2>3
    <3>2. after[i - (k - 1)] = list[i + 1]
      BY <1>3, <3>1
    <3> QED  BY <1>1, <2>1, <2>3, <3>2
  <2> QED  BY <2>2, <2>3
<1> QED
  BY <1>5, <1>6, <1>7

(***************************************************************************)
(* One lemma for each group of actions.                                    *)
(***************************************************************************)
Fixed == UNCHANGED <<list, page, sending, posted, server, past>>

\* The forms of the profile and of the income, and the buttons between steps.
WizardMoves ==
  \/ \E ok \in BOOLEAN : ProfileStep(ok) \/ IncomeStep(ok)
  \/ NextStep \/ Back \/ \E s \in Steps : GoTo(s)

LEMMA SavedStays ==
  ASSUME SavedInv, Fixed
  PROVE  SavedInv'
  BY DEF SavedInv, Fixed, server, past, Distinct, FinishKnows, PostedIsSaved, WaitingIsOwed,
         SetupIsWhole, DuplicatesAreExplained

LEMMA ReachGrows ==
  ASSUME SetupTypeOK, NEW s \in Steps, CanReach(s), StepIsComplete(s), s # Buffer
  PROVE  CanReach(s + 1)
  BY DEF CanReach, StepIsComplete, Steps, Profile, Income, Obligations, Buffer

LEMMA MovesKeep ==
  ASSUME SetupInv, WizardMoves
  PROVE  SetupInv'
<1>1. Fixed /\ page = "form"
  BY DEF WizardMoves, ProfileStep, IncomeStep, NextStep, Back, GoTo, Set, Show, OnlyStore, Fixed, Editing
<1>2. step \in Steps /\ CanReach(step)
  BY DEF SetupInv, SetupTypeOK, ShownStepIsReachable
<1>3. ASSUME NEW ok \in BOOLEAN, ProfileStep(ok) \/ IncomeStep(ok)
      PROVE  /\ step' = step /\ profileOk' \in BOOLEAN /\ incomeOk' \in BOOLEAN
             /\ CanReach(step)'
  <2>1. step' = step /\ profileOk' \in BOOLEAN /\ incomeOk' \in BOOLEAN
    BY <1>3 DEF ProfileStep, IncomeStep, Set, SetupInv, SetupTypeOK
  <2>2. CASE ProfileStep(ok)
    BY <1>1, <2>1, <2>2 DEF ProfileStep, CanReach, StepIsComplete, Steps, Profile, Income, Obligations, Buffer
  <2>3. CASE IncomeStep(ok)
    BY <1>1, <1>2, <2>1, <2>3 DEF IncomeStep, Set, Fixed, CanReach, StepIsComplete, Steps, Profile,
       Income, Obligations, Buffer
  <2> QED  BY <1>3, <2>1, <2>2, <2>3
<1>4. ASSUME NEW s \in Steps, CanReach(s), Show(s)
      PROVE  /\ step' \in Steps /\ UNCHANGED <<profileOk, incomeOk>>
             /\ CanReach(step)'
  BY <1>4 DEF Show, CanReach, StepIsComplete
<1>5. CASE NextStep
  <2>1. step + 1 \in Steps /\ CanReach(step + 1) /\ Show(step + 1)
    BY <1>2, <1>5, ReachGrows DEF NextStep, SetupInv, Steps, Profile, Income, Obligations, Buffer
  <2> QED  BY <1>1, <1>4, <2>1, SavedStays DEF SetupInv, SetupTypeOK, ShownStepIsReachable, Fixed, server, past, Saving
<1>6. CASE Back
  <2>1. step - 1 \in Steps /\ CanReach(step - 1) /\ Show(step - 1)
    BY <1>2, <1>6 DEF Back, CanReach, Steps, Profile, Income, Obligations, Buffer
  <2> QED  BY <1>1, <1>4, <2>1, SavedStays DEF SetupInv, SetupTypeOK, ShownStepIsReachable, Fixed, server, past, Saving
<1>7. CASE \E s \in Steps : GoTo(s)
  BY <1>1, <1>4, <1>7, SavedStays DEF GoTo, SetupInv, SetupTypeOK, ShownStepIsReachable, Fixed, server, past, Saving
<1>8. CASE \E ok \in BOOLEAN : ProfileStep(ok) \/ IncomeStep(ok)
  BY <1>1, <1>2, <1>3, <1>8, SavedStays DEF SetupInv, SetupTypeOK, ShownStepIsReachable, Fixed, server, past, Saving
<1> QED
  BY <1>5, <1>6, <1>7, <1>8 DEF WizardMoves

\* Edits of the list come before its step is left, and change no step before it.
LEMMA EditsReach ==
  ASSUME SetupInv, step = Obligations, UNCHANGED <<step, profileOk, incomeOk>>,
         page' = "form"
  PROVE  ShownStepIsReachable'
  BY DEF SetupInv, ShownStepIsReachable, CanReach, StepIsComplete, Steps, Profile, Income,
         Obligations, Buffer, Saving

LEMMA AddKeeps ==
  ASSUME SetupInv, NEW d \in Drafts, ObligationsStep(d)
  PROVE  SetupInv'
<1>1. /\ SetupTypeOK /\ SavedInv /\ Len(list) \in Nat /\ posted \in Nat /\ lost + mounts \in Nat
      /\ \A i \in 1 .. Len(list) : list[i] \in Drafts
  BY Listed DEF SetupInv, SetupTypeOK
<1>2. /\ list' \in Seq(Drafts) /\ Len(list') = Len(list) + 1
      /\ \A i \in 1 .. Len(list) : list'[i] = list[i]
      /\ list'[Len(list) + 1] = d
  BY <1>1, Added DEF ObligationsStep
<1>3. /\ page = "form" /\ copies[d] = 0 /\ \A i \in 1 .. Len(list) : list[i] # d
      /\ step = Obligations
      /\ UNCHANGED <<step, profileOk, incomeOk, page, sending, posted, server, past>>
  BY <1>1, Listed DEF ObligationsStep, AddObligation, OnlyStore, Editing
<1>4. SetupTypeOK'
  BY <1>1, <1>2, <1>3 DEF SetupTypeOK, server, past
<1>5. ShownStepIsReachable'
  BY <1>3, EditsReach
<1>6. Distinct'
  BY <1>1, <1>2, <1>3 DEF SavedInv, Distinct
<1>7. FinishKnows' /\ SetupIsWhole' /\ DuplicatesAreExplained'
  BY <1>1, <1>3 DEF SavedInv, FinishKnows, SetupIsWhole, DuplicatesAreExplained, server, past
<1>8. PostedIsSaved'
  <2>1. /\ posted > 0 => \E e \in Drafts : copies[e] > 0
        /\ ~shifted => posted <= Len(list) /\ \A i \in 1 .. posted : copies[list[i]] > 0
    BY <1>1 DEF SavedInv, PostedIsSaved
  <2>2. UNCHANGED <<posted, copies, shifted>>
    BY <1>3 DEF server, past
  <2>3. ~shifted => posted <= Len(list') /\ \A i \in 1 .. posted : copies[list'[i]] > 0
    BY <1>1, <1>2, <2>1
  <2> QED  BY <2>1, <2>2, <2>3 DEF PostedIsSaved
<1>9. WaitingIsOwed'
  BY <1>1, <1>2, <1>3 DEF SavedInv, WaitingIsOwed, server, past
<1> QED
  BY <1>4, <1>5, <1>6, <1>7, <1>8, <1>9 DEF SetupInv, SavedInv

LEMMA RemoveKeeps ==
  ASSUME SetupInv, NEW k \in DOMAIN list, ListRemove(k)
  PROVE  SetupInv'
<1>1. /\ SetupTypeOK /\ SavedInv /\ Len(list) \in Nat /\ posted \in Nat /\ lost + mounts \in Nat
      /\ \A i \in 1 .. Len(list) : list[i] \in Drafts
      /\ k \in 1 .. Len(list) /\ shifted \in BOOLEAN
  BY Listed DEF SetupInv, SetupTypeOK
<1>2. /\ list' \in Seq(Drafts) /\ Len(list') = Len(list) - 1
      /\ \A i \in 1 .. Len(list) - 1 : list'[i] = IF i < k THEN list[i] ELSE list[i + 1]
  BY <1>1, Removed DEF ListRemove
<1>3. /\ page = "form" /\ step = Obligations
      /\ UNCHANGED <<step, profileOk, incomeOk, page, sending, posted, server, lost, mounts>>
      /\ shifted' = (shifted \/ k <= posted)
  BY DEF ListRemove, RemoveObligation, Editing
<1>4. SetupTypeOK'
  BY <1>1, <1>2, <1>3 DEF SetupTypeOK, server
<1>5. ShownStepIsReachable'
  BY <1>3, EditsReach
<1>6. Distinct'
  BY <1>1, <1>2 DEF SavedInv, Distinct
<1>7. FinishKnows' /\ SetupIsWhole' /\ DuplicatesAreExplained'
  BY <1>1, <1>3 DEF SavedInv, FinishKnows, SetupIsWhole, DuplicatesAreExplained, server
<1>8. PostedIsSaved'
  <2>1. /\ posted > 0 => \E e \in Drafts : copies[e] > 0
        /\ ~shifted => posted <= Len(list) /\ \A i \in 1 .. posted : copies[list[i]] > 0
    BY <1>1 DEF SavedInv, PostedIsSaved
  <2>2. UNCHANGED <<posted, copies>>
    BY <1>3 DEF server
  <2>3. ~shifted' => ~shifted /\ posted < k
    <3>1. ~shifted' => ~shifted /\ ~(k <= posted)
      BY <1>3, Zenon
    <3> QED  BY <1>1, <3>1
  <2>4. ~shifted' => posted <= Len(list') /\ \A i \in 1 .. posted : list'[i] = list[i]
    BY <1>1, <1>2, <2>1, <2>3
  <2> QED  BY <1>1, <2>1, <2>2, <2>3, <2>4 DEF PostedIsSaved
<1>9. WaitingIsOwed'
  BY <1>1, <1>2, <1>3 DEF SavedInv, WaitingIsOwed, server
<1> QED
  BY <1>4, <1>5, <1>6, <1>7, <1>8, <1>9 DEF SetupInv, SavedInv

\* The store, the server and the account of what was lost stay; so does what
\* holds of them.
LEMMA PageKeeps ==
  ASSUME SetupInv, UNCHANGED <<store, sending, posted, server, past>>, FinishKnows',
         page' \in {"form", "finished", "login", "dashboard"} \union Saving,
         page' \in Saving => CanSubmit
  PROVE  SetupInv'
<1>1. SetupTypeOK'
  BY DEF SetupInv, SetupTypeOK, store, server, past
<1>2. ShownStepIsReachable'
  BY DEF SetupInv, ShownStepIsReachable, CanReach, CanSubmit, StepIsComplete, store
<1>3. SavedInv'
  BY DEF SetupInv, SavedInv, Distinct, PostedIsSaved, WaitingIsOwed, SetupIsWhole,
         DuplicatesAreExplained, store, server, past
<1> QED
  BY <1>1, <1>2, <1>3 DEF SetupInv

LEMMA FinishKeeps == ASSUME SetupInv, Finish PROVE SetupInv'
  BY PageKeeps DEF Finish, FinishKnows, Saving

LEMMA RequestFailsKeeps == ASSUME SetupInv, RequestFails \/ Unauthorized PROVE SetupInv'
  BY PageKeeps DEF RequestFails, Unauthorized, FinishKnows, Saving

LEMMA SavingHasList ==
  ASSUME SetupInv, page \in Saving
  PROVE  CanSubmit /\ Len(list) \in Nat /\ Len(list) > 0
<1>1. CanSubmit
  BY DEF SetupInv, ShownStepIsReachable
<1>2. list # <<>>
  BY <1>1 DEF CanSubmit, StepIsComplete, Steps, Obligations
<1> QED
  BY <1>1, <1>2, Listed DEF SetupInv

LEMMA CompleteKeeps == ASSUME SetupInv, Complete PROVE SetupInv'
<1>1. SetupTypeOK /\ posted \in Nat /\ CanSubmit /\ Len(list) \in Nat /\ Len(list) > 0
  BY SavingHasList DEF SetupInv, SetupTypeOK, Complete, Saving
<1>2. posted > 0
  BY <1>1 DEF SetupInv, SavedInv, FinishKnows, Complete
<1>3. SetupIsWhole'
  BY <1>2 DEF SetupInv, SavedInv, PostedIsSaved, SetupIsWhole, Complete
<1>4. SetupTypeOK'
  BY <1>1 DEF Complete, SetupTypeOK, store, past, Saving
<1>5. ShownStepIsReachable'
  BY DEF Complete, SetupInv, ShownStepIsReachable, CanReach, CanSubmit, StepIsComplete, store, Saving
<1>6. FinishKnows'
  BY DEF Complete, SetupInv, SavedInv, FinishKnows, store
<1>7. Distinct' /\ PostedIsSaved' /\ WaitingIsOwed' /\ DuplicatesAreExplained'
  BY DEF Complete, SetupInv, SavedInv, Distinct, PostedIsSaved, WaitingIsOwed,
         DuplicatesAreExplained, store, past
<1> QED
  BY <1>3, <1>4, <1>5, <1>6, <1>7 DEF SetupInv, SavedInv

LEMMA RecordKeeps == ASSUME SetupInv, Record PROVE SetupInv'
<1>1. SetupTypeOK /\ posted \in Nat /\ CanSubmit /\ Len(list) \in Nat
  BY SavingHasList DEF SetupInv, SetupTypeOK, Record, Saving
<1>2. page' = IF posted < Len(list) THEN "post" ELSE "complete"
  BY DEF Record, AfterPosts
<1>3. SetupTypeOK'
  BY <1>1, <1>2 DEF Record, SetupTypeOK, store, past, Saving
<1>4. ShownStepIsReachable'
  BY <1>1, <1>2 DEF Record, SetupInv, ShownStepIsReachable, CanReach, CanSubmit, StepIsComplete, store
<1>5. FinishKnows'
  BY <1>1, <1>2 DEF Record, FinishKnows, store
<1>6. Distinct' /\ PostedIsSaved' /\ WaitingIsOwed' /\ SetupIsWhole' /\ DuplicatesAreExplained'
  BY DEF Record, SetupInv, SavedInv, Distinct, PostedIsSaved, WaitingIsOwed, SetupIsWhole,
         DuplicatesAreExplained, store, past
<1> QED
  BY <1>3, <1>4, <1>5, <1>6 DEF SetupInv, SavedInv

\* The draft that is sent, and what a row more of it does to the counts.
LEMMA Sent ==
  ASSUME SetupInv, page = "post", NEW d, d = sending[posted + 1],
         copies' = [copies EXCEPT ![d] = @ + 1]
  PROVE  /\ posted \in Nat /\ Len(list) \in Nat /\ posted + 1 \in 1 .. Len(list)
         /\ sending = list /\ recorded /\ d = list[posted + 1] /\ d \in Drafts
         /\ copies[d] \in Nat /\ copies[d] <= lost + mounts /\ lost + mounts \in Nat
         /\ copies' \in [Drafts -> Nat] /\ copies'[d] = copies[d] + 1
         /\ \A e \in Drafts \ {d} : copies'[e] = copies[e]
         /\ \A i \in 1 .. Len(list) : i # posted + 1 => list[i] \in Drafts \ {d}
<1>1. /\ SetupTypeOK /\ SavedInv /\ posted \in Nat /\ Len(list) \in Nat
      /\ lost + mounts \in Nat /\ copies \in [Drafts -> Nat]
  BY Listed DEF SetupInv, SetupTypeOK
<1>2. sending = list /\ recorded /\ posted + 1 \in 1 .. Len(list)
  BY <1>1 DEF SavedInv, FinishKnows
<1>3. d = list[posted + 1] /\ \A i \in 1 .. Len(list) : list[i] \in Drafts
  BY <1>1, <1>2, Listed
<1>4. copies[d] <= lost + mounts
  BY <1>1, <1>2, <1>3 DEF SavedInv, WaitingIsOwed
<1>5. \A i \in 1 .. Len(list) : i # posted + 1 => list[i] \in Drafts \ {d}
  BY <1>1, <1>2, <1>3 DEF SavedInv, Distinct
<1> QED
  BY <1>1, <1>2, <1>3, <1>4, <1>5

LEMMA PostKeeps == ASSUME SetupInv, Post PROVE SetupInv'
<1> DEFINE d == sending[posted + 1]
<1>1. /\ page = "post" /\ copies' = [copies EXCEPT ![d] = @ + 1] /\ posted' = posted + 1
      /\ page' = AfterPosts(posted + 1, sending)
      /\ UNCHANGED <<store, sending, recorded, onboarded, past>>
  BY DEF Post
<1> HIDE DEF d
<1>2. /\ posted \in Nat /\ Len(list) \in Nat /\ posted + 1 \in 1 .. Len(list)
      /\ sending = list /\ recorded /\ d = list[posted + 1] /\ d \in Drafts
      /\ copies[d] \in Nat /\ copies[d] <= lost + mounts /\ lost + mounts \in Nat
      /\ copies' \in [Drafts -> Nat] /\ copies'[d] = copies[d] + 1
      /\ \A e \in Drafts \ {d} : copies'[e] = copies[e]
      /\ \A i \in 1 .. Len(list) : i # posted + 1 => list[i] \in Drafts \ {d}
  BY <1>1, Sent DEF d
<1>3. page' = IF posted + 1 < Len(list) THEN "post" ELSE "complete"
  BY <1>1, <1>2 DEF AfterPosts
<1>4. SetupTypeOK'
  BY <1>1, <1>2, <1>3 DEF SetupInv, SetupTypeOK, store, past, Saving
<1>5. ShownStepIsReachable'
  BY <1>1 DEF SetupInv, ShownStepIsReachable, CanReach, CanSubmit, StepIsComplete, store, Saving
<1>6. Distinct' /\ FinishKnows'
  BY <1>1, <1>2, <1>3 DEF SetupInv, SavedInv, Distinct, FinishKnows, store
<1>7. PostedIsSaved'
  <2>1. /\ UNCHANGED <<shifted, list>>
        /\ ~shifted => posted <= Len(list) /\ \A i \in 1 .. posted : copies[list[i]] > 0
    BY <1>1 DEF SetupInv, SavedInv, PostedIsSaved, store, past
  <2>2. \A i \in 1 .. posted : copies[list[i]] > 0 => copies'[list[i]] > 0
    BY <1>2
  <2>3. copies'[list[posted + 1]] > 0
    BY <1>2
  <2> QED  BY <1>1, <1>2, <2>1, <2>2, <2>3 DEF PostedIsSaved
<1>8. WaitingIsOwed'
  BY <1>1, <1>2 DEF SetupInv, SavedInv, WaitingIsOwed, store, past
<1>9. SetupIsWhole' /\ DuplicatesAreExplained'
  <2>1. \A e \in Drafts : copies[e] <= 1 + lost + mounts
    BY DEF SetupInv, SavedInv, DuplicatesAreExplained
  <2>2. \A e \in Drafts : copies'[e] <= 1 + lost + mounts
    <3>1. lost \in Int /\ mounts \in Int
      BY BoundsAreNatural DEF SetupInv, SetupTypeOK
    <3> QED  BY <1>2, <2>1, <3>1
  <2>3. copies'[d] > 0
    BY <1>2
  <2> QED  BY <1>1, <1>2, <2>2, <2>3 DEF SetupIsWhole, DuplicatesAreExplained, past
<1> QED
  BY <1>4, <1>5, <1>6, <1>7, <1>8, <1>9 DEF SetupInv, SavedInv

LEMMA PostLostKeeps == ASSUME SetupInv, PostLost PROVE SetupInv'
<1> DEFINE d == sending[posted + 1]
<1>1. /\ page = "post" /\ lost < MaxLost /\ copies' = [copies EXCEPT ![d] = @ + 1]
      /\ lost' = lost + 1 /\ page' = "form"
      /\ UNCHANGED <<store, sending, posted, recorded, onboarded, mounts, shifted>>
  BY DEF PostLost
<1> HIDE DEF d
<1>2. /\ posted \in Nat /\ Len(list) \in Nat /\ posted + 1 \in 1 .. Len(list)
      /\ d = list[posted + 1] /\ d \in Drafts /\ recorded
      /\ copies[d] \in Nat /\ copies[d] <= lost + mounts /\ lost + mounts \in Nat
      /\ copies' \in [Drafts -> Nat] /\ copies'[d] = copies[d] + 1
      /\ \A e \in Drafts \ {d} : copies'[e] = copies[e]
      /\ \A i \in 1 .. Len(list) : i # posted + 1 => list[i] \in Drafts \ {d}
  BY <1>1, Sent DEF d
<1>3. lost \in 0 .. MaxLost /\ mounts \in Nat /\ MaxLost \in Nat /\ copies \in [Drafts -> Nat]
  BY BoundsAreNatural DEF SetupInv, SetupTypeOK
<1>4. SetupTypeOK'
  BY <1>1, <1>2, <1>3 DEF SetupInv, SetupTypeOK, store
<1>5. ShownStepIsReachable'
  BY <1>1 DEF SetupInv, ShownStepIsReachable, CanReach, StepIsComplete, store, Saving
<1>6. Distinct' /\ FinishKnows'
  BY <1>1 DEF SetupInv, SavedInv, Distinct, FinishKnows, store
<1>7. PostedIsSaved'
  <2>1. /\ UNCHANGED <<shifted, list, posted>>
        /\ posted > 0 => \E e \in Drafts : copies[e] > 0
        /\ ~shifted => posted <= Len(list) /\ \A i \in 1 .. posted : copies[list[i]] > 0
    BY <1>1 DEF SetupInv, SavedInv, PostedIsSaved, store
  <2>2. \A i \in 1 .. posted : copies[list[i]] > 0 => copies'[list[i]] > 0
    BY <1>2
  <2>3. copies'[d] > 0
    BY <1>2
  <2> QED  BY <1>2, <2>1, <2>2, <2>3 DEF PostedIsSaved
<1>8. WaitingIsOwed'
  <2>1. \A i \in 1 .. Len(list) : posted < i => copies[list[i]] <= lost + mounts
    BY DEF SetupInv, SavedInv, WaitingIsOwed
  <2>2. \A i \in 1 .. Len(list) : posted < i => copies'[list[i]] <= lost + 1 + mounts
    <3> SUFFICES ASSUME NEW i \in 1 .. Len(list), posted < i
                 PROVE  copies'[list[i]] <= lost + 1 + mounts
      OBVIOUS
    <3>1. CASE i = posted + 1
      BY <1>2, <1>3, <3>1
    <3>2. CASE i # posted + 1
      BY <1>2, <1>3, <2>1, <3>2
    <3> QED  BY <3>1, <3>2
  <2> QED  BY <1>1, <2>2 DEF WaitingIsOwed, store
<1>9. SetupIsWhole' /\ DuplicatesAreExplained'
  <2>1. \A e \in Drafts : copies[e] <= 1 + lost + mounts
    BY DEF SetupInv, SavedInv, DuplicatesAreExplained
  <2>2. \A e \in Drafts : copies'[e] <= 1 + (lost + 1) + mounts
    BY <1>2, <1>3, <2>1
  <2>3. copies'[d] > 0
    BY <1>2
  <2> QED  BY <1>1, <1>2, <2>2, <2>3 DEF SetupIsWhole, DuplicatesAreExplained
<1> QED
  BY <1>4, <1>5, <1>6, <1>7, <1>8, <1>9 DEF SetupInv, SavedInv

LEMMA MountKeeps == ASSUME SetupInv, Mount PROVE SetupInv'
<1>1. /\ SetupTypeOK /\ Len(list) \in Nat /\ \A i \in 1 .. Len(list) : list[i] \in Drafts
      /\ mounts \in 0 .. MaxMounts /\ lost \in Nat /\ MaxMounts \in Nat
  BY Listed, BoundsAreNatural DEF SetupInv, SetupTypeOK
<1>2. page' \in {"dashboard", "form"}
  BY DEF Mount, Entry
<1>3. SetupTypeOK'
  <2>1. profileOk' \in BOOLEAN /\ incomeOk' \in BOOLEAN /\ shifted' \in BOOLEAN
    BY <1>1 DEF Mount, Hydrated, SetupTypeOK
  <2>2. sending' \in Seq(Drafts)
    BY EmptySeq DEF Mount
  <2> QED  BY <1>1, <1>2, <2>1, <2>2 DEF Mount, Hydrated, SetupTypeOK, server, Saving
<1>4. ShownStepIsReachable'
  BY <1>2 DEF Mount, Hydrated, SetupInv, ShownStepIsReachable, CanReach, StepIsComplete, Saving
<1>5. Distinct' /\ FinishKnows' /\ SetupIsWhole'
  BY <1>2 DEF Mount, Hydrated, SetupInv, SavedInv, Distinct, FinishKnows, SetupIsWhole, server
<1>6. \A e \in Drafts : copies[e] <= 1 + lost + mounts /\ copies[e] \in Nat
  BY DEF SetupInv, SetupTypeOK, SavedInv, DuplicatesAreExplained
<1>7. /\ posted' = 0 /\ mounts' = mounts + 1 /\ UNCHANGED <<list, copies, lost>>
  BY DEF Mount, server
<1>8. PostedIsSaved' /\ WaitingIsOwed' /\ DuplicatesAreExplained'
  BY <1>1, <1>6, <1>7 DEF PostedIsSaved, WaitingIsOwed, DuplicatesAreExplained
<1> QED
  BY <1>3, <1>4, <1>5, <1>8 DEF SetupInv, SavedInv

LEMMA ReloadKeeps == ASSUME SetupInv, Reload PROVE SetupInv'
<1>1. page' \in {"dashboard", "form"} /\ step' = Profile /\ list' = <<>> /\ Len(list') = 0
  BY EmptySeq DEF Reload, Entry
<1>2. SetupTypeOK'
  BY <1>1, EmptySeq DEF Reload, Hydrated, SetupInv, SetupTypeOK, server, Steps, Profile
<1>3. ShownStepIsReachable'
  BY <1>1 DEF ShownStepIsReachable, CanReach, Steps, Profile, Income, Obligations, Buffer, Saving
<1>4. Distinct' /\ FinishKnows' /\ PostedIsSaved' /\ WaitingIsOwed'
  BY <1>1 DEF Reload, Distinct, FinishKnows, PostedIsSaved, WaitingIsOwed
<1>5. SetupIsWhole' /\ DuplicatesAreExplained'
  BY DEF Reload, Hydrated, SetupInv, SavedInv, SetupIsWhole, DuplicatesAreExplained, server
<1> QED
  BY <1>2, <1>3, <1>4, <1>5 DEF SetupInv, SavedInv

(***************************************************************************)
(* The theorems.                                                           *)
(***************************************************************************)
LEMMA SetupInitially == SetupInit => SetupInv
<1> SUFFICES ASSUME SetupInit PROVE SetupInv
  OBVIOUS
<1>1. SetupTypeOK
  <2>1. list \in Seq(Drafts) /\ sending \in Seq(Drafts)
    BY EmptySeq DEF SetupInit
  <2>2. copies \in [Drafts -> Nat] /\ lost \in 0 .. MaxLost /\ mounts \in 0 .. MaxMounts
    BY BoundsAreNatural DEF SetupInit
  <2>3. /\ step \in Steps /\ posted \in Nat /\ page = "form"
        /\ profileOk \in BOOLEAN /\ incomeOk \in BOOLEAN
    BY DEF SetupInit, Steps, Profile
  <2>4. recorded \in BOOLEAN /\ onboarded \in BOOLEAN /\ shifted \in BOOLEAN
    BY DEF SetupInit
  <2> QED  BY <2>1, <2>2, <2>3, <2>4 DEF SetupTypeOK
<1>2. ShownStepIsReachable
  BY DEF SetupInit, ShownStepIsReachable, CanReach, Steps, Profile, Income, Obligations, Buffer, Saving
<1>3. SavedInv
  <2>1. Len(list) = 0
    BY EmptySeq DEF SetupInit
  <2>2. lost = 0 /\ mounts = 0 /\ posted = 0 /\ page = "form" /\ ~onboarded
        /\ \A d \in Drafts : copies[d] = 0
    BY DEF SetupInit
  <2> QED  BY <2>1, <2>2 DEF SavedInv, Distinct, FinishKnows, PostedIsSaved, WaitingIsOwed,
              SetupIsWhole, DuplicatesAreExplained
<1> QED
  BY <1>1, <1>2, <1>3 DEF SetupInv

LEMMA SetupStep == SetupInv /\ [SetupNext]_setupVars => SetupInv'
<1> SUFFICES ASSUME SetupInv, [SetupNext]_setupVars PROVE SetupInv'
  OBVIOUS
<1>1. CASE UNCHANGED setupVars
  <2>1. UNCHANGED <<store, sending, posted, server, past>> /\ page' = page
    BY <1>1 DEF setupVars
  <2>2. FinishKnows'
    BY <2>1 DEF SetupInv, SavedInv, FinishKnows, store, server
  <2>3. /\ page' \in {"form", "finished", "login", "dashboard"} \union Saving
        /\ page' \in Saving => CanSubmit
    BY <2>1 DEF SetupInv, SetupTypeOK, ShownStepIsReachable
  <2> QED  BY <2>1, <2>2, <2>3, PageKeeps
<1>2. CASE WizardMoves
  BY <1>2, MovesKeep
<1>3. CASE \E d \in Drafts : ObligationsStep(d)
  BY <1>3, AddKeeps
<1>4. CASE \E i \in DOMAIN list : ListRemove(i)
  BY <1>4, RemoveKeeps
<1>5. CASE Finish \/ Record \/ Post \/ PostLost \/ Complete \/ RequestFails \/ Unauthorized
  BY <1>5, FinishKeeps, RecordKeeps, PostKeeps, PostLostKeeps, CompleteKeeps, RequestFailsKeeps
<1>6. CASE Mount \/ Reload
  BY <1>6, MountKeeps, ReloadKeeps
<1> QED  BY <1>1, <1>2, <1>3, <1>4, <1>5, <1>6 DEF SetupNext, WizardMoves

\* The invariant of the setup wizard.
THEOREM SetupIsSound == SetupSpec => []SetupInv
BY SetupInitially, SetupStep, PTL DEF SetupSpec

\* Every variable of the wizard keeps its type.
THEOREM SetupTyped == SetupSpec => []SetupTypeOK
<1>1. SetupInv => SetupTypeOK
  BY DEF SetupInv
<1> QED
  BY <1>1, SetupIsSound, PTL

\* No step is shown and no request of finish is made whose rules do not hold,
\* and an account that counts as set up has a permit, a budget and a commitment
\* (budgetWizard.ts, finish of onboarding/page.tsx).
THEOREM WizardRulesHold == SetupSpec => []RulesHold
<1>1. SetupInv => RulesHold
  BY DEF SetupInv, SavedInv, RulesHold
<1> QED
  BY <1>1, SetupIsSound, PTL

\* When finish says setup is done every commitment was saved, unless one already
\* saved was taken off the list, and one is saved twice only for a lost answer
\* or a page mounted over the old store (finish of onboarding/page.tsx).
THEOREM CommitmentsAreSavedOnce == SetupSpec => []EachSavedOnce
<1>1. SetupInv => EachSavedOnce
  <2> SUFFICES ASSUME SetupInv PROVE EachSavedOnce
    OBVIOUS
  <2>1. posted \in Nat /\ Len(list) \in Nat /\ DOMAIN list = 1 .. Len(list)
    BY Listed DEF SetupInv, SetupTypeOK
  <2>2. NothingSkipped
    BY <2>1 DEF SetupInv, SavedInv, FinishKnows, PostedIsSaved, NothingSkipped
  <2> QED  BY <2>2 DEF SetupInv, SavedInv, EachSavedOnce
<1> QED
  BY <1>1, SetupIsSound, PTL

(***************************************************************************)
(* The loop of splitAcrossWeeks, against the overlaps of a shift with the  *)
(* weeks.                                                                  *)
(***************************************************************************)
Larger(a, b) == IF a >= b THEN a ELSE b
Smaller(a, b) == IF a <= b THEN a ELSE b

LEMMA MaxMin ==
  ASSUME NEW a \in Int, NEW b \in Int
  PROVE  Max({a, b}) = Larger(a, b) /\ Min({a, b}) = Smaller(a, b)
<1>1. \A x \in {a, b} : (\A y \in {a, b} : x >= y) => x = Larger(a, b)
  BY DEF Larger
<1>2. Larger(a, b) \in {a, b} /\ \A y \in {a, b} : Larger(a, b) >= y
  BY DEF Larger
<1>3. \A x \in {a, b} : (\A y \in {a, b} : x <= y) => x = Smaller(a, b)
  BY DEF Smaller
<1>4. Smaller(a, b) \in {a, b} /\ \A y \in {a, b} : Smaller(a, b) <= y
  BY DEF Smaller
<1>5. Max({a, b}) = Larger(a, b)
  BY <1>1, <1>2 DEF Max
<1>6. Min({a, b}) = Smaller(a, b)
  BY <1>3, <1>4 DEF Min
<1> QED  BY <1>5, <1>6

\* Every instant between the start and the end of a shift is in some week.
WeeksCover == RegularWeeks /\ \A a, b \in Instants : \A t \in a .. b : Covered(t)

\* The part from c on of what a row has in week m, where it has any.
WorkedIn(row, c, m) == Larger(c, m) < Smaller(Shift(row).to, m + WeekLength)
Part(row, c, m) ==
  [of |-> row, week |-> m, from |-> Larger(c, m), to |-> Smaller(Shift(row).to, m + WeekLength)]
Parts(row, c) == {Part(row, c, m) : m \in {n \in Mondays : WorkedIn(row, c, n)}}

IsShift(row) == Shift(row) \in Payloads

LEMMA ShiftTimes ==
  ASSUME WeeksCover, NEW row, IsShift(row)
  PROVE  /\ Shift(row).from \in Int /\ Shift(row).to \in Int /\ Shift(row).from < Shift(row).to
         /\ \A t \in Shift(row).from .. Shift(row).to : Covered(t)
BY InstantsAreNumbers DEF IsShift, Payloads, WeeksCover

LEMMA OverlapIs ==
  ASSUME WeeksCover, NEW row, IsShift(row), NEW m \in Mondays
  PROVE  /\ Overlap(row, m) \in Nat
         /\ (Overlap(row, m) > 0) = WorkedIn(row, Shift(row).from, m)
         /\ WorkedIn(row, Shift(row).from, m) =>
              Overlap(row, m) = Smaller(Shift(row).to, m + WeekLength) - Larger(Shift(row).from, m)
<1>1. /\ Shift(row).from \in Int /\ Shift(row).to \in Int /\ m \in Int /\ m + WeekLength \in Int
  BY ShiftTimes, WeekIsPositive
<1>2. Min({Shift(row).to, m + WeekLength}) = Smaller(Shift(row).to, m + WeekLength)
  BY <1>1, MaxMin
<1>3. Max({Shift(row).from, m}) = Larger(Shift(row).from, m)
  BY <1>1, MaxMin
<1> DEFINE d == Smaller(Shift(row).to, m + WeekLength) - Larger(Shift(row).from, m)
<1>4. d \in Int
  BY <1>1 DEF Smaller, Larger
<1>5. Overlap(row, m) = Larger(0, d)
  <2> HIDE DEF d
  <2>1. Overlap(row, m) = Max({0, d})
    BY <1>2, <1>3 DEF Overlap, d
  <2> QED  BY <1>4, <2>1, MaxMin
<1>6. (d > 0) = WorkedIn(row, Shift(row).from, m)
  BY <1>1 DEF WorkedIn, Smaller, Larger
<1> HIDE DEF d
<1>7. Overlap(row, m) \in Nat /\ (Overlap(row, m) > 0) = (d > 0) /\ (d > 0 => Overlap(row, m) = d)
  BY <1>4, <1>5 DEF Larger
<1> QED  BY <1>6, <1>7 DEF d

\* One pass of the loop takes the part of the week it is in.
LEMMA PartsStep ==
  ASSUME WeeksCover, NEW row, IsShift(row), NEW c \in Shift(row).from .. Shift(row).to
  PROVE  /\ c >= Shift(row).to => Parts(row, c) = {}
         /\ c < Shift(row).to =>
              /\ SliceEnd(c, Shift(row).to) \in (c + 1) .. Shift(row).to
              /\ Parts(row, c) =
                   {[of |-> row, week |-> WeekStartOf(c), from |-> c, to |-> SliceEnd(c, Shift(row).to)]}
                     \union Parts(row, SliceEnd(c, Shift(row).to))
<1> DEFINE end == Shift(row).to
<1>1. c \in Int /\ end \in Int /\ c <= end /\ Covered(c)
  BY ShiftTimes
<1>2. Mondays \subseteq Int /\ WeekLength \in Int /\ WeekLength > 0
  BY WeekIsPositive
<1> HIDE DEF end
<1>3. ASSUME c >= end
      PROVE  Parts(row, c) = {}
  <2>1. \A m \in Mondays : ~WorkedIn(row, c, m)
    BY <1>1, <1>2, <1>3 DEF WorkedIn, Larger, Smaller, end
  <2> QED  BY <2>1 DEF Parts
<1>4. ASSUME c < end
      PROVE  /\ SliceEnd(c, end) \in (c + 1) .. end
             /\ Parts(row, c) =
                  {[of |-> row, week |-> WeekStartOf(c), from |-> c, to |-> SliceEnd(c, end)]}
                    \union Parts(row, SliceEnd(c, end))
  <2> DEFINE w == WeekStartOf(c)
             e == SliceEnd(c, end)
  <2>1. w \in Mondays /\ w <= c /\ c < w + WeekLength
    BY <1>1, WeekFound DEF WeeksCover
  <2>0. e = IF w + WeekLength < end THEN w + WeekLength ELSE end
    BY DEF SliceEnd
  <2> HIDE DEF w, e
  <2>2. e = Smaller(end, w + WeekLength)
    BY <1>1, <1>2, <2>1, <2>0 DEF Smaller
  <2>3. e \in (c + 1) .. end
    BY <1>1, <1>2, <1>4, <2>1, <2>2 DEF Smaller
  <2>4. \A m \in Mondays : m # w => m + WeekLength <= w \/ w + WeekLength <= m
    BY <1>2, <2>1 DEF WeeksCover, RegularWeeks
  <2>5. WorkedIn(row, c, w) /\ Part(row, c, w) = [of |-> row, week |-> w, from |-> c, to |-> e]
    <3>1. Larger(c, w) = c /\ Smaller(end, w + WeekLength) = e
      BY <1>1, <1>2, <2>1, <2>2 DEF Larger
    <3> QED  BY <2>3, <3>1 DEF WorkedIn, Part, end
  <2>6. ~WorkedIn(row, e, w)
    BY <1>1, <1>2, <2>1, <2>2, <2>3 DEF WorkedIn, Larger, end
  <2>7. ASSUME NEW m \in Mondays, m # w
        PROVE  /\ WorkedIn(row, c, m) = WorkedIn(row, e, m)
               /\ WorkedIn(row, c, m) => Part(row, c, m) = Part(row, e, m)
    <3>1. CASE m + WeekLength <= w
      BY <1>1, <1>2, <2>1, <2>3, <3>1 DEF WorkedIn, Larger, Smaller, end
    <3>2. CASE w + WeekLength <= m
      <4>1. Larger(c, m) = m /\ Larger(e, m) = m
        BY <1>1, <1>2, <2>1, <2>2, <2>3, <3>2 DEF Larger, Smaller
      <4> QED  BY <4>1 DEF WorkedIn, Part
    <3> QED  BY <2>4, <2>7, <3>1, <3>2
  <2>8. {n \in Mondays : WorkedIn(row, c, n)} = {w} \union {n \in Mondays : WorkedIn(row, e, n)}
    BY <2>1, <2>5, <2>7
  <2>9. \A n \in Mondays : WorkedIn(row, e, n) => Part(row, c, n) = Part(row, e, n)
    BY <2>6, <2>7
  <2>10. Parts(row, c) = {Part(row, c, w)} \union Parts(row, e)
    BY <2>8, <2>9 DEF Parts
  <2> QED  BY <2>3, <2>5, <2>10 DEF w, e
<1> QED  BY <1>3, <1>4 DEF end

\* What the loop has still to make from cursor c on, given what it makes later.
Loop(row, h, c) ==
  IF c >= Shift(row).to THEN {}
  ELSE {[of |-> row, week |-> WeekStartOf(c), from |-> c, to |-> SliceEnd(c, Shift(row).to)]}
         \union h[SliceEnd(c, Shift(row).to)]

LEMMA PiecesUnfold ==
  ASSUME NEW row, NEW g, g = [c \in Shift(row).from .. Shift(row).to |-> Loop(row, g, c)]
  PROVE  \E h : h = [c \in Shift(row).from .. Shift(row).to |-> Loop(row, h, c)]
                /\ Pieces(row) = h[Shift(row).from]
BY DEF Pieces, Loop

\* FR-2: the pieces of a shift are its overlaps with the weeks.
LEMMA PiecesAreParts ==
  ASSUME WeeksCover, NEW row, IsShift(row)
  PROVE  Pieces(row) = Parts(row, Shift(row).from)
<1> DEFINE from == Shift(row).from
           end == Shift(row).to
           g == [c \in from .. end |-> Parts(row, c)]
<1>1. from \in Int /\ end \in Int /\ from < end
  BY ShiftTimes
<1>2. \A c \in from .. end : Parts(row, c) = Loop(row, g, c)
  <2> SUFFICES ASSUME NEW c \in from .. end PROVE Parts(row, c) = Loop(row, g, c)
    OBVIOUS
  <2>1. CASE c >= end
    BY <2>1, PartsStep DEF Loop
  <2>2. CASE ~(c >= end)
    <3>1. c < end
      BY <1>1, <2>2
    <3>2. SliceEnd(c, end) \in from .. end
      BY <1>1, <3>1, PartsStep
    <3>3. Parts(row, c) = {[of |-> row, week |-> WeekStartOf(c), from |-> c, to |-> SliceEnd(c, end)]}
                            \union Parts(row, SliceEnd(c, end))
      BY <3>1, PartsStep
    <3> QED  BY <2>2, <3>2, <3>3 DEF Loop
  <2> QED  BY <2>1, <2>2
<1>3. g = [c \in from .. end |-> Loop(row, g, c)]
  BY <1>2
<1>4. PICK h : h = [c \in from .. end |-> Loop(row, h, c)] /\ Pieces(row) = h[from]
  <2> HIDE DEF g
  <2> QED  BY <1>3, PiecesUnfold
<1> HIDE DEF g
<1> DEFINE Good == {n \in Nat : end - n >= from => h[end - n] = Parts(row, end - n)}
<1>5. ASSUME NEW n \in Nat, \A m \in 0 .. (n - 1) : m \in Good
      PROVE  n \in Good
  <2> SUFFICES ASSUME end - n >= from PROVE h[end - n] = Parts(row, end - n)
    OBVIOUS
  <2> DEFINE c == end - n
  <2>1. c \in from .. end /\ h[c] = Loop(row, h, c)
    BY <1>1, <1>4
  <2>2. CASE c >= end
    BY <2>1, <2>2, PartsStep DEF Loop
  <2>3. CASE ~(c >= end)
    <3> DEFINE e == SliceEnd(c, end)
    <3>1. c < end
      BY <1>1, <2>1, <2>3
    <3>2. e \in (c + 1) .. end
      BY <2>1, <3>1, PartsStep
    <3>3. Parts(row, c) = {[of |-> row, week |-> WeekStartOf(c), from |-> c, to |-> e]} \union Parts(row, e)
      BY <2>1, <3>1, PartsStep
    <3>4. h[c] = {[of |-> row, week |-> WeekStartOf(c), from |-> c, to |-> e]} \union h[e]
      BY <2>1, <2>3 DEF Loop
    <3> HIDE DEF e
    <3>5. end - e \in 0 .. (n - 1) /\ end - (end - e) = e /\ e >= from
      BY <1>1, <2>1, <3>2
    <3>6. h[e] = Parts(row, e)
      BY <1>5, <3>5
    <3> QED  BY <3>3, <3>4, <3>6
  <2> QED  BY <2>2, <2>3
<1>6. Nat \subseteq Good
  <2> HIDE DEF Good
  <2> QED  BY <1>5, NumberInduction
<1>7. end - from \in Nat /\ end - (end - from) = from
  BY <1>1
<1>8. h[from] = Parts(row, from)
  BY <1>1, <1>6, <1>7
<1> QED  BY <1>4, <1>8

(***************************************************************************)
(* weeklyUsage adds up the pieces, and gives what was worked in each week. *)
(***************************************************************************)
AreShifts(S) == IsFiniteSet(S) /\ \A row \in S : IsShift(row)

LEMMA HoursAreWorked ==
  ASSUME WeeksCover, NEW S, AreShifts(S), NEW w \in Mondays, NEW onCampus \in BOOLEAN
  PROVE  Hours(S, w, onCampus) = Worked(S, w, onCampus) /\ Worked(S, w, onCampus) \in Nat
<1> DEFINE R == {r \in S : Shift(r).onCampus = onCampus}
           f == [row \in R |-> Overlap(row, w)]
           T == {r \in R : WorkedIn(r, Shift(r).from, w)}
           b == [r \in T |-> Part(r, Shift(r).from, w)]
           Q == {q \in AllPieces(S) : q.week = w /\ Shift(q.of).onCampus = onCampus}
           g == [p \in Q |-> p.to - p.from]
<1>1. Hours(S, w, onCampus) = SumFunctionOnSet(g, Q) /\ Worked(S, w, onCampus) = SumFunctionOnSet(f, R)
  BY DEF Hours, PiecesOf, Worked, SumFunction
<1>2. IsFiniteSet(R) /\ IsFiniteSet(T) /\ T \subseteq R /\ R \subseteq S
  BY FS_Subset DEF AreShifts
<1>3. \A r \in R : /\ f[r] \in Nat
                   /\ r \notin T => f[r] = 0
                   /\ r \in T => f[r] = b[r].to - b[r].from
  <2> SUFFICES ASSUME NEW r \in R
               PROVE  /\ Overlap(r, w) \in Nat
                      /\ ~WorkedIn(r, Shift(r).from, w) => Overlap(r, w) = 0
                      /\ WorkedIn(r, Shift(r).from, w) =>
                           Overlap(r, w) = Part(r, Shift(r).from, w).to - Part(r, Shift(r).from, w).from
    OBVIOUS
  <2>1. IsShift(r)
    BY DEF AreShifts
  <2>2. Part(r, Shift(r).from, w).to = Smaller(Shift(r).to, w + WeekLength)
        /\ Part(r, Shift(r).from, w).from = Larger(Shift(r).from, w)
    BY DEF Part
  <2>3. /\ Overlap(r, w) \in Nat
        /\ (Overlap(r, w) > 0) = WorkedIn(r, Shift(r).from, w)
        /\ WorkedIn(r, Shift(r).from, w) =>
             Overlap(r, w) = Smaller(Shift(r).to, w + WeekLength) - Larger(Shift(r).from, w)
    BY <2>1, OverlapIs
  <2> QED  BY <2>2, <2>3 DEF WorkedIn
<1>4. Q = {b[x] : x \in T}
  <2>1. \A row \in S : Pieces(row) = Parts(row, Shift(row).from)
    BY PiecesAreParts DEF AreShifts
  <2>2. AllPieces(S) = UNION {Parts(row, Shift(row).from) : row \in S}
    BY <2>1 DEF AllPieces
  <2>3. \A q \in Q : \E r \in T : q = b[r]
    <3> SUFFICES ASSUME NEW q \in Q PROVE \E r \in T : q = b[r]
      OBVIOUS
    <3>1. PICK row \in S : q \in Parts(row, Shift(row).from)
      BY <2>2
    <3>2. PICK m \in Mondays : WorkedIn(row, Shift(row).from, m) /\ q = Part(row, Shift(row).from, m)
      BY <3>1 DEF Parts
    <3>3. m = w /\ Shift(row).onCampus = onCampus
      BY <3>2 DEF Part
    <3> QED  BY <3>2, <3>3
  <2>4. \A r \in T : b[r] \in Q
    <3> SUFFICES ASSUME NEW r \in T PROVE b[r] \in Q
      OBVIOUS
    <3>1. b[r] \in Parts(r, Shift(r).from)
      BY DEF Parts
    <3>2. b[r] \in AllPieces(S)
      BY <2>2, <3>1
    <3>3. b[r].week = w /\ b[r].of = r
      BY DEF Part
    <3> QED  BY <3>2, <3>3
  <2> QED  BY <2>3, <2>4
<1>5. \A x \in T : f[x] \in Nat /\ g[b[x]] = f[x]
  BY <1>2, <1>3, <1>4
<1>6. \A x, y \in T : b[x] = b[y] => x = y
  <2>1. \A x \in T : b[x].of = x
    BY DEF Part
  <2> QED  BY <2>1
<1>7. /\ \A r \in R : f[r] \in Nat
      /\ \A r \in R \ T : f[r] = 0
  BY <1>3
<1> HIDE DEF f, g, b, Q, R, T
<1>8. SumFunctionOnSet(g, Q) = SumFunctionOnSet(f, T)
  BY <1>2, <1>4, <1>5, <1>6, SumRenamed
<1>9. SumFunctionOnSet(f, R) = SumFunctionOnSet(f, T)
  BY <1>2, <1>7, SumDropsZeros
<1>10. SumFunctionOnSet(f, R) \in Nat
  BY <1>2, <1>7, SumIsNat
<1> QED  BY <1>1, <1>8, <1>9, <1>10

\* The weeks it reports are those somebody worked in.
LEMMA WeeksAreWorkedIn ==
  ASSUME WeeksCover, NEW S, AreShifts(S)
  PROVE  {p.week : p \in AllPieces(S)} = {w \in Mondays : \E row \in S : Overlap(row, w) > 0}
<1>1. \A row \in S : Pieces(row) = Parts(row, Shift(row).from)
  BY PiecesAreParts DEF AreShifts
<1>2. \A row \in S, w \in Mondays : (Overlap(row, w) > 0) = WorkedIn(row, Shift(row).from, w)
  BY OverlapIs DEF AreShifts
<1>3. AllPieces(S) = UNION {Parts(row, Shift(row).from) : row \in S}
  BY <1>1 DEF AllPieces
<1>4. ASSUME NEW p \in AllPieces(S)
      PROVE  p.week \in Mondays /\ \E row \in S : Overlap(row, p.week) > 0
  <2>1. PICK row \in S : p \in Parts(row, Shift(row).from)
    BY <1>3
  <2>2. PICK m \in Mondays : WorkedIn(row, Shift(row).from, m) /\ p = Part(row, Shift(row).from, m)
    BY <2>1 DEF Parts
  <2>3. p.week = m
    BY <2>2 DEF Part
  <2> QED  BY <1>2, <2>2, <2>3
<1>5. ASSUME NEW w \in Mondays, NEW row \in S, Overlap(row, w) > 0
      PROVE  \E p \in AllPieces(S) : p.week = w
  <2> DEFINE p == Part(row, Shift(row).from, w)
  <2>1. p \in Parts(row, Shift(row).from)
    BY <1>2, <1>5 DEF Parts
  <2>2. p.week = w
    BY DEF Part
  <2> HIDE DEF p
  <2>3. p \in AllPieces(S)
    BY <1>3, <2>1
  <2> QED  BY <2>2, <2>3
<1> QED  BY <1>4, <1>5

\* In a week nobody worked in, nothing was worked.
LEMMA IdleWeek ==
  ASSUME WeeksCover, NEW S, AreShifts(S), NEW w \in Mondays, NEW onCampus \in BOOLEAN,
         ~\E row \in S : Overlap(row, w) > 0
  PROVE  Worked(S, w, onCampus) = 0
<1> DEFINE R == {r \in S : Shift(r).onCampus = onCampus}
           f == [row \in R |-> Overlap(row, w)]
<1>1. \A row \in S : Overlap(row, w) \in Nat
  BY OverlapIs DEF AreShifts
<1>2. \A row \in S : Overlap(row, w) = 0
  BY <1>1
<1>3. IsFiniteSet(R) /\ {} \in SUBSET R /\ (\A row \in R : f[row] \in Nat) /\ \A row \in R \ {} : f[row] = 0
  BY <1>2, FS_Subset DEF AreShifts
<1>4. Worked(S, w, onCampus) = SumFunctionOnSet(f, R)
  BY DEF Worked, SumFunction
<1> HIDE DEF f, R
<1>5. SumFunctionOnSet(f, R) = SumFunctionOnSet(f, {})
  BY <1>3, SumDropsZeros
<1> QED  BY <1>4, <1>5, SumOfNone

\* Rounding moves a number by half a hundredth at most, and not across 0.
LEMMA RoundedIsNear ==
  ASSUME NEW x \in Int, NEW inexact \in BOOLEAN
  PROVE  /\ Near(Round2(x, inexact), x) /\ Round2(x, inexact) \in Int
         /\ x <= 0 => Round2(x, inexact) <= 0
         /\ x >= 0 => Round2(x, inexact) >= 0
<1> DEFINE H == Hundredth
           e == IF inexact THEN 1 ELSE 0
           n == 2 * x + H - e
           q == n \div (2 * H)
           P == H * q
<1>1. H \in Int /\ H > 0 /\ 2 * H \in Int /\ 2 * H > 0 /\ n \in Int /\ e \in {0, 1}
  BY HundredthIsPositive
<1>2. \A y, k \in Int : k > 0 => y \div k \in Int /\ k * (y \div k) <= y /\ y < k * (y \div k) + k
  OBVIOUS
<1>3. q \in Int /\ (2 * H) * q <= n /\ n < (2 * H) * q + 2 * H
  BY <1>1, <1>2
<1> HIDE DEF q
<1>4. P \in Int /\ (2 * H) * q = 2 * P /\ (q >= 1 => P >= H) /\ (q <= 0 => P <= 0)
      /\ (q >= 0 => P >= 0) /\ (q <= -1 => P <= -H)
  <2>1. \A h, k \in Int : /\ h * k \in Int /\ (2 * h) * k = 2 * (h * k)
                          /\ h > 0 /\ k >= 1 => h * k >= h
                          /\ h > 0 /\ k <= 0 => h * k <= 0
                          /\ h > 0 /\ k >= 0 => h * k >= 0
                          /\ h > 0 /\ k <= -1 => h * k <= -h
    OBVIOUS
  <2> QED  BY <1>1, <1>3, <2>1
<1>5. Round2(x, inexact) = P
  BY DEF Round2, q
<1> HIDE DEF P
<1>6. 2 * P <= n /\ n < 2 * P + 2 * H
  BY <1>3, <1>4
<1>7. 2 * (P - x) \in -H .. H
  <2>1. 2 * (P - x) \in Int /\ 2 * (P - x) <= H /\ 2 * (P - x) >= -H
    BY <1>1, <1>4, <1>6
  <2> QED  BY <1>1, <2>1
<1>8. ASSUME x <= 0 PROVE P <= 0
  <2>1. ~(q >= 1)
    BY <1>1, <1>3, <1>4, <1>6, <1>8
  <2> QED  BY <1>3, <1>4, <2>1
<1>9. ASSUME x >= 0 PROVE P >= 0
  <2>1. ~(q <= -1)
    BY <1>1, <1>3, <1>4, <1>6, <1>9
  <2> QED  BY <1>3, <1>4, <2>1
<1> QED  BY <1>4, <1>5, <1>7, <1>8, <1>9 DEF Near

\* The sum is found over the cap when it is, and never when it is below.
LEMMA OverIsAtTheCap ==
  ASSUME NEW S, NEW w, NEW c \in Nat, Hours(S, w, FALSE) \in Nat, NEW inexact \in BOOLEAN
  PROVE  /\ Hours(S, w, FALSE) > c => SumIsOver(S, w, c, inexact)
         /\ SumIsOver(S, w, c, inexact) => Hours(S, w, FALSE) >= c
<1>1. SumIsOver(S, w, c, inexact) => Hours(S, w, FALSE) > c \/ Hours(S, w, FALSE) = c
  BY Zenon DEF SumIsOver
<1>2. Hours(S, w, FALSE) > c => SumIsOver(S, w, c, inexact)
  BY Zenon DEF SumIsOver
<1>3. \A x, y \in Nat : x > y \/ x = y => x >= y
  OBVIOUS
<1> QED  BY <1>1, <1>2, <1>3

\* What is reported of a week, whichever way the close comparisons go.
LEMMA UsageOf ==
  ASSUME WeeksCover, NEW S, AreShifts(S), NEW w \in Mondays, NEW c \in Nat, NEW inexact \in BOOLEAN
  PROVE  LET u == CurrentWeek(S, c, w, inexact)
         IN  /\ Near(u.offCampus, Worked(S, w, FALSE)) /\ Near(u.onCampus, Worked(S, w, TRUE))
             /\ Near(u.remaining, c - Worked(S, w, FALSE))
             /\ Worked(S, w, FALSE) > c => u.breached
             /\ u.breached => Worked(S, w, FALSE) >= c /\ u.remaining <= 0
             /\ u.remaining < 0 => u.breached
<1>1. WeekStartOf(w) = w
  BY SameWeek, WeekIsPositive DEF WeeksCover
<1> DEFINE W == {p.week : p \in AllPieces(S)}
           u == CurrentWeek(S, c, w, inexact)
           off == Worked(S, w, FALSE)
           on == Worked(S, w, TRUE)
<1>2. Hours(S, w, FALSE) = off /\ off \in Nat /\ Hours(S, w, TRUE) = on /\ on \in Nat
  BY HoursAreWorked
<1>3. /\ Near(u.offCampus, off) /\ Near(u.onCampus, on) /\ Near(u.remaining, c - off)
      /\ c - off <= 0 => u.remaining <= 0
      /\ off > c => u.breached
      /\ u.breached => off >= c
  <2>1. CASE w \in W
    <3>1. /\ u.offCampus = Round2(off, inexact) /\ u.onCampus = Round2(on, inexact)
          /\ u.remaining = Round2(c - off, inexact)
          /\ u.breached = SumIsOver(S, w, c, inexact)
      BY <1>1, <1>2, <2>1 DEF CurrentWeek, WeeklyUsage
    <3>2. (off > c => SumIsOver(S, w, c, inexact)) /\ (SumIsOver(S, w, c, inexact) => off >= c)
      BY <1>2, OverIsAtTheCap
    <3> HIDE DEF u, off, on
    <3>3. off \in Int /\ on \in Int /\ c - off \in Int
      BY <1>2
    <3> QED  BY <3>1, <3>2, <3>3, RoundedIsNear
  <2>2. CASE w \notin W
    <3>1. u = [offCampus |-> 0, onCampus |-> 0, remaining |-> c, breached |-> FALSE]
      BY <1>1, <2>2 DEF CurrentWeek, WeeklyUsage
    <3>2. ~\E row \in S : Overlap(row, w) > 0
      BY <2>2, WeeksAreWorkedIn
    <3>3. off = 0 /\ on = 0
      BY <3>2, IdleWeek
    <3> HIDE DEF u, off, on
    <3>4. \A x \in Nat : Near(x, x)
      BY HundredthIsPositive DEF Near
    <3>5. c - 0 = c /\ ~(0 > c) /\ (c - 0 <= 0 => c <= 0)
      OBVIOUS
    <3> QED  BY <3>1, <3>3, <3>4, <3>5
  <2> QED  BY <2>1, <2>2
<1> HIDE DEF u, off, on
<1>4. off >= c => c - off <= 0
  BY <1>2
<1>5. ASSUME u.remaining < 0 PROVE u.breached
  <2>1. CASE off > c
    BY <1>3, <2>1
  <2>2. CASE ~(off > c)
    <3>1. w \in W => u.remaining = Round2(c - off, inexact)
      BY <1>1, <1>2 DEF CurrentWeek, WeeklyUsage, u, off
    <3>2. w \notin W => u.remaining = c
      BY <1>1 DEF CurrentWeek, WeeklyUsage, u
    <3>3. c - off \in Int /\ c - off >= 0
      BY <1>2, <2>2
    <3>4. Round2(c - off, inexact) >= 0 /\ Round2(c - off, inexact) \in Int
      BY <3>3, RoundedIsNear
    <3>5. \A x \in Int : x >= 0 => ~(x < 0)
      OBVIOUS
    <3> QED  BY <1>5, <3>1, <3>2, <3>4, <3>5
  <2> QED  BY <2>1, <2>2
<1> QED  BY <1>3, <1>4, <1>5 DEF u, off, on

\* wouldBreach finds every week the shift puts over the cap, and no week below it.
LEMMA BreachMeansTheCap ==
  ASSUME WeeksCover, NEW S, AreShifts(S), NEW s, payload[s] \in Payloads, NEW c \in Nat,
         NEW inexact \in BOOLEAN
  PROVE  /\ OverCap(S, s, c) => WouldBreach(S, s, c, inexact)
         /\ WouldBreach(S, s, c, inexact) => CapReached(S, s, c)
<1> DEFINE row == Candidate(s)
           U == S \union {row}
<1>1. IsShift(row)
  BY DEF IsShift, Shift, Candidate
<1>2. AreShifts(U)
  BY <1>1, FS_AddElement DEF AreShifts
<1>3. AreShifts({row})
  BY <1>1, FS_Singleton DEF AreShifts
<1> HIDE DEF row
<1>4. {p.week : p \in Pieces(row)} = {w \in Mondays : Overlap(row, w) > 0}
  <2>1. AllPieces({row}) = Pieces(row)
    BY DEF AllPieces
  <2> QED  BY <1>3, <2>1, WeeksAreWorkedIn
<1>5. \A w \in Mondays : Overlap(row, w) > 0 =>
        /\ Worked(U, w, FALSE) > c => WeeklyUsage(U, c, inexact)[w].breached
        /\ WeeklyUsage(U, c, inexact)[w].breached => Worked(U, w, FALSE) >= c
  <2> SUFFICES ASSUME NEW w \in Mondays, Overlap(row, w) > 0
               PROVE  /\ Worked(U, w, FALSE) > c => WeeklyUsage(U, c, inexact)[w].breached
                      /\ WeeklyUsage(U, c, inexact)[w].breached => Worked(U, w, FALSE) >= c
    OBVIOUS
  <2> HIDE DEF U
  <2>1. w \in {p.week : p \in AllPieces(U)}
    BY <1>2, WeeksAreWorkedIn DEF U
  <2>2. Hours(U, w, FALSE) = Worked(U, w, FALSE) /\ Worked(U, w, FALSE) \in Nat
    BY <1>2, HoursAreWorked
  <2>3. WeeklyUsage(U, c, inexact)[w].breached = SumIsOver(U, w, c, inexact)
    BY <2>1 DEF WeeklyUsage
  <2>4. /\ Worked(U, w, FALSE) > c => SumIsOver(U, w, c, inexact)
        /\ SumIsOver(U, w, c, inexact) => Worked(U, w, FALSE) >= c
    BY <2>2, OverIsAtTheCap
  <2> QED  BY <2>3, <2>4
<1>6. WouldBreach(S, s, c, inexact) <=>
        \E w \in {p.week : p \in Pieces(row)} : WeeklyUsage(U, c, inexact)[w].breached
  BY DEF WouldBreach, row
<1>7. /\ OverCap(S, s, c) <=> \E w \in Mondays : Overlap(row, w) > 0 /\ Worked(U, w, FALSE) > c
      /\ CapReached(S, s, c) <=> \E w \in Mondays : Overlap(row, w) > 0 /\ Worked(U, w, FALSE) >= c
  BY DEF OverCap, CapReached, row
<1> HIDE DEF U
<1> QED  BY <1>4, <1>5, <1>6, <1>7

\* More shifts, more hours: what reaches the cap, or is over it, stays there.
LEMMA OverCapGrows ==
  ASSUME WeeksCover, NEW S, NEW U, AreShifts(U), S \subseteq U,
         NEW s, payload[s] \in Payloads, NEW c \in Nat
  PROVE  /\ OverCap(S, s, c) => OverCap(U, s, c)
         /\ CapReached(S, s, c) => CapReached(U, s, c)
<1> DEFINE row == Candidate(s)
           S1 == S \union {row}
           U1 == U \union {row}
<1>1. IsShift(row)
  BY DEF IsShift, Shift, Candidate
<1>2. AreShifts(U1) /\ S1 \subseteq U1
  BY <1>1, FS_AddElement DEF AreShifts
<1>3. AreShifts(S1)
  BY <1>2, FS_Subset DEF AreShifts
<1> HIDE DEF S1, U1
<1>4. ASSUME NEW w \in Mondays
      PROVE  /\ Worked(S1, w, FALSE) \in Nat /\ Worked(U1, w, FALSE) \in Nat
             /\ Worked(S1, w, FALSE) <= Worked(U1, w, FALSE)
  <2> DEFINE RS == {r \in S1 : Shift(r).onCampus = FALSE}
             RU == {r \in U1 : Shift(r).onCampus = FALSE}
             fS == [r \in RS |-> Overlap(r, w)]
             fU == [r \in RU |-> Overlap(r, w)]
  <2>1. /\ IsFiniteSet(RU) /\ IsFiniteSet(RS) /\ RS \in SUBSET RU
        /\ \A r \in RU : fU[r] \in Nat
        /\ \A r \in RS : fU[r] \in Nat /\ fS[r] = fU[r]
    <3>1. \A r \in U1 : Overlap(r, w) \in Nat
      BY <1>2, OverlapIs DEF AreShifts
    <3> QED  BY <1>2, <1>3, <3>1, FS_Subset DEF AreShifts
  <2>2. Worked(S1, w, FALSE) = SumFunctionOnSet(fS, RS) /\ Worked(U1, w, FALSE) = SumFunctionOnSet(fU, RU)
    BY DEF Worked, SumFunction
  <2>3. Worked(S1, w, FALSE) \in Nat /\ Worked(U1, w, FALSE) \in Nat
    BY <1>2, <1>3, HoursAreWorked
  <2> HIDE DEF RS, RU, fS, fU
  <2>4. SumFunctionOnSet(fS, RS) = SumFunctionOnSet(fU, RS)
    BY <2>1, SumAgrees
  <2>5. SumFunctionOnSet(fU, RS) <= SumFunctionOnSet(fU, RU)
    BY <2>1, SumOfPart
  <2> QED  BY <2>2, <2>3, <2>4, <2>5
<1>5. \A w \in Mondays :
        /\ Worked(S1, w, FALSE) > c => Worked(U1, w, FALSE) > c
        /\ Worked(S1, w, FALSE) >= c => Worked(U1, w, FALSE) >= c
  <2>1. \A x, y \in Nat : x <= y => (x > c => y > c) /\ (x >= c => y >= c)
    OBVIOUS
  <2> QED  BY <1>4, <2>1
<1> QED  BY <1>5 DEF OverCap, CapReached, S1, U1

(***************************************************************************)
(* The inductive invariant of the form and its requests.                   *)
(***************************************************************************)
Fresh == {"form"} \union Checking      \* before the answer of the check
AtWork == Checking \union InFlight     \* a request of it is on its way

ShiftTyped ==
  /\ payload \in [Submissions -> Payloads]
  /\ phase \in [Submissions -> Phases]
  /\ stored \subseteq Submissions \X Nat /\ IsFiniteSet(stored)
  /\ confirmed \subseteq Submissions /\ disturbed \subseteq Submissions
  /\ saves \in [Submissions -> Nat] /\ lostSaves \in [Submissions -> Nat]
  /\ \A row \in stored : row[2] \in 1 .. saves[row[1]]
  /\ cap \in Caps
  /\ seenCap \in [Submissions -> Caps \union {0}]
  /\ seenShifts \in [Submissions -> SUBSET (Submissions \X Nat)]
  /\ \A s \in Submissions : IsFiniteSet(seenShifts[s])

\* A window shows one notice, waits for one request, and the save of a confirmed
\* shift leaves no room for another notice, to which an error may return.
OnePerWindow ==
  \A s, t \in Submissions : s # t /\ panel[s] = panel[t] =>
    /\ ~(phase[s] = "asked" /\ phase[t] = "asked")
    /\ phase[s] \in AtWork => phase[t] \notin AtWork
    /\ phase[s] = "saving" /\ s \in confirmed => phase[t] # "asked"

\* Nothing is confirmed or stored of a submission whose check is not answered.
CheckComesFirst ==
  /\ \A s \in confirmed : phase[s] \notin Fresh
  /\ \A row \in stored : phase[row[1]] \notin Fresh

\* What an undisturbed submission has read is what there is, and what it waits
\* for follows from what there is.
ReadsHold ==
  \A s \in Submissions \ disturbed :
    /\ phase[s] \in {"readingCap", "read"} => seenShifts[s] = stored
    /\ phase[s] \in {"readingShifts", "read"} => seenCap[s] = cap
    /\ phase[s] = "asked" \/ (phase[s] \in InFlight /\ s \in confirmed) => CapReached(stored, s, cap)
    /\ phase[s] = "saving" /\ s \notin confirmed => ~OverCap(stored, s, cap)

\* From the save on, a breach that was seen is confirmed.
SavedKnowingly ==
  \A s \in Submissions :
    phase[s] \in InFlight \/ (\E row \in stored : row[1] = s) =>
      (OverCap(seenShifts[s], s, seenCap[s]) => s \in confirmed)

SavesCounted ==
  \A s \in Submissions : saves[s] = lostSaves[s] + (IF phase[s] = "saved" THEN 1 ELSE 0)

ShiftInv ==
  ShiftTyped /\ OnePerWindow /\ CheckComesFirst /\ ReadsHold /\ SavedKnowingly /\ SavesCounted

\* Everybody but s keeps their place, or loses the notice they had.
OthersWait(s) ==
  \A t \in Submissions \ {s} : phase'[t] = phase[t] \/ (phase[t] = "asked" /\ phase'[t] = "dropped")

LEMMA NoticeMoves ==
  ASSUME ShiftTyped, NEW s \in Submissions, NEW next \in Phases, NoticeGone(s, next)
  PROVE  /\ phase' \in [Submissions -> Phases] /\ phase'[s] = next /\ OthersWait(s)
         /\ \A t \in Submissions \ {s} : panel[t] = panel[s] => phase'[t] # "asked"
<1>1. phase' \in [Submissions -> Phases]
  BY DEF NoticeGone, ShiftTyped, Phases
<1>2. \A t \in Submissions \ {s} : phase'[t] = IF t \in PanelOf(s) /\ phase[t] = "asked" THEN "dropped" ELSE phase[t]
  BY DEF NoticeGone
<1> QED  BY <1>1, <1>2 DEF NoticeGone, OthersWait, PanelOf

LEMMA StepMoves ==
  ASSUME ShiftTyped, NEW s \in Submissions, NEW next \in Phases, To(s, next)
  PROVE  /\ phase' \in [Submissions -> Phases] /\ phase'[s] = next /\ OthersWait(s)
         /\ \A t \in Submissions \ {s} : phase'[t] = phase[t]
BY DEF To, ShiftTyped, OthersWait

LEMMA Written ==
  ASSUME ShiftTyped, NEW s \in Submissions, Insert(s)
  PROVE  /\ stored' \subseteq Submissions \X Nat /\ IsFiniteSet(stored') /\ stored \subseteq stored'
         /\ \A row \in stored' : row \in stored \/ row[1] = s
         /\ saves' \in [Submissions -> Nat] /\ saves'[s] = saves[s] + 1
         /\ \A t \in Submissions \ {s} : saves'[t] = saves[t]
         /\ \A row \in stored' : row[2] \in 1 .. saves'[row[1]]
         /\ disturbed' \subseteq Submissions /\ disturbed \subseteq disturbed'
         /\ \A t \in Submissions \ {s} : t \notin disturbed' => phase[t] \notin AtWork \union {"asked"}
<1>1. saves[s] \in Nat
  BY DEF ShiftTyped
<1>2. /\ stored' = stored \union {<<s, saves[s] + 1>>} /\ saves' = [saves EXCEPT ![s] = saves[s] + 1]
      /\ Disturb(Submissions \ {s})
  BY DEF Insert
<1>3. IsFiniteSet(stored')
  BY <1>2, FS_AddElement DEF ShiftTyped
<1>4. /\ saves' \in [Submissions -> Nat] /\ saves'[s] = saves[s] + 1
      /\ \A t \in Submissions \ {s} : saves'[t] = saves[t]
  BY <1>1, <1>2 DEF ShiftTyped
<1>5. \A row \in stored' : row[2] \in 1 .. saves'[row[1]]
  <2> SUFFICES ASSUME NEW row \in stored' PROVE row[2] \in 1 .. saves'[row[1]]
    OBVIOUS
  <2>1. CASE row = <<s, saves[s] + 1>>
    BY <1>1, <1>4, <2>1
  <2>2. CASE row \in stored
    <3>1. row[1] \in Submissions /\ row[2] \in 1 .. saves[row[1]] /\ saves[row[1]] \in Nat
      BY <2>2 DEF ShiftTyped
    <3> QED  BY <1>1, <1>4, <3>1
  <2> QED  BY <1>2, <2>1, <2>2
<1>6. /\ disturbed' \subseteq Submissions /\ disturbed \subseteq disturbed'
      /\ \A t \in Submissions \ {s} : t \notin disturbed' => phase[t] \notin AtWork \union {"asked"}
  BY <1>2 DEF Disturb, ShiftTyped, AtWork
<1> QED  BY <1>1, <1>2, <1>3, <1>4, <1>5, <1>6 DEF ShiftTyped

\* A step of the form or of one of its requests.
ShiftMoves(s) ==
  \/ Submit(s) \/ ReadShifts(s) \/ ReadCap(s) \/ Answer(s) \/ Confirm(s) \/ Cancel(s)
  \/ Save(s) \/ SaveLost(s) \/ Drop(s)

LEMMA ShiftTypedHolds ==
  ASSUME ShiftTyped, ShiftNext
  PROVE  ShiftTyped'
<1>1. ASSUME NEW s \in Submissions, Submit(s)
      PROVE  ShiftTyped'
  <2>1. phase' \in [Submissions -> Phases]
    BY <1>1, StepMoves DEF Submit, Phases
  <2> QED  BY <1>1, <2>1 DEF Submit, ShiftTyped, form, rows, check
<1>2. ASSUME NEW s \in Submissions, ReadShifts(s)
      PROVE  ShiftTyped'
  <2>1. phase' \in [Submissions -> Phases]
    BY <1>2, StepMoves DEF ReadShifts, Phases
  <2>2. /\ seenShifts' \in [Submissions -> SUBSET (Submissions \X Nat)]
        /\ \A t \in Submissions : IsFiniteSet(seenShifts'[t])
    BY <1>2 DEF ReadShifts, ShiftTyped
  <2> QED  BY <1>2, <2>1, <2>2 DEF ReadShifts, ShiftTyped, form, rows
<1>3. ASSUME NEW s \in Submissions, ReadCap(s)
      PROVE  ShiftTyped'
  <2>1. phase' \in [Submissions -> Phases]
    BY <1>3, StepMoves DEF ReadCap, Phases
  <2>2. seenCap' \in [Submissions -> Caps \union {0}]
    BY <1>3 DEF ReadCap, ShiftTyped
  <2> QED  BY <1>3, <2>1, <2>2 DEF ReadCap, ShiftTyped, form, rows
<1>4. ASSUME NEW s \in Submissions, Answer(s)
      PROVE  ShiftTyped'
  <2>1. phase' \in [Submissions -> Phases]
    BY <1>4, StepMoves, NoticeMoves DEF Answer, Phases
  <2> QED  BY <1>4, <2>1 DEF Answer, ShiftTyped, form, rows, check
<1>5. ASSUME NEW s \in Submissions, Confirm(s)
      PROVE  ShiftTyped'
  <2>1. phase' \in [Submissions -> Phases]
    BY <1>5, StepMoves DEF Confirm, Phases
  <2> QED  BY <1>5, <2>1 DEF Confirm, ShiftTyped, form, rows, check
<1>6. ASSUME NEW s \in Submissions, Cancel(s) \/ Drop(s)
      PROVE  ShiftTyped'
  <2>1. phase' \in [Submissions -> Phases]
    BY <1>6, StepMoves DEF Cancel, Drop, AfterError, Phases
  <2> QED  BY <1>6, <2>1 DEF Cancel, Drop, ShiftTyped, form, rows, check
<1>7. ASSUME NEW s \in Submissions, Save(s)
      PROVE  ShiftTyped'
  <2>1. Insert(s) /\ NoticeGone(s, "saved")
        /\ UNCHANGED <<payload, lostSaves, cap, seenShifts, seenCap, confirmed>>
    BY <1>7 DEF Save, form, check
  <2>2. phase' \in [Submissions -> Phases]
    BY <2>1, NoticeMoves DEF Phases
  <2> QED  BY <2>1, <2>2, Written DEF ShiftTyped
<1>8. ASSUME NEW s \in Submissions, SaveLost(s)
      PROVE  ShiftTyped'
  <2>1. Insert(s) /\ To(s, AfterError(s))
        /\ UNCHANGED <<payload, cap, seenShifts, seenCap, confirmed>>
        /\ lostSaves' = [lostSaves EXCEPT ![s] = @ + 1]
    BY <1>8 DEF SaveLost, form, check
  <2>2. phase' \in [Submissions -> Phases]
    BY <2>1, StepMoves DEF AfterError, Phases
  <2>3. lostSaves' \in [Submissions -> Nat]
    BY <2>1 DEF ShiftTyped
  <2> QED  BY <2>1, <2>2, <2>3, Written DEF ShiftTyped
<1>9. ASSUME NEW row \in stored, Delete(row)
      PROVE  ShiftTyped'
  <2>1. stored' \subseteq stored /\ IsFiniteSet(stored')
    BY <1>9, FS_Subset DEF Delete, ShiftTyped
  <2>2. disturbed' \subseteq Submissions
    BY <1>9 DEF Delete, Disturb, ShiftTyped
  <2> QED  BY <1>9, <2>1, <2>2 DEF Delete, ShiftTyped, form, check
<1>10. ASSUME NEW c \in Caps, SetCap(c)
       PROVE  ShiftTyped'
  <2>1. disturbed' \subseteq Submissions
    BY <1>10 DEF SetCap, Disturb, ShiftTyped
  <2> QED  BY <1>10, <2>1 DEF SetCap, ShiftTyped, form, rows, check
<1> QED  BY <1>1, <1>2, <1>3, <1>4, <1>5, <1>6, <1>7, <1>8, <1>9, <1>10 DEF ShiftNext

\* One notice and one request for each window.
LEMMA WindowHolds ==
  ASSUME ShiftTyped, OnePerWindow, CheckComesFirst, ShiftNext
  PROVE  OnePerWindow'
<1>1. ASSUME NEW s \in Submissions, ShiftMoves(s)
      PROVE  OnePerWindow'
  <2>1. panel' = panel /\ \A t \in Submissions \ {s} : t \in confirmed' => t \in confirmed
    BY <1>1 DEF ShiftMoves, Submit, ReadShifts, ReadCap, Answer, Confirm, Cancel, Save, SaveLost,
                Drop, form
  <2>2. OthersWait(s)
    BY <1>1, StepMoves, NoticeMoves
       DEF ShiftMoves, Submit, ReadShifts, ReadCap, Answer, Confirm, Cancel, Save, SaveLost, Drop,
           AfterError, Phases
  <2>3. \/ phase'[s] \in AtWork /\ phase[s] \in AtWork
        \/ phase'[s] \in AtWork /\ ~Busy(s)
        \/ phase'[s] \notin AtWork
    BY <1>1, StepMoves, NoticeMoves
       DEF ShiftMoves, Submit, ReadShifts, ReadCap, Answer, Confirm, Cancel, Save, SaveLost, Drop,
           AfterError, Phases, AtWork, Checking, InFlight
  <2>4. phase'[s] = "asked" =>
          \/ \A t \in Submissions \ {s} : panel[t] = panel[s] => phase'[t] # "asked"
          \/ phase[s] = "saving" /\ s \in confirmed
    BY <1>1, StepMoves, NoticeMoves
       DEF ShiftMoves, Submit, ReadShifts, ReadCap, Answer, Confirm, Cancel, Save, SaveLost, Drop,
           AfterError, Phases, Checking, InFlight, CheckComesFirst, Fresh
  <2>5. phase'[s] = "asked" => phase[s] \in AtWork
    BY <1>1, StepMoves, NoticeMoves
       DEF ShiftMoves, Submit, ReadShifts, ReadCap, Answer, Confirm, Cancel, Save, SaveLost, Drop,
           AfterError, Phases, AtWork, Checking, InFlight
  <2>6. phase'[s] = "saving" /\ s \in confirmed' => phase[s] = "asked"
    BY <1>1, StepMoves, NoticeMoves
       DEF ShiftMoves, Submit, ReadShifts, ReadCap, Answer, Confirm, Cancel, Save, SaveLost, Drop,
           AfterError, Phases, Checking, InFlight, CheckComesFirst, Fresh
  <2>7. \A t \in Submissions \ {s} :
          /\ phase'[t] \in AtWork \union {"asked"} => phase'[t] = phase[t]
    BY <2>2 DEF OthersWait, AtWork, Checking, InFlight
  <2>8. \A t \in Submissions \ {s} : ~Busy(s) /\ panel[t] = panel[s] => phase[t] \notin AtWork
    BY DEF Busy, PanelOf, AtWork
  <2> SUFFICES ASSUME NEW t \in Submissions, NEW u \in Submissions, t # u, panel[t] = panel[u]
               PROVE  /\ ~(phase'[t] = "asked" /\ phase'[u] = "asked")
                      /\ phase'[t] \in AtWork => phase'[u] \notin AtWork
                      /\ phase'[t] = "saving" /\ t \in confirmed' => phase'[u] # "asked"
    BY <2>1 DEF OnePerWindow
  <2>9. /\ ~(phase[t] = "asked" /\ phase[u] = "asked")
        /\ phase[t] \in AtWork => phase[u] \notin AtWork
        /\ phase[u] \in AtWork => phase[t] \notin AtWork
        /\ phase[t] = "saving" /\ t \in confirmed => phase[u] # "asked"
        /\ phase[u] = "saving" /\ u \in confirmed => phase[t] # "asked"
    BY DEF OnePerWindow
  <2>10. "saving" \in AtWork /\ "asked" \notin AtWork
    BY DEF AtWork, Checking, InFlight
  <2>11. CASE t = s
    BY <2>3, <2>4, <2>5, <2>6, <2>7, <2>8, <2>9, <2>10, <2>11
  <2>12. CASE u = s
    BY <2>1, <2>3, <2>4, <2>5, <2>6, <2>7, <2>8, <2>9, <2>10, <2>12
  <2>13. CASE t # s /\ u # s
    BY <2>1, <2>7, <2>9, <2>10, <2>13
  <2> QED  BY <2>11, <2>12, <2>13
<1>2. ASSUME UNCHANGED <<panel, phase, confirmed>>
      PROVE  OnePerWindow'
  BY <1>2 DEF OnePerWindow
<1>3. ASSUME (\E row \in stored : Delete(row)) \/ (\E c \in Caps : SetCap(c))
      PROVE  OnePerWindow'
  BY <1>2, <1>3 DEF Delete, SetCap, form
<1> QED  BY <1>1, <1>3 DEF ShiftNext, ShiftMoves

LEMMA ChecksComeFirst ==
  ASSUME ShiftTyped, CheckComesFirst, ShiftNext
  PROVE  CheckComesFirst'
<1>1. ASSUME NEW s \in Submissions, ShiftMoves(s)
      PROVE  CheckComesFirst'
  <2>1. OthersWait(s)
    BY <1>1, StepMoves, NoticeMoves
       DEF ShiftMoves, Submit, ReadShifts, ReadCap, Answer, Confirm, Cancel, Save, SaveLost, Drop,
           AfterError, Phases
  <2>2. phase'[s] \in Fresh => phase[s] \in Fresh
    BY <1>1, StepMoves, NoticeMoves
       DEF ShiftMoves, Submit, ReadShifts, ReadCap, Answer, Confirm, Cancel, Save, SaveLost, Drop,
           AfterError, Phases, Fresh, Checking, InFlight
  <2>3. /\ \A t \in Submissions \ {s} : t \in confirmed' => t \in confirmed
        /\ s \in confirmed' => s \in confirmed \/ phase'[s] \notin Fresh
    BY <1>1, StepMoves
       DEF ShiftMoves, Submit, ReadShifts, ReadCap, Answer, Confirm, Cancel, Save, SaveLost, Drop,
           AfterError, Phases, Fresh, Checking
  <2>4. \A row \in stored' : row \in stored \/ (row[1] = s /\ phase'[s] \notin Fresh)
    <3>1. CASE Save(s)
      BY <3>1, Written, NoticeMoves DEF Save, Phases, Fresh, Checking
    <3>2. CASE SaveLost(s)
      BY <3>2, Written, StepMoves DEF SaveLost, AfterError, Phases, Fresh, Checking
    <3>3. CASE ~Save(s) /\ ~SaveLost(s)
      BY <1>1, <3>3 DEF ShiftMoves, Submit, ReadShifts, ReadCap, Answer, Confirm, Cancel, Drop, rows
    <3> QED  BY <3>1, <3>2, <3>3
  <2>5. \A t \in Submissions : phase'[t] \in Fresh => phase[t] \in Fresh
    BY <2>1, <2>2 DEF OthersWait, Fresh, Checking
  <2>6. confirmed' \subseteq Submissions /\ \A row \in stored : row[1] \in Submissions
    BY ShiftTypedHolds DEF ShiftTyped
  <2> QED  BY <2>3, <2>4, <2>5, <2>6 DEF CheckComesFirst
<1>2. ASSUME phase' = phase, confirmed' = confirmed, stored' \subseteq stored
      PROVE  CheckComesFirst'
  BY <1>2 DEF CheckComesFirst
<1>3. ASSUME (\E row \in stored : Delete(row)) \/ (\E c \in Caps : SetCap(c))
      PROVE  CheckComesFirst'
  BY <1>2, <1>3 DEF Delete, SetCap, rows
<1> QED  BY <1>1, <1>3 DEF ShiftNext, ShiftMoves

LEMMA CountsHold ==
  ASSUME ShiftTyped, SavesCounted, ShiftNext
  PROVE  SavesCounted'
<1> USE DEF SavesCounted
<1>1. ASSUME NEW s \in Submissions, ShiftMoves(s)
      PROVE  SavesCounted'
  <2>1. OthersWait(s)
    BY <1>1, StepMoves, NoticeMoves
       DEF ShiftMoves, Submit, ReadShifts, ReadCap, Answer, Confirm, Cancel, Save, SaveLost, Drop,
           AfterError, Phases
  <2>2. \A t \in Submissions \ {s} : saves'[t] = saves[t] /\ lostSaves'[t] = lostSaves[t]
    BY <1>1, Written
       DEF ShiftMoves, Submit, ReadShifts, ReadCap, Answer, Confirm, Cancel, Save, SaveLost, Drop,
           rows, ShiftTyped
  <2>3. \A t \in Submissions \ {s} : (phase'[t] = "saved") = (phase[t] = "saved")
    BY <2>1 DEF OthersWait
  <2>4. saves[s] \in Nat /\ lostSaves[s] \in Nat
    BY DEF ShiftTyped
  <2>5. saves'[s] = lostSaves'[s] + (IF phase'[s] = "saved" THEN 1 ELSE 0)
    <3>1. CASE Save(s)
      <4>1. saves'[s] = saves[s] + 1 /\ phase'[s] = "saved" /\ lostSaves' = lostSaves
        BY <3>1, Written, NoticeMoves DEF Save, Phases
      <4>2. phase[s] # "saved"
        BY <3>1 DEF Save, InFlight
      <4> QED  BY <2>4, <4>1, <4>2
    <3>2. CASE SaveLost(s)
      <4>1. saves'[s] = saves[s] + 1 /\ phase'[s] # "saved" /\ lostSaves'[s] = lostSaves[s] + 1
        BY <3>2, Written, StepMoves DEF SaveLost, AfterError, Phases, ShiftTyped
      <4>2. phase[s] # "saved"
        BY <3>2 DEF SaveLost, InFlight
      <4> QED  BY <2>4, <4>1, <4>2
    <3>3. CASE ~Save(s) /\ ~SaveLost(s)
      <4>1. saves' = saves /\ lostSaves' = lostSaves
        BY <1>1, <3>3 DEF ShiftMoves, Submit, ReadShifts, ReadCap, Answer, Confirm, Cancel, Drop, rows
      <4>2. phase[s] # "saved" /\ phase'[s] # "saved"
        BY <1>1, <3>3, StepMoves, NoticeMoves
           DEF ShiftMoves, Submit, ReadShifts, ReadCap, Answer, Confirm, Cancel, Drop, AfterError,
               Phases, Checking, InFlight
      <4> QED  BY <4>1, <4>2
    <3> QED  BY <3>1, <3>2, <3>3
  <2> QED  BY <2>2, <2>3, <2>5
<1>2. ASSUME (\E row \in stored : Delete(row)) \/ (\E c \in Caps : SetCap(c))
      PROVE  SavesCounted'
  BY <1>2 DEF Delete, SetCap, rows
<1> QED  BY <1>1, <1>2 DEF ShiftNext, ShiftMoves

\* The rows of the collection, and those a check has read, are shifts.
LEMMA RowsAreShifts ==
  ASSUME ShiftTyped
  PROVE  /\ AreShifts(stored) /\ \A s \in Submissions : AreShifts(seenShifts[s])
         /\ \A s \in Submissions : payload[s] \in Payloads
         /\ cap \in Nat /\ \A s \in Submissions : seenCap[s] \in Nat
<1>1. \A S \in SUBSET (Submissions \X Nat) : \A row \in S : IsShift(row)
  BY DEF IsShift, Shift, ShiftTyped
<1>2. AreShifts(stored) /\ \A s \in Submissions : AreShifts(seenShifts[s])
  <2>1. stored \in SUBSET (Submissions \X Nat) /\ IsFiniteSet(stored)
    BY DEF ShiftTyped
  <2>2. \A s \in Submissions : seenShifts[s] \in SUBSET (Submissions \X Nat) /\ IsFiniteSet(seenShifts[s])
    BY DEF ShiftTyped
  <2> QED  BY <1>1, <2>1, <2>2 DEF AreShifts
<1>3. \A s \in Submissions : payload[s] \in Payloads /\ seenCap[s] \in Caps \union {0}
  BY DEF ShiftTyped
<1>4. cap \in Caps /\ Caps \union {0} \subseteq Nat
  BY CapsArePositive DEF ShiftTyped
<1>5. cap \in Nat /\ \A s \in Submissions : payload[s] \in Payloads /\ seenCap[s] \in Nat
  BY <1>3, <1>4
<1> QED  BY <1>2, <1>5

\* What the check of s answers, of the shifts and the cap it read.
LEMMA AnswerIsRight ==
  ASSUME WeeksCover, ShiftTyped, NEW s \in Submissions, NEW inexact \in BOOLEAN
  PROVE  /\ OverCap(seenShifts[s], s, seenCap[s]) => WouldBreach(seenShifts[s], s, seenCap[s], inexact)
         /\ WouldBreach(seenShifts[s], s, seenCap[s], inexact) => CapReached(seenShifts[s], s, seenCap[s])
BY RowsAreShifts, BreachMeansTheCap

\* A save adds to what reaches the cap.
LEMMA CapStaysReached ==
  ASSUME WeeksCover, ShiftTyped, ShiftTyped', payload' = payload, cap' = cap,
         NEW s \in Submissions, stored \subseteq stored', CapReached(stored, s, cap)
  PROVE  CapReached(stored', s, cap')
<1>1. AreShifts(stored')
  <2>1. stored' \in SUBSET (Submissions \X Nat) /\ IsFiniteSet(stored')
    BY DEF ShiftTyped
  <2>2. \A row \in stored' : IsShift(row)
    BY <2>1 DEF IsShift, Shift, ShiftTyped
  <2> QED  BY <2>1, <2>2 DEF AreShifts
<1>2. payload[s] \in Payloads /\ cap \in Nat
  BY RowsAreShifts
<1> QED  BY <1>1, <1>2, OverCapGrows

\* Being at the cap, or over it, depends on the state through the payloads only.
LEMMA OverCapNext ==
  ASSUME payload' = payload, NEW s \in Submissions
  PROVE  /\ OverCap(stored, s, cap)' <=> OverCap(stored', s, cap')
         /\ CapReached(stored, s, cap)' <=> CapReached(stored', s, cap')
         /\ OverCap(seenShifts[s], s, seenCap[s])' <=> OverCap(seenShifts'[s], s, seenCap'[s])
BY DEF OverCap, CapReached, Worked, Overlap, Shift, Candidate

LEMMA ReadsStayRight ==
  ASSUME WeeksCover, ShiftTyped, CheckComesFirst, ReadsHold, ShiftNext
  PROVE  ReadsHold'
<1>1. ShiftTyped' /\ payload' = payload
  BY ShiftTypedHolds
     DEF ShiftNext, Submit, ReadShifts, ReadCap, Answer, Confirm, Cancel, Save, SaveLost, Drop, Delete,
         SetCap, form
<1>2. SUFFICES ASSUME NEW t \in Submissions, t \notin disturbed'
      PROVE  /\ phase'[t] \in {"readingCap", "read"} => seenShifts'[t] = stored'
             /\ phase'[t] \in {"readingShifts", "read"} => seenCap'[t] = cap'
             /\ phase'[t] = "asked" \/ (phase'[t] \in InFlight /\ t \in confirmed') =>
                  CapReached(stored', t, cap')
             /\ phase'[t] = "saving" /\ t \notin confirmed' => ~OverCap(stored', t, cap')
  BY <1>1, OverCapNext DEF ReadsHold
<1>3. t \notin disturbed
  BY <1>2 DEF ShiftNext, Submit, ReadShifts, ReadCap, Answer, Confirm, Cancel, Save, SaveLost, Drop,
              Delete, SetCap, Insert, Disturb
<1>4. /\ phase[t] \in {"readingCap", "read"} => seenShifts[t] = stored
      /\ phase[t] \in {"readingShifts", "read"} => seenCap[t] = cap
      /\ phase[t] = "asked" \/ (phase[t] \in InFlight /\ t \in confirmed) => CapReached(stored, t, cap)
      /\ phase[t] = "saving" /\ t \notin confirmed => ~OverCap(stored, t, cap)
  BY <1>3 DEF ReadsHold
<1>5. t \in confirmed => phase[t] \notin Fresh
  BY DEF CheckComesFirst
<1> DEFINE Goal == /\ phase'[t] \in {"readingCap", "read"} => seenShifts'[t] = stored'
                   /\ phase'[t] \in {"readingShifts", "read"} => seenCap'[t] = cap'
                   /\ phase'[t] = "asked" \/ (phase'[t] \in InFlight /\ t \in confirmed') =>
                        CapReached(stored', t, cap')
                   /\ phase'[t] = "saving" /\ t \notin confirmed' => ~OverCap(stored', t, cap')
<1> SUFFICES Goal
  OBVIOUS
\* Who waits for nothing has nothing to lose.
<1>6. ASSUME phase'[t] \notin AtWork \union {"asked"}
      PROVE  Goal
  BY <1>6 DEF AtWork, Checking, InFlight
\* A step of another that writes nothing.
<1>7. ASSUME UNCHANGED <<stored, cap>>, seenShifts'[t] = seenShifts[t], seenCap'[t] = seenCap[t],
             t \in confirmed' <=> t \in confirmed, phase'[t] = phase[t] \/ phase'[t] = "dropped"
      PROVE  Goal
  <2>1. /\ OverCap(stored', t, cap') <=> OverCap(stored, t, cap)
        /\ CapReached(stored', t, cap') <=> CapReached(stored, t, cap)
    BY <1>1, <1>7 DEF OverCap, CapReached, Worked, Overlap, Shift, Candidate
  <2> QED  BY <1>4, <1>7, <2>1 DEF InFlight
<1>8. ASSUME (\E row \in stored : Delete(row)) \/ (\E c \in Caps : SetCap(c))
      PROVE  Goal
  <2>1. phase' = phase /\ phase[t] \notin AtWork \union {"asked"}
    BY <1>2, <1>8 DEF Delete, SetCap, Disturb, AtWork
  <2> QED  BY <1>6, <2>1
<1>9. ASSUME NEW s \in Submissions, ShiftMoves(s)
      PROVE  Goal
  <2>1. OthersWait(s)
    BY <1>9, StepMoves, NoticeMoves
       DEF ShiftMoves, Submit, ReadShifts, ReadCap, Answer, Confirm, Cancel, Save, SaveLost, Drop,
           AfterError, Phases
  <2>2. ASSUME t # s, Save(s) \/ SaveLost(s)
        PROVE  Goal
    <3>1. phase[t] \notin AtWork \union {"asked"}
      BY <1>2, <2>2, Written DEF Save, SaveLost
    <3>2. phase'[t] \notin AtWork \union {"asked"}
      BY <2>1, <2>2, <3>1 DEF OthersWait, AtWork, Checking, InFlight
    <3> QED  BY <1>6, <3>2
  <2>3. ASSUME t # s, ~Save(s), ~SaveLost(s)
        PROVE  Goal
    <3>1. /\ UNCHANGED <<stored, cap>> /\ seenShifts'[t] = seenShifts[t] /\ seenCap'[t] = seenCap[t]
          /\ t \in confirmed' <=> t \in confirmed
      BY <1>9, <2>3
         DEF ShiftMoves, Submit, ReadShifts, ReadCap, Answer, Confirm, Cancel, Drop, rows, check, ShiftTyped
    <3>2. phase'[t] = phase[t] \/ phase'[t] = "dropped"
      BY <2>1, <2>3 DEF OthersWait
    <3> QED  BY <1>7, <3>1, <3>2
  <2>4. ASSUME t = s, Submit(t)
        PROVE  Goal
    BY <2>4, StepMoves DEF Submit, Phases, InFlight
  <2>5. ASSUME t = s, ReadShifts(t)
        PROVE  Goal
    <3>1. /\ phase'[t] = IF phase[t] = "reading" THEN "readingCap" ELSE "read"
          /\ phase[t] \in {"reading", "readingShifts"} /\ seenShifts'[t] = stored
          /\ UNCHANGED <<stored, cap, seenCap>>
      BY <2>5, StepMoves DEF ReadShifts, Phases, rows, ShiftTyped
    <3> QED  BY <1>4, <3>1 DEF InFlight
  <2>6. ASSUME t = s, ReadCap(t)
        PROVE  Goal
    <3>1. /\ phase'[t] = IF phase[t] = "reading" THEN "readingShifts" ELSE "read"
          /\ phase[t] \in {"reading", "readingCap"} /\ seenCap'[t] = cap
          /\ UNCHANGED <<stored, cap, seenShifts>>
      BY <2>6, StepMoves DEF ReadCap, Phases, rows, ShiftTyped
    <3> QED  BY <1>4, <3>1 DEF InFlight
  <2>7. ASSUME t = s, Answer(t)
        PROVE  Goal
    <3>1. PICK inexact \in BOOLEAN :
            /\ phase'[t] = IF WouldBreach(seenShifts[t], t, seenCap[t], inexact) THEN "asked" ELSE "saving"
            /\ phase[t] = "read" /\ UNCHANGED <<stored, cap, confirmed>>
      BY <2>7, StepMoves, NoticeMoves DEF Answer, Phases, rows
    <3>2. /\ OverCap(stored, t, cap) => WouldBreach(seenShifts[t], t, seenCap[t], inexact)
          /\ WouldBreach(seenShifts[t], t, seenCap[t], inexact) => CapReached(stored, t, cap)
      BY <1>4, <3>1, AnswerIsRight
    <3>3. /\ OverCap(stored', t, cap') <=> OverCap(stored, t, cap)
          /\ CapReached(stored', t, cap') <=> CapReached(stored, t, cap)
      BY <1>1, <3>1 DEF OverCap, CapReached, Worked, Overlap, Shift, Candidate
    <3>4. t \notin confirmed
      BY <1>5, <3>1 DEF Fresh, Checking
    <3> QED  BY <3>1, <3>2, <3>3, <3>4 DEF InFlight
  <2>8. ASSUME t = s, Confirm(t) \/ Cancel(t) \/ Drop(t)
        PROVE  Goal
    <3>1. /\ UNCHANGED <<stored, cap>>
          /\ phase'[t] = "asked" \/ phase'[t] \in InFlight =>
               /\ phase[t] = "asked" \/ (phase[t] \in InFlight /\ t \in confirmed)
               /\ t \in confirmed' \/ phase'[t] = "asked"
      BY <1>5, <2>8, StepMoves
         DEF Confirm, Cancel, Drop, AfterError, Phases, InFlight, Checking, Fresh, rows
    <3>2. phase'[t] \notin Checking
      BY <2>8, StepMoves DEF Confirm, Cancel, Drop, AfterError, Phases, Checking
    <3>3. /\ OverCap(stored', t, cap') <=> OverCap(stored, t, cap)
          /\ CapReached(stored', t, cap') <=> CapReached(stored, t, cap)
      BY <1>1, <3>1 DEF OverCap, CapReached, Worked, Overlap, Shift, Candidate
    <3> QED  BY <1>4, <3>1, <3>2, <3>3 DEF InFlight, Checking
  <2>9. ASSUME t = s, Save(t)
        PROVE  Goal
    <3>1. phase'[t] = "saved"
      BY <2>9, NoticeMoves DEF Save, Phases
    <3> QED  BY <3>1 DEF InFlight
  <2>10. ASSUME t = s, SaveLost(t)
         PROVE  Goal
    <3>1. /\ stored \subseteq stored' /\ cap' = cap /\ phase[t] \in InFlight
          /\ phase'[t] = "dropped" \/ (phase'[t] = "asked" /\ t \in confirmed)
      BY <2>10, StepMoves, Written DEF SaveLost, AfterError, Phases
    <3>2. t \in confirmed => CapReached(stored', t, cap')
      BY <1>1, <1>4, <3>1, CapStaysReached
    <3> QED  BY <3>1, <3>2 DEF InFlight
  <2> HIDE DEF Goal
  <2> QED  BY <1>9, <2>2, <2>3, <2>4, <2>5, <2>6, <2>7, <2>8, <2>9, <2>10 DEF ShiftMoves
<1> HIDE DEF Goal
<1> QED  BY <1>8, <1>9 DEF ShiftNext, ShiftMoves

LEMMA KnowinglyHolds ==
  ASSUME WeeksCover, ShiftTyped, CheckComesFirst, SavedKnowingly, ShiftNext
  PROVE  SavedKnowingly'
<1>1. ShiftTyped' /\ payload' = payload
  BY ShiftTypedHolds
     DEF ShiftNext, Submit, ReadShifts, ReadCap, Answer, Confirm, Cancel, Save, SaveLost, Drop, Delete,
         SetCap, form
<1>2. SUFFICES ASSUME NEW t \in Submissions,
                      phase'[t] \in InFlight \/ (\E row \in stored' : row[1] = t),
                      OverCap(seenShifts'[t], t, seenCap'[t])
               PROVE  t \in confirmed'
  BY <1>1, OverCapNext DEF SavedKnowingly
<1>3. confirmed \subseteq confirmed'
  BY DEF ShiftNext, Submit, ReadShifts, ReadCap, Answer, Confirm, Cancel, Save, SaveLost, Drop, Delete,
         SetCap
<1>4. ASSUME seenShifts'[t] = seenShifts[t], seenCap'[t] = seenCap[t],
             phase[t] \in InFlight \/ (\E row \in stored : row[1] = t)
      PROVE  t \in confirmed'
  <2>1. OverCap(seenShifts[t], t, seenCap[t])
    BY <1>1, <1>2, <1>4 DEF OverCap, Worked, Overlap, Shift, Candidate
  <2> QED  BY <1>3, <1>4, <2>1 DEF SavedKnowingly
<1>5. ASSUME (\E row \in stored : Delete(row)) \/ (\E c \in Caps : SetCap(c))
      PROVE  t \in confirmed'
  BY <1>2, <1>4, <1>5 DEF Delete, SetCap, check, rows
<1>6. ASSUME NEW s \in Submissions, ShiftMoves(s)
      PROVE  t \in confirmed'
  <2>1. OthersWait(s)
    BY <1>6, StepMoves, NoticeMoves
       DEF ShiftMoves, Submit, ReadShifts, ReadCap, Answer, Confirm, Cancel, Save, SaveLost, Drop,
           AfterError, Phases
  <2>2. \A row \in stored' : row \in stored \/ (row[1] = s /\ phase[s] \in InFlight)
    BY <1>6, Written
       DEF ShiftMoves, Submit, ReadShifts, ReadCap, Answer, Confirm, Cancel, Save, SaveLost, Drop, rows
  <2>3. CASE t # s
    <3>1. seenShifts'[t] = seenShifts[t] /\ seenCap'[t] = seenCap[t]
      BY <1>6, <2>3
         DEF ShiftMoves, Submit, ReadShifts, ReadCap, Answer, Confirm, Cancel, Save, SaveLost, Drop,
             check, ShiftTyped
    <3>2. phase'[t] \in InFlight => phase[t] \in InFlight
      BY <2>1, <2>3 DEF OthersWait, InFlight
    <3> QED  BY <1>2, <1>4, <2>2, <2>3, <3>1, <3>2
  <2>4. CASE t = s /\ Answer(t)
    <3>1. PICK inexact \in BOOLEAN :
            /\ phase'[t] = IF WouldBreach(seenShifts[t], t, seenCap[t], inexact) THEN "asked" ELSE "saving"
            /\ phase[t] = "read" /\ UNCHANGED <<stored, seenShifts, seenCap>>
      BY <2>4, StepMoves, NoticeMoves DEF Answer, Phases, rows, check
    <3>2. \A row \in stored' : row[1] # t
      BY <3>1 DEF CheckComesFirst, Fresh, Checking
    <3>3. ~WouldBreach(seenShifts[t], t, seenCap[t], inexact)
      BY <1>2, <3>1, <3>2 DEF InFlight
    <3>4. ~OverCap(seenShifts'[t], t, seenCap'[t])
      <4>1. ~OverCap(seenShifts[t], t, seenCap[t])
        BY <3>3, AnswerIsRight
      <4> QED  BY <1>1, <3>1, <4>1 DEF OverCap, Worked, Overlap, Shift, Candidate
    <3> QED  BY <1>2, <3>4
  <2>5. CASE t = s /\ (Submit(t) \/ ReadShifts(t) \/ ReadCap(t))
    <3>1. phase[t] \in Fresh /\ stored' = stored /\ phase'[t] \notin InFlight
      BY <2>5, StepMoves DEF Submit, ReadShifts, ReadCap, Phases, rows, Fresh, Checking, InFlight
    <3> QED  BY <1>2, <3>1 DEF CheckComesFirst
  <2>6. CASE t = s /\ Confirm(t)
    BY <2>6 DEF Confirm
  <2>7. CASE t = s /\ (Cancel(t) \/ Save(t) \/ SaveLost(t) \/ Drop(t))
    <3>1. /\ seenShifts' = seenShifts /\ seenCap' = seenCap
          /\ phase'[t] \in InFlight => phase[t] \in InFlight
      BY <2>7, StepMoves, NoticeMoves DEF Cancel, Save, SaveLost, Drop, AfterError, Phases, InFlight, check
    <3> QED  BY <1>2, <1>4, <2>2, <2>7, <3>1
  <2> QED  BY <1>6, <2>3, <2>4, <2>5, <2>6, <2>7 DEF ShiftMoves
<1> QED  BY <1>5, <1>6 DEF ShiftNext, ShiftMoves

LEMMA ShiftStart == ShiftInit => ShiftInv
<1> SUFFICES ASSUME ShiftInit PROVE ShiftInv
  OBVIOUS
<1>1. ShiftTyped
  BY FS_EmptySet, CapsArePositive DEF ShiftInit, ShiftTyped, Phases
<1>2. \A s \in Submissions : phase[s] = "form"
  BY DEF ShiftInit
<1>3. OnePerWindow /\ CheckComesFirst
  BY <1>2 DEF OnePerWindow, CheckComesFirst, AtWork, Checking, InFlight, ShiftInit
<1>4. ReadsHold /\ SavedKnowingly
  BY <1>2 DEF ReadsHold, SavedKnowingly, InFlight, ShiftInit
<1>5. SavesCounted
  BY <1>2 DEF SavesCounted, ShiftInit
<1> QED  BY <1>1, <1>3, <1>4, <1>5 DEF ShiftInv

LEMMA ShiftStep == WeeksCover /\ ShiftInv /\ [ShiftNext]_shiftVars => ShiftInv'
<1> SUFFICES ASSUME WeeksCover, ShiftInv, [ShiftNext]_shiftVars PROVE ShiftInv'
  OBVIOUS
<1>1. ASSUME ShiftNext PROVE ShiftInv'
  BY <1>1, ShiftTypedHolds, WindowHolds, ChecksComeFirst, ReadsStayRight, KnowinglyHolds, CountsHold DEF ShiftInv
<1>2. ASSUME UNCHANGED shiftVars PROVE ShiftInv'
  <2>1. /\ UNCHANGED <<payload, panel, phase, stored, saves, lostSaves>>
        /\ UNCHANGED <<cap, seenShifts, seenCap, confirmed, disturbed>>
    BY <1>2 DEF shiftVars, form, rows, check
  <2>2. ShiftTyped' /\ OnePerWindow' /\ CheckComesFirst' /\ SavesCounted'
    BY <2>1 DEF ShiftInv, ShiftTyped, OnePerWindow, CheckComesFirst, SavesCounted
  <2>3. ReadsHold' /\ SavedKnowingly'
    <3>1. \A s \in Submissions :
            /\ OverCap(stored, s, cap)' <=> OverCap(stored, s, cap)
            /\ CapReached(stored, s, cap)' <=> CapReached(stored, s, cap)
            /\ OverCap(seenShifts[s], s, seenCap[s])' <=> OverCap(seenShifts[s], s, seenCap[s])
      BY <2>1 DEF OverCap, CapReached, Worked, Overlap, Shift, Candidate
    <3> QED  BY <2>1, <3>1 DEF ShiftInv, ReadsHold, SavedKnowingly
  <2> QED  BY <2>2, <2>3 DEF ShiftInv
<1> QED  BY <1>1, <1>2

\* Types and windows hold in every calendar.
ShiftTypes == ShiftTyped /\ OnePerWindow /\ CheckComesFirst

LEMMA ShiftTypesHold ==
  /\ ShiftInit => ShiftTypes
  /\ ShiftTypes /\ [ShiftNext]_shiftVars => ShiftTypes'
  /\ ShiftTypes => ShiftTypeOK
<1>1. ShiftInit => ShiftTypes
  BY ShiftStart DEF ShiftInv, ShiftTypes
<1>2. ASSUME ShiftTypes, [ShiftNext]_shiftVars
      PROVE  ShiftTypes'
  <2>1. ASSUME ShiftNext PROVE ShiftTypes'
    BY <1>2, <2>1, ShiftTypedHolds, WindowHolds, ChecksComeFirst DEF ShiftTypes
  <2>2. ASSUME UNCHANGED shiftVars PROVE ShiftTypes'
    BY <1>2, <2>2 DEF ShiftTypes, ShiftTyped, OnePerWindow, CheckComesFirst, shiftVars, form, rows, check
  <2> QED  BY <1>2, <2>1, <2>2
<1>3. ShiftTypes => ShiftTypeOK
  BY DEF ShiftTypes, ShiftTyped, OnePerWindow, ShiftTypeOK, AtWork
<1> QED  BY <1>1, <1>2, <1>3

\* While no answer of a save is lost there is one row of each shift.
LEMMA OneRowOfEach ==
  ASSUME ShiftInv, \A s \in Submissions : lostSaves[s] = 0
  PROVE  \A x, y \in stored : x[1] = y[1] => x = y
<1>1. \A s \in Submissions : saves[s] = 0 \/ saves[s] = 1
  BY DEF ShiftInv, SavesCounted
<1>2. \A x \in stored : x[1] \in Submissions /\ x[2] \in 1 .. saves[x[1]]
  BY DEF ShiftInv, ShiftTyped
<1>3. \A x \in stored : x[2] = 1
  BY <1>1, <1>2
<1>4. \A x, y \in Submissions \X Nat : x[1] = y[1] /\ x[2] = y[2] => x = y
  OBVIOUS
<1>5. stored \subseteq Submissions \X Nat
  BY DEF ShiftInv, ShiftTyped
<1> QED  BY <1>3, <1>4, <1>5

\* Then the rows add up to what the shifts that were logged do.
LEMMA LoggedOnce ==
  ASSUME WeeksCover, ShiftInv, \A s \in Submissions : lostSaves[s] = 0,
         NEW w \in Mondays, NEW onCampus \in BOOLEAN
  PROVE  Worked(stored, w, onCampus) = Worked(Logged(stored), w, onCampus)
<1> DEFINE R == {r \in stored : Shift(r).onCampus = onCampus}
           L == {r \in Logged(stored) : Shift(r).onCampus = onCampus}
           f == [row \in R |-> Overlap(row, w)]
           g == [row \in L |-> Overlap(row, w)]
           b == [row \in R |-> Candidate(row[1])]
<1>1. AreShifts(stored)
  BY RowsAreShifts DEF ShiftInv
<1>2. IsFiniteSet(R) /\ \A r \in R : f[r] \in Nat
  BY <1>1, FS_Subset, OverlapIs DEF AreShifts
<1>3. \A r \in stored : Shift(Candidate(r[1])) = Shift(r)
  BY DEF Shift, Candidate
<1>4. \A r \in stored : Overlap(Candidate(r[1]), w) = Overlap(r, w)
  BY <1>3 DEF Overlap
<1>5. {b[r] : r \in R} = L
  BY <1>3 DEF Logged
<1>6. \A r \in R : f[r] \in Nat /\ g[b[r]] = f[r]
  <2> SUFFICES ASSUME NEW r \in R PROVE g[b[r]] = f[r]
    BY <1>2
  <2>1. b[r] = Candidate(r[1]) /\ b[r] \in L
    BY <1>3 DEF Logged
  <2> QED  BY <1>4, <2>1
<1>7. \A x, y \in R : b[x] = b[y] => x = y
  <2>1. \A x, y \in R : Candidate(x[1]) = Candidate(y[1]) => x[1] = y[1]
    BY DEF Candidate
  <2> QED  BY <2>1, OneRowOfEach
<1>8. Worked(stored, w, onCampus) = SumFunctionOnSet(f, R)
      /\ Worked(Logged(stored), w, onCampus) = SumFunctionOnSet(g, L)
  BY DEF Worked, SumFunction
<1> HIDE DEF R, L, f, g, b
<1>9. SumFunctionOnSet(g, {b[r] : r \in R}) = SumFunctionOnSet(f, R)
  BY <1>2, <1>6, <1>7, SumRenamed
<1> QED  BY <1>5, <1>8, <1>9

\* FR-1 and FR-2, for every set of shifts, every calendar with regular weeks and
\* every length of a week: the usage weeklyUsage reports is what was worked, as
\* near as it is rounded, and its breach never misses hours over the cap.
THEOREM UsageIsRight ==
  ASSUME WeeksCover
  PROVE  ShiftSpec => []UsageIsWhatWasWorked
<1>1. ShiftInv => UsageIsWhatWasWorked
  <2> SUFFICES ASSUME ShiftInv PROVE UsageIsWhatWasWorked
    OBVIOUS
  <2>1. AreShifts(stored) /\ cap \in Nat
    BY RowsAreShifts DEF ShiftInv
  <2>2. (\A s \in Submissions : lostSaves[s] = 0) =>
          \A w \in Mondays : /\ Worked(stored, w, FALSE) = Worked(Logged(stored), w, FALSE)
                             /\ Worked(stored, w, TRUE) = Worked(Logged(stored), w, TRUE)
    BY LoggedOnce
  <2> QED  BY <2>1, <2>2, UsageOf DEF UsageIsWhatWasWorked
<1>2. ShiftInit => ShiftInv
  BY ShiftStart
<1>3. ShiftInv /\ [ShiftNext]_shiftVars => ShiftInv'
  BY ShiftStep
<1> QED  BY <1>1, <1>2, <1>3, PTL DEF ShiftSpec

\* FR-3: while nobody else writes, a shift that puts a week it touches over the cap
\* is asked about, and none that leaves them all below it.
THEOREM CheckIsRight ==
  ASSUME WeeksCover
  PROVE  ShiftSpec => []CheckKeepsTheCap
<1>1. ShiftInv => CheckKeepsTheCap
  BY DEF ShiftInv, ReadsHold, CheckKeepsTheCap
<1>2. ShiftInit => ShiftInv
  BY ShiftStart
<1>3. ShiftInv /\ [ShiftNext]_shiftVars => ShiftInv'
  BY ShiftStep
<1> QED  BY <1>1, <1>2, <1>3, PTL DEF ShiftSpec

\* Whatever the windows do, and whatever answer is lost: a breach is stored after
\* a confirmation only, and nothing twice but where an answer was lost.
THEOREM NothingUnknown ==
  ASSUME WeeksCover
  PROVE  ShiftSpec => []StoredKnowingly
<1>1. ShiftInv => StoredKnowingly
  <2> SUFFICES ASSUME ShiftInv PROVE StoredKnowingly
    OBVIOUS
  <2>1. BreachNeedsConfirmation
    <3>1. \A row \in stored : row[1] \in Submissions
      BY DEF ShiftInv, ShiftTyped
    <3> QED  BY <3>1 DEF ShiftInv, SavedKnowingly, BreachNeedsConfirmation
  <2>2. RowsAreExplained
    <3>1. \A s \in Submissions : /\ saves[s] \in Nat /\ lostSaves[s] \in Nat
                                 /\ saves[s] = lostSaves[s] + (IF phase[s] = "saved" THEN 1 ELSE 0)
      BY DEF ShiftInv, ShiftTyped, SavesCounted
    <3>2. \A s \in Submissions : saves[s] <= 1 + lostSaves[s]
      BY <3>1
    <3> QED  BY <3>2 DEF RowsAreExplained
  <2> QED  BY <2>1, <2>2 DEF StoredKnowingly
<1>2. ShiftInit => ShiftInv
  BY ShiftStart
<1>3. ShiftInv /\ [ShiftNext]_shiftVars => ShiftInv'
  BY ShiftStep
<1> QED  BY <1>1, <1>2, <1>3, PTL DEF ShiftSpec

(***************************************************************************)
(* Side by side. A step is a step of one part, and the others stand; an    *)
(* account that does not run keeps the state it was given.                 *)
(***************************************************************************)
PartsInv ==
  (IF part = "account" THEN AccountsInv ELSE NoAccount) /\ ShiftTypes /\ SetupInv

\* Every variable keeps its range, one row holds one email, and one notice and
\* one request belong to a window (the routes of auth, profile and workhours,
\* the pages that call them).
THEOREM DataIsTyped == Spec => []TypeOK
<1>1. Init => PartsInv
  BY AccountsInitially, ShiftTypesHold, SetupInitially DEF Init, PartsInv
<1>2. PartsInv /\ [Next]_allVars => PartsInv'
  <2> SUFFICES ASSUME PartsInv, [Next]_allVars PROVE PartsInv'
    OBVIOUS
  <2>1. /\ part' = part /\ [ShiftNext]_shiftVars /\ [SetupNext]_setupVars
        /\ IF part = "account" THEN [AccountsNext]_accountVars ELSE UNCHANGED accountVars
    BY DEF Next, allVars
  <2>2. ShiftTypes' /\ SetupInv'
    BY <2>1, ShiftTypesHold, SetupStep DEF PartsInv
  <2>3. CASE part = "account"
    BY <2>1, <2>2, <2>3, AccountsStep DEF PartsInv
  <2>4. CASE part # "account"
    BY <2>1, <2>2, <2>4 DEF PartsInv, NoAccount, accountVars, inputs
  <2> QED  BY <2>3, <2>4
<1>3. PartsInv => TypeOK
  <2>1. NoAccount => AccountsTypeOK
    <3> SUFFICES ASSUME NoAccount PROVE AccountsTypeOK
      OBVIOUS
    <3>1. Cardinality(users) <= 1
      BY FS_EmptySet DEF NoAccount
    <3>2. ask \in [Requests -> Asks]
      BY DEF NoAccount, Asks
    <3>3. seen \in [Requests -> SUBSET Rows]
      BY DEF NoAccount
    <3> QED  BY <3>1, <3>2, <3>3 DEF NoAccount, AccountsTypeOK
  <2> QED  BY <2>1, AccountTypes, ShiftTypesHold DEF PartsInv, SetupInv, TypeOK
<1> QED  BY <1>1, <1>2, <1>3, PTL DEF Spec
=============================================================================
