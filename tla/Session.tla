------------------------------ MODULE Session ------------------------------
(***************************************************************************)
(* The session of one browser: the token its tabs share in localStorage    *)
(* (web/src/lib/apollo.ts, session.ts), the pages that guard themselves    *)
(* with it (useProfile.ts), signing in, up and out, saving the profile,    *)
(* and the query cache each tab keeps until its next full load.            *)
(*                                                                         *)
(* A token is <<student, n>>, the student's nth.  Requests carry the token *)
(* stored when they are sent; a soft navigation leaves them in flight, and *)
(* what follows their answers still happens, but for the state of a page   *)
(* that is gone.  "login" stands for the sign-in and sign-up pages, "app"  *)
(* for the dashboard and the profile page.                                 *)
(***************************************************************************)
EXTENDS Naturals, FiniteSets

CONSTANTS Students, Tabs, NoOne,
          Onboarded,     \* students who finished setup before
          MaxRequests,   \* bound: requests of a tab in flight
          MaxEvents      \* bound: clicks, visits, failures and expiries

ASSUME Fresh == NoOne \notin Students /\ Onboarded \subseteq Students /\ MaxEvents \in Nat

VARIABLES
  token,             \* localStorage: <<student, n>>, or None
  issued, dead,      \* tokens issued to a student, and how many have expired
  onboarded,
  profile,           \* profile[s]: whose details the account of s holds
  page, status,      \* the tab's page, and what it shows of it
  shown,             \* the profile a guarded page was given
  cache,             \* whose dashboard the tab's Apollo cache holds
  reqs,              \* the tab's requests in flight
  overtaken,         \* history: signed in elsewhere since the page asked who is
  tainted,           \* history: that, or a soft end, since the last full load
  crossed,           \* history: a page overtaken so has sent details
  budget

account == <<issued, dead, onboarded, profile>>
history == <<overtaken, tainted, crossed>>
vars == <<token, account, page, status, shown, cache, reqs, history, budget>>

None == <<NoOne, 0>>
Owner(tok) == tok[1]
Valid(tok) == tok # None /\ tok[2] > dead[tok[1]]

Spend == budget > 0 /\ budget' = budget - 1

Request(kind, who) == [kind |-> kind, sent |-> token, who |-> who, live |-> TRUE]
Orphans(t) == {[r EXCEPT !.live = FALSE] : r \in reqs[t]}
Room(t) == Cardinality(reqs[t]) < MaxRequests

(***************************************************************************)
(* A page mounts: login asks who is signed in if anyone is; a guarded page *)
(* does too, and without a token moves to login.  keep are the requests    *)
(* that stay in flight, tok is the token stored, soft whether the tab's    *)
(* memory stays, ended whether a session ended there.                      *)
(***************************************************************************)
Ask(p, tok) == [kind |-> IF p = "login" THEN "peek" ELSE p, sent |-> tok, who |-> NoOne, live |-> TRUE]

\* (defect: the profile lives above the pages and is kept)
MountKeeping(t, p, keep, tok, soft, ended) ==
  LET to == IF tok = None THEN "login" ELSE p
      known == soft /\ shown[t] # NoOne
  IN /\ page' = [page EXCEPT ![t] = to]
     /\ status' = [status EXCEPT ![t] = IF to = "login" THEN "form" ELSE IF known THEN "ready" ELSE "loading"]
     /\ shown' = [shown EXCEPT ![t] = IF known THEN @ ELSE NoOne]
     /\ reqs' = [reqs EXCEPT ![t] = IF tok = None THEN keep ELSE keep \union {Ask(to, tok)}]
     /\ cache' = IF soft THEN cache ELSE [cache EXCEPT ![t] = NoOne]
     /\ overtaken' = [overtaken EXCEPT ![t] = FALSE]
     /\ tainted' = [tainted EXCEPT ![t] = soft /\ (@ \/ ended \/ to # p)]
Mount(t, p, keep, tok, soft, ended) ==
  LET to == IF tok = None THEN "login" ELSE p
  IN /\ page' = [page EXCEPT ![t] = to]
     /\ status' = [status EXCEPT ![t] = IF to = "login" THEN "form" ELSE "loading"]
     /\ shown' = [shown EXCEPT ![t] = NoOne]
     /\ reqs' = [reqs EXCEPT ![t] = IF tok = None THEN keep ELSE keep \union {Ask(to, tok)}]
     /\ cache' = IF soft THEN cache ELSE [cache EXCEPT ![t] = NoOne]
     /\ overtaken' = [overtaken EXCEPT ![t] = FALSE]
     /\ tainted' = [tainted EXCEPT ![t] = soft /\ (@ \/ ended \/ to # p)]

\* The requests left in flight when a page is left, those in done answered.
Others(t, done) == {[q EXCEPT !.live = FALSE] : q \in reqs[t] \ done}

\* router.replace, and a full navigation, which drops memory and requests.
Replace(t, p, r, tok) == Mount(t, p, Others(t, {r}), tok, TRUE, p = "login")
Load(t, p, tok) == Mount(t, p, {}, tok, FALSE, FALSE)

\* signOut.
\* (defect: router.push instead of a full navigation)
PushSignOut(t) == token' = None /\ Mount(t, "login", Others(t, {}), None, TRUE, FALSE)
SignOutOf(t) == token' = None /\ Load(t, "login", None)

\* Where a student who is signed in belongs.
Home(s) == IF s \in onboarded THEN "app" ELSE "setup"

(***************************************************************************)
(* What the tab does on a click or a visit.                                *)
(***************************************************************************)
Send(t, r) == reqs' = [reqs EXCEPT ![t] = @ \union {r}]

Visit(t) ==
  /\ Spend
  /\ \E p \in {"login", "app"} : Load(t, p, token)
  /\ UNCHANGED <<token, account, crossed>>

\* A Link of the shell: the next page loads the profile again.
Link(t) ==
  /\ page[t] = "app" /\ status[t] = "ready" /\ Room(t) /\ Spend
  /\ Mount(t, "app", Others(t, {}), token, TRUE, FALSE)
  /\ UNCHANGED <<token, account, crossed>>

\* The button of a profile that could not be loaded.
Reload(t) ==
  /\ status[t] = "error"
  /\ IF token = None THEN Mount(t, "app", Others(t, {}), None, TRUE, FALSE)
     ELSE /\ status' = [status EXCEPT ![t] = "loading"]
          /\ Send(t, Ask(page[t], token))
          /\ overtaken' = [overtaken EXCEPT ![t] = FALSE]
          /\ UNCHANGED <<page, shown, cache, tainted>>
  /\ UNCHANGED <<token, account, crossed, budget>>

SignOut(t) ==
  /\ status[t] = "ready" /\ Spend
  /\ SignOutOf(t)
  /\ UNCHANGED <<account, crossed>>

\* submit of the sign-in page, and of the sign-up page.
Submit(t, kind) ==
  /\ page[t] = "login" /\ status[t] = "form" /\ Room(t) /\ Spend
  /\ \E s \in Students : Send(t, Request(kind, s))
  /\ status' = [status EXCEPT ![t] = "busy"]
  /\ UNCHANGED <<token, account, page, shown, cache, history>>

SignIn(t) == Submit(t, "signin")
SignUp(t) == Submit(t, "register")

\* The profile form, filled with what the page was given.
Save(t) ==
  /\ page[t] = "app" /\ status[t] = "ready" /\ Room(t) /\ Spend
  /\ Send(t, Request("save", shown[t]))
  /\ crossed' = (crossed \/ overtaken[t])
  /\ UNCHANGED <<token, account, page, status, shown, cache, overtaken, tainted>>

\* The last step of setup.
Finish(t) ==
  /\ page[t] = "setup" /\ status[t] = "ready" /\ Room(t) /\ Spend
  /\ Send(t, Request("finish", shown[t]))
  /\ crossed' = (crossed \/ overtaken[t])
  /\ UNCHANGED <<token, account, page, status, shown, cache, overtaken, tainted>>

(***************************************************************************)
(* Answers.  The server's verdict is taken as the answer arrives: a token  *)
(* that has expired stays so.                                              *)
(***************************************************************************)
Done(t, r) == reqs' = [reqs EXCEPT ![t] = @ \ {r}]
Show(t, r, st) == status' = [status EXCEPT ![t] = IF r.live THEN st ELSE @]
SamePlace == UNCHANGED <<page, shown, cache, history>>

\* useRequireProfile: not set up yet, or ready, or refused.
Profile(t, r) ==
  /\ r.kind \in {"app", "setup"} /\ Valid(r.sent)
  /\ LET s == Owner(r.sent)
     IN IF r.kind # Home(s) /\ (r.kind = "app" \/ r.live)
        THEN Replace(t, Home(s), r, token)
        ELSE /\ Show(t, r, "ready")
             /\ shown' = IF r.live THEN [shown EXCEPT ![t] = s] ELSE shown
             /\ reqs' = [reqs EXCEPT ![t] = (@ \ {r}) \union
                           (IF r.live /\ r.kind = "app" THEN {Request("query", NoOne)} ELSE {})]
             /\ UNCHANGED <<page, cache, overtaken, tainted>>
  /\ UNCHANGED <<token, account, crossed, budget>>

ProfileRefused(t, r) ==
  /\ r.kind \in {"app", "setup"} /\ ~Valid(r.sent)
  /\ token' = None
  /\ Replace(t, "login", r, None)
  /\ UNCHANGED <<account, crossed, budget>>

\* The sign-in page's question who is signed in already.
Peeked(t, r) ==
  /\ r.kind \in {"peek", "welcome"} /\ Valid(r.sent)
  /\ Replace(t, Home(Owner(r.sent)), r, token)
  /\ UNCHANGED <<token, account, crossed, budget>>

PeekRefused(t, r) ==
  /\ r.kind \in {"peek", "welcome"} /\ ~Valid(r.sent)
  /\ token' = None
  /\ Done(t, r)
  /\ IF r.kind = "welcome" THEN Show(t, r, "form") ELSE UNCHANGED status
  /\ UNCHANGED <<account, budget>> /\ SamePlace

\* A sign-in elsewhere, seen from the tabs it overtakes.
Overtake(t, r) ==
  LET others == {u \in Tabs : u # t \/ ~r.live}
  IN /\ overtaken' = [u \in Tabs |-> overtaken[u] \/ u \in others]
     /\ tainted' = [u \in Tabs |-> tainted[u] \/ u \in others]

\* The token is stored, then the page asks who it belongs to.
SignedIn(t, r) ==
  /\ r.kind = "signin" /\ (r.who \in Onboarded \/ issued[r.who] > 0)
  /\ LET tok == <<r.who, issued[r.who] + 1>>
     IN /\ token' = tok
        /\ issued' = [issued EXCEPT ![r.who] = @ + 1]
        /\ reqs' = [reqs EXCEPT ![t] = (@ \ {r}) \union
                      {[kind |-> "welcome", sent |-> tok, who |-> NoOne, live |-> r.live]}]
  /\ Overtake(t, r)
  /\ UNCHANGED <<dead, onboarded, profile, page, status, shown, cache, crossed, budget>>

\* A wrong password is answered 401, as an ended session is.
WrongPassword(t, r) ==
  /\ r.kind = "signin"
  /\ token' = None
  /\ Done(t, r) /\ Show(t, r, "form")
  /\ UNCHANGED <<account, budget>> /\ SamePlace

\* Only a new student; then the sign-up page moves on to setup.
Registered(t, r) ==
  /\ r.kind = "register" /\ r.who \notin Onboarded /\ issued[r.who] = 0
  /\ token' = <<r.who, 1>>
  /\ issued' = [issued EXCEPT ![r.who] = 1]
  /\ LET tok == <<r.who, 1>>
     IN /\ page' = [page EXCEPT ![t] = "setup"]
        /\ status' = [status EXCEPT ![t] = "loading"]
        /\ shown' = [shown EXCEPT ![t] = NoOne]
        /\ reqs' = [reqs EXCEPT ![t] = Others(t, {r}) \union {Ask("setup", tok)}]
  /\ overtaken' = [u \in Tabs |-> u # t]
  /\ tainted' = [u \in Tabs |-> tainted[u] \/ u # t \/ ~r.live]
  /\ UNCHANGED <<dead, onboarded, profile, cache, crossed, budget>>

EmailTaken(t, r) ==
  /\ r.kind = "register" /\ (r.who \in Onboarded \/ issued[r.who] > 0)
  /\ Done(t, r) /\ Show(t, r, "form")
  /\ UNCHANGED <<token, account, budget>> /\ SamePlace

\* The dashboard's data; a query whose page is gone may be dropped.
Data(t, r) ==
  /\ r.kind = "query" /\ Valid(r.sent)
  /\ Done(t, r)
  /\ \/ cache' = [cache EXCEPT ![t] = Owner(r.sent)]
     \/ ~r.live /\ UNCHANGED cache
  /\ UNCHANGED <<token, account, page, status, shown, history, budget>>

\* An error inside the answer, which a mounted dashboard takes for the end.
DataRefused(t, r) ==
  /\ r.kind = "query" /\ ~Valid(r.sent)
  /\ IF r.live THEN SignOutOf(t)
     ELSE Done(t, r) /\ UNCHANGED <<token, page, status, shown, cache, overtaken, tainted>>
  /\ UNCHANGED <<account, crossed, budget>>

\* The account of the token sent gets the details of the form.
Saved(t, r) ==
  /\ r.kind \in {"save", "finish"} /\ Valid(r.sent)
  /\ profile' = [profile EXCEPT ![Owner(r.sent)] = r.who]
  /\ IF r.kind = "save"
     THEN /\ Done(t, r)
          /\ shown' = IF r.live THEN [shown EXCEPT ![t] = Owner(r.sent)] ELSE shown
          /\ UNCHANGED <<onboarded, page, status, cache, overtaken, tainted>>
     ELSE /\ onboarded' = onboarded \union {Owner(r.sent)}
          /\ Replace(t, "app", r, token)
  /\ UNCHANGED <<token, issued, dead, crossed, budget>>

SaveRefused(t, r) ==
  /\ r.kind \in {"save", "finish"} /\ ~Valid(r.sent)
  /\ IF r.kind = "save" THEN SignOutOf(t) ELSE token' = None /\ Replace(t, "login", r, None)
  /\ UNCHANGED <<account, crossed, budget>>

\* fetch rejects, or the server fails: an error on the page that asked.
After(r) ==
  CASE r.kind \in {"app", "setup"} -> "error"
    [] r.kind \in {"signin", "welcome", "register"} -> "form"

\* (defect: a page whose profile fails to load goes on waiting)
FailsSilently(t, r) ==
  /\ Spend
  /\ Done(t, r)
  /\ IF r.kind \in {"signin", "welcome", "register"} THEN Show(t, r, After(r)) ELSE UNCHANGED status
  /\ UNCHANGED <<token, account>> /\ SamePlace
\* (defect: any failure ends the session)
FailsAndForgets(t, r) ==
  /\ Spend
  /\ Done(t, r)
  /\ IF r.kind \in {"app", "setup", "signin", "welcome", "register"} THEN Show(t, r, After(r)) ELSE UNCHANGED status
  /\ token' = None
  /\ UNCHANGED account /\ SamePlace
Fails(t, r) ==
  /\ Spend
  /\ Done(t, r)
  /\ IF r.kind \in {"app", "setup", "signin", "welcome", "register"} THEN Show(t, r, After(r)) ELSE UNCHANGED status
  /\ UNCHANGED <<token, account>> /\ SamePlace

Expire(s) ==
  /\ dead[s] < issued[s] /\ Spend
  /\ dead' = [dead EXCEPT ![s] = @ + 1]
  /\ UNCHANGED <<token, issued, onboarded, profile, page, status, shown, cache, reqs, history>>

(***************************************************************************)
(* The specification: every request is answered.                           *)
(***************************************************************************)
Init ==
  /\ token = None
  /\ issued = [s \in Students |-> 0] /\ dead = issued
  /\ onboarded = Onboarded /\ profile = [s \in Students |-> s]
  /\ page = [t \in Tabs |-> "login"] /\ status = [t \in Tabs |-> "form"]
  /\ shown = [t \in Tabs |-> NoOne] /\ cache = shown
  /\ reqs = [t \in Tabs |-> {}]
  /\ overtaken = [t \in Tabs |-> FALSE] /\ tainted = overtaken /\ crossed = FALSE
  /\ budget = MaxEvents

Answer(t, r) ==
  \/ Profile(t, r) \/ ProfileRefused(t, r)
  \/ Peeked(t, r) \/ PeekRefused(t, r)
  \/ SignedIn(t, r) \/ WrongPassword(t, r) \/ Registered(t, r) \/ EmailTaken(t, r)
  \/ Data(t, r) \/ DataRefused(t, r)
  \/ Saved(t, r) \/ SaveRefused(t, r)
  \/ Fails(t, r)

Answers == \E t \in Tabs : \E r \in reqs[t] : Answer(t, r)

Next ==
  \/ \E t \in Tabs :
       \/ Visit(t) \/ Link(t) \/ Reload(t) \/ SignOut(t)
       \/ SignIn(t) \/ SignUp(t) \/ Save(t) \/ Finish(t)
  \/ Answers
  \/ \E s \in Students : Expire(s)

Spec == Init /\ [][Next]_vars /\ WF_vars(Answers)

(***************************************************************************)
(* Properties.                                                             *)
(***************************************************************************)
People == Students \union {NoOne}
Tokens == {None} \union (Students \X (Nat \ {0}))
LoginKinds == {"peek", "signin", "register", "welcome"}
PageKinds == {"app", "setup", "query", "save", "finish"}
Requests == [kind : LoginKinds \union PageKinds, sent : Tokens, who : People, live : BOOLEAN]

\* Every variable stays in its range, and no token expires unissued.
TypeOK ==
  /\ token \in Tokens
  /\ issued \in [Students -> Nat] /\ dead \in [Students -> Nat]
  /\ \A s \in Students : dead[s] <= issued[s]
  /\ onboarded \in SUBSET Students /\ profile \in [Students -> Students]
  /\ page \in [Tabs -> {"login", "setup", "app"}]
  /\ status \in [Tabs -> {"form", "busy", "loading", "ready", "error"}]
  /\ shown \in [Tabs -> People] /\ cache \in [Tabs -> People]
  /\ reqs \in [Tabs -> SUBSET Requests]
  /\ overtaken \in [Tabs -> BOOLEAN] /\ tainted \in [Tabs -> BOOLEAN] /\ crossed \in BOOLEAN
  /\ budget \in 0..MaxEvents

\* A page that shows a profile shows the student whose token the browser
\* holds, unless another tab, or a request of a page already left, has signed
\* someone in since the page asked (useProfile.ts asks on every mount).
ShownIsSignedIn ==
  \A t \in Tabs :
    status[t] = "ready" /\ token # None /\ Owner(token) # shown[t] => overtaken[t]

\* The dashboard is never drawn from the data of a student other than the one
\* shown, unless since the tab's last full load a session ended without one
\* or another tab signed in (session.ts signOut: the cache is discarded rather
\* than merely hidden).
DataIsOwn ==
  \A t \in Tabs :
    page[t] = "app" /\ status[t] = "ready" /\ cache[t] \notin {NoOne, shown[t]} => tainted[t]

\* No account is given the details of another student's form, unless a page
\* overtaken by a sign-in elsewhere sent them (apollo.ts reads the token for
\* each request, the form holds what the page was given).
DetailsStayHome == \A s \in Students : profile[s] # s => crossed

\* A token that is still good is given up only on a full sign-out, on a wrong
\* password, or on the late refusal of another token: never because a request
\* failed (session.ts api clears it on a 401 alone).
TokenLostForCause ==
  [][Valid(token) /\ token' = None =>
       \E t \in Tabs :
         \/ page'[t] = "login" /\ reqs'[t] = {} /\ cache'[t] = NoOne /\ status[t] = "ready"
         \/ \E r \in reqs[t] \ reqs'[t] : r.kind = "signin" \/ (~Valid(r.sent) /\ r.sent # token)]_vars

\* No page waits for ever: what it asked is answered, and an error is shown
\* when the answer is lost (useProfile.ts, login/page.tsx setBusy).
Settles ==
  \A t \in Tabs : (status[t] \in {"loading", "busy"}) ~> (status[t] \notin {"loading", "busy"})

\* What a page shows, and saves, is of the student who is signed in.
PagesAreOwn == TypeOK /\ ShownIsSignedIn /\ DetailsStayHome
=============================================================================
