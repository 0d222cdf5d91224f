--------------------------- MODULE SessionProofs ---------------------------
(***************************************************************************)
(* Proofs about Session, for any students, tabs, requests in flight and    *)
(* events.  The invariant says of each tab which requests its page can     *)
(* still have alive and what they were sent with: until somebody signs in  *)
(* elsewhere (overtaken) these are of the student signed in, and until the *)
(* tab's memory has outlived a session (tainted) all it holds is of one    *)
(* student.                                                                *)
(***************************************************************************)
EXTENDS Session, TLAPS

Live(t) == {r \in reqs[t] : r.live}

\* A page shows a profile once its question was answered, and asks once.
Shape(t) ==
  /\ page[t] = "login" => /\ status[t] \in {"form", "busy"} /\ shown[t] = NoOne
                          /\ \A r \in Live(t) : r.kind \in LoginKinds
  /\ page[t] # "login" => status[t] \in {"loading", "ready", "error"}
  /\ status[t] = "loading" => /\ \A r \in Live(t) : r.kind \in {"app", "setup"}
                              /\ \A r, q \in Live(t) : r = q
  /\ status[t] = "ready" => /\ shown[t] \in Students
                            /\ \A r \in Live(t) : r.kind \in {"query", "save", "finish"}
  /\ status[t] = "error" => Live(t) = {}

Current(t) ==
  ~overtaken[t] /\ token # None =>
    /\ status[t] = "ready" => shown[t] = Owner(token)
    /\ \A r \in Live(t) : r.kind \in PageKinds /\ r.sent # None => Owner(r.sent) = Owner(token)

Forms(t) ==
  \A r \in reqs[t] :
    /\ r.kind \in {"signin", "register", "save", "finish"} => r.who \in Students
    /\ r.kind \in {"save", "finish"} => r.sent = None \/ r.who = Owner(r.sent) \/ crossed

OnlyOf(t, s) ==
  /\ cache[t] \in {NoOne, s} /\ shown[t] \in {NoOne, s}
  /\ token # None => Owner(token) = s
  /\ \A r \in reqs[t] : r.kind \in PageKinds /\ r.sent # None => Owner(r.sent) = s

Own(t) ==
  ~tainted[t] =>
    /\ page[t] = "login" => cache[t] = NoOne /\ \A r \in reqs[t] : r.kind \in LoginKinds
    /\ page[t] # "login" => \E s \in Students : OnlyOf(t, s)

TabInv(t) == Shape(t) /\ Current(t) /\ Forms(t) /\ Own(t)

SessionInv == TypeOK /\ DetailsStayHome /\ \A t \in Tabs : TabInv(t)

(***************************************************************************)
(* Tokens and requests.                                                    *)
(***************************************************************************)
LEMMA TokenOwner ==
  ASSUME NEW tok \in Tokens
  PROVE  /\ tok # None => Owner(tok) \in Students
         /\ Owner(None) = NoOne /\ None \in Tokens /\ NoOne \notin Students
         /\ Valid(tok) => tok # None
  BY Fresh DEF Tokens, None, Owner, Valid

LEMMA NewToken ==
  ASSUME NEW s \in Students, NEW n \in Nat
  PROVE  <<s, n + 1>> \in Tokens /\ Owner(<<s, n + 1>>) = s /\ <<s, n + 1>> # None
  BY Fresh DEF Tokens, None, Owner

LEMMA Orphan ==
  ASSUME NEW q \in Requests
  PROVE  LET o == [q EXCEPT !.live = FALSE]
         IN  o \in Requests /\ ~o.live /\ o.kind = q.kind /\ o.sent = q.sent /\ o.who = q.who
  BY DEF Requests

LEMMA OthersAre ==
  ASSUME TypeOK, NEW t \in Tabs, NEW done
  PROVE  /\ Others(t, done) \subseteq Requests
         /\ \A o \in Others(t, done) : /\ ~o.live
                                       /\ \E q \in reqs[t] : o.kind = q.kind /\ o.sent = q.sent /\ o.who = q.who
<1>1. reqs[t] \subseteq Requests
  BY DEF TypeOK
<1> QED
  BY <1>1, Orphan DEF Others

LEMMA AskIs ==
  ASSUME NEW p \in {"login", "app", "setup"}, NEW tok \in Tokens
  PROVE  /\ Ask(p, tok) \in Requests /\ Ask(p, tok).live /\ Ask(p, tok).sent = tok
         /\ Ask(p, tok).kind = IF p = "login" THEN "peek" ELSE p
  BY DEF Ask, Requests, LoginKinds, PageKinds, People

(***************************************************************************)
(* A tab on which nothing happens, or only some request ends.              *)
(***************************************************************************)
Still(t) ==
  /\ page'[t] = page[t] /\ status'[t] = status[t] /\ shown'[t] = shown[t] /\ cache'[t] = cache[t]
  /\ reqs'[t] \subseteq reqs[t]
  /\ crossed => crossed'

LEMMA QuietTab ==
  ASSUME NEW t \in Tabs, TabInv(t), Still(t), token' \in {token, None},
         overtaken[t] => overtaken'[t], tainted[t] => tainted'[t]
  PROVE  TabInv(t)'
<1>1. Shape(t)'
  BY DEF TabInv, Shape, Still, Live
<1>2. Current(t)'
  BY DEF TabInv, Current, Still, Live
<1>3. Forms(t)'
  BY DEF TabInv, Forms, Still
<1>4. Own(t)'
  BY DEF TabInv, Own, OnlyOf, Still
<1> QED
  BY <1>1, <1>2, <1>3, <1>4 DEF TabInv

LEMMA OvertakenTab ==
  ASSUME NEW t \in Tabs, TabInv(t), Still(t), overtaken'[t], tainted'[t]
  PROVE  TabInv(t)'
<1>1. Shape(t)'
  BY DEF TabInv, Shape, Still, Live
<1>2. Forms(t)'
  BY DEF TabInv, Forms, Still
<1> QED
  BY <1>1, <1>2 DEF TabInv, Current, Own

(***************************************************************************)
(* A page mounts.                                                          *)
(***************************************************************************)
\* What mounting leaves in tab t, and of the others.
Mounts(t, p, tok, soft, ended, done) ==
  LET keep == IF soft THEN Others(t, done) ELSE {}
  IN  /\ p \in {"login", "app", "setup"} /\ tok \in {token, None} /\ token' = tok
      /\ soft \in BOOLEAN /\ ended \in BOOLEAN /\ (soft /\ p = "login" => ended)
      /\ Mount(t, p, keep, tok, soft, ended)
      /\ crossed' = crossed

LEMMA MountTab ==
  ASSUME TypeOK, NEW t \in Tabs, TabInv(t), NEW p, NEW tok, NEW soft, NEW ended, NEW done,
         Mounts(t, p, tok, soft, ended, done)
  PROVE  TabInv(t)'
<1> DEFINE to == IF tok = None THEN "login" ELSE p
           keep == IF soft THEN Others(t, done) ELSE {}
<1>1. /\ p \in {"login", "app", "setup"} /\ tok \in Tokens /\ token' = tok
      /\ tok \in {token, None} /\ soft \in BOOLEAN /\ ended \in BOOLEAN
      /\ (soft /\ p = "login" => ended) /\ crossed' = crossed
  BY TokenOwner DEF Mounts, TypeOK, Tokens
<1>2. /\ page'[t] = to /\ shown'[t] = NoOne
      /\ status'[t] = IF to = "login" THEN "form" ELSE "loading"
  BY DEF Mounts, Mount, TypeOK
<1>3. /\ reqs'[t] = IF tok = None THEN keep ELSE keep \union {Ask(to, tok)}
      /\ cache'[t] = IF soft THEN cache[t] ELSE NoOne
  BY DEF Mounts, Mount, TypeOK
<1>4. overtaken'[t] = FALSE /\ (tainted'[t] <=> soft /\ (tainted[t] \/ ended \/ to # p))
  BY DEF Mounts, Mount, TypeOK
<1>5. to \in {"login", "app", "setup"} /\ (tok # None => to = p) /\ (to # "login" => tok # None)
  BY <1>1
<1>6. /\ Ask(to, tok).live /\ Ask(to, tok).sent = tok
      /\ Ask(to, tok).kind = IF to = "login" THEN "peek" ELSE to
  BY <1>1, <1>5, AskIs
<1>7. \A o \in keep : /\ ~o.live
                      /\ \E q \in reqs[t] : soft /\ o.kind = q.kind /\ o.sent = q.sent /\ o.who = q.who
  BY OthersAre
<1> HIDE DEF to, keep
<1>8. \A r \in reqs'[t] : r.live => tok # None /\ r = Ask(to, tok)
  BY <1>3, <1>7
<1>9. Shape(t)'
  BY <1>2, <1>5, <1>6, <1>8 DEF Shape, Live, LoginKinds
<1>10. Current(t)'
  BY <1>1, <1>2, <1>6, <1>8 DEF Current, Live
<1>11. Forms(t)'
  <2>1. Ask(to, tok).kind \notin {"signin", "register", "save", "finish"}
    BY <1>5, <1>6
  <2>2. \A o \in keep :
          /\ o.kind \in {"signin", "register", "save", "finish"} => o.who \in Students
          /\ o.kind \in {"save", "finish"} => o.sent = None \/ o.who = Owner(o.sent) \/ crossed
    BY <1>7 DEF TabInv, Forms, Owner
  <2> QED  BY <1>1, <1>3, <2>1, <2>2 DEF Forms
<1>12. ASSUME ~tainted'[t], ~soft PROVE Own(t)'
  <2>1. keep = {} /\ cache'[t] = NoOne
    BY <1>3, <1>12 DEF keep
  <2>2. to # "login" => OnlyOf(t, Owner(tok))' /\ Owner(tok) \in Students
    BY <1>1, <1>2, <1>3, <1>5, <1>6, <2>1, TokenOwner DEF OnlyOf
  <2>3. to = "login" => \A r \in reqs'[t] : r.kind \in LoginKinds
    BY <1>3, <1>6, <2>1 DEF LoginKinds
  <2> QED  BY <1>2, <2>1, <2>2, <2>3 DEF Own
<1>13. ASSUME ~tainted'[t], soft PROVE Own(t)'
  <2>1. ~tainted[t] /\ ~ended /\ to = p /\ to # "login"
    BY <1>1, <1>4, <1>13
  <2>2. tok # None /\ tok = token /\ Owner(tok) \in Students
    BY <1>1, <1>5, <2>1, TokenOwner
  <2>3. CASE page[t] = "login"
    <3>1. cache[t] = NoOne /\ \A o \in keep : o.kind \in LoginKinds
      BY <1>7, <2>1, <2>3 DEF TabInv, Own
    <3>2. LoginKinds \intersect PageKinds = {}
      BY DEF LoginKinds, PageKinds
    <3>3. OnlyOf(t, Owner(tok))'
      BY <1>1, <1>2, <1>3, <1>6, <1>13, <2>2, <3>1, <3>2 DEF OnlyOf
    <3> QED  BY <1>2, <2>1, <2>2, <3>3 DEF Own
  <2>4. CASE page[t] # "login"
    <3>1. PICK s \in Students : OnlyOf(t, s)
      BY <2>1, <2>4 DEF TabInv, Own
    <3>2. Owner(tok) = s /\ cache[t] \in {NoOne, s}
      BY <2>2, <3>1 DEF OnlyOf
    <3>3. \A o \in keep : o.kind \in PageKinds /\ o.sent # None => Owner(o.sent) = s
      BY <1>7, <3>1 DEF OnlyOf, Owner
    <3>4. OnlyOf(t, s)'
      BY <1>1, <1>2, <1>3, <1>6, <1>13, <2>2, <3>2, <3>3 DEF OnlyOf
    <3> QED  BY <1>2, <2>1, <3>4 DEF Own
  <2> QED  BY <2>3, <2>4
<1>14. Own(t)'
  BY <1>12, <1>13, <1>1 DEF Own
<1> QED
  BY <1>9, <1>10, <1>11, <1>14 DEF TabInv

\* The tabs beside it, and the types.
LEMMA MountRest ==
  ASSUME TypeOK, NEW t \in Tabs, \A u \in Tabs : TabInv(u), NEW p, NEW tok, NEW soft, NEW ended, NEW done,
         Mounts(t, p, tok, soft, ended, done)
  PROVE  \A u \in Tabs : TabInv(u)'
<1>1. token' \in {token, None} /\ crossed' = crossed
  BY DEF Mounts
<1>2. \A u \in Tabs \ {t} : Still(u) /\ overtaken'[u] = overtaken[u] /\ tainted'[u] = tainted[u]
  BY <1>1 DEF Mounts, Mount, TypeOK, Still
<1>3. \A u \in Tabs \ {t} : TabInv(u)'
  BY <1>1, <1>2, QuietTab
<1> QED
  BY <1>3, MountTab

LEMMA MountTyped ==
  ASSUME TypeOK, NEW t \in Tabs, NEW p, NEW tok, NEW soft, NEW ended, NEW done,
         Mounts(t, p, tok, soft, ended, done)
  PROVE  /\ token' \in Tokens /\ page' \in [Tabs -> {"login", "setup", "app"}]
         /\ status' \in [Tabs -> {"form", "busy", "loading", "ready", "error"}]
         /\ shown' \in [Tabs -> People] /\ cache' \in [Tabs -> People]
         /\ reqs' \in [Tabs -> SUBSET Requests]
         /\ overtaken' \in [Tabs -> BOOLEAN] /\ tainted' \in [Tabs -> BOOLEAN]
         /\ crossed' \in BOOLEAN
<1> DEFINE to == IF tok = None THEN "login" ELSE p
           keep == IF soft THEN Others(t, done) ELSE {}
<1>1. tok \in Tokens /\ token' = tok /\ to \in {"login", "app", "setup"} /\ crossed' = crossed
  BY TokenOwner DEF Mounts, TypeOK
<1>2. keep \subseteq Requests /\ Ask(to, tok) \in Requests
  BY <1>1, OthersAre, AskIs
<1>3. reqs' = [reqs EXCEPT ![t] = IF tok = None THEN keep ELSE keep \union {Ask(to, tok)}]
  BY DEF Mounts, Mount
<1>4. page' = [page EXCEPT ![t] = to] /\ page' \in [Tabs -> {"login", "setup", "app"}]
  BY <1>1 DEF Mounts, Mount, TypeOK
<1>5. status' \in [Tabs -> {"form", "busy", "loading", "ready", "error"}]
  BY DEF Mounts, Mount, TypeOK
<1>6. NoOne \in People /\ shown' \in [Tabs -> People] /\ cache' \in [Tabs -> People]
  BY DEF Mounts, Mount, TypeOK, People
<1>7. overtaken' \in [Tabs -> BOOLEAN]
  BY DEF Mounts, Mount, TypeOK
<1>8. tainted' \in [Tabs -> BOOLEAN]
  BY DEF Mounts, Mount, TypeOK
<1> HIDE DEF to, keep
<1>9. reqs' \in [Tabs -> SUBSET Requests]
  BY <1>2, <1>3 DEF TypeOK
<1> QED
  BY <1>1, <1>4, <1>5, <1>6, <1>7, <1>8, <1>9 DEF TypeOK

\* Where a request that is alive was made.
LEMMA LiveRequest ==
  ASSUME TypeOK, NEW t \in Tabs, TabInv(t), NEW r \in reqs[t], r.live
  PROVE  /\ r.kind \in LoginKinds => page[t] = "login"
         /\ r.kind \in {"app", "setup"} => status[t] = "loading" /\ page[t] # "login" /\ Live(t) = {r}
         /\ r.kind \in {"query", "save", "finish"} => status[t] = "ready" /\ page[t] # "login"
<1>1. r \in Live(t)
  BY DEF Live
<1>2. r.kind \in LoginKinds \union PageKinds
  BY DEF TypeOK, Requests
<1>3. page[t] # "login" => r.kind \notin LoginKinds
  BY <1>1 DEF TabInv, Shape, LoginKinds
<1>4. page[t] = "login" => r.kind \in LoginKinds
  BY <1>1 DEF TabInv, Shape
<1>5. page[t] # "login" => \/ status[t] = "loading" /\ r.kind \in {"app", "setup"}
                           \/ status[t] = "ready" /\ r.kind \in {"query", "save", "finish"}
  BY <1>1 DEF TabInv, Shape
<1>6. status[t] = "loading" => Live(t) = {r}
  BY <1>1 DEF TabInv, Shape
<1> QED
  BY <1>3, <1>4, <1>5, <1>6 DEF LoginKinds

(***************************************************************************)
(* A request of tab t ends and its page stays.                             *)
(***************************************************************************)
Stays(t) ==
  /\ page'[t] = page[t] /\ token' \in {token, None}
  /\ (overtaken[t] => overtaken'[t]) /\ (tainted[t] => tainted'[t]) /\ (crossed => crossed')

LEMMA AnsweredTab ==
  ASSUME TypeOK, NEW t \in Tabs, TabInv(t), NEW r \in reqs[t], Stays(t),
         shown'[t] = shown[t], cache'[t] = cache[t], reqs'[t] = reqs[t] \ {r},
         \/ status'[t] = status[t]
         \/ r.live /\ r.kind \in LoginKinds /\ status'[t] = "form"
         \/ r.live /\ r.kind \in {"app", "setup"} /\ status'[t] = "error"
  PROVE  TabInv(t)'
<1>1. CASE status'[t] = status[t]
  BY <1>1, QuietTab DEF Stays, Still
<1>2. CASE r.live /\ r.kind \in LoginKinds /\ status'[t] = "form"
  <2>1. page[t] = "login"
    BY <1>2, LiveRequest
  <2>2. Shape(t)'
    BY <1>2, <2>1 DEF TabInv, Shape, Live, Stays
  <2>3. Current(t)' /\ Forms(t)' /\ Own(t)'
    BY <1>2, <2>1 DEF TabInv, Current, Forms, Own, Live, Stays
  <2> QED  BY <2>2, <2>3 DEF TabInv
<1>3. CASE r.live /\ r.kind \in {"app", "setup"} /\ status'[t] = "error"
  <2>1. page[t] # "login" /\ Live(t) = {r}
    BY <1>3, LiveRequest
  <2>2. Live(t)' = {}
    BY <2>1 DEF Live
  <2>3. Shape(t)'
    BY <1>3, <2>1, <2>2 DEF Shape, Stays
  <2>4. Current(t)' /\ Forms(t)'
    BY <1>3, <2>2 DEF TabInv, Current, Forms, Stays
  <2>5. Own(t)'
    BY <2>1 DEF TabInv, Own, OnlyOf, Stays
  <2> QED  BY <2>3, <2>4, <2>5 DEF TabInv
<1> QED
  BY <1>1, <1>2, <1>3

LEMMA DataTab ==
  ASSUME TypeOK, NEW t \in Tabs, TabInv(t), NEW r \in reqs[t], Data(t, r)
  PROVE  TabInv(t)'
<1>1. /\ r.kind = "query" /\ Valid(r.sent) /\ reqs'[t] = reqs[t] \ {r} /\ r.sent \in Tokens
      /\ cache'[t] \in {cache[t], Owner(r.sent)}
      /\ UNCHANGED <<token, page, status, shown, overtaken, tainted, crossed>>
  BY DEF Data, Done, history, TypeOK, Requests
<1>2. r.sent # None
  BY <1>1, TokenOwner
<1>3. Shape(t)'
  BY <1>1 DEF TabInv, Shape, Live
<1>4. Current(t)' /\ Forms(t)'
  BY <1>1 DEF TabInv, Current, Forms, Live
<1>5. Own(t)'
  <2> SUFFICES ASSUME ~tainted[t] PROVE Own(t)'
    BY <1>1 DEF Own
  <2>1. page[t] # "login"
    BY <1>1 DEF TabInv, Own, LoginKinds
  <2>2. PICK s \in Students : OnlyOf(t, s)
    BY <2>1 DEF TabInv, Own
  <2>3. Owner(r.sent) = s
    BY <1>1, <1>2, <2>2 DEF OnlyOf, PageKinds
  <2>4. OnlyOf(t, s)'
    BY <1>1, <2>2, <2>3 DEF OnlyOf
  <2> QED  BY <1>1, <2>1, <2>4 DEF Own
<1> QED
  BY <1>3, <1>4, <1>5 DEF TabInv

\* A saved profile is what the page shows from then on.
LEMMA SavedTab ==
  ASSUME TypeOK, NEW t \in Tabs, TabInv(t), NEW r \in reqs[t], Saved(t, r), r.kind = "save"
  PROVE  TabInv(t)'
<1>1. /\ Valid(r.sent) /\ reqs'[t] = reqs[t] \ {r} /\ r.sent \in Tokens
      /\ shown'[t] = IF r.live THEN Owner(r.sent) ELSE shown[t]
      /\ UNCHANGED <<token, page, status, cache, overtaken, tainted, crossed>>
  BY DEF Saved, Done, TypeOK, Requests
<1>2. r.sent # None /\ Owner(r.sent) \in Students
  BY <1>1, TokenOwner
<1>3. CASE ~r.live
  BY <1>1, <1>3, QuietTab DEF Still
<1>4. CASE r.live
  <2>1. status[t] = "ready" /\ page[t] # "login" /\ r \in Live(t)
    BY <1>4, LiveRequest DEF Live
  <2>2. Shape(t)'
    BY <1>1, <1>2, <1>4, <2>1 DEF TabInv, Shape, Live
  <2>3. Current(t)'
    BY <1>1, <1>2, <1>4, <2>1 DEF TabInv, Current, Live, PageKinds
  <2>4. Forms(t)'
    BY <1>1 DEF TabInv, Forms
  <2>5. Own(t)'
    <3> SUFFICES ASSUME ~tainted[t] PROVE \E s \in Students : OnlyOf(t, s)'
      BY <1>1, <2>1 DEF Own
    <3>1. PICK s \in Students : OnlyOf(t, s)
      BY <2>1 DEF TabInv, Own
    <3>2. Owner(r.sent) = s
      BY <1>2, <3>1 DEF OnlyOf, PageKinds
    <3> QED  BY <1>1, <3>1, <3>2 DEF OnlyOf
  <2> QED  BY <2>2, <2>3, <2>4, <2>5 DEF TabInv
<1> QED
  BY <1>3, <1>4

\* useRequireProfile got its answer: the page is ready and asks for its data.
LEMMA ReadyTab ==
  ASSUME TypeOK, NEW t \in Tabs, TabInv(t), NEW r \in reqs[t], r.live, r.kind \in {"app", "setup"},
         Valid(r.sent), UNCHANGED <<token, page, cache, overtaken, tainted, crossed>>,
         status'[t] = "ready", shown'[t] = Owner(r.sent),
         \/ reqs'[t] = reqs[t] \ {r}
         \/ reqs'[t] = (reqs[t] \ {r}) \union {Request("query", NoOne)}
  PROVE  TabInv(t)'
<1>1. r.sent \in Tokens /\ r.sent # None /\ Owner(r.sent) \in Students
  BY TokenOwner DEF TypeOK, Requests
<1>2. page[t] # "login" /\ Live(t) = {r}
  BY LiveRequest
<1>3. Request("query", NoOne).kind = "query" /\ Request("query", NoOne).sent = token
  BY DEF Request
<1>4. \A q \in reqs'[t] : q \in reqs[t] \ {r} \/ (q.kind = "query" /\ q.sent = token)
  BY <1>3
<1>5. \A q \in Live(t)' : q.kind = "query" /\ q.sent = token
  BY <1>2, <1>4 DEF Live
<1>6. Shape(t)'
  BY <1>1, <1>2, <1>5 DEF Shape
<1>7. Current(t)'
  BY <1>1, <1>2, <1>5 DEF TabInv, Current, PageKinds
<1>8. Forms(t)'
  BY <1>4 DEF TabInv, Forms
<1>9. Own(t)'
  <2> SUFFICES ASSUME ~tainted[t] PROVE \E s \in Students : OnlyOf(t, s)'
    BY <1>2 DEF Own
  <2>1. PICK s \in Students : OnlyOf(t, s)
    BY <1>2 DEF TabInv, Own
  <2>2. Owner(r.sent) = s
    BY <1>1, <2>1 DEF OnlyOf, PageKinds
  <2> QED  BY <1>4, <2>1, <2>2 DEF OnlyOf
<1> QED
  BY <1>6, <1>7, <1>8, <1>9 DEF TabInv

(***************************************************************************)
(* A request is sent.                                                      *)
(***************************************************************************)
LEMMA RequestIs ==
  ASSUME TypeOK, NEW kind \in LoginKinds \union PageKinds, NEW who \in People
  PROVE  LET r == Request(kind, who)
         IN  r \in Requests /\ r.kind = kind /\ r.sent = token /\ r.who = who /\ r.live
  BY DEF Request, Requests, TypeOK

LEMMA SubmitTab ==
  ASSUME TypeOK, NEW t \in Tabs, TabInv(t), NEW kind \in {"signin", "register"}, Submit(t, kind)
  PROVE  TabInv(t)' /\ reqs' \in [Tabs -> SUBSET Requests]
<1>1. PICK s \in Students : reqs' = [reqs EXCEPT ![t] = @ \union {Request(kind, s)}]
  BY DEF Submit, Send
<1>2. /\ page[t] = "login" /\ status'[t] = "busy"
      /\ UNCHANGED <<token, page, shown, cache, overtaken, tainted, crossed>>
  BY DEF Submit, history, TypeOK
<1>3. Request(kind, s) \in Requests /\ Request(kind, s).kind = kind /\ Request(kind, s).who = s
  BY RequestIs DEF LoginKinds, PageKinds, People
<1>4. \A r \in reqs'[t] : r \in reqs[t] \/ (r.kind = kind /\ r.who \in Students)
  BY <1>1, <1>3 DEF TypeOK
<1>5. Shape(t)'
  BY <1>2, <1>4 DEF TabInv, Shape, Live, LoginKinds
<1>6. Current(t)' /\ Forms(t)' /\ Own(t)'
  BY <1>2, <1>4 DEF TabInv, Current, Forms, Own, Live, LoginKinds, PageKinds
<1>7. reqs' \in [Tabs -> SUBSET Requests]
  BY <1>1, <1>3 DEF TypeOK
<1> QED
  BY <1>5, <1>6, <1>7 DEF TabInv

\* The profile form and the last step of setup: the form holds what the page
\* was given, the token is the one stored now.
LEMMA FormTab ==
  ASSUME TypeOK, NEW t \in Tabs, TabInv(t), Save(t) \/ Finish(t)
  PROVE  TabInv(t)' /\ reqs' \in [Tabs -> SUBSET Requests]
<1>1. PICK kind \in {"save", "finish"} : reqs' = [reqs EXCEPT ![t] = @ \union {Request(kind, shown[t])}]
  BY DEF Save, Finish, Send
<1>2. /\ page[t] # "login" /\ status[t] = "ready" /\ crossed' = (crossed \/ overtaken[t])
      /\ UNCHANGED <<token, page, status, shown, cache, overtaken, tainted>>
  BY DEF Save, Finish
<1>3. shown[t] \in Students /\ shown[t] \in People
  BY <1>2 DEF TabInv, Shape, People
<1> DEFINE f == Request(kind, shown[t])
<1>4. f \in Requests /\ f.kind = kind /\ f.sent = token /\ f.who = shown[t]
  BY <1>3, RequestIs DEF PageKinds
<1> HIDE DEF f
<1>5. reqs' = [reqs EXCEPT ![t] = @ \union {f}] /\ reqs'[t] = reqs[t] \union {f}
  BY <1>1 DEF f, TypeOK
<1>6. Shape(t)'
  BY <1>2, <1>4, <1>5 DEF TabInv, Shape, Live
<1>7. Current(t)'
  BY <1>2, <1>4, <1>5 DEF TabInv, Current, Live
<1>8. Forms(t)'
  <2>1. token = None \/ shown[t] = Owner(token) \/ crossed'
    BY <1>2 DEF TabInv, Current
  <2> QED  BY <1>2, <1>3, <1>4, <1>5, <2>1 DEF TabInv, Forms
<1>9. Own(t)'
  BY <1>2, <1>4, <1>5 DEF TabInv, Own, OnlyOf
<1>10. reqs' \in [Tabs -> SUBSET Requests]
  BY <1>4, <1>5 DEF TypeOK
<1> QED
  BY <1>6, <1>7, <1>8, <1>9, <1>10 DEF TabInv

LEMMA RetryTab ==
  ASSUME TypeOK, NEW t \in Tabs, TabInv(t), Reload(t), token # None
  PROVE  TabInv(t)' /\ reqs' \in [Tabs -> SUBSET Requests]
<1> DEFINE a == Ask(page[t], token)
<1>1. /\ status[t] = "error" /\ status'[t] = "loading" /\ overtaken'[t] = FALSE
      /\ reqs' = [reqs EXCEPT ![t] = @ \union {a}]
      /\ UNCHANGED <<token, page, shown, cache, tainted, crossed>>
  BY DEF Reload, Send, TypeOK
<1>2. page[t] \in {"app", "setup"} /\ Live(t) = {}
  BY <1>1 DEF TabInv, Shape, TypeOK
<1>3. a \in Requests /\ a.sent = token /\ a.kind = page[t]
  BY <1>2, AskIs DEF TypeOK
<1> HIDE DEF a
<1>4. reqs'[t] = reqs[t] \union {a} /\ \A r \in Live(t)' : r = a
  BY <1>1, <1>2 DEF TypeOK, Live
<1>5. Shape(t)' /\ Current(t)'
  BY <1>1, <1>2, <1>3, <1>4 DEF Shape, Current
<1>6. Forms(t)'
  BY <1>1, <1>2, <1>3, <1>4 DEF TabInv, Forms
<1>7. Own(t)'
  BY <1>1, <1>2, <1>3, <1>4 DEF TabInv, Own, OnlyOf
<1>8. reqs' \in [Tabs -> SUBSET Requests]
  BY <1>1, <1>3 DEF TypeOK
<1> QED
  BY <1>5, <1>6, <1>7, <1>8 DEF TabInv

(***************************************************************************)
(* A token is issued: every other tab is overtaken.                        *)
(***************************************************************************)
LEMMA SignedInTabs ==
  ASSUME TypeOK, \A u \in Tabs : TabInv(u), NEW t \in Tabs, NEW r \in reqs[t], SignedIn(t, r)
  PROVE  (\A u \in Tabs : TabInv(u)') /\ reqs' \in [Tabs -> SUBSET Requests]
<1> DEFINE tok == <<r.who, issued[r.who] + 1>>
           w == [kind |-> "welcome", sent |-> tok, who |-> NoOne, live |-> r.live]
<1>1. /\ r.kind = "signin" /\ token' = tok
      /\ reqs' = [reqs EXCEPT ![t] = (@ \ {r}) \union {w}]
      /\ UNCHANGED <<page, status, shown, cache, crossed>>
  BY DEF SignedIn
<1>2. /\ \A u \in Tabs \ {t} : overtaken'[u] /\ tainted'[u]
      /\ ~r.live => overtaken'[t] /\ tainted'[t]
      /\ r.live => overtaken'[t] = overtaken[t] /\ tainted'[t] = tainted[t]
  BY DEF SignedIn, Overtake, TypeOK, Requests
<1>3. w.kind = "welcome" /\ w.live = r.live
  OBVIOUS
<1>4. tok \in Tokens /\ w \in Requests
  <2>1. r.who \in Students
    BY <1>1 DEF TabInv, Forms
  <2>2. tok \in Tokens
    BY <2>1, NewToken DEF TypeOK
  <2> QED  BY <2>2 DEF Requests, TypeOK, LoginKinds, People
<1> HIDE DEF tok, w
<1>5. reqs'[t] = (reqs[t] \ {r}) \union {w} /\ \A u \in Tabs \ {t} : reqs'[u] = reqs[u]
  BY <1>1 DEF TypeOK
<1>6. \A u \in Tabs \ {t} : TabInv(u)'
  BY <1>1, <1>2, <1>5, OvertakenTab DEF Still
<1>7. ASSUME ~r.live PROVE TabInv(t)'
  <2>1. Live(t)' = Live(t)
    BY <1>3, <1>5, <1>7 DEF Live, TypeOK, Requests
  <2>2. Shape(t)'
    BY <1>1, <2>1 DEF TabInv, Shape
  <2>3. Forms(t)'
    BY <1>1, <1>3, <1>5 DEF TabInv, Forms
  <2> QED  BY <1>2, <1>7, <2>2, <2>3 DEF TabInv, Current, Own
<1>8. ASSUME r.live PROVE TabInv(t)'
  <2>1. page[t] = "login"
    BY <1>1, <1>8, LiveRequest DEF LoginKinds
  <2>2. \A q \in reqs'[t] : q \in reqs[t] \/ q.kind = "welcome"
    BY <1>3, <1>5
  <2>3. Shape(t)'
    BY <1>1, <2>1, <2>2 DEF TabInv, Shape, Live, LoginKinds
  <2>4. Current(t)'
    <3>1. \A q \in Live(t)' : q.kind \in LoginKinds
      BY <2>1, <2>2 DEF TabInv, Shape, Live, LoginKinds
    <3>2. status[t] # "ready"
      BY <2>1 DEF TabInv, Shape
    <3> QED  BY <1>1, <3>1, <3>2 DEF Current, LoginKinds, PageKinds
  <2>5. Forms(t)'
    BY <1>1, <2>2 DEF TabInv, Forms
  <2>6. Own(t)'
    BY <1>1, <1>2, <1>8, <2>1, <2>2 DEF TabInv, Own, LoginKinds
  <2> QED  BY <2>3, <2>4, <2>5, <2>6 DEF TabInv
<1>9. reqs' \in [Tabs -> SUBSET Requests]
  BY <1>1, <1>4 DEF TypeOK
<1> QED
  BY <1>6, <1>7, <1>8, <1>9 DEF TypeOK, Requests

LEMMA RegisteredTabs ==
  ASSUME TypeOK, \A u \in Tabs : TabInv(u), NEW t \in Tabs, NEW r \in reqs[t], Registered(t, r)
  PROVE  /\ \A u \in Tabs : TabInv(u)'
         /\ r.who \in Students /\ token' \in Tokens /\ reqs' \in [Tabs -> SUBSET Requests]
<1> DEFINE tok == <<r.who, 1>>
           a == Ask("setup", tok)
           keep == Others(t, {r})
<1>1. /\ r.kind = "register" /\ token' = tok
      /\ page'[t] = "setup" /\ status'[t] = "loading" /\ shown'[t] = NoOne
      /\ reqs' = [reqs EXCEPT ![t] = keep \union {a}]
      /\ UNCHANGED <<cache, crossed>>
  BY DEF Registered, TypeOK
<1>2. /\ \A u \in Tabs \ {t} : overtaken'[u] /\ tainted'[u]
      /\ overtaken'[t] = FALSE /\ (tainted'[t] <=> tainted[t] \/ ~r.live)
  BY DEF Registered, TypeOK
<1>3. r.who \in Students /\ r.live \in BOOLEAN
  BY <1>1 DEF TabInv, Forms, TypeOK, Requests
<1>4. tok \in Tokens /\ tok # None /\ Owner(tok) = r.who
  BY <1>3, NewToken DEF Tokens, Owner, None
<1>5. a \in Requests /\ a.kind = "setup" /\ a.sent = tok
  BY <1>4, AskIs
<1>6. keep \subseteq Requests
      /\ \A o \in keep : /\ ~o.live
                         /\ \E q \in reqs[t] : o.kind = q.kind /\ o.sent = q.sent /\ o.who = q.who
  BY OthersAre
<1>7. \A u \in Tabs \ {t} : /\ reqs'[u] = reqs[u] /\ page'[u] = page[u] /\ status'[u] = status[u]
                            /\ shown'[u] = shown[u]
  BY DEF Registered, TypeOK
<1> HIDE DEF tok, a, keep
<1>8. \A u \in Tabs \ {t} : TabInv(u)'
  BY <1>1, <1>2, <1>7, OvertakenTab DEF Still
<1>9. reqs'[t] = keep \union {a} /\ \A q \in Live(t)' : q = a
  BY <1>1, <1>6 DEF TypeOK, Live
<1>10. Shape(t)' /\ Current(t)'
  BY <1>1, <1>5, <1>9 DEF Shape, Current
<1>11. Forms(t)'
  <2>1. \A o \in keep :
          /\ o.kind \in {"signin", "register", "save", "finish"} => o.who \in Students
          /\ o.kind \in {"save", "finish"} => o.sent = None \/ o.who = Owner(o.sent) \/ crossed
    BY <1>6 DEF TabInv, Forms, Owner
  <2> QED  BY <1>1, <1>5, <1>9, <2>1 DEF Forms
<1>12. Own(t)'
  <2> SUFFICES ASSUME ~tainted'[t] PROVE OnlyOf(t, r.who)'
    BY <1>1, <1>3 DEF Own
  <2>1. r.live /\ ~tainted[t] /\ page[t] = "login"
    BY <1>1, <1>2, LiveRequest DEF LoginKinds
  <2>2. cache[t] = NoOne /\ \A o \in keep : o.kind \in LoginKinds
    BY <1>6, <2>1 DEF TabInv, Own
  <2>3. LoginKinds \intersect PageKinds = {}
    BY DEF LoginKinds, PageKinds
  <2> QED  BY <1>1, <1>4, <1>5, <1>9, <2>2, <2>3 DEF OnlyOf
<1>13. reqs' \in [Tabs -> SUBSET Requests]
  BY <1>1, <1>5, <1>6 DEF TypeOK
<1> QED
  BY <1>1, <1>3, <1>4, <1>8, <1>10, <1>11, <1>12, <1>13 DEF TabInv

(***************************************************************************)
(* The steps.                                                              *)
(***************************************************************************)
LEMMA BudgetLeft ==
  ASSUME TypeOK, Spend \/ UNCHANGED budget
  PROVE  budget' \in 0 .. MaxEvents
  BY Fresh DEF TypeOK, Spend

LEMMA MountStep ==
  ASSUME SessionInv, NEW t \in Tabs, NEW p, NEW tok, NEW soft, NEW ended, NEW done,
         Mounts(t, p, tok, soft, ended, done), UNCHANGED account, Spend \/ UNCHANGED budget
  PROVE  SessionInv'
<1>1. TypeOK /\ \A u \in Tabs : TabInv(u)
  BY DEF SessionInv
<1>2. TypeOK'
  <2>1. UNCHANGED <<issued, dead, onboarded, profile>>
    BY DEF account
  <2> QED  BY <1>1, <2>1, MountTyped, BudgetLeft DEF TypeOK
<1>3. DetailsStayHome'
  BY DEF SessionInv, DetailsStayHome, Mounts, account
<1> QED
  BY <1>1, <1>2, <1>3, MountRest DEF SessionInv

LEMMA VisitsKeep ==
  ASSUME SessionInv, NEW t \in Tabs, Visit(t) \/ Link(t) \/ SignOut(t) \/ (Reload(t) /\ token = None)
  PROVE  SessionInv'
<1>1. CASE Visit(t)
  <2>1. PICK p \in {"login", "app"} : Load(t, p, token)
    BY <1>1 DEF Visit
  <2>2. Mounts(t, p, token, FALSE, FALSE, {})
    BY <1>1, <2>1 DEF Visit, Load, Mounts
  <2> QED  BY <1>1, <2>2, MountStep DEF Visit
<1>2. CASE Link(t)
  <2>1. Mounts(t, "app", token, TRUE, FALSE, {})
    BY <1>2 DEF Link, Mounts
  <2> QED  BY <1>2, <2>1, MountStep DEF Link
<1>3. CASE SignOut(t)
  <2>1. Mounts(t, "login", None, FALSE, FALSE, {})
    BY <1>3 DEF SignOut, SignOutOf, Load, Mounts
  <2> QED  BY <1>3, <2>1, MountStep DEF SignOut
<1>4. CASE Reload(t) /\ token = None
  <2>1. Mounts(t, "app", None, TRUE, FALSE, {}) /\ UNCHANGED <<account, budget>>
    BY <1>4 DEF Reload, Mounts
  <2> QED  BY <2>1, MountStep
<1> QED
  BY <1>1, <1>2, <1>3, <1>4

\* A step that touches one tab only.
LEMMA OneTabStep ==
  ASSUME SessionInv, NEW t \in Tabs, TabInv(t)', TypeOK', DetailsStayHome',
         \A u \in Tabs \ {t} : Still(u) /\ overtaken'[u] = overtaken[u] /\ tainted'[u] = tainted[u],
         token' \in {token, None}
  PROVE  SessionInv'
<1>1. \A u \in Tabs \ {t} : TabInv(u)'
  BY QuietTab DEF SessionInv
<1> QED
  BY <1>1 DEF SessionInv

LEMMA SendsKeep ==
  ASSUME SessionInv, NEW t \in Tabs,
         SignIn(t) \/ SignUp(t) \/ Save(t) \/ Finish(t) \/ (Reload(t) /\ token # None)
  PROVE  SessionInv'
<1>1. TypeOK /\ TabInv(t) /\ DetailsStayHome
  BY DEF SessionInv
<1>2. TabInv(t)' /\ reqs' \in [Tabs -> SUBSET Requests]
  BY <1>1, SubmitTab, FormTab, RetryTab DEF SignIn, SignUp
<1>3. /\ \E q : reqs' = [reqs EXCEPT ![t] = @ \union {q}]
      /\ \E st \in {"busy", "ready", "loading"} : status' = [status EXCEPT ![t] = st]
      /\ UNCHANGED <<token, account, page, shown, cache, tainted>>
      /\ Spend \/ UNCHANGED budget
  <2>1. CASE SignIn(t) \/ SignUp(t)
    BY <2>1 DEF SignIn, SignUp, Submit, Send, history
  <2>2. CASE Save(t) \/ Finish(t)
    <3>1. status[t] = "ready" /\ UNCHANGED status
      BY <2>2 DEF Save, Finish
    <3>2. status' = [status EXCEPT ![t] = "ready"]
      BY <1>1, <3>1 DEF TypeOK
    <3> QED  BY <2>2, <3>2 DEF Save, Finish, Send
  <2>3. CASE Reload(t) /\ token # None
    BY <2>3 DEF Reload, Send
  <2> QED  BY <2>1, <2>2, <2>3
<1>4. \/ UNCHANGED overtaken /\ (crossed' = crossed \/ crossed' = (crossed \/ overtaken[t]))
      \/ overtaken' = [overtaken EXCEPT ![t] = FALSE] /\ crossed' = crossed
  BY DEF SignIn, SignUp, Submit, Save, Finish, Reload, history
<1>5. overtaken' \in [Tabs -> BOOLEAN] /\ crossed' \in BOOLEAN /\ (crossed => crossed')
      /\ \A u \in Tabs \ {t} : overtaken'[u] = overtaken[u]
  BY <1>1, <1>4 DEF TypeOK
<1>6. TypeOK'
  <2>1. status' \in [Tabs -> {"form", "busy", "loading", "ready", "error"}]
    BY <1>1, <1>3 DEF TypeOK
  <2> QED  BY <1>1, <1>2, <1>3, <1>5, <2>1, BudgetLeft DEF TypeOK, account
<1>7. DetailsStayHome'
  BY <1>1, <1>3, <1>5 DEF DetailsStayHome, account
<1>8. \A u \in Tabs \ {t} : Still(u) /\ overtaken'[u] = overtaken[u] /\ tainted'[u] = tainted[u]
  BY <1>1, <1>3, <1>5 DEF Still, TypeOK
<1> QED
  BY <1>2, <1>3, <1>6, <1>7, <1>8, OneTabStep

LEMMA Replaced ==
  ASSUME NEW t, NEW p \in {"login", "app", "setup"}, NEW r, NEW tok \in {token, None},
         token' = tok, crossed' = crossed, Replace(t, p, r, tok)
  PROVE  Mounts(t, p, tok, TRUE, p = "login", {r})
  BY DEF Replace, Mounts

\* Answers that move the tab to another page.
LEMMA MovesKeep ==
  ASSUME SessionInv, NEW t \in Tabs, NEW r \in reqs[t],
         \/ Profile(t, r) /\ r.kind # Home(Owner(r.sent)) /\ (r.kind = "app" \/ r.live)
         \/ ProfileRefused(t, r) \/ Peeked(t, r) \/ SaveRefused(t, r)
         \/ DataRefused(t, r) /\ r.live
  PROVE  SessionInv'
<1>1. Home(Owner(r.sent)) \in {"app", "setup"}
  BY DEF Home
<1>2. CASE (Profile(t, r) /\ r.kind # Home(Owner(r.sent)) /\ (r.kind = "app" \/ r.live)) \/ Peeked(t, r)
  <2>1. /\ Replace(t, Home(Owner(r.sent)), r, token)
        /\ UNCHANGED <<token, account, crossed, budget>>
    BY <1>2 DEF Profile, Peeked
  <2> DEFINE p == Home(Owner(r.sent))
  <2>2. Mounts(t, p, token, TRUE, p = "login", {r})
    BY <1>1, <2>1, Replaced
  <2> HIDE DEF p
  <2> QED  BY <2>1, <2>2, MountStep
<1>3. CASE ProfileRefused(t, r) \/ (SaveRefused(t, r) /\ r.kind # "save")
  <2>1. token' = None /\ Replace(t, "login", r, None) /\ UNCHANGED <<account, crossed, budget>>
    BY <1>3 DEF ProfileRefused, SaveRefused
  <2>2. Mounts(t, "login", None, TRUE, "login" = "login", {r})
    BY <2>1, Replaced
  <2> QED  BY <2>1, <2>2, MountStep
<1>4. CASE (DataRefused(t, r) /\ r.live) \/ (SaveRefused(t, r) /\ r.kind = "save")
  <2>1. SignOutOf(t) /\ UNCHANGED <<account, crossed, budget>>
    BY <1>4 DEF DataRefused, SaveRefused
  <2>2. Mounts(t, "login", None, FALSE, FALSE, {})
    BY <2>1 DEF SignOutOf, Load, Mounts
  <2> QED  BY <2>1, <2>2, MountStep
<1> QED
  BY <1>2, <1>3, <1>4

\* Answers after which the page stays.
LEMMA EndsKeep ==
  ASSUME SessionInv, NEW t \in Tabs, NEW r \in reqs[t],
         \/ PeekRefused(t, r) \/ WrongPassword(t, r) \/ EmailTaken(t, r) \/ Fails(t, r)
         \/ DataRefused(t, r) /\ ~r.live
         \/ Profile(t, r) /\ ~r.live /\ ~(r.kind # Home(Owner(r.sent)) /\ r.kind = "app")
  PROVE  SessionInv'
<1>1. TypeOK /\ TabInv(t) /\ DetailsStayHome
  BY DEF SessionInv
<1>2. /\ reqs' = [reqs EXCEPT ![t] = @ \ {r}] /\ token' \in {token, None}
      /\ UNCHANGED <<account, page, shown, cache, history>>
      /\ Spend \/ UNCHANGED budget
  <2>1. CASE PeekRefused(t, r) \/ WrongPassword(t, r) \/ EmailTaken(t, r) \/ Fails(t, r)
    BY <2>1 DEF PeekRefused, WrongPassword, EmailTaken, Fails, Done, SamePlace
  <2>2. CASE DataRefused(t, r) /\ ~r.live
    BY <2>2 DEF DataRefused, Done, history
  <2>3. CASE Profile(t, r) /\ ~r.live /\ ~(r.kind # Home(Owner(r.sent)) /\ r.kind = "app")
    <3>1. reqs' = [reqs EXCEPT ![t] = (@ \ {r}) \union {}]
      BY <2>3 DEF Profile
    <3> QED  BY <2>3, <3>1 DEF Profile, history
  <2> QED  BY <2>1, <2>2, <2>3
<1>3. \/ status' = status
      \/ r.live /\ r.kind \in LoginKinds /\ status' = [status EXCEPT ![t] = "form"]
      \/ r.live /\ r.kind \in {"app", "setup"} /\ status' = [status EXCEPT ![t] = "error"]
  <2>1. ASSUME NEW st, Show(t, r, st)
        PROVE  status' = status \/ (r.live /\ status' = [status EXCEPT ![t] = st])
    BY <1>1, <2>1 DEF Show, TypeOK
  <2>2. CASE PeekRefused(t, r) \/ WrongPassword(t, r) \/ EmailTaken(t, r)
    <3>1. status' = status \/ (Show(t, r, "form") /\ r.kind \in LoginKinds)
      BY <2>2 DEF PeekRefused, WrongPassword, EmailTaken, LoginKinds
    <3> QED  BY <2>1, <3>1
  <2>3. CASE Fails(t, r)
    <3>1. CASE r.kind \in {"app", "setup"}
      <4>1. After(r) = "error"
        BY <3>1 DEF After
      <4> QED  BY <2>1, <2>3, <3>1, <4>1 DEF Fails
    <3>2. CASE r.kind \in {"signin", "welcome", "register"}
      <4>1. After(r) = "form"
        BY <3>2 DEF After
      <4> QED  BY <2>1, <2>3, <3>2, <4>1 DEF Fails, LoginKinds
    <3>3. CASE r.kind \notin {"app", "setup", "signin", "welcome", "register"}
      BY <2>3, <3>3 DEF Fails
    <3> QED  BY <3>1, <3>2, <3>3
  <2>4. CASE DataRefused(t, r) /\ ~r.live
    BY <2>4 DEF DataRefused
  <2>5. CASE Profile(t, r) /\ ~r.live /\ ~(r.kind # Home(Owner(r.sent)) /\ r.kind = "app")
    BY <2>1, <2>5 DEF Profile
  <2> QED  BY <2>2, <2>3, <2>4, <2>5
<1>4. TabInv(t)'
  <2>1. /\ shown'[t] = shown[t] /\ cache'[t] = cache[t] /\ reqs'[t] = reqs[t] \ {r}
        /\ Stays(t)
    BY <1>1, <1>2 DEF TypeOK, Stays, history
  <2>2. \/ status'[t] = status[t]
        \/ r.live /\ r.kind \in LoginKinds /\ status'[t] = "form"
        \/ r.live /\ r.kind \in {"app", "setup"} /\ status'[t] = "error"
    BY <1>1, <1>3 DEF TypeOK
  <2> QED  BY <1>1, <2>1, <2>2, AnsweredTab
<1>5. TypeOK'
  <2>1. token' \in Tokens
    BY <1>1, <1>2 DEF TypeOK, Tokens
  <2>2. reqs' \in [Tabs -> SUBSET Requests]
    BY <1>1, <1>2 DEF TypeOK
  <2>3. status' \in [Tabs -> {"form", "busy", "loading", "ready", "error"}]
    BY <1>1, <1>3 DEF TypeOK
  <2> QED  BY <1>1, <1>2, <2>1, <2>2, <2>3, BudgetLeft DEF TypeOK, account, history
<1>6. DetailsStayHome'
  BY <1>1, <1>2 DEF DetailsStayHome, account, history
<1>7. \A u \in Tabs \ {t} : Still(u) /\ overtaken'[u] = overtaken[u] /\ tainted'[u] = tainted[u]
  BY <1>1, <1>2, <1>3 DEF Still, TypeOK, history
<1> QED
  BY <1>2, <1>4, <1>5, <1>6, <1>7, OneTabStep

\* Answers that fill the page.
LEMMA FillsKeep ==
  ASSUME SessionInv, NEW t \in Tabs, NEW r \in reqs[t],
         \/ Data(t, r)
         \/ Profile(t, r) /\ r.live /\ r.kind = Home(Owner(r.sent))
  PROVE  SessionInv'
<1>1. TypeOK /\ TabInv(t) /\ DetailsStayHome /\ r.sent \in Tokens
  BY DEF SessionInv, TypeOK, Requests
<1>2. CASE Data(t, r)
  <2>1. /\ reqs' = [reqs EXCEPT ![t] = @ \ {r}] /\ Valid(r.sent)
        /\ cache' = cache \/ cache' = [cache EXCEPT ![t] = Owner(r.sent)]
        /\ UNCHANGED <<token, account, page, status, shown, history, budget>>
    BY <1>2 DEF Data, Done
  <2>2. Owner(r.sent) \in People
    BY <1>1, <2>1, TokenOwner DEF People
  <2>3. TypeOK'
    <3>1. reqs' \in [Tabs -> SUBSET Requests] /\ cache' \in [Tabs -> People]
      BY <1>1, <2>1, <2>2 DEF TypeOK
    <3> QED  BY <1>1, <2>1, <3>1 DEF TypeOK, account, history
  <2>4. DetailsStayHome'
    BY <1>1, <2>1 DEF DetailsStayHome, account, history
  <2>5. \A u \in Tabs \ {t} : Still(u) /\ overtaken'[u] = overtaken[u] /\ tainted'[u] = tainted[u]
    BY <1>1, <2>1 DEF Still, TypeOK, history
  <2> QED  BY <1>1, <1>2, <2>1, <2>3, <2>4, <2>5, DataTab, OneTabStep
<1>3. CASE Profile(t, r) /\ r.live /\ r.kind = Home(Owner(r.sent))
  <2>1. /\ r.kind \in {"app", "setup"} /\ Valid(r.sent)
        /\ status' = [status EXCEPT ![t] = "ready"] /\ shown' = [shown EXCEPT ![t] = Owner(r.sent)]
        /\ reqs' = [reqs EXCEPT ![t] = (@ \ {r}) \union
                       (IF r.live /\ r.kind = "app" THEN {Request("query", NoOne)} ELSE {})]
        /\ UNCHANGED <<token, account, page, cache, history, budget>>
    BY <1>3 DEF Profile, Show, history
  <2>2. Owner(r.sent) \in People
    BY <1>1, <2>1, TokenOwner DEF People
  <2>3. Request("query", NoOne) \in Requests
    BY <1>1, RequestIs DEF PageKinds, People
  <2>4. TypeOK'
    <3>1. reqs' \in [Tabs -> SUBSET Requests]
      BY <1>1, <2>1, <2>3 DEF TypeOK
    <3>2. shown' \in [Tabs -> People]
      BY <1>1, <2>1, <2>2 DEF TypeOK
    <3>3. status' \in [Tabs -> {"form", "busy", "loading", "ready", "error"}]
      BY <1>1, <2>1 DEF TypeOK
    <3> QED  BY <1>1, <2>1, <3>1, <3>2, <3>3 DEF TypeOK, account, history
  <2>5. TabInv(t)'
    <3>1. \/ reqs'[t] = reqs[t] \ {r}
          \/ reqs'[t] = (reqs[t] \ {r}) \union {Request("query", NoOne)}
      BY <1>1, <2>1 DEF TypeOK
    <3>2. status'[t] = "ready" /\ shown'[t] = Owner(r.sent)
      BY <1>1, <2>1 DEF TypeOK
    <3>3. UNCHANGED <<token, page, cache, overtaken, tainted, crossed>>
      BY <2>1 DEF history
    <3> QED  BY <1>1, <1>3, <2>1, <3>1, <3>2, <3>3, ReadyTab
  <2>6. DetailsStayHome'
    BY <1>1, <2>1 DEF DetailsStayHome, account, history
  <2>7. \A u \in Tabs \ {t} : Still(u) /\ overtaken'[u] = overtaken[u] /\ tainted'[u] = tainted[u]
    BY <1>1, <2>1 DEF Still, TypeOK, history
  <2> QED  BY <2>1, <2>4, <2>5, <2>6, <2>7, OneTabStep
<1> QED
  BY <1>2, <1>3

\* The form's details reach the account of the token it was sent with.
LEMMA SavedKeeps ==
  ASSUME SessionInv, NEW t \in Tabs, NEW r \in reqs[t], Saved(t, r)
  PROVE  SessionInv'
<1>1. TypeOK /\ TabInv(t) /\ DetailsStayHome /\ r.sent \in Tokens /\ r.live \in BOOLEAN
  BY DEF SessionInv, TypeOK, Requests
<1>2. /\ r.kind \in {"save", "finish"} /\ Valid(r.sent)
      /\ profile' = [profile EXCEPT ![Owner(r.sent)] = r.who]
      /\ UNCHANGED <<token, issued, dead, crossed, budget>>
  BY DEF Saved
<1>3. r.sent # None /\ Owner(r.sent) \in Students
  BY <1>1, <1>2, TokenOwner
<1>4. r.who \in Students /\ (r.who = Owner(r.sent) \/ crossed)
  BY <1>1, <1>2, <1>3 DEF TabInv, Forms
<1>5. profile' \in [Students -> Students]
  BY <1>1, <1>2, <1>4 DEF TypeOK
<1>6. DetailsStayHome'
  BY <1>1, <1>2, <1>3, <1>4 DEF DetailsStayHome, TypeOK
<1>7. CASE r.kind = "save"
  <2>1. /\ reqs' = [reqs EXCEPT ![t] = @ \ {r}]
        /\ shown' = shown \/ shown' = [shown EXCEPT ![t] = Owner(r.sent)]
        /\ UNCHANGED <<onboarded, page, status, cache, overtaken, tainted>>
    BY <1>7 DEF Saved, Done
  <2>2. Owner(r.sent) \in People
    BY <1>3 DEF People
  <2>3. TypeOK'
    <3>1. reqs' \in [Tabs -> SUBSET Requests] /\ shown' \in [Tabs -> People]
      BY <1>1, <2>1, <2>2 DEF TypeOK
    <3> QED  BY <1>1, <1>2, <1>5, <2>1, <3>1 DEF TypeOK
  <2>4. \A u \in Tabs \ {t} : Still(u) /\ overtaken'[u] = overtaken[u] /\ tainted'[u] = tainted[u]
    BY <1>1, <1>2, <2>1 DEF Still, TypeOK
  <2> QED  BY <1>1, <1>2, <1>6, <1>7, <2>3, <2>4, SavedTab, OneTabStep
<1>8. CASE r.kind = "finish"
  <2>1. onboarded' = onboarded \union {Owner(r.sent)} /\ Replace(t, "app", r, token)
    BY <1>8 DEF Saved
  <2>2. Mounts(t, "app", token, TRUE, "app" = "login", {r})
    BY <1>2, <2>1, Replaced
  <2>3. TypeOK'
    BY <1>1, <1>2, <1>3, <1>5, <2>1, <2>2, MountTyped DEF TypeOK
  <2>4. \A u \in Tabs : TabInv(u)'
    BY <2>2, MountRest DEF SessionInv
  <2> QED  BY <1>6, <2>3, <2>4 DEF SessionInv
<1> QED
  BY <1>2, <1>7, <1>8

LEMMA IssuesKeep ==
  ASSUME SessionInv, NEW t \in Tabs, NEW r \in reqs[t], SignedIn(t, r) \/ Registered(t, r)
  PROVE  SessionInv'
<1>1. TypeOK /\ DetailsStayHome /\ \A u \in Tabs : TabInv(u)
  BY DEF SessionInv
<1>2. CASE SignedIn(t, r)
  <2>1. /\ r.kind = "signin" /\ token' = <<r.who, issued[r.who] + 1>>
        /\ issued' = [issued EXCEPT ![r.who] = @ + 1]
        /\ UNCHANGED <<dead, onboarded, profile, page, status, shown, cache, crossed, budget>>
    BY <1>2 DEF SignedIn
  <2>2. r.who \in Students
    BY <1>1, <2>1 DEF TabInv, Forms
  <2>3. token' \in Tokens
    BY <1>1, <2>1, <2>2, NewToken DEF TypeOK
  <2>4. issued' \in [Students -> Nat] /\ \A s \in Students : dead'[s] <= issued'[s]
    BY <1>1, <2>1, <2>2 DEF TypeOK
  <2>5. overtaken' \in [Tabs -> BOOLEAN] /\ tainted' \in [Tabs -> BOOLEAN]
    BY <1>1, <1>2 DEF SignedIn, Overtake, TypeOK
  <2>6. TypeOK'
    BY <1>1, <1>2, <2>1, <2>3, <2>4, <2>5, SignedInTabs DEF TypeOK
  <2>7. DetailsStayHome'
    BY <1>1, <2>1 DEF DetailsStayHome
  <2> QED  BY <1>1, <1>2, <2>6, <2>7, SignedInTabs DEF SessionInv
<1>3. CASE Registered(t, r)
  <2>1. /\ issued[r.who] = 0 /\ issued' = [issued EXCEPT ![r.who] = 1]
        /\ page' = [page EXCEPT ![t] = "setup"] /\ status' = [status EXCEPT ![t] = "loading"]
        /\ shown' = [shown EXCEPT ![t] = NoOne]
        /\ UNCHANGED <<dead, onboarded, profile, cache, crossed, budget>>
    BY <1>3 DEF Registered
  <2>2. r.who \in Students /\ token' \in Tokens /\ reqs' \in [Tabs -> SUBSET Requests]
    BY <1>1, <1>3, RegisteredTabs
  <2>3. issued' \in [Students -> Nat] /\ \A s \in Students : dead'[s] <= issued'[s]
    BY <1>1, <2>1, <2>2 DEF TypeOK
  <2>4. overtaken' \in [Tabs -> BOOLEAN] /\ tainted' \in [Tabs -> BOOLEAN]
    BY <1>1, <1>3 DEF Registered, TypeOK
  <2>5. shown' \in [Tabs -> People] /\ page' \in [Tabs -> {"login", "setup", "app"}]
    BY <1>1, <2>1 DEF TypeOK, People
  <2>6. TypeOK'
    BY <1>1, <2>1, <2>2, <2>3, <2>4, <2>5 DEF TypeOK
  <2>7. DetailsStayHome'
    BY <1>1, <2>1 DEF DetailsStayHome
  <2> QED  BY <1>1, <1>3, <2>6, <2>7, RegisteredTabs DEF SessionInv
<1> QED
  BY <1>2, <1>3

LEMMA ExpireKeeps == ASSUME SessionInv, NEW s \in Students, Expire(s) PROVE SessionInv'
<1>1. /\ dead[s] < issued[s] /\ dead' = [dead EXCEPT ![s] = @ + 1] /\ Spend
      /\ UNCHANGED <<token, issued, onboarded, profile, page, status, shown, cache, reqs,
                      overtaken, tainted, crossed>>
  BY DEF Expire, history
<1>2. dead' \in [Students -> Nat] /\ \A u \in Students : dead'[u] <= issued'[u]
  BY <1>1 DEF SessionInv, TypeOK
<1>3. TypeOK'
  BY <1>1, <1>2, BudgetLeft DEF SessionInv, TypeOK
<1>4. \A t \in Tabs : TabInv(t)'
  BY <1>1, QuietTab DEF SessionInv, Still
<1>5. DetailsStayHome'
  BY <1>1 DEF SessionInv, DetailsStayHome
<1> QED
  BY <1>3, <1>4, <1>5 DEF SessionInv

(***************************************************************************)
(* The theorems.                                                           *)
(***************************************************************************)
LEMMA SessionInitially == Init => SessionInv
<1> SUFFICES ASSUME Init PROVE SessionInv
  OBVIOUS
<1>1. TypeOK
  <2>1. issued \in [Students -> Nat] /\ dead \in [Students -> Nat]
        /\ \A s \in Students : dead[s] <= issued[s]
    BY DEF Init
  <2>2. token \in Tokens /\ NoOne \in People
    BY DEF Init, Tokens, People
  <2>3. shown \in [Tabs -> People] /\ cache \in [Tabs -> People] /\ profile \in [Students -> Students]
    BY <2>2 DEF Init
  <2>4. /\ page \in [Tabs -> {"login", "setup", "app"}]
        /\ status \in [Tabs -> {"form", "busy", "loading", "ready", "error"}]
    BY DEF Init
  <2>5. reqs \in [Tabs -> SUBSET Requests] /\ onboarded \in SUBSET Students /\ budget \in 0 .. MaxEvents
    BY Fresh DEF Init
  <2>6. overtaken \in [Tabs -> BOOLEAN] /\ tainted \in [Tabs -> BOOLEAN] /\ crossed \in BOOLEAN
    BY DEF Init
  <2> QED  BY <2>1, <2>2, <2>3, <2>4, <2>5, <2>6 DEF TypeOK
<1>2. DetailsStayHome
  BY DEF Init, DetailsStayHome
<1>3. \A t \in Tabs : TabInv(t)
  BY DEF Init, TabInv, Shape, Current, Forms, Own, Live
<1> QED
  BY <1>1, <1>2, <1>3 DEF SessionInv

LEMMA StutterKeeps == ASSUME SessionInv, UNCHANGED vars PROVE SessionInv'
<1>1. UNCHANGED <<token, issued, dead, onboarded, profile, page, status, shown, cache, reqs,
                  overtaken, tainted, crossed, budget>>
  BY DEF vars, account, history
<1>2. TypeOK' /\ DetailsStayHome'
  BY <1>1 DEF SessionInv, TypeOK, DetailsStayHome
<1>3. \A t \in Tabs : TabInv(t)'
  BY <1>1, QuietTab DEF SessionInv, Still
<1> QED
  BY <1>2, <1>3 DEF SessionInv

LEMMA AnswersKeep ==
  ASSUME SessionInv, NEW t \in Tabs, NEW r \in reqs[t], Answer(t, r)
  PROVE  SessionInv'
<1>1. r.live \in BOOLEAN
  BY DEF SessionInv, TypeOK, Requests
<1>2. CASE Profile(t, r)
  <2>1. r.kind \in {"app", "setup"}
    BY <1>2 DEF Profile
  <2> QED  BY <1>1, <1>2, <2>1, MovesKeep, EndsKeep, FillsKeep
<1>3. CASE DataRefused(t, r)
  BY <1>1, <1>3, MovesKeep, EndsKeep
<1>4. CASE Data(t, r) \/ Saved(t, r) \/ SignedIn(t, r) \/ Registered(t, r)
  BY <1>4, FillsKeep, SavedKeeps, IssuesKeep
<1>5. CASE PeekRefused(t, r) \/ WrongPassword(t, r) \/ EmailTaken(t, r) \/ Fails(t, r)
  BY <1>5, EndsKeep
<1>6. CASE ProfileRefused(t, r) \/ Peeked(t, r) \/ SaveRefused(t, r)
  BY <1>6, MovesKeep
<1> QED
  BY <1>2, <1>3, <1>4, <1>5, <1>6 DEF Answer

\* The invariant of the session.
THEOREM SessionIsSound == Spec => []SessionInv
<1>1. SessionInv /\ [Next]_vars => SessionInv'
  <2> SUFFICES ASSUME SessionInv, [Next]_vars PROVE SessionInv'
    OBVIOUS
  <2>1. ASSUME NEW t \in Tabs,
               \/ Visit(t) \/ Link(t) \/ Reload(t) \/ SignOut(t)
               \/ SignIn(t) \/ SignUp(t) \/ Save(t) \/ Finish(t)
        PROVE  SessionInv'
    BY <2>1, VisitsKeep, SendsKeep
  <2>2. CASE Answers
    BY <2>2, AnswersKeep DEF Answers
  <2>3. CASE \E s \in Students : Expire(s)
    BY <2>3, ExpireKeeps
  <2>4. CASE UNCHANGED vars
    BY <2>4, StutterKeeps
  <2> QED  BY <2>1, <2>2, <2>3, <2>4 DEF Next
<1> QED
  BY <1>1, SessionInitially, PTL DEF Spec

\* A page shows the profile of the student whose token the browser holds, and
\* no account is given another student's details, unless somebody signed in
\* elsewhere meanwhile (useProfile.ts, apollo.ts, the profile page).
THEOREM PagesStayOwn == Spec => []PagesAreOwn
<1>1. SessionInv => PagesAreOwn
  <2> SUFFICES ASSUME SessionInv PROVE PagesAreOwn
    OBVIOUS
  <2>1. ShownIsSignedIn
    BY DEF SessionInv, TabInv, Current, ShownIsSignedIn, TypeOK
  <2> QED  BY <2>1 DEF SessionInv, PagesAreOwn
<1> QED
  BY <1>1, SessionIsSound, PTL

\* A tab whose memory has not outlived a session draws its dashboard from the
\* data of the student it shows (session.ts signOut, useProfile.ts).
THEOREM DataStaysOwn == Spec => []DataIsOwn
<1>1. SessionInv => DataIsOwn
  <2> SUFFICES ASSUME SessionInv, NEW t \in Tabs, page[t] = "app", status[t] = "ready",
                      ~tainted[t]
               PROVE  cache[t] \in {NoOne, shown[t]}
    BY DEF DataIsOwn, SessionInv, TypeOK
  <2>1. shown[t] \in Students /\ NoOne \notin Students
    BY Fresh DEF SessionInv, TabInv, Shape
  <2>2. PICK s \in Students : OnlyOf(t, s)
    BY DEF SessionInv, TabInv, Own
  <2> QED  BY <2>1, <2>2 DEF OnlyOf
<1> QED
  BY <1>1, SessionIsSound, PTL

(***************************************************************************)
(* How a good token is lost.                                               *)
(***************************************************************************)
\* A step gives up a token that is still good.
Loses == Valid(token) /\ token' = None

\* In tab t, the student has signed out, or somebody's request to sign in, or a
\* request with another, expired token, has come to its end.
LostIn(t) ==
  \/ page'[t] = "login" /\ reqs'[t] = {} /\ cache'[t] = NoOne /\ status[t] = "ready"
  \/ \E r \in reqs[t] \ reqs'[t] : r.kind = "signin" \/ (~Valid(r.sent) /\ r.sent # token)

\* Leaving a page ends the answered request, or a live one like it: what is kept of the others is not live.
LEMMA LeavingEnds ==
  ASSUME TypeOK, NEW t \in Tabs, NEW r \in reqs[t], Loses, ~Valid(r.sent),
         reqs' = [reqs EXCEPT ![t] = Others(t, {r})]
  PROVE  LostIn(t)
<1>1. r.sent # token /\ reqs'[t] = Others(t, {r})
  BY DEF Loses, TypeOK
<1>2. CASE r \notin reqs'[t]
  BY <1>1, <1>2 DEF LostIn
<1>3. CASE r \in reqs'[t]
  <2>1. PICK q \in reqs[t] \ {r} : r = [q EXCEPT !.live = FALSE]
    BY <1>1, <1>3 DEF Others
  <2>2. q \in Requests
    BY DEF TypeOK
  <2>3. q.sent = r.sent
    BY <2>1, <2>2, Orphan
  <2>4. q \notin reqs'[t]
    <3>1. q.live
      BY <2>1, <2>2 DEF Requests
    <3> QED  BY <1>1, <3>1, OthersAre
  <2> QED  BY <1>1, <2>1, <2>3, <2>4 DEF LostIn
<1> QED  BY <1>2, <1>3

LEMMA LoadDrops ==
  ASSUME TypeOK, NEW t \in Tabs, SignOutOf(t)
  PROVE  page'[t] = "login" /\ reqs'[t] = {} /\ cache'[t] = NoOne
  BY DEF TypeOK, SignOutOf, Load, Mount

LEMMA DoneEnds ==
  ASSUME TypeOK, NEW t \in Tabs, NEW r \in reqs[t], Done(t, r)
  PROVE  r \in reqs[t] \ reqs'[t]
  BY DEF TypeOK, Done

LEMMA AnswerLoses ==
  ASSUME TypeOK, NEW t \in Tabs, Forms(t), NEW r \in reqs[t], Answer(t, r), Loses
  PROVE  LostIn(t)
<1>1. token # None /\ token' # token
  BY DEF Loses, Valid
<1>2. ~(Profile(t, r) \/ Peeked(t, r) \/ EmailTaken(t, r) \/ Data(t, r) \/ Saved(t, r) \/ Fails(t, r))
  BY <1>1 DEF Profile, Peeked, EmailTaken, Data, Saved, Fails
<1>3. ~(SignedIn(t, r) \/ Registered(t, r))
  <2>1. ASSUME SignedIn(t, r) PROVE FALSE
    <3>1. r.who \in Students
      BY <2>1 DEF Forms, SignedIn
    <3>2. token' = <<r.who, issued[r.who] + 1>> /\ issued[r.who] \in Nat
      BY <2>1, <3>1 DEF SignedIn, TypeOK
    <3> QED  BY <3>1, <3>2, NewToken DEF Loses
  <2>2. ASSUME Registered(t, r) PROVE FALSE
    <3>1. token' = <<r.who, 1>> /\ token' = <<NoOne, 0>>
      BY <2>2 DEF Registered, Loses, None
    <3>2. <<r.who, 1>>[2] = 1 /\ <<NoOne, 0>>[2] = 0
      OBVIOUS
    <3> QED  BY <3>1, <3>2
  <2> QED  BY <2>1, <2>2
<1>4. CASE ProfileRefused(t, r)
  <2>1. reqs' = [reqs EXCEPT ![t] = Others(t, {r})]
    BY <1>4 DEF ProfileRefused, Replace, Mount
  <2> QED  BY <1>4, <2>1, LeavingEnds DEF ProfileRefused
<1>5. CASE PeekRefused(t, r)
  <2>1. ~Valid(r.sent) /\ r.sent # token
    BY <1>5 DEF PeekRefused, Loses
  <2>2. r \in reqs[t] \ reqs'[t]
    BY <1>5, DoneEnds DEF PeekRefused
  <2> QED  BY <2>1, <2>2 DEF LostIn
<1>6. CASE WrongPassword(t, r)
  <2>1. r \in reqs[t] \ reqs'[t]
    BY <1>6, DoneEnds DEF WrongPassword
  <2> QED  BY <1>6, <2>1 DEF WrongPassword, LostIn
<1>7. CASE DataRefused(t, r)
  <2>1. ~Valid(r.sent) /\ r.sent # token /\ SignOutOf(t)
    BY <1>1, <1>7 DEF DataRefused, Loses
  <2>2. r \in reqs[t] \ reqs'[t]
    BY <2>1, LoadDrops
  <2> QED  BY <2>1, <2>2 DEF LostIn
<1>8. CASE SaveRefused(t, r)
  <2>1. ~Valid(r.sent) /\ r.sent # token
    BY <1>8 DEF SaveRefused, Loses
  <2>2. CASE r.kind = "save"
    <3>1. r \in reqs[t] \ reqs'[t]
      BY <1>8, <2>2, LoadDrops DEF SaveRefused
    <3> QED  BY <2>1, <3>1 DEF LostIn
  <2>3. CASE r.kind # "save"
    <3>1. reqs' = [reqs EXCEPT ![t] = Others(t, {r})]
      BY <1>8, <2>3 DEF SaveRefused, Replace, Mount
    <3> QED  BY <2>1, <3>1, LeavingEnds
  <2> QED  BY <2>2, <2>3
<1> QED  BY <1>2, <1>3, <1>4, <1>5, <1>6, <1>7, <1>8 DEF Answer

\* A token that is still good is given up only on a full sign-out, a wrong
\* password, or the late refusal of another token (session.ts api).
THEOREM TokenNotLost == Spec => TokenLostForCause
<1>1. ASSUME SessionInv, [Next]_vars, Loses
      PROVE  \E t \in Tabs : LostIn(t)
  <2>1. TypeOK /\ token # None /\ token' # token
    BY <1>1 DEF SessionInv, Loses, Valid
  <2>2. ASSUME NEW t \in Tabs, Visit(t) \/ Link(t) \/ Reload(t) \/ SignIn(t) \/ SignUp(t) \/ Save(t) \/ Finish(t)
        PROVE  FALSE
    BY <2>1, <2>2 DEF Visit, Link, Reload, SignIn, SignUp, Submit, Save, Finish
  <2>3. ASSUME NEW t \in Tabs, SignOut(t) PROVE LostIn(t)
    BY <2>1, <2>3, LoadDrops DEF SignOut, LostIn
  <2>4. ASSUME NEW s \in Students, Expire(s) PROVE FALSE
    BY <2>1, <2>4 DEF Expire
  <2>5. ~(UNCHANGED vars)
    BY <2>1 DEF vars
  <2>6. CASE Answers
    BY <1>1, <2>1, <2>6, AnswerLoses DEF Answers, SessionInv, TabInv
  <2> QED  BY <1>1, <2>2, <2>3, <2>4, <2>5, <2>6 DEF Next
<1>2. ASSUME SessionInv, [Next]_vars
      PROVE  [Valid(token) /\ token' = None =>
                \E t \in Tabs :
                  \/ page'[t] = "login" /\ reqs'[t] = {} /\ cache'[t] = NoOne /\ status[t] = "ready"
                  \/ \E r \in reqs[t] \ reqs'[t] : r.kind = "signin" \/ (~Valid(r.sent) /\ r.sent # token)]_vars
  BY <1>1, <1>2 DEF Loses, LostIn
<1> QED
  BY <1>2, SessionIsSound, PTL DEF Spec, TokenLostForCause
=============================================================================
