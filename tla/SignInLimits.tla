---------------------------- MODULE SignInLimits ----------------------------
(***************************************************************************)
(* The counters behind sign-in (backend auth/rateLimiter.ts, the login     *)
(* route of auth/router.ts): failures per email and per address, kept in   *)
(* the memory of one process in windows of fixed length, dropped lazily on *)
(* lookup or swept when too many keys are tracked.                         *)
(*                                                                         *)
(* The route asks both counters, then checks the password, then counts:    *)
(* attempts in flight have all passed the question before any is counted.  *)
(***************************************************************************)
EXTENDS Integers, Sequences, FiniteSets, Functions

CONSTANTS Emails, Addresses,
          EmailLimit, AddressLimit, Window,
          MaxTracked,    \* keys a counter tracks before it sweeps
          MaxPending,    \* bound: sign-ins in flight at once
          MaxNow,        \* bound: time
          MaxSignIns     \* bound: sign-ins

ASSUME Limits == /\ EmailLimit \in Nat \ {0} /\ AddressLimit \in Nat \ {0}
                 /\ Window \in Nat \ {0} /\ MaxTracked \in Nat
                 /\ Emails \intersect Addresses = {}
ASSUME SomeKeys == IsFiniteSet(Emails) /\ IsFiniteSet(Addresses)
ASSUME SignInBounds == {MaxPending, MaxNow, MaxSignIns} \subseteq Nat

VARIABLES
  now,
  windows,      \* windows[k]: [count, resetAt], count 0 when k is not tracked
  pending,      \* pending[e][a]: sign-ins that passed the question
  fails,        \* history: fails[k], when failures were counted, since a reset
  signIns

limitVars == <<now, windows, pending, fails, signIns>>

Keys == Emails \union Addresses
LimitOf(k) == IF k \in Emails THEN EmailLimit ELSE AddressLimit
Counter(k) == IF k \in Emails THEN Emails ELSE Addresses
NoWindow == [count |-> 0, resetAt |-> 0]

(***************************************************************************)
(* The limiter.  active forgets an expired window; the effect on the map   *)
(* is in Active, what is left of a key in Live.                            *)
(***************************************************************************)
\* (defect: the last instant still belongs to the window)
ExpiredLate(w) == w.count > 0 /\ w.resetAt < now
Expired(w) == w.count > 0 /\ w.resetAt <= now

Live(k) == IF Expired(windows[k]) THEN NoWindow ELSE windows[k]
Active(ks) == [k \in Keys |-> IF k \in ks THEN Live(k) ELSE windows[k]]

Blocked(k) == Live(k).count >= LimitOf(k)

Size(ws, ks) == Cardinality({k \in ks : ws[k].count > 0})

Sweep(ws, ks) ==
  IF Size(ws, ks) >= MaxTracked THEN [k \in Keys |-> IF k \in ks THEN Live(k) ELSE ws[k]] ELSE ws

\* record: the window goes on, or a new one begins after a sweep.
Recorded(ws, k) ==
  IF Live(k).count > 0 THEN [ws EXCEPT ![k] = [Live(k) EXCEPT !.count = @ + 1]]
  ELSE [Sweep([ws EXCEPT ![k] = NoWindow], Counter(k)) EXCEPT ![k] = [count |-> 1, resetAt |-> now + Window]]

(***************************************************************************)
(* The login route.                                                        *)
(***************************************************************************)
Attempts == Emails \X Addresses
PendingOf(k) == SumFunctionOnSet(pending, {p \in Attempts : k \in {p[1], p[2]}})
PendingAll == SumFunction(pending)

\* Both counters are asked; a blocked one is answered 429 with nothing counted.
Ask(e, a) ==
  /\ signIns < MaxSignIns /\ PendingAll < MaxPending
  /\ signIns' = signIns + 1
  /\ windows' = Active({e, a})
  /\ pending' = IF Blocked(e) \/ Blocked(a) THEN pending ELSE [pending EXCEPT ![<<e, a>>] = @ + 1]
  /\ UNCHANGED <<now, fails>>

Wrong(e, a) ==
  /\ pending[<<e, a>>] > 0
  /\ pending' = [pending EXCEPT ![<<e, a>>] = @ - 1]
  /\ windows' = Recorded(Recorded(windows, e), a)
  /\ fails' = [fails EXCEPT ![e] = Append(@, now), ![a] = Append(@, now)]
  /\ UNCHANGED <<now, signIns>>

\* The right password forgets the email's failures, not the address's.
Right(e, a) ==
  /\ pending[<<e, a>>] > 0
  /\ pending' = [pending EXCEPT ![<<e, a>>] = @ - 1]
  /\ windows' = [windows EXCEPT ![e] = NoWindow]
  /\ fails' = [fails EXCEPT ![e] = <<>>]
  /\ UNCHANGED <<now, signIns>>

Tick == now < MaxNow /\ now' = now + 1 /\ UNCHANGED <<windows, pending, fails, signIns>>

\* A new process counts from nothing; sign-ins in flight are lost.
Restart ==
  /\ windows # [k \in Keys |-> NoWindow]
  /\ windows' = [k \in Keys |-> NoWindow]
  /\ pending' = [p \in Attempts |-> 0]
  /\ fails' = [k \in Keys |-> <<>>]
  /\ UNCHANGED <<now, signIns>>

LimitInit ==
  /\ now = 0
  /\ windows = [k \in Keys |-> NoWindow]
  /\ pending = [p \in Attempts |-> 0]
  /\ fails = [k \in Keys |-> <<>>]
  /\ signIns = 0

LimitNext ==
  \/ \E e \in Emails : \E a \in Addresses : Ask(e, a) \/ Wrong(e, a) \/ Right(e, a)
  \/ Tick \/ Restart

LimitSpec == LimitInit /\ [][LimitNext]_limitVars

(***************************************************************************)
(* Properties.                                                             *)
(***************************************************************************)
\* Counters and sign-ins in flight stay in their range.
LimitTypeOK ==
  /\ now \in 0..MaxNow /\ signIns \in 0..MaxSignIns
  /\ windows \in [Keys -> [count : 0..MaxSignIns, resetAt : 0..(MaxNow + Window)]]
  /\ pending \in [Attempts -> 0..MaxPending]

\* The window a list of failures leaves open at the end: a failure at or
\* after the end of a window begins the next one.
Counted(w, t) == IF w.count > 0 /\ t < w.resetAt THEN [w EXCEPT !.count = @ + 1]
                 ELSE [count |-> 1, resetAt |-> t + Window]

LastWindow(times) ==
  LET after[n \in 0 .. Len(times)] == IF n = 0 THEN NoWindow ELSE Counted(after[n - 1], times[n])
  IN  after[Len(times)]

\* A key is refused exactly while the fixed window its failures opened last
\* is running and full, whatever was looked up, swept or reset in between
\* (rateLimiter.ts: fixed-window attempt counting).
RefusedByWindow ==
  \A k \in Keys :
    LET w == LastWindow(fails[k])
        running == IF windows[k].resetAt <= now THEN 0 ELSE windows[k].count
    IN (running >= LimitOf(k)) = (w.count >= LimitOf(k) /\ now < w.resetAt)

\* Passwords tried against one key in one window exceed the limit at most by
\* the sign-ins that were in flight together when it was reached (router.ts
\* login: asked before the password is checked, counted after).
GuessesAreBounded ==
  \A k \in Keys :
    windows[k].resetAt > now => windows[k].count + PendingOf(k) <= LimitOf(k) - 1 + MaxPending

\* Who is refused, and how many guesses get through before.
LimitsHold == RefusedByWindow /\ GuessesAreBounded
=============================================================================
