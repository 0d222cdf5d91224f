-------------------------- MODULE InstancesProofs --------------------------
(***************************************************************************)
(* The parts of MCInstances, for every calendar without a change of clock, *)
(* any instances, pairs and slots, any limits, keys and numbers of         *)
(* requests: first each part by itself, then all side by side.             *)
(***************************************************************************)
EXTENDS MCInstances, SharedLemmas

(***************************************************************************)
(* Where a local week is never shorter nor longer than WEEK_MS, every      *)
(* shift is cut exactly at the Mondays it crosses.                         *)
(***************************************************************************)
\* What the loop keeps: where the cursor may be, and what was counted so far.
SplitInv ==
  /\ shift \in Shifts
  /\ cursor \in Int /\ shift.from <= cursor
  /\ cursor > shift.from => cursor <= shift.to
  /\ \A p \in pieces : p.from \in Int /\ p.to \in Int
  /\ CountedInItsWeek

\* Before the first pass nothing is counted and nothing has to be.
LEMMA SplitStart == SplitInit => SplitInv
<1> SUFFICES ASSUME SplitInit PROVE SplitInv
  OBVIOUS
<1>1. shift.from \in Int /\ shift.to \in Int
  BY InstantsAreIntegers DEF SplitInit, Shifts
<1> QED  BY <1>1 DEF SplitInit, SplitInv, CountedInItsWeek

\* A pass keeps it, every worked instant being in some week.
LEMMA SplitStep ==
  ASSUME RegularWeeks, \A a, b \in Instants : \A t \in a .. b : Covered(t),
         SplitInv, [Pass]_splitVars
  PROVE  SplitInv'
<1>1. CASE UNCHANGED splitVars
  BY <1>1 DEF SplitInv, CountedInItsWeek, splitVars
<1>2. CASE Pass
  <2> DEFINE end == SliceEnd(cursor, shift.to)
             piece == [week |-> WeekStartOf(cursor), from |-> cursor, to |-> end]
  <2>1. /\ shift.from \in Instants /\ shift.to \in Instants
        /\ shift.from \in Int /\ shift.to \in Int /\ cursor \in Int
        /\ shift.from <= cursor /\ cursor < shift.to
    BY <1>2, InstantsAreIntegers DEF SplitInv, Shifts, Pass
  <2>2. Covered(cursor)
    BY <2>1
  <2>3. /\ end \in Int /\ cursor < end /\ end <= shift.to
        /\ \A t \in cursor .. (end - 1) : WeekStartOf(t) = WeekStartOf(cursor)
    BY <2>1, <2>2, SliceIsOneWeek
  <2>4. cursor' = end /\ pieces' = pieces \union {piece} /\ shift' = shift
    BY <1>2 DEF Pass
  <2> HIDE DEF end
  <2>5. piece.week = WeekStartOf(cursor) /\ piece.from = cursor /\ piece.to = end
    OBVIOUS
  <2> HIDE DEF piece
  <2>6. ASSUME NEW t \in shift.from .. (end - 1)
        PROVE  \E p \in pieces' : p.from <= t /\ t < p.to /\ p.week = WeekStartOf(t)
    <3>1. CASE t < cursor
      <4>1. t \in shift.from .. (cursor - 1)
        BY <2>1, <2>3, <3>1
      <4> QED  BY <4>1, <2>4 DEF SplitInv, CountedInItsWeek
    <3>2. CASE cursor <= t
      <4>1. t \in cursor .. (end - 1)
        BY <2>1, <2>3, <3>2
      <4>2. piece.from <= t /\ t < piece.to /\ piece.week = WeekStartOf(t)
        BY <4>1, <2>1, <2>3, <2>5
      <4> QED  BY <4>2, <2>4
    <3> QED  BY <2>1, <2>3, <3>1, <3>2
  <2>7. \A p \in pieces' : /\ p.from \in Int /\ p.to \in Int
                           /\ p.from < p.to /\ shift.from <= p.from /\ p.to <= end
    BY <2>1, <2>3, <2>4, <2>5 DEF SplitInv, CountedInItsWeek
  <2>8. \A p, q \in pieces' : p # q => p.to <= q.from \/ q.to <= p.from
    BY <2>1, <2>3, <2>4, <2>5 DEF SplitInv, CountedInItsWeek
  <2> QED  BY <2>1, <2>3, <2>4, <2>6, <2>7, <2>8 DEF SplitInv, CountedInItsWeek
<1> QED  BY <1>1, <1>2

\* FR-2 of the requirements: whatever a shift is and wherever weeks begin, its
\* time is counted once, in the week it was worked, as long as no local week is
\* shorter or longer than the constant the code adds.
THEOREM SplitIsExact ==
  ASSUME RegularWeeks, \A a, b \in Instants : \A t \in a .. b : Covered(t)
  PROVE  SplitSpec => []CountedInItsWeek
<1>1. SplitInit => SplitInv
  BY SplitStart
<1>2. SplitInv /\ [Pass]_splitVars => SplitInv'
  BY SplitStep
<1>3. SplitInv => CountedInItsWeek
  BY DEF SplitInv
<1> QED  BY <1>1, <1>2, <1>3, PTL DEF SplitSpec

\* What the violated run shows is the only way a pass can stand still: while no
\* week is longer than the constant, every pass advances the cursor.
THEOREM PassAdvances ==
  ASSUME RegularWeeks, \A a, b \in Instants : \A t \in a .. b : Covered(t)
  PROVE  SplitSpec => [][cursor' > cursor]_splitVars
<1>1. SplitInit => SplitInv
  BY SplitStart
<1>2. SplitInv /\ [Pass]_splitVars => SplitInv'
  BY SplitStep
<1>3. SplitInv /\ [Pass]_splitVars => [cursor' > cursor]_splitVars
  <2> SUFFICES ASSUME SplitInv, Pass PROVE cursor' > cursor
    OBVIOUS
  <2>1. /\ shift.from \in Instants /\ shift.to \in Instants
        /\ shift.to \in Int /\ cursor \in Int
        /\ shift.from \in Int /\ shift.from <= cursor /\ cursor < shift.to
    BY InstantsAreIntegers DEF SplitInv, Shifts, Pass
  <2>2. Covered(cursor)
    BY <2>1
  <2>3. cursor < SliceEnd(cursor, shift.to) /\ SliceEnd(cursor, shift.to) \in Int
    BY <2>1, <2>2, SliceIsOneWeek
  <2> QED  BY <2>1, <2>3 DEF Pass
<1> QED  BY <1>1, <1>2, <1>3, PTL DEF SplitSpec

(***************************************************************************)
(* Whom the optimiser lets in.                                             *)
(***************************************************************************)
\* A key the vault held at some time from t on.
HeldSince(k, t) == \E u \in t..clock : k \in held[u]

(***************************************************************************)
(* The properties speak of requests that have been judged.  What makes     *)
(* them inductive is where their keys come from: a value that is kept, or  *)
(* on its way, was in the vault at or after the time it is stamped with.   *)
(***************************************************************************)
Request ==
  [state : {"new", "queued", "reading", "read", "admitted", "refused", "unavailable"},
   presents : SharedKeys \union {NoKey}, now : 0..clock, expected : SharedKeys \union {NoKey}]

VaultTyped ==
  /\ clock \in 0..MaxClock /\ badReads \in 0..MaxBadReads
  /\ vaultKey \in SharedKeys /\ held \in [0..MaxClock -> SUBSET SharedKeys]
  /\ vaultKey \in held[clock] /\ keyFrom \in {"setting", "vault", "none"}
KeptTyped == cached \in [value : SharedKeys \union {NoKey}, at : 0..clock]
CallsTyped == calls \in [Calls -> Request]
KeyTyped == VaultTyped /\ KeptTyped /\ CallsTyped

LockIsHeld ==
  /\ \A c \in Calls : (lock = c) = (calls[c].state \in {"reading", "read"})
  /\ \A c \in Calls : calls[c].state \in {"queued", "reading", "read", "unavailable"} => keyFrom = "vault"

FromTheVault ==
  /\ cached.value # NoKey => HeldSince(cached.value, cached.at)
  /\ \A c \in Calls : calls[c].state = "read" => HeldSince(calls[c].expected, calls[c].now)
  /\ \A c \in Calls : keyFrom = "vault" /\ calls[c].state = "admitted" => calls[c].presents = calls[c].expected

KeyInv == KeyTyped /\ LockIsHeld /\ FromTheVault /\ JudgedByCurrent

\* At the start the vault holds its first key, and nobody has asked.
LEMMA KeyInitially == KeyInit => KeyInv
  BY KeyTimes, NoKeyIsNone
  DEF KeyInit, KeyInv, KeyTyped, VaultTyped, KeptTyped, CallsTyped, Request, LockIsHeld, FromTheVault, JudgedByCurrent

(***************************************************************************)
(* One step.  The history of the vault only grows, so what was held since  *)
(* a time still was, and what was current still is.                        *)
(***************************************************************************)
HistoryGrows == clock <= clock' /\ \A t \in 0..clock : held[t] \subseteq held'[t]

LEMMA StillHeld ==
  ASSUME KeyTyped, KeyTyped', HistoryGrows, NEW k, NEW t \in Nat
  PROVE  HeldSince(k, t) => HeldSince(k, t)'
  BY DEF KeyTyped, VaultTyped, KeptTyped, CallsTyped, HistoryGrows, HeldSince

LEMMA StillCurrent ==
  ASSUME KeyTyped, KeyTyped', HistoryGrows, NEW k, NEW t \in Nat
  PROVE  k \in Current(t) => k \in Current(t)'
  BY KeyTimes DEF KeyTyped, VaultTyped, KeptTyped, CallsTyped, HistoryGrows, Current

\* A key held since t is current at t and while the kept value is young.
LEMMA HeldIsCurrent ==
  ASSUME KeyTyped, NEW k, NEW t \in 0..clock, NEW u \in t..clock,
         u - t < CacheSeconds, HeldSince(k, t)
  PROVE  k \in Current(u)
  BY KeyTimes DEF KeyTyped, VaultTyped, KeptTyped, CallsTyped, HeldSince, Current

\* Requests and the vault keep their domains.
LEMMA KeyTypedNext == KeyTyped /\ [KeyNext]_keyVars => KeyTyped'
<1> SUFFICES ASSUME VaultTyped, KeptTyped, CallsTyped, [KeyNext]_keyVars
             PROVE  VaultTyped' /\ KeptTyped' /\ CallsTyped'
  BY DEF KeyTyped
<1>0. clock \in 0..clock
  BY KeyTimes DEF VaultTyped
<1> USE KeyTimes
<1>1. CASE KeyTick
  <2>1. VaultTyped'
    BY <1>1 DEF KeyTick, VaultTyped
  <2>2. KeptTyped'
    BY <1>1 DEF KeyTick, KeptTyped, VaultTyped
  <2>3. CallsTyped'
    BY <1>1 DEF KeyTick, CallsTyped, Request, VaultTyped
  <2> QED  BY <2>1, <2>2, <2>3
<1>2. ASSUME NEW k \in SharedKeys, Rotate(k) PROVE VaultTyped' /\ KeptTyped' /\ CallsTyped'
  <2>1. VaultTyped'
    BY <1>2 DEF Rotate, VaultTyped
  <2>2. KeptTyped'
    BY <1>2 DEF Rotate, KeptTyped, VaultTyped
  <2>3. CallsTyped'
    BY <1>2 DEF Rotate, CallsTyped, Request, VaultTyped
  <2> QED  BY <2>1, <2>2, <2>3
<1>3. ASSUME NEW c \in Calls, NEW k \in SharedKeys, Present(c, k) PROVE VaultTyped' /\ KeptTyped' /\ CallsTyped'
  <2>1. VaultTyped'
    BY <1>3 DEF Present, Verdict, vaultVars, VaultTyped
  <2>2. KeptTyped'
    BY <1>3 DEF Present, Verdict, vaultVars, KeptTyped, VaultTyped
  <2>3. CallsTyped'
    <3>1. \A state \in {"admitted", "refused", "queued"} :
            [calls[c] EXCEPT !.presents = k, !.state = state] \in Request
      BY DEF CallsTyped, Request
    <3> QED  BY <1>3, <3>1 DEF Present, Verdict, vaultVars, CallsTyped, Request, VaultTyped
  <2> QED  BY <2>1, <2>2, <2>3
<1>4. ASSUME NEW c \in Calls, Hit(c) PROVE VaultTyped' /\ KeptTyped' /\ CallsTyped'
  <2>1. VaultTyped'
    BY <1>4 DEF Hit, Judged, Verdict, vaultVars, VaultTyped
  <2>2. KeptTyped'
    BY <1>4 DEF Hit, Judged, Verdict, vaultVars, KeptTyped, VaultTyped
  <2>3. CallsTyped'
    <3>1. Judged(c, cached.value, clock) \in Request
      <4>1. cached.value \in SharedKeys \union {NoKey}
        BY DEF KeptTyped
      <4>2. \A v \in SharedKeys \union {NoKey}, state \in {"admitted", "refused"} :
              [calls[c] EXCEPT !.state = state, !.expected = v, !.now = clock] \in Request
        BY <1>0 DEF CallsTyped, Request
      <4>3. PICK state \in {"admitted", "refused"} : Verdict(calls[c].presents, cached.value) = state
        BY DEF Verdict
      <4> QED  BY <4>1, <4>2, <4>3, Zenon DEF Judged
    <3>2. calls' = [calls EXCEPT ![c] = Judged(c, cached.value, clock)] /\ clock' = clock
      BY <1>4 DEF Hit
    <3>3. Request' = Request
      BY <3>2 DEF Request
    <3> QED  BY ONLY <3>1, <3>2, <3>3, CallsTyped DEF CallsTyped
  <2> QED  BY <2>1, <2>2, <2>3
<1>5. ASSUME NEW c \in Calls, Miss(c) PROVE VaultTyped' /\ KeptTyped' /\ CallsTyped'
  <2>1. VaultTyped'
    BY <1>5 DEF Miss, vaultVars, VaultTyped
  <2>2. KeptTyped'
    BY <1>5 DEF Miss, vaultVars, KeptTyped, VaultTyped
  <2>3. CallsTyped'
    <3>1. [calls[c] EXCEPT !.state = "reading", !.now = clock] \in Request
      BY <1>0 DEF CallsTyped, Request
    <3> QED  BY <1>5, <3>1 DEF Miss, vaultVars, CallsTyped, Request
  <2> QED  BY <2>1, <2>2, <2>3
<1>6. ASSUME NEW c \in Calls, Read(c) PROVE VaultTyped' /\ KeptTyped' /\ CallsTyped'
  <2>1. VaultTyped'
    BY <1>6 DEF Read, vaultVars, VaultTyped
  <2>2. KeptTyped'
    BY <1>6 DEF Read, vaultVars, KeptTyped, VaultTyped
  <2>3. CallsTyped'
    BY <1>6 DEF Read, vaultVars, CallsTyped, Request, VaultTyped
  <2> QED  BY <2>1, <2>2, <2>3
<1>7. ASSUME NEW c \in Calls, Keep(c) PROVE VaultTyped' /\ KeptTyped' /\ CallsTyped'
  <2> DEFINE judged == Judged(c, calls[c].expected, calls[c].now)
  <2>0. /\ cached' = [value |-> calls[c].expected, at |-> calls[c].now]
        /\ calls' = [calls EXCEPT ![c] = judged] /\ UNCHANGED <<clock, keyFrom, vaultVars, badReads>>
    BY <1>7 DEF Keep
  <2>1. VaultTyped'
    BY <2>0 DEF vaultVars, VaultTyped
  <2>2. KeptTyped'
    BY <2>0 DEF KeptTyped, CallsTyped, Request
  <2>3. judged \in Request
    BY DEF Judged, Verdict, CallsTyped, Request
  <2> HIDE DEF judged
  <2>4. Request' = Request
    BY <2>0 DEF Request
  <2>5. CallsTyped'
    BY ONLY <2>0, <2>3, <2>4, CallsTyped DEF CallsTyped
  <2> QED  BY <2>1, <2>2, <2>5
<1>8. ASSUME NEW c \in Calls, ReadFails(c) PROVE VaultTyped' /\ KeptTyped' /\ CallsTyped'
  <2>1. VaultTyped'
    BY <1>8 DEF ReadFails, vaultVars, VaultTyped
  <2>2. KeptTyped'
    BY <1>8 DEF ReadFails, vaultVars, KeptTyped, VaultTyped
  <2>3. CallsTyped'
    BY <1>8 DEF ReadFails, vaultVars, CallsTyped, Request, VaultTyped
  <2> QED  BY <2>1, <2>2, <2>3
<1>9. CASE UNCHANGED keyVars
  <2>1. VaultTyped'
    BY <1>9 DEF keyVars, vaultVars, VaultTyped
  <2>2. KeptTyped'
    BY <1>9 DEF keyVars, vaultVars, KeptTyped, VaultTyped
  <2>3. CallsTyped'
    BY <1>9 DEF keyVars, vaultVars, CallsTyped, Request, VaultTyped
  <2> QED  BY <2>1, <2>2, <2>3
<1> QED
  BY <1>1, <1>2, <1>3, <1>4, <1>5, <1>6, <1>7, <1>8, <1>9 DEF KeyNext, Enters, Leaves

\* Only time and a rotation touch the history, and both add to it.
LEMMA HistoryNext == KeyTyped /\ [KeyNext]_keyVars => HistoryGrows
<1> SUFFICES ASSUME KeyTyped, [KeyNext]_keyVars PROVE HistoryGrows
  OBVIOUS
<1>1. CASE KeyTick
  BY <1>1, KeyTimes DEF KeyTick, KeyTyped, VaultTyped, KeptTyped, CallsTyped, HistoryGrows
<1>2. ASSUME NEW k \in SharedKeys, Rotate(k) PROVE HistoryGrows
  BY <1>2, KeyTimes DEF Rotate, KeyTyped, VaultTyped, KeptTyped, CallsTyped, HistoryGrows
<1>3. CASE UNCHANGED <<clock, held>>
  BY <1>3 DEF KeyTyped, VaultTyped, KeptTyped, CallsTyped, HistoryGrows
<1> QED
  BY <1>1, <1>2, <1>3
  DEF KeyNext, Enters, Leaves, Present, Hit, Miss, Read, Keep, ReadFails, keyVars, vaultVars

\* The lock is taken by a call that finds it free, and given up by every end of
\* a read.
LEMMA LockNext == KeyTyped /\ LockIsHeld /\ [KeyNext]_keyVars => LockIsHeld'
<1> SUFFICES ASSUME VaultTyped, CallsTyped, LockIsHeld, [KeyNext]_keyVars PROVE LockIsHeld'
  BY DEF KeyTyped
<1> USE NoKeyIsNone DEF LockIsHeld, CallsTyped, Request
<1>1. CASE KeyTick
  BY <1>1 DEF KeyTick
<1>2. ASSUME NEW k \in SharedKeys, Rotate(k) PROVE LockIsHeld'
  BY <1>2 DEF Rotate
<1>3. ASSUME NEW c \in Calls, NEW k \in SharedKeys, Present(c, k) PROVE LockIsHeld'
  BY <1>3 DEF Present, Verdict, VaultTyped
<1>4. ASSUME NEW c \in Calls, Hit(c) PROVE LockIsHeld'
  BY <1>4 DEF Hit, Judged, Verdict
<1>5. ASSUME NEW c \in Calls, Miss(c) PROVE LockIsHeld'
  BY <1>5 DEF Miss
<1>6. ASSUME NEW c \in Calls, Read(c) PROVE LockIsHeld'
  BY <1>6 DEF Read
<1>7. ASSUME NEW c \in Calls, Keep(c) PROVE LockIsHeld'
  BY <1>7 DEF Keep, Judged, Verdict
<1>8. ASSUME NEW c \in Calls, ReadFails(c) PROVE LockIsHeld'
  BY <1>8 DEF ReadFails
<1>9. CASE UNCHANGED keyVars
  BY <1>9 DEF keyVars
<1> QED
  BY <1>1, <1>2, <1>3, <1>4, <1>5, <1>6, <1>7, <1>8, <1>9 DEF KeyNext, Enters, Leaves

(***************************************************************************)
(* What a request is judged by.  Only Hit and Keep judge behind the lock;  *)
(* everybody else's verdict stands, and stays current.                     *)
(***************************************************************************)
Sound(c) ==
  /\ calls[c].state = "read" => HeldSince(calls[c].expected, calls[c].now)
  /\ keyFrom = "vault" /\ calls[c].state = "admitted" => calls[c].presents = calls[c].expected
  /\ keyFrom = "vault" /\ calls[c].state \in {"admitted", "refused"}
       => calls[c].expected \in Current(calls[c].now)

KeptIsSound == cached.value # NoKey => HeldSince(cached.value, cached.at)

LEMMA SoundnessIsAll ==
  FromTheVault /\ JudgedByCurrent <=> KeptIsSound /\ \A c \in Calls : Sound(c)
  BY DEF FromTheVault, JudgedByCurrent, KeptIsSound, Sound

LEMMA UnmovedIsSound ==
  ASSUME KeyTyped, KeyTyped', HistoryGrows, NEW c \in Calls, Sound(c),
         UNCHANGED <<calls[c], keyFrom>>
  PROVE  Sound(c)'
<1>1. calls[c].now \in Nat
  BY DEF KeyTyped, CallsTyped, Request
<1> QED
  BY <1>1, StillHeld, StillCurrent DEF Sound

LEMMA UnmovedIsKept ==
  ASSUME KeyTyped, KeyTyped', HistoryGrows, KeptIsSound, UNCHANGED cached
  PROVE  KeptIsSound'
<1>1. cached.at \in Nat
  BY DEF KeyTyped, KeptTyped
<1> QED
  BY <1>1, StillHeld DEF KeptIsSound

LEMMA SoundNext ==
  ASSUME KeyInv, [KeyNext]_keyVars, NEW c \in Calls
  PROVE  KeptIsSound' /\ Sound(c)'
<1>1. KeyTyped /\ KeyTyped' /\ HistoryGrows
  BY KeyTypedNext, HistoryNext DEF KeyInv
<1>2. KeptIsSound /\ Sound(c)
  BY SoundnessIsAll DEF KeyInv
<1>3. calls[c].now \in 0..clock /\ cached.at \in 0..clock
  BY <1>1 DEF KeyTyped, KeptTyped, CallsTyped, Request
<1>4. CASE UNCHANGED <<calls[c], keyFrom, cached>>
  BY <1>1, <1>2, <1>4, UnmovedIsSound, UnmovedIsKept
<1>5. ASSUME NEW k \in SharedKeys, Present(c, k) PROVE KeptIsSound' /\ Sound(c)'
  <2>1. Sound(c)'
    BY <1>1, <1>5 DEF Present, Verdict, Sound, KeyTyped, VaultTyped, CallsTyped, Request
  <2> QED  BY <1>1, <1>2, <1>5, <2>1, UnmovedIsKept DEF Present
<1>6. CASE Hit(c)
  <2>1. cached.value \in Current(clock)
    BY <1>1, <1>2, <1>3, <1>6, HeldIsCurrent DEF Hit, Kept, KeptIsSound, KeyTyped, VaultTyped
  <2>2. calls'[c] = Judged(c, cached.value, clock) /\ UNCHANGED <<clock, keyFrom, held, cached>>
    BY <1>1, <1>6 DEF Hit, vaultVars, KeyTyped, CallsTyped
  <2>3. Sound(c)'
    BY <1>1, <2>1, <2>2 DEF Judged, Verdict, Sound, Current, KeyTyped, CallsTyped, Request
  <2> QED  BY <1>1, <1>2, <2>2, <2>3, UnmovedIsKept
<1>7. CASE Miss(c)
  <2>1. Sound(c)'
    BY <1>1, <1>7 DEF Miss, Sound, KeyTyped, CallsTyped, Request
  <2> QED  BY <1>1, <1>2, <1>7, <2>1, UnmovedIsKept DEF Miss
<1>8. CASE Read(c)
  <2>1. HeldSince(vaultKey, calls[c].now)
    BY <1>1, <1>3 DEF HeldSince, KeyTyped, VaultTyped
  <2>2. /\ calls'[c] = [calls[c] EXCEPT !.state = "read", !.expected = vaultKey]
        /\ UNCHANGED <<clock, keyFrom, held, cached>>
    BY <1>1, <1>8 DEF Read, vaultVars, KeyTyped, CallsTyped
  <2>3. Sound(c)'
    BY <1>1, <2>1, <2>2 DEF Sound, HeldSince, KeyTyped, CallsTyped, Request
  <2> QED  BY <1>1, <1>2, <2>2, <2>3, UnmovedIsKept
<1>9. CASE Keep(c)
  <2>1. HeldSince(calls[c].expected, calls[c].now)
    BY <1>2, <1>9 DEF Sound, Keep
  <2>2. calls[c].expected \in Current(calls[c].now)
    BY <1>1, <1>3, <2>1, HeldIsCurrent, KeyTimes DEF KeyTyped, VaultTyped
  <2>3. /\ calls'[c] = Judged(c, calls[c].expected, calls[c].now)
        /\ cached' = [value |-> calls[c].expected, at |-> calls[c].now]
        /\ UNCHANGED <<clock, keyFrom, held>>
    BY <1>1, <1>9 DEF Keep, vaultVars, KeyTyped, CallsTyped
  <2>4. Sound(c)'
    BY <1>1, <2>2, <2>3 DEF Judged, Verdict, Sound, Current, KeyTyped, CallsTyped, Request
  <2>5. KeptIsSound'
    BY <2>1, <2>3 DEF KeptIsSound, HeldSince
  <2> QED  BY <2>4, <2>5
<1>10. CASE ReadFails(c)
  <2>1. Sound(c)'
    BY <1>1, <1>10 DEF ReadFails, Sound, KeyTyped, CallsTyped, Request
  <2> QED  BY <1>1, <1>2, <1>10, <2>1, UnmovedIsKept DEF ReadFails
<1>11. ASSUME NEW d \in Calls, d # c, Keep(d) PROVE KeptIsSound' /\ Sound(c)'
  <2>1. HeldSince(calls[d].expected, calls[d].now)
    BY <1>11, SoundnessIsAll DEF KeyInv, Sound, Keep
  <2>2. /\ UNCHANGED <<calls[c], keyFrom, clock, held>>
        /\ cached' = [value |-> calls[d].expected, at |-> calls[d].now]
    BY <1>1, <1>11 DEF Keep, vaultVars, KeyTyped, CallsTyped
  <2>3. KeptIsSound'
    BY <2>1, <2>2 DEF KeptIsSound, HeldSince
  <2> QED  BY <1>1, <1>2, <2>2, <2>3, UnmovedIsSound
<1>12. ASSUME NEW d \in Calls, d # c,
              Hit(d) \/ Miss(d) \/ Read(d) \/ ReadFails(d) \/ \E k \in SharedKeys : Present(d, k)
       PROVE  UNCHANGED <<calls[c], keyFrom, cached>>
  BY <1>1, <1>12 DEF Hit, Miss, Read, ReadFails, Present, KeyTyped, CallsTyped
<1>13. CASE KeyTick \/ (\E k \in SharedKeys : Rotate(k)) \/ UNCHANGED keyVars
  <2>1. UNCHANGED <<calls[c], keyFrom, cached>>
    BY <1>13 DEF KeyTick, Rotate, keyVars
  <2> QED  BY <1>4, <2>1
<1> QED
  BY <1>4, <1>5, <1>6, <1>7, <1>8, <1>9, <1>10, <1>11, <1>12, <1>13 DEF KeyNext, Enters, Leaves

LEMMA KeyStep == KeyInv /\ [KeyNext]_keyVars => KeyInv'
<1> SUFFICES ASSUME KeyInv, [KeyNext]_keyVars PROVE KeyInv'
  OBVIOUS
<1>1. KeyTyped' /\ LockIsHeld'
  BY KeyTypedNext, LockNext DEF KeyInv
<1>2. \A c \in Calls : Sound(c)'
  BY SoundNext
<1>3. KeptIsSound'
  <2>1. CASE Calls = {}
    <3>1. KeptIsSound /\ KeyTyped /\ KeyTyped' /\ HistoryGrows
      BY KeyTypedNext, HistoryNext, SoundnessIsAll DEF KeyInv
    <3>2. UNCHANGED cached
      BY <2>1 DEF KeyNext, Enters, Leaves, KeyTick, Rotate, keyVars
    <3> QED  BY <3>1, <3>2, UnmovedIsKept
  <2> QED  BY <2>1, SoundNext
<1>4. FromTheVault' /\ JudgedByCurrent'
  BY <1>2, <1>3 DEF FromTheVault, JudgedByCurrent, KeptIsSound, Sound
<1> QED  BY <1>1, <1>4 DEF KeyInv

\* A key on its way or kept was in the vault at its stamp or later, and the lock
\* is held by the one request that reads (secrets.py ApiKeySource.get).
THEOREM KeysAreSound == KeySpec => []KeyInv
BY KeyInitially, KeyStep, PTL DEF KeySpec

\* Behind the lock requests are judged by a key the vault held less than
\* CacheSeconds before their turn, or since, and none is let in that does not
\* present such a key, whatever fails (secrets.py, require_api_key of main.py).
THEOREM KeysStayCurrent == KeySpec => []KeysAreCurrent
<1>1. KeyInv => KeysAreCurrent
  BY DEF KeyInv, FromTheVault, KeysAreCurrent, JudgedByCurrent, FailsClosed
<1> QED
  BY <1>1, KeysAreSound, PTL

(***************************************************************************)
(* The poller.                                                             *)
(***************************************************************************)
PollJobs ==
  {Idle} \union [phase : {"fetching", "ending"}, pair : FxPairs]
    \union [phase : {"recording"}, pair : FxPairs, got : Nat]

\* A job records no more than what was published.
PollTyped ==
  /\ redisUp \in BOOLEAN /\ schedules \subseteq FxPairs
  /\ waiting \in [FxPairs -> 0..MaxJobs] /\ stalled \in [FxPairs -> Nat]
  /\ stage \in [Instances -> {"down", "starting", "running", "unpolled", "closing"}]
  /\ toSchedule \in [Instances -> SUBSET FxPairs] /\ toRun \in [Instances -> SUBSET FxPairs]
  /\ polls \in [Instances -> [Slots -> PollJobs]]
  /\ news \in [FxPairs -> 0..MaxNews] /\ seen \in [FxPairs -> Nat]
  /\ \A i \in Instances :
       /\ toSchedule[i] \subseteq toRun[i]
       /\ (toRun[i] # {}) = (stage[i] = "starting")
       /\ \A s \in Slots : polls[i][s].phase # "idle" => stage[i] \in {"running", "closing"}
  /\ \A i \in Instances, s \in Slots :
       polls[i][s].phase = "recording" => polls[i][s].got <= news[polls[i][s].pair]
  /\ \A p \in FxPairs : seen[p] <= news[p]

LEMMA PollTypes == PollTyped => PollTypeOK
BY PollBounds DEF PollTyped, PollTypeOK

LEMMA PollStarts == PollInit => PollTyped
BY PollBounds DEF PollInit, PollTyped, PollJobs, Idle

LEMMA JobKinds ==
  ASSUME PollTyped, NEW i \in Instances, NEW s \in Slots
  PROVE  /\ polls[i][s] \in PollJobs
         /\ polls[i][s].phase # "idle" => polls[i][s].pair \in FxPairs
         /\ polls[i][s].phase = "recording" => polls[i][s].got \in Nat
         /\ polls[i][s].phase = "idle" => polls[i][s] = Idle
BY DEF PollTyped, PollJobs, Idle

\* A slot goes on to another job, or to another step of the same.
LEMMA SlotMoves ==
  ASSUME PollTyped, NEW i \in Instances, NEW s \in Slots, NEW job \in PollJobs,
         polls' = [polls EXCEPT ![i][s] = job],
         job.phase # "idle" => stage[i] \in {"running", "closing"},
         job.phase = "recording" => job.got <= news[job.pair],
         UNCHANGED <<stage, news>>
  PROVE  /\ polls' \in [Instances -> [Slots -> PollJobs]]
         /\ \A j \in Instances, t \in Slots :
              /\ polls'[j][t].phase # "idle" => stage'[j] \in {"running", "closing"}
              /\ polls'[j][t].phase = "recording" => polls'[j][t].got <= news'[polls'[j][t].pair]
<1>1. polls' \in [Instances -> [Slots -> PollJobs]]
  BY DEF PollTyped
<1>2. \A j \in Instances, t \in Slots : polls'[j][t] = IF j = i /\ t = s THEN job ELSE polls[j][t]
  BY DEF PollTyped
<1>3. \A j \in Instances, t \in Slots :
        /\ polls[j][t].phase # "idle" => stage[j] \in {"running", "closing"}
        /\ polls[j][t].phase = "recording" => polls[j][t].got <= news[polls[j][t].pair]
  BY DEF PollTyped
<1> QED  BY <1>1, <1>2, <1>3

LEMMA PollTypedStep ==
  ASSUME PollTyped, PollNext
  PROVE  PollTyped'
<1> USE DEF redisVars, startVars
<1>1. ASSUME RedisFails \/ RedisBack
      PROVE  PollTyped'
  <2>1. redisUp' \in BOOLEAN
    BY <1>1, Zenon DEF RedisFails, RedisBack
  <2>2. UNCHANGED <<schedules, waiting, stalled, stage, toSchedule, toRun, polls, news, seen>>
    BY <1>1 DEF RedisFails, RedisBack
  <2> QED  BY <2>1, <2>2 DEF PollTyped
<1>2. ASSUME NEW p \in FxPairs, Due(p)
      PROVE  PollTyped'
  <2>1. waiting' \in [FxPairs -> 0..MaxJobs]
    BY <1>2, PollBounds DEF Due, PollTyped
  <2> QED  BY <1>2, <2>1 DEF Due, PollTyped
<1>3. ASSUME NEW p \in FxPairs, Publish(p)
      PROVE  PollTyped'
  <2>1. news[p] \in Nat /\ news[p] < MaxNews /\ news' = [news EXCEPT ![p] = news[p] + 1]
    BY <1>3 DEF Publish, PollTyped
  <2>2. news' \in [FxPairs -> 0..MaxNews] /\ \A q \in FxPairs : news[q] \in Nat /\ news'[q] \in Nat /\ news'[q] >= news[q]
    BY <2>1, PollBounds DEF PollTyped
  <2>3. \A i \in Instances, s \in Slots :
          polls[i][s].phase = "recording" => polls[i][s].got <= news'[polls[i][s].pair]
    <3> SUFFICES ASSUME NEW i \in Instances, NEW s \in Slots, polls[i][s].phase = "recording"
                 PROVE  polls[i][s].got <= news'[polls[i][s].pair]
      OBVIOUS
    <3>1. polls[i][s].got \in Nat /\ polls[i][s].pair \in FxPairs
      BY JobKinds
    <3>2. polls[i][s].got <= news[polls[i][s].pair]
      BY DEF PollTyped
    <3> QED  BY <2>2, <3>1, <3>2
  <2>4. \A q \in FxPairs : seen[q] <= news'[q]
    BY <2>2 DEF PollTyped
  <2> QED  BY <1>3, <2>2, <2>3, <2>4 DEF Publish, PollTyped
<1>4. ASSUME NEW p \in FxPairs, NEW i \in Instances, NEW s \in Slots, Take(i, s, p)
      PROVE  PollTyped'
  <2>1. waiting' \in [FxPairs -> 0..MaxJobs]
    BY <1>4, PollBounds DEF Take, PollTyped
  <2>2. /\ polls' \in [Instances -> [Slots -> PollJobs]]
        /\ \A j \in Instances, t \in Slots :
              /\ polls'[j][t].phase # "idle" => stage'[j] \in {"running", "closing"}
              /\ polls'[j][t].phase = "recording" => polls'[j][t].got <= news'[polls'[j][t].pair]
    <3> DEFINE job == [phase |-> "fetching", pair |-> p]
    <3>1. job \in PollJobs /\ job.phase = "fetching"
      BY DEF PollJobs
    <3>2. polls' = [polls EXCEPT ![i][s] = job] /\ stage[i] = "running" /\ UNCHANGED <<stage, news>>
      BY <1>4 DEF Take
    <3> HIDE DEF job
    <3> QED  BY <3>1, <3>2, SlotMoves
  <2> QED  BY <1>4, <2>1, <2>2 DEF Take, PollTyped
<1>5. ASSUME NEW i \in Instances, StartPoller(i)
      PROVE  PollTyped'
  <2>1. PICK pairs \in (SUBSET FxPairs) \ {{}} :
          toSchedule' = [toSchedule EXCEPT ![i] = pairs] /\ toRun' = [toRun EXCEPT ![i] = pairs]
    BY <1>5 DEF StartPoller
  <2>0. stage[i] = "down" /\ stage' = [stage EXCEPT ![i] = "starting"]
        /\ UNCHANGED <<redisUp, schedules, waiting, stalled, polls, news, seen>>
    BY <1>5 DEF StartPoller
  <2>2. /\ stage' \in [Instances -> {"down", "starting", "running", "unpolled", "closing"}]
        /\ toSchedule' \in [Instances -> SUBSET FxPairs] /\ toRun' \in [Instances -> SUBSET FxPairs]
    BY <2>0, <2>1 DEF PollTyped
  <2>3. \A j \in Instances :
          /\ toSchedule'[j] \subseteq toRun'[j]
          /\ (toRun'[j] # {}) = (stage'[j] = "starting")
          /\ \A s \in Slots : polls[j][s].phase # "idle" => stage'[j] \in {"running", "closing"}
    <3>1. \A j \in Instances :
            /\ toSchedule[j] \subseteq toRun[j] /\ (toRun[j] # {}) = (stage[j] = "starting")
            /\ \A s \in Slots : polls[j][s].phase # "idle" => stage[j] \in {"running", "closing"}
      BY DEF PollTyped
    <3>2. \A j \in Instances :
            /\ toSchedule'[j] = IF j = i THEN pairs ELSE toSchedule[j]
            /\ toRun'[j] = IF j = i THEN pairs ELSE toRun[j]
            /\ stage'[j] = IF j = i THEN "starting" ELSE stage[j]
      <4>1. /\ stage \in [Instances -> {"down", "starting", "running", "unpolled", "closing"}]
            /\ toSchedule \in [Instances -> SUBSET FxPairs] /\ toRun \in [Instances -> SUBSET FxPairs]
        BY DEF PollTyped
      <4> QED  BY ONLY <2>0, <2>1, <4>1
    <3>3. \A s \in Slots : polls[i][s].phase = "idle"
      BY <2>0, <3>1
    <3>4. ASSUME NEW j \in Instances, j = i
          PROVE  /\ toSchedule'[j] \subseteq toRun'[j]
                 /\ (toRun'[j] # {}) = (stage'[j] = "starting")
                 /\ \A s \in Slots : polls[j][s].phase # "idle" => stage'[j] \in {"running", "closing"}
      <4>1. toSchedule'[j] = pairs /\ toRun'[j] = pairs /\ stage'[j] = "starting" /\ pairs # {}
        BY <3>2, <3>4
      <4> QED  BY <3>3, <3>4, <4>1
    <3>5. ASSUME NEW j \in Instances, j # i
          PROVE  /\ toSchedule'[j] \subseteq toRun'[j]
                 /\ (toRun'[j] # {}) = (stage'[j] = "starting")
                 /\ \A s \in Slots : polls[j][s].phase # "idle" => stage'[j] \in {"running", "closing"}
      BY <3>1, <3>2, <3>5
    <3> QED  BY <3>4, <3>5
  <2> QED  BY <2>0, <2>2, <2>3 DEF PollTyped
<1>6. ASSUME NEW i \in Instances, NEW p \in FxPairs, Upsert(i, p)
      PROVE  PollTyped'
  <2>1. /\ toSchedule' \in [Instances -> SUBSET FxPairs]
        /\ \A j \in Instances : toSchedule'[j] \subseteq toRun[j]
    BY <1>6 DEF Upsert, PollTyped
  <2> QED  BY <1>6, <2>1 DEF Upsert, PollTyped
<1>7. ASSUME NEW i \in Instances, NEW p \in FxPairs, RunNow(i, p)
      PROVE  PollTyped'
  <2>1. waiting' \in [FxPairs -> 0..MaxJobs]
    BY <1>7, PollBounds DEF RunNow, PollTyped, More
  <2>2. /\ stage' \in [Instances -> {"down", "starting", "running", "unpolled", "closing"}]
        /\ toRun' \in [Instances -> SUBSET FxPairs]
    BY <1>7 DEF RunNow, PollTyped
  <2>3. \A j \in Instances :
          /\ toSchedule[j] \subseteq toRun'[j]
          /\ (toRun'[j] # {}) = (stage'[j] = "starting")
          /\ \A s \in Slots : polls[j][s].phase # "idle" => stage'[j] \in {"running", "closing"}
    <3>1. \A j \in Instances :
            /\ toSchedule[j] \subseteq toRun[j] /\ (toRun[j] # {}) = (stage[j] = "starting")
            /\ \A s \in Slots : polls[j][s].phase # "idle" => stage[j] \in {"running", "closing"}
      BY DEF PollTyped
    <3>2. \A j \in Instances :
            /\ toRun'[j] = IF j = i THEN toRun[i] \ {p} ELSE toRun[j]
            /\ stage'[j] = IF j = i /\ toRun[i] = {p} THEN "running" ELSE stage[j]
      BY <1>7 DEF RunNow, PollTyped
    <3>3. stage[i] = "starting" /\ toSchedule[i] = {} /\ p \in toRun[i]
      BY <1>7 DEF RunNow
    <3>4. ASSUME NEW j \in Instances, j = i
          PROVE  /\ toSchedule[j] \subseteq toRun'[j]
                 /\ (toRun'[j] # {}) = (stage'[j] = "starting")
                 /\ \A s \in Slots : polls[j][s].phase # "idle" => stage'[j] \in {"running", "closing"}
      <4>1. CASE toRun[i] = {p}
        BY <3>1, <3>2, <3>3, <3>4, <4>1
      <4>2. CASE toRun[i] # {p}
        BY <3>1, <3>2, <3>3, <3>4, <4>2
      <4> QED  BY <4>1, <4>2
    <3> QED  BY <3>1, <3>2, <3>4
  <2> QED  BY <1>7, <2>1, <2>2, <2>3 DEF RunNow, PollTyped
<1>8. ASSUME NEW i \in Instances, Close(i)
      PROVE  PollTyped'
  <2>1. stage' \in [Instances -> {"down", "starting", "running", "unpolled", "closing"}]
    BY <1>8 DEF Close, PollTyped
  <2>2. \A j \in Instances :
          /\ (toRun[j] # {}) = (stage'[j] = "starting")
          /\ \A s \in Slots : polls[j][s].phase # "idle" => stage'[j] \in {"running", "closing"}
    BY <1>8 DEF Close, PollTyped
  <2> QED  BY <1>8, <2>1, <2>2 DEF Close, PollTyped
<1>9. ASSUME NEW i \in Instances, Gone(i)
      PROVE  PollTyped'
  <2>1. \A p \in FxPairs : JobsOf(i, p) \in Nat
    BY SomeSlotsAndPairs, FS_Subset, FS_CardinalityType DEF JobsOf
  <2>2. stalled' \in [FxPairs -> Nat]
    BY <1>9, <2>1 DEF Gone, PollTyped
  <2>3. /\ stage' \in [Instances -> {"down", "starting", "running", "unpolled", "closing"}]
        /\ toSchedule' \in [Instances -> SUBSET FxPairs] /\ toRun' \in [Instances -> SUBSET FxPairs]
    BY <1>9 DEF Gone, PollTyped
  <2>4. /\ polls' \in [Instances -> [Slots -> PollJobs]]
        /\ \A j \in Instances, s \in Slots : polls'[j][s] = IF j = i THEN Idle ELSE polls[j][s]
    BY <1>9 DEF Gone, PollTyped, PollJobs
  <2>5. \A j \in Instances :
          /\ toSchedule'[j] \subseteq toRun'[j]
          /\ (toRun'[j] # {}) = (stage'[j] = "starting")
          /\ \A s \in Slots : polls'[j][s].phase # "idle" => stage'[j] \in {"running", "closing"}
    BY <1>9, <2>4 DEF Gone, PollTyped, Idle
  <2>6. \A j \in Instances, s \in Slots :
          polls'[j][s].phase = "recording" => polls'[j][s].got <= news[polls'[j][s].pair]
    <3>1. \A j \in Instances, s \in Slots :
            polls[j][s].phase = "recording" => polls[j][s].got <= news[polls[j][s].pair]
      BY DEF PollTyped
    <3>2. Idle.phase # "recording"
      BY DEF Idle
    <3> QED  BY <2>4, <3>1, <3>2
  <2> QED  BY <1>9, <2>2, <2>3, <2>4, <2>5, <2>6 DEF Gone, PollTyped
<1>10. ASSUME NEW i \in Instances, NEW p \in FxPairs, Requeue(i, p)
       PROVE  PollTyped'
  <2>1. waiting' \in [FxPairs -> 0..MaxJobs] /\ stalled' \in [FxPairs -> Nat]
    BY <1>10, PollBounds DEF Requeue, PollTyped, More
  <2> QED  BY <1>10, <2>1 DEF Requeue, PollTyped
<1>11. ASSUME NEW i \in Instances, NEW s \in Slots, Works(i, s)
       PROVE  PollTyped'
  <2> DEFINE p == polls[i][s].pair
             Keeps == /\ polls' \in [Instances -> [Slots -> PollJobs]]
                      /\ \A j \in Instances, t \in Slots :
                           /\ polls'[j][t].phase # "idle" => stage'[j] \in {"running", "closing"}
                           /\ polls'[j][t].phase = "recording" => polls'[j][t].got <= news'[polls'[j][t].pair]
  <2>1. UNCHANGED <<redisUp, schedules, waiting, stalled, stage, toSchedule, toRun, news, crashes>>
    BY <1>11 DEF Works, Fetch, Record, Fail, EndJob
  <2>2. polls[i][s].phase # "idle" => stage[i] \in {"running", "closing"}
    BY DEF PollTyped
  <2>3. ASSUME NEW job \in PollJobs, polls' = [polls EXCEPT ![i][s] = job],
               polls[i][s].phase # "idle" \/ job = Idle,
               job.phase = "recording" => job.got <= news[job.pair]
        PROVE  Keeps
    BY <2>1, <2>2, <2>3, SlotMoves DEF Idle
  <2>4. ASSUME polls[i][s].phase # "idle", polls' = [polls EXCEPT ![i][s] = [phase |-> "ending", pair |-> p]]
        PROVE  Keeps
    <3> DEFINE job == [phase |-> "ending", pair |-> p]
    <3>1. job \in PollJobs /\ job.phase = "ending"
      BY <2>4, JobKinds DEF PollJobs
    <3>2. polls' = [polls EXCEPT ![i][s] = job]
      BY <2>4
    <3> HIDE DEF job, Keeps
    <3> QED  BY <2>3, <2>4, <3>1, <3>2
  <2>5. CASE Fetch(i, s)
    <3> DEFINE job == [phase |-> "recording", pair |-> p, got |-> news[p]]
    <3>0. polls[i][s].phase # "idle"
      BY <2>5 DEF Fetch
    <3>1. p \in FxPairs /\ news[p] \in Nat
      BY <3>0, JobKinds DEF PollTyped
    <3>2. job \in PollJobs /\ job.got <= news[job.pair]
      BY <3>1 DEF PollJobs
    <3>3. polls' = [polls EXCEPT ![i][s] = job]
      BY <2>5 DEF Fetch
    <3>4. Keeps
      <4> HIDE DEF job, Keeps
      <4> QED  BY <2>3, <3>0, <3>2, <3>3
    <3> QED  BY <2>1, <2>5, <3>4 DEF Fetch, PollTyped
  <2>6. CASE Record(i, s)
    <3>1. polls[i][s].phase # "idle" /\ p \in FxPairs /\ polls[i][s].got \in Nat
          /\ polls[i][s].got <= news[p]
      BY <2>6, JobKinds DEF Record, PollTyped
    <3>2. Keeps
      BY <2>4, <2>6, <3>1 DEF Record
    <3>3. seen' \in [FxPairs -> Nat] /\ \A q \in FxPairs : seen'[q] <= news[q]
      BY <2>6, <3>1 DEF Record, PollTyped
    <3> QED  BY <2>1, <3>2, <3>3 DEF PollTyped
  <2>7. CASE Fail(i, s)
    <3>1. Keeps
      BY <2>4, <2>7 DEF Fail
    <3> QED  BY <2>1, <2>7, <3>1 DEF Fail, PollTyped
  <2>8. CASE EndJob(i, s)
    <3>1. Idle \in PollJobs /\ Idle.phase = "idle"
      BY DEF PollJobs, Idle
    <3>2. Keeps
      BY <2>3, <2>8, <3>1 DEF EndJob
    <3> QED  BY <2>1, <2>8, <3>2 DEF EndJob, PollTyped
  <2> QED  BY <1>11, <2>5, <2>6, <2>7, <2>8 DEF Works
<1>12. ASSUME NEW i \in Instances, Rejected(i)
       PROVE  PollTyped'
  <2>1. /\ stage' \in [Instances -> {"down", "starting", "running", "unpolled", "closing"}]
        /\ toSchedule' \in [Instances -> SUBSET FxPairs] /\ toRun' \in [Instances -> SUBSET FxPairs]
    BY <1>12 DEF Rejected, PollTyped
  <2>2. \A j \in Instances :
          /\ toSchedule'[j] \subseteq toRun'[j]
          /\ (toRun'[j] # {}) = (stage'[j] = "starting")
          /\ \A s \in Slots : polls[j][s].phase # "idle" => stage'[j] \in {"running", "closing"}
    BY <1>12 DEF Rejected, PollTyped
  <2> QED  BY <1>12, <2>1, <2>2 DEF Rejected, PollTyped
<1> QED  BY <1>1, <1>2, <1>3, <1>4, <1>5, <1>6, <1>7, <1>8, <1>9, <1>10, <1>11, <1>12
         DEF PollNext, Takes, Starts, Exit, Crash

(***************************************************************************)
(* Jobs left behind.                                                       *)
(***************************************************************************)
PollBusy(i, P) == {s \in Slots : polls[i][s].phase # "idle" /\ polls[i][s].pair \in P}

\* Each job in hand is of one pair.
LEMMA JobsInHand ==
  ASSUME NEW i \in Instances
  PROVE  LET jobs == [p \in FxPairs |-> JobsOf(i, p)]
         IN  /\ \A p \in FxPairs : JobsOf(i, p) \in Nat
             /\ SumFunctionOnSet(jobs, FxPairs) \in Nat
             /\ SumFunctionOnSet(jobs, FxPairs) <= Cardinality(Slots)
<1> DEFINE jobs == [p \in FxPairs |-> JobsOf(i, p)]
           Good == {P \in SUBSET FxPairs : SumFunctionOnSet(jobs, P) = Cardinality(PollBusy(i, P))}
<1>1. \A P : PollBusy(i, P) \subseteq Slots /\ IsFiniteSet(PollBusy(i, P)) /\ Cardinality(PollBusy(i, P)) \in Nat
  BY SomeSlotsAndPairs, FS_Subset, FS_CardinalityType DEF PollBusy
<1>2. \A p \in FxPairs : JobsOf(i, p) \in Nat /\ JobsOf(i, p) = Cardinality(PollBusy(i, {p}))
  <2>1. \A p : PollBusy(i, {p}) = {s \in Slots : polls[i][s].phase # "idle" /\ polls[i][s].pair = p}
    BY DEF PollBusy
  <2> QED  BY <1>1, <2>1 DEF JobsOf
<1>3. \A p \in FxPairs : jobs[p] = JobsOf(i, p)
  OBVIOUS
<1> HIDE DEF jobs
<1>4. ASSUME NEW P \in SUBSET FxPairs, \A p \in P : P \ {p} \in Good
      PROVE  P \in Good
  <2>1. CASE P = {}
    <3>1. PollBusy(i, P) = {}
      BY <2>1 DEF PollBusy
    <3> QED  BY <2>1, <3>1, SumOfNone, FS_EmptySet
  <2>2. CASE P # {}
    <3>1. PICK p \in P : TRUE
      BY <2>2
    <3>2. IsFiniteSet(P) /\ \A q \in P : jobs[q] \in Nat
      BY SomeSlotsAndPairs, FS_Subset, <1>2, <1>3
    <3>3. SumFunctionOnSet(jobs, P) = jobs[p] + SumFunctionOnSet(jobs, P \ {p})
      BY <3>2, SumPeels
    <3>4. PollBusy(i, P) = PollBusy(i, {p}) \union PollBusy(i, P \ {p})
          /\ PollBusy(i, {p}) \intersect PollBusy(i, P \ {p}) = {}
      BY DEF PollBusy
    <3>5. Cardinality(PollBusy(i, P)) = Cardinality(PollBusy(i, {p})) + Cardinality(PollBusy(i, P \ {p}))
      <4> DEFINE A == PollBusy(i, {p})
                 B == PollBusy(i, P \ {p})
      <4>1. IsFiniteSet(A) /\ IsFiniteSet(B) /\ A \intersect B = {} /\ PollBusy(i, P) = A \union B
        BY <1>1, <3>4
      <4>2. Cardinality(A) \in Nat /\ Cardinality(B) \in Nat
        BY <1>1
      <4> HIDE DEF A, B
      <4>3. Cardinality(A \union B) = Cardinality(A) + Cardinality(B) - Cardinality(A \intersect B)
        BY <4>1, FS_Union
      <4>4. Cardinality(A \intersect B) = 0
        BY <4>1, FS_EmptySet
      <4>5. Cardinality(A \union B) = Cardinality(A) + Cardinality(B)
        BY <4>2, <4>3, <4>4
      <4> QED  BY <4>1, <4>5 DEF A, B
    <3>6. SumFunctionOnSet(jobs, P \ {p}) = Cardinality(PollBusy(i, P \ {p}))
      BY <1>4
    <3> QED  BY <1>2, <1>3, <3>3, <3>5, <3>6
  <2> QED  BY <2>1, <2>2
<1>5. FxPairs \in Good
  <2> HIDE DEF Good
  <2> QED  BY <1>4, SomeSlotsAndPairs, SetInduction
<1>6. Cardinality(PollBusy(i, FxPairs)) <= Cardinality(Slots)
  BY <1>1, SomeSlotsAndPairs, FS_Subset
<1>7. SumFunctionOnSet(jobs, FxPairs) \in Nat /\ SumFunctionOnSet(jobs, FxPairs) <= Cardinality(Slots)
  BY <1>1, <1>5, <1>6
<1> QED  BY <1>2, <1>7 DEF jobs

PollInv == PollTyped /\ crashes \in Nat /\ LeftByCrash

LEMMA LeftBehind ==
  ASSUME PollTyped
  PROVE  LeftByCrash <=> SumFunctionOnSet(stalled, FxPairs) <= crashes * Cardinality(Slots)
<1>1. DOMAIN stalled = FxPairs
  BY DEF PollTyped
<1> QED  BY <1>1 DEF LeftByCrash, SumFunction

LEMMA PollStep ==
  ASSUME PollInv, PollNext
  PROVE  PollInv'
<1> USE DEF redisVars, startVars
<1>1. PollTyped /\ PollTyped' /\ crashes \in Nat
  BY PollTypedStep DEF PollInv
<1> DEFINE N == Cardinality(Slots)
           left == SumFunctionOnSet(stalled, FxPairs)
           left1 == SumFunctionOnSet(stalled', FxPairs)
<1>2. N \in Nat /\ left \in Nat /\ left <= crashes * N
  <2>1. \A p \in FxPairs : stalled[p] \in Nat
    BY <1>1 DEF PollTyped
  <2> QED  BY <2>1, SomeSlotsAndPairs, SumIsNat, FS_CardinalityType, LeftBehind DEF PollInv
<1>3. SUFFICES crashes' \in Nat /\ left1 <= crashes' * N
  <2>1. LeftByCrash' <=> left1 <= crashes' * N
    <3>1. DOMAIN stalled' = FxPairs
      BY <1>1 DEF PollTyped
    <3> QED  BY <3>1 DEF LeftByCrash, SumFunction
  <2> QED  BY <1>1, <2>1 DEF PollInv
<1>4. ASSUME UNCHANGED <<stalled, crashes>>
      PROVE  crashes' \in Nat /\ left1 <= crashes' * N
  BY <1>1, <1>2, <1>4
<1>5. ASSUME NEW i \in Instances, NEW p \in FxPairs, Requeue(i, p)
      PROVE  crashes' \in Nat /\ left1 <= crashes' * N
  <2>1. crashes' = crashes /\ stalled[p] > 0 /\ stalled' = [stalled EXCEPT ![p] = @ - 1]
    BY <1>5 DEF Requeue
  <2>2. /\ \A q \in FxPairs : stalled[q] \in Nat /\ stalled'[q] \in Nat
        /\ \A q \in FxPairs \ {p} : stalled'[q] = stalled[q]
        /\ stalled'[p] = stalled[p] - 1
    BY <1>1, <2>1 DEF PollTyped
  <2>3. left1 \in Nat /\ left1 + stalled[p] = left + stalled'[p]
    BY <2>2, SomeSlotsAndPairs, SumOfChange
  <2>4. left1 <= left
    BY <1>2, <2>2, <2>3
  <2>5. crashes * N \in Nat
    BY <1>1, <1>2
  <2> QED  BY <1>1, <1>2, <2>1, <2>3, <2>4, <2>5
<1>6. ASSUME NEW i \in Instances, Gone(i)
      PROVE  \E more \in Nat : /\ left1 = left + more /\ more <= N
                               /\ (\A s \in Slots : polls[i][s] = Idle) => more = 0
  <2> DEFINE jobs == [p \in FxPairs |-> JobsOf(i, p)]
             more == SumFunctionOnSet(jobs, FxPairs)
  <2>1. more \in Nat /\ more <= N /\ \A p \in FxPairs : jobs[p] \in Nat
    BY JobsInHand
  <2>2. \A p \in FxPairs : stalled[p] \in Nat /\ stalled'[p] = stalled[p] + jobs[p]
    BY <1>1, <1>6 DEF Gone, PollTyped
  <2>3. ASSUME \A s \in Slots : polls[i][s] = Idle
        PROVE  \A p \in FxPairs : jobs[p] = 0
    <3>1. \A p : {s \in Slots : polls[i][s].phase # "idle" /\ polls[i][s].pair = p} = {}
      BY <2>3 DEF Idle
    <3> QED  BY <3>1, FS_EmptySet DEF JobsOf
  <2> HIDE DEF jobs
  <2>4. left1 = left + more
    BY <2>1, <2>2, SomeSlotsAndPairs, SumAdds
  <2>5. (\A s \in Slots : polls[i][s] = Idle) => more = 0
    <3> SUFFICES ASSUME \A p \in FxPairs : jobs[p] = 0 PROVE more = 0
      BY <2>3
    <3>1. more = SumFunctionOnSet(jobs, {})
      BY <2>1, SomeSlotsAndPairs, SumDropsZeros
    <3> QED  BY <3>1, SumOfNone
  <2> HIDE DEF more
  <2> QED  BY <2>1, <2>4, <2>5
<1> HIDE DEF N, left, left1
<1>7. ASSUME NEW i \in Instances, Exit(i)
      PROVE  crashes' \in Nat /\ left1 <= crashes' * N
  <2>1. crashes' = crashes /\ left1 = left
    BY <1>2, <1>6, <1>7 DEF Exit
  <2> QED  BY <1>1, <1>2, <2>1
<1>8. ASSUME NEW i \in Instances, Crash(i)
      PROVE  crashes' \in Nat /\ left1 <= crashes' * N
  <2>1. PICK more \in Nat : left1 = left + more /\ more <= N
    BY <1>6, <1>8 DEF Crash
  <2>2. crashes' = crashes + 1
    BY <1>8 DEF Crash
  <2>3. \A a, b \in Nat : (a + 1) * b = a * b + b /\ a * b \in Nat
    OBVIOUS
  <2>4. crashes' * N = crashes * N + N /\ crashes * N \in Nat
    BY <1>1, <1>2, <2>2, <2>3
  <2> QED  BY <1>1, <1>2, <2>1, <2>2, <2>4
<1>9. ASSUME ~\E i \in Instances : Exit(i) \/ Crash(i) \/ \E p \in FxPairs : Requeue(i, p)
      PROVE  UNCHANGED <<stalled, crashes>>
  BY <1>9 DEF PollNext, RedisFails, RedisBack, Due, Publish, Takes, Take, Starts, StartPoller, Upsert,
              RunNow, Rejected, Close, Works, Fetch, Record, Fail, EndJob
<1> QED  BY <1>4, <1>5, <1>7, <1>8, <1>9

LEMMA PollBegins == PollInit => PollInv
<1> SUFFICES ASSUME PollInit PROVE PollInv
  OBVIOUS
<1>1. PollTyped /\ crashes = 0
  BY PollStarts DEF PollInit
<1>2. \A p \in FxPairs : stalled[p] = 0
  BY DEF PollInit
<1>3. SumFunctionOnSet(stalled, FxPairs) = SumFunctionOnSet(stalled, {})
  BY <1>2, SomeSlotsAndPairs, SumDropsZeros
<1>4. SumFunctionOnSet(stalled, FxPairs) = 0 /\ Cardinality(Slots) \in Nat
  BY <1>3, SumOfNone, SomeSlotsAndPairs, FS_CardinalityType
<1>5. 0 <= 0 * Cardinality(Slots)
  BY <1>4
<1> QED  BY <1>1, <1>4, <1>5, LeftBehind DEF PollInv

(***************************************************************************)
(* The window of a list of failures.                                       *)
(***************************************************************************)
Opens(times, n, w) ==
  w = [m \in 0 .. n |-> IF m = 0 THEN NoWindow ELSE Counted(w[m - 1], times[m])]

LEMMA SomeWindow ==
  ASSUME NEW times, NEW n \in Nat
  PROVE  \E w : Opens(times, n, w)
<1> DEFINE Good == {k \in Nat : \E w : Opens(times, k, w)}
<1>1. ASSUME NEW k \in Nat, \A m \in 0 .. (k - 1) : m \in Good
      PROVE  k \in Good
  <2>1. CASE k = 0
    <3> DEFINE w == [m \in 0 .. 0 |-> NoWindow]
    <3>1. w = [m \in 0 .. 0 |-> IF m = 0 THEN NoWindow ELSE Counted(w[m - 1], times[m])]
      OBVIOUS
    <3> HIDE DEF w
    <3> QED  BY <2>1, <3>1 DEF Opens
  <2>2. CASE k # 0
    <3>1. k - 1 \in 0 .. (k - 1)
      BY <2>2
    <3>2. PICK v : Opens(times, k - 1, v)
      BY <1>1, <3>1
    <3> DEFINE w == [m \in 0 .. k |-> IF m = k THEN Counted(v[k - 1], times[k]) ELSE v[m]]
    <3>3. \A m \in 0 .. k : w[m] = IF m = 0 THEN NoWindow ELSE Counted(w[m - 1], times[m])
      <4> SUFFICES ASSUME NEW m \in 0 .. k
                   PROVE  w[m] = IF m = 0 THEN NoWindow ELSE Counted(w[m - 1], times[m])
        OBVIOUS
      <4>1. CASE m = k
        BY <2>2, <4>1
      <4>2. CASE m # k
        <5>1. m \in 0 .. (k - 1)
          BY <4>2
        <5>2. v[m] = IF m = 0 THEN NoWindow ELSE Counted(v[m - 1], times[m])
          BY <3>2, <5>1 DEF Opens
        <5> QED  BY <4>2, <5>2
      <4> QED  BY <4>1, <4>2
    <3>4. w = [m \in 0 .. k |-> IF m = 0 THEN NoWindow ELSE Counted(w[m - 1], times[m])]
      BY <3>3
    <3> HIDE DEF w
    <3> QED  BY <3>4 DEF Opens
  <2> QED  BY <2>1, <2>2
<1>2. Nat \subseteq Good
  <2> HIDE DEF Good
  <2> QED  BY <1>1, NumberInduction
<1> QED  BY <1>2

\* Lists that begin alike have the same windows while they do.
LEMMA OneWindow ==
  ASSUME NEW n \in Nat, NEW k \in Nat, NEW s, NEW t, NEW v, NEW w,
         Opens(s, n, v), Opens(t, k, w), n <= k, \A m \in 1 .. n : s[m] = t[m]
  PROVE  \A m \in 0 .. n : v[m] = w[m]
<1> DEFINE Good == {m \in Nat : m <= n => v[m] = w[m]}
<1>1. ASSUME NEW m \in Nat, \A l \in 0 .. (m - 1) : l \in Good
      PROVE  m \in Good
  <2> SUFFICES ASSUME m <= n PROVE v[m] = w[m]
    OBVIOUS
  <2>1. m \in 0 .. n /\ m \in 0 .. k
    OBVIOUS
  <2>2. /\ v[m] = IF m = 0 THEN NoWindow ELSE Counted(v[m - 1], s[m])
        /\ w[m] = IF m = 0 THEN NoWindow ELSE Counted(w[m - 1], t[m])
    BY <2>1 DEF Opens
  <2>3. CASE m = 0
    BY <2>2, <2>3
  <2>4. CASE m # 0
    <3>1. m - 1 \in 0 .. (m - 1) /\ m \in 1 .. n
      BY <2>1, <2>4
    <3>2. v[m - 1] = w[m - 1] /\ s[m] = t[m]
      BY <1>1, <3>1
    <3> QED  BY <2>2, <2>4, <3>2
  <2> QED  BY <2>3, <2>4
<1>2. Nat \subseteq Good
  <2> HIDE DEF Good
  <2> QED  BY <1>1, NumberInduction
<1> QED  BY <1>2

LEMMA WindowUnfolds ==
  ASSUME NEW times
  PROVE  \A g : Opens(times, Len(times), g) =>
           \E w : Opens(times, Len(times), w) /\ LastWindow(times) = w[Len(times)]
BY DEF LastWindow, Opens

\* No failures, no window; one more failure goes on with the window it leaves or
\* begins another.
LEMMA WindowOfMore ==
  /\ LastWindow(<<>>) = NoWindow
  /\ \A times \in Seq(Nat), t \in Nat : LastWindow(Append(times, t)) = Counted(LastWindow(times), t)
<1>1. LastWindow(<<>>) = NoWindow
  <2>1. Len(<<>>) = 0
    OBVIOUS
  <2>2. PICK w : Opens(<<>>, 0, w) /\ LastWindow(<<>>) = w[0]
    BY <2>1, SomeWindow, WindowUnfolds
  <2> QED  BY <2>2 DEF Opens
<1>2. ASSUME NEW times \in Seq(Nat), NEW t \in Nat
      PROVE  LastWindow(Append(times, t)) = Counted(LastWindow(times), t)
  <2> DEFINE n == Len(times)
             more == Append(times, t)
  <2>1. n \in Nat /\ Len(more) = n + 1 /\ more[n + 1] = t /\ \A m \in 1 .. n : times[m] = more[m]
    OBVIOUS
  <2> HIDE DEF n, more
  <2>2. PICK v : Opens(times, n, v) /\ LastWindow(times) = v[n]
    BY <2>1, SomeWindow, WindowUnfolds DEF n
  <2>3. PICK w : Opens(more, n + 1, w) /\ LastWindow(more) = w[n + 1]
    <3>0. n + 1 \in Nat
      BY <2>1
    <3>1. PICK g : Opens(more, n + 1, g)
      BY <3>0, SomeWindow
    <3>2. Opens(more, Len(more), g)
      BY <2>1, <3>1
    <3>3. \E w : Opens(more, Len(more), w) /\ LastWindow(more) = w[Len(more)]
      BY <3>2, WindowUnfolds
    <3> QED  BY <2>1, <3>3
  <2>4. v[n] = w[n]
    BY <2>1, <2>2, <2>3, OneWindow
  <2>5. w[n + 1] = Counted(w[n], more[n + 1])
    BY <2>1, <2>3 DEF Opens
  <2> QED  BY <2>1, <2>2, <2>3, <2>4, <2>5 DEF more
<1> QED  BY <1>1, <1>2

(***************************************************************************)
(* The counters.                                                           *)
(***************************************************************************)
Touching(k) == {p \in Attempts : k \in {p[1], p[2]}}

WindowRange == [count : Nat, resetAt : 0 .. (MaxNow + Window)]

LimitTyped ==
  /\ now \in Nat /\ now <= MaxNow /\ signIns \in Nat /\ signIns <= MaxSignIns
  /\ windows \in [Keys -> WindowRange]
  /\ pending \in [Attempts -> Nat]
  /\ fails \in [Keys -> Seq(Nat)]

\* What a counter holds of a key is the window its failures opened last, or
\* nothing once that has ended.
KeptAs(w, last, t) == w = last \/ (w = NoWindow /\ (last.count > 0 => last.resetAt <= t))
WindowIsKept(k) ==
  LastWindow(fails[k]) \in WindowRange /\ KeptAs(windows[k], LastWindow(fails[k]), now)

\* Who passed the question, counted against each key and all together.
InFlightIsBounded ==
  /\ PendingAll <= MaxPending
  /\ \A k \in Keys : windows[k].count + PendingAll <= signIns

LimitInv ==
  LimitTyped /\ (\A k \in Keys : WindowIsKept(k)) /\ InFlightIsBounded /\ GuessesAreBounded

LEMMA LimitFacts ==
  /\ EmailLimit \in Nat \ {0} /\ AddressLimit \in Nat \ {0} /\ Window \in Nat \ {0} /\ MaxTracked \in Nat
  /\ MaxPending \in Nat /\ MaxNow \in Nat /\ MaxSignIns \in Nat
  /\ IsFiniteSet(Attempts) /\ \A k : Touching(k) \in SUBSET Attempts /\ IsFiniteSet(Touching(k))
  /\ \A k : LimitOf(k) \in Nat \ {0}
<1>1. IsFiniteSet(Attempts)
  BY SomeKeys, FS_Product DEF Attempts
<1>2. \A k : Touching(k) \in SUBSET Attempts /\ IsFiniteSet(Touching(k))
  BY <1>1, FS_Subset DEF Touching
<1> QED  BY <1>1, <1>2, Limits, SignInBounds DEF LimitOf

\* The pending sign-ins of a key are some of all.
LEMMA PendingSums ==
  ASSUME NEW f \in [Attempts -> Nat]
  PROVE  /\ SumFunction(f) = SumFunctionOnSet(f, Attempts) /\ SumFunction(f) \in Nat
         /\ \A k : /\ SumFunctionOnSet(f, Touching(k)) \in Nat
                   /\ SumFunctionOnSet(f, Touching(k)) <= SumFunction(f)
<1>1. DOMAIN f = Attempts /\ \A p \in Attempts : f[p] \in Nat
  OBVIOUS
<1>2. SumFunction(f) = SumFunctionOnSet(f, Attempts)
  BY <1>1 DEF SumFunction
<1>3. SumFunction(f) \in Nat
  BY <1>1, <1>2, LimitFacts, SumIsNat
<1>4. ASSUME NEW k
      PROVE  /\ SumFunctionOnSet(f, Touching(k)) \in Nat
             /\ SumFunctionOnSet(f, Touching(k)) <= SumFunction(f)
  <2>1. IsFiniteSet(Touching(k)) /\ Touching(k) \in SUBSET Attempts
    BY LimitFacts
  <2>2. \A p \in Touching(k) : f[p] \in Nat
    BY <1>1, <2>1
  <2>3. SumFunctionOnSet(f, Touching(k)) \in Nat
    BY <2>1, <2>2, SumIsNat
  <2>4. SumFunctionOnSet(f, Touching(k)) <= SumFunctionOnSet(f, Attempts)
    BY <1>1, <2>1, LimitFacts, SumOfPart
  <2> QED  BY <1>2, <2>3, <2>4
<1> QED  BY <1>2, <1>3, <1>4

\* One sign-in more or less in flight, for all and for its two keys.
LEMMA PendingMoves ==
  ASSUME NEW f \in [Attempts -> Nat], NEW g \in [Attempts -> Nat],
         NEW x \in Attempts, \A p \in Attempts \ {x} : g[p] = f[p]
  PROVE  /\ SumFunction(g) + f[x] = SumFunction(f) + g[x]
         /\ \A k : LET before == SumFunctionOnSet(f, Touching(k))
                       after  == SumFunctionOnSet(g, Touching(k))
                   IN  IF k \in {x[1], x[2]} THEN after + f[x] = before + g[x] ELSE after = before
<1>1. \A p \in Attempts : f[p] \in Nat /\ g[p] \in Nat
  OBVIOUS
<1>2. ASSUME NEW S \in SUBSET Attempts, IsFiniteSet(S), x \in S
      PROVE  SumFunctionOnSet(g, S) + f[x] = SumFunctionOnSet(f, S) + g[x]
  <2>1. /\ \A p \in S : f[p] \in Nat /\ g[p] \in Nat
        /\ \A p \in S \ {x} : g[p] = f[p]
    BY <1>1
  <2> QED  BY ONLY IsFiniteSet(S), x \in S, <2>1, SumOfChange
<1>3. ASSUME NEW S \in SUBSET Attempts, IsFiniteSet(S), x \notin S
      PROVE  SumFunctionOnSet(g, S) = SumFunctionOnSet(f, S)
  <2>1. \A p \in S : f[p] \in Nat /\ g[p] = f[p]
    BY <1>1, <1>3
  <2> QED  BY <1>3, <2>1, SumAgrees
<1>4. SumFunction(g) + f[x] = SumFunction(f) + g[x]
  BY <1>2, LimitFacts, PendingSums
<1>5. ASSUME NEW k
      PROVE  IF k \in {x[1], x[2]}
             THEN SumFunctionOnSet(g, Touching(k)) + f[x] = SumFunctionOnSet(f, Touching(k)) + g[x]
             ELSE SumFunctionOnSet(g, Touching(k)) = SumFunctionOnSet(f, Touching(k))
  <2>1. Touching(k) \in SUBSET Attempts /\ IsFiniteSet(Touching(k))
    BY LimitFacts
  <2>2. x \in Touching(k) <=> k \in {x[1], x[2]}
    BY DEF Touching
  <2> QED  BY <1>2, <1>3, <2>1, <2>2
<1> QED  BY <1>4, <1>5

LEMMA PendingGrows ==
  ASSUME pending \in [Attempts -> Nat], pending' \in [Attempts -> Nat],
         NEW e \in Emails, NEW a \in Addresses, pending' = [pending EXCEPT ![<<e, a>>] = @ + 1]
  PROVE  /\ SumFunction(pending') = SumFunction(pending) + 1
         /\ \A k : SumFunctionOnSet(pending', Touching(k)) =
                     IF k \in {e, a} THEN SumFunctionOnSet(pending, Touching(k)) + 1
                     ELSE SumFunctionOnSet(pending, Touching(k))
<1> DEFINE x == <<e, a>>
<1>1. x \in Attempts /\ x[1] = e /\ x[2] = a
  BY DEF Attempts
<1> HIDE DEF x
<1>2. pending' = [pending EXCEPT ![x] = pending[x] + 1]
  BY DEF x
<1>3. /\ \A p \in Attempts \ {x} : pending'[p] = pending[p]
      /\ pending[x] \in Nat /\ pending'[x] \in Nat /\ pending'[x] = pending[x] + 1
  BY <1>1, <1>2
<1>4. /\ SumFunction(pending') + pending[x] = SumFunction(pending) + pending'[x]
      /\ \A k : IF k \in {x[1], x[2]}
                THEN SumFunctionOnSet(pending', Touching(k)) + pending[x] =
                       SumFunctionOnSet(pending, Touching(k)) + pending'[x]
                ELSE SumFunctionOnSet(pending', Touching(k)) = SumFunctionOnSet(pending, Touching(k))
  <2> DEFINE f == pending
             g == pending'
  <2>1. /\ f \in [Attempts -> Nat] /\ g \in [Attempts -> Nat] /\ x \in Attempts
        /\ \A p \in Attempts \ {x} : g[p] = f[p]
    BY <1>1, <1>3
  <2> HIDE DEF f, g
  <2>2. SumFunction(g) + f[x] = SumFunction(f) + g[x]
    BY ONLY <2>1, PendingMoves
  <2>3. \A k : IF k \in {x[1], x[2]}
               THEN SumFunctionOnSet(g, Touching(k)) + f[x] = SumFunctionOnSet(f, Touching(k)) + g[x]
               ELSE SumFunctionOnSet(g, Touching(k)) = SumFunctionOnSet(f, Touching(k))
    BY ONLY <2>1, PendingMoves
  <2> QED  BY <2>2, <2>3 DEF f, g
<1>5. /\ SumFunction(pending) \in Nat /\ \A k : SumFunctionOnSet(pending, Touching(k)) \in Nat
      /\ SumFunction(pending') \in Nat /\ \A k : SumFunctionOnSet(pending', Touching(k)) \in Nat
  BY PendingSums
<1>6. SumFunction(pending') = SumFunction(pending) + 1
  BY ONLY <1>3, <1>4, <1>5
<1>7. \A k : SumFunctionOnSet(pending', Touching(k)) =
              IF k \in {e, a} THEN SumFunctionOnSet(pending, Touching(k)) + 1
              ELSE SumFunctionOnSet(pending, Touching(k))
  BY ONLY <1>1, <1>3, <1>4, <1>5
<1> QED  BY <1>6, <1>7

LEMMA PendingShrinks ==
  ASSUME pending \in [Attempts -> Nat], pending' \in [Attempts -> Nat],
         NEW e \in Emails, NEW a \in Addresses, pending' = [pending EXCEPT ![<<e, a>>] = @ - 1]
  PROVE  /\ SumFunction(pending') = SumFunction(pending) - 1
         /\ \A k : SumFunctionOnSet(pending', Touching(k)) =
                     IF k \in {e, a} THEN SumFunctionOnSet(pending, Touching(k)) - 1
                     ELSE SumFunctionOnSet(pending, Touching(k))
<1> DEFINE x == <<e, a>>
<1>1. x \in Attempts /\ x[1] = e /\ x[2] = a
  BY DEF Attempts
<1> HIDE DEF x
<1>2. pending' = [pending EXCEPT ![x] = pending[x] - 1]
  BY DEF x
<1>3. /\ \A p \in Attempts \ {x} : pending'[p] = pending[p]
      /\ pending[x] \in Nat /\ pending'[x] \in Nat /\ pending'[x] = pending[x] - 1
  BY <1>1, <1>2
<1>4. /\ SumFunction(pending') + pending[x] = SumFunction(pending) + pending'[x]
      /\ \A k : IF k \in {x[1], x[2]}
                THEN SumFunctionOnSet(pending', Touching(k)) + pending[x] =
                       SumFunctionOnSet(pending, Touching(k)) + pending'[x]
                ELSE SumFunctionOnSet(pending', Touching(k)) = SumFunctionOnSet(pending, Touching(k))
  <2> DEFINE f == pending
             g == pending'
  <2>1. /\ f \in [Attempts -> Nat] /\ g \in [Attempts -> Nat] /\ x \in Attempts
        /\ \A p \in Attempts \ {x} : g[p] = f[p]
    BY <1>1, <1>3
  <2> HIDE DEF f, g
  <2>2. SumFunction(g) + f[x] = SumFunction(f) + g[x]
    BY ONLY <2>1, PendingMoves
  <2>3. \A k : IF k \in {x[1], x[2]}
               THEN SumFunctionOnSet(g, Touching(k)) + f[x] = SumFunctionOnSet(f, Touching(k)) + g[x]
               ELSE SumFunctionOnSet(g, Touching(k)) = SumFunctionOnSet(f, Touching(k))
    BY ONLY <2>1, PendingMoves
  <2> QED  BY <2>2, <2>3 DEF f, g
<1>5. /\ SumFunction(pending) \in Nat /\ \A k : SumFunctionOnSet(pending, Touching(k)) \in Nat
      /\ SumFunction(pending') \in Nat /\ \A k : SumFunctionOnSet(pending', Touching(k)) \in Nat
  BY PendingSums
<1>6. SumFunction(pending') = SumFunction(pending) - 1
  BY ONLY <1>3, <1>4, <1>5
<1>7. \A k : SumFunctionOnSet(pending', Touching(k)) =
              IF k \in {e, a} THEN SumFunctionOnSet(pending, Touching(k)) - 1
              ELSE SumFunctionOnSet(pending, Touching(k))
  BY ONLY <1>1, <1>3, <1>4, <1>5
<1> QED  BY <1>6, <1>7

(***************************************************************************)
(* What looking up, sweeping and counting do to the window of one key.     *)
(***************************************************************************)
Fewer(k, w) == w = windows[k] \/ (Expired(windows[k]) /\ w = NoWindow)
OneMore(k, w) ==
  w = IF Live(k).count > 0 THEN [Live(k) EXCEPT !.count = @ + 1] ELSE [count |-> 1, resetAt |-> now + Window]

LEMMA LiveIs ==
  ASSUME NEW k
  PROVE  Fewer(k, Live(k)) /\ Fewer(k, windows[k])
BY DEF Live, Fewer

IsWindows(ws) == ws = [k \in Keys |-> ws[k]]

LEMMA RecordedIs ==
  ASSUME NEW ws, IsWindows(ws), NEW k \in Keys
  PROVE  /\ IsWindows(Recorded(ws, k))
         /\ OneMore(k, Recorded(ws, k)[k])
         /\ \A j \in Keys \ {k} :
              \/ Recorded(ws, k)[j] = ws[j]
              \/ Recorded(ws, k)[j] = Live(j) /\ j \in Counter(k)
<1>0. DOMAIN ws = Keys
  BY DEF IsWindows
<1>e. \A vs, w : IsWindows(vs) => IsWindows([vs EXCEPT ![k] = w])
  BY DEF IsWindows
<1>1. CASE Live(k).count > 0
  <2> DEFINE w == [Live(k) EXCEPT !.count = @ + 1]
  <2>1. Recorded(ws, k) = [ws EXCEPT ![k] = w]
    BY <1>1 DEF Recorded
  <2>2. OneMore(k, w)
    BY <1>1 DEF OneMore
  <2> HIDE DEF w
  <2> QED  BY <1>0, <1>e, <2>1, <2>2
<1>2. CASE ~(Live(k).count > 0)
  <2> DEFINE none == [ws EXCEPT ![k] = NoWindow]
             swept == Sweep(none, Counter(k))
  <2>1. IsWindows(none) /\ \A j \in Keys \ {k} : none[j] = ws[j]
    BY <1>0, <1>e
  <2>2. IsWindows(swept) /\ \A j \in Keys : swept[j] = none[j] \/ (swept[j] = Live(j) /\ j \in Counter(k))
    <3> HIDE DEF none
    <3> QED  BY <2>1 DEF Sweep, IsWindows
  <2>3. Recorded(ws, k) = [swept EXCEPT ![k] = [count |-> 1, resetAt |-> now + Window]]
    BY <1>2 DEF Recorded
  <2> HIDE DEF swept, none
  <2>4. DOMAIN swept = Keys
    BY <2>2 DEF IsWindows
  <2> DEFINE w == [count |-> 1, resetAt |-> now + Window]
  <2>5. OneMore(k, w)
    BY <1>2 DEF OneMore
  <2> HIDE DEF w
  <2>6. IsWindows(Recorded(ws, k))
    BY <2>2, <2>3, <2>4 DEF IsWindows, w
  <2>7. Recorded(ws, k)[k] = w /\ \A j \in Keys \ {k} : Recorded(ws, k)[j] = swept[j]
    BY <2>3, <2>4 DEF w
  <2> QED  BY <2>1, <2>2, <2>5, <2>6, <2>7
<1> QED  BY <1>1, <1>2

\* A wrong password adds to the two windows, and may drop others that ended.
LEMMA BothRecorded ==
  ASSUME IsWindows(windows), NEW e \in Emails, NEW a \in Addresses
  PROVE  LET ws == Recorded(Recorded(windows, e), a)
         IN  /\ IsWindows(ws)
             /\ OneMore(e, ws[e]) /\ OneMore(a, ws[a])
             /\ \A k \in Keys \ {e, a} : Fewer(k, ws[k])
<1> DEFINE vs == Recorded(windows, e)
           ws == Recorded(vs, a)
<1>1. e \in Keys /\ a \in Keys /\ e # a /\ a \notin Counter(e) /\ e \notin Counter(a)
  BY Limits DEF Keys, Counter
<1>2. /\ IsWindows(vs) /\ OneMore(e, vs[e])
      /\ \A j \in Keys \ {e} : vs[j] = windows[j] \/ (vs[j] = Live(j) /\ j \in Counter(e))
  BY <1>1, RecordedIs
<1> HIDE DEF vs
<1>3. /\ IsWindows(ws) /\ OneMore(a, ws[a])
      /\ \A j \in Keys \ {a} : ws[j] = vs[j] \/ (ws[j] = Live(j) /\ j \in Counter(a))
  BY <1>1, <1>2, RecordedIs
<1> HIDE DEF ws
<1>4. ws[e] = vs[e]
  BY <1>1, <1>3
<1>5. \A k \in Keys \ {e, a} : ws[k] = windows[k] \/ ws[k] = Live(k)
  BY <1>2, <1>3
<1> QED  BY <1>2, <1>3, <1>4, <1>5, LiveIs DEF ws, vs

(***************************************************************************)
(* The steps.                                                              *)
(***************************************************************************)
LEMMA WindowTypes ==
  ASSUME LimitTyped, NEW k \in Keys, NEW w
  PROVE  /\ windows[k] \in WindowRange
         /\ Fewer(k, w) =>
              w \in WindowRange /\ w.count <= windows[k].count /\ w.resetAt <= windows[k].resetAt
         /\ OneMore(k, w) => w \in WindowRange /\ w.count <= windows[k].count + 1
<1>1. windows[k] \in WindowRange /\ now \in Nat /\ now <= MaxNow /\ MaxNow \in Nat /\ Window \in Nat
  BY LimitFacts DEF LimitTyped, WindowRange
<1>2. NoWindow \in WindowRange /\ NoWindow.count = 0 /\ NoWindow.resetAt = 0
  BY <1>1 DEF NoWindow, WindowRange
<1>3. Live(k) = windows[k] \/ Live(k) = NoWindow
  BY DEF Live
<1>4. ASSUME Fewer(k, w)
      PROVE  w \in WindowRange /\ w.count <= windows[k].count /\ w.resetAt <= windows[k].resetAt
  BY <1>1, <1>2, <1>4 DEF Fewer, WindowRange
<1>5. ASSUME OneMore(k, w)
      PROVE  w \in WindowRange /\ w.count <= windows[k].count + 1
  <2>1. CASE Live(k).count > 0
    <3>1. Live(k) = windows[k] /\ w = [windows[k] EXCEPT !.count = @ + 1]
      BY <1>2, <1>3, <1>5, <2>1 DEF OneMore
    <3>2. windows[k].count \in Nat
      BY <1>1 DEF WindowRange
    <3>3. w \in WindowRange /\ w.count = windows[k].count + 1
      BY <1>1, <3>1, <3>2 DEF WindowRange
    <3> QED  BY <3>2, <3>3
  <2>2. CASE ~(Live(k).count > 0)
    <3>1. w = [count |-> 1, resetAt |-> now + Window]
      BY <1>5, <2>2 DEF OneMore
    <3>2. windows[k].count \in Nat /\ now + Window \in 0 .. (MaxNow + Window)
      BY <1>1 DEF WindowRange
    <3> QED  BY <3>1, <3>2 DEF WindowRange
  <2> QED  BY <2>1, <2>2
<1> QED  BY <1>1, <1>4, <1>5

\* The window that is kept, after each of these.
LEMMA FewerIsKept ==
  ASSUME LimitTyped, NEW k \in Keys, WindowIsKept(k), NEW w, Fewer(k, w), NEW t \in Nat, now <= t
  PROVE  KeptAs(w, LastWindow(fails[k]), t)
<1> DEFINE last == LastWindow(fails[k])
<1>1. windows[k] \in WindowRange /\ now \in Nat /\ last \in WindowRange /\ KeptAs(windows[k], last, now)
  BY WindowTypes DEF LimitTyped, WindowIsKept
<1> SUFFICES KeptAs(w, last, t)
  OBVIOUS
<1> HIDE DEF last
<1>2. last.resetAt \in Nat /\ last.count \in Nat
  BY <1>1 DEF WindowRange
<1>3. CASE windows[k] = last
  BY <1>1, <1>2, <1>3 DEF Fewer, Expired, KeptAs
<1>4. CASE windows[k] = NoWindow /\ (last.count > 0 => last.resetAt <= now)
  <2>1. w = NoWindow
    BY <1>4 DEF Fewer
  <2> QED  BY <1>1, <1>2, <1>4, <2>1 DEF KeptAs
<1> QED  BY <1>1, <1>3, <1>4 DEF KeptAs

LEMMA OneMoreIsKept ==
  ASSUME LimitTyped, NEW k \in Keys, WindowIsKept(k), NEW w, OneMore(k, w)
  PROVE  LastWindow(Append(fails[k], now)) = w
<1> DEFINE last == LastWindow(fails[k])
<1>1. windows[k] \in WindowRange /\ now \in Nat /\ last \in WindowRange /\ KeptAs(windows[k], last, now)
  BY WindowTypes DEF LimitTyped, WindowIsKept
<1>2. LastWindow(Append(fails[k], now)) = Counted(last, now)
  BY WindowOfMore DEF LimitTyped
<1> HIDE DEF last
<1>3. last.resetAt \in Nat /\ last.count \in Nat /\ NoWindow.count = 0
  BY <1>1 DEF WindowRange, NoWindow
<1>4. Counted(last, now) = w
  <2>1. CASE windows[k] = last /\ ~Expired(last)
    <3>1. Live(k) = last
      BY <2>1 DEF Live
    <3>2. last.count > 0 => now < last.resetAt
      BY <1>1, <1>3, <2>1 DEF Expired
    <3> QED  BY <3>1, <3>2 DEF OneMore, Counted
  <2>2. CASE windows[k] = last /\ Expired(last)
    <3>1. Live(k) = NoWindow
      BY <2>2 DEF Live
    <3>2. ~(now < last.resetAt)
      BY <1>1, <1>3, <2>2 DEF Expired
    <3> QED  BY <1>3, <3>1, <3>2 DEF OneMore, Counted
  <2>3. CASE windows[k] = NoWindow /\ (last.count > 0 => last.resetAt <= now)
    <3>1. Live(k) = NoWindow
      BY <2>3 DEF Live
    <3>2. ~(last.count > 0 /\ now < last.resetAt)
      BY <1>1, <1>3, <2>3
    <3> QED  BY <1>3, <3>1, <3>2 DEF OneMore, Counted
  <2> QED  BY <1>1, <2>1, <2>2, <2>3 DEF KeptAs
<1> QED  BY <1>2, <1>4

LEMMA LimitStart == LimitInit => LimitInv
<1> SUFFICES ASSUME LimitInit PROVE LimitInv
  OBVIOUS
<1>1. NoWindow \in WindowRange /\ NoWindow.count = 0 /\ NoWindow.resetAt = 0
  BY LimitFacts DEF NoWindow, WindowRange
<1>2. LimitTyped
  BY <1>1, LimitFacts DEF LimitInit, LimitTyped
<1>3. \A k \in Keys : WindowIsKept(k)
  BY <1>1, WindowOfMore DEF LimitInit, WindowIsKept, KeptAs
<1>4. PendingAll = 0
  <2>1. \A p \in Attempts : pending[p] \in Nat /\ pending[p] = 0
    BY DEF LimitInit
  <2>2. SumFunctionOnSet(pending, Attempts) = SumFunctionOnSet(pending, {})
    BY <2>1, LimitFacts, SumDropsZeros
  <2>3. PendingAll = SumFunctionOnSet(pending, Attempts)
    BY <1>2, PendingSums DEF PendingAll, LimitTyped
  <2> QED  BY <2>2, <2>3, SumOfNone
<1>5. \A k \in Keys : windows[k] = NoWindow
  BY DEF LimitInit
<1>6. now = 0 /\ signIns = 0
  BY DEF LimitInit
<1>7. InFlightIsBounded /\ GuessesAreBounded
  BY <1>1, <1>4, <1>5, <1>6, LimitFacts DEF InFlightIsBounded, GuessesAreBounded
<1> QED  BY <1>2, <1>3, <1>7 DEF LimitInv

(***************************************************************************)
(* The bounds, of a state and of the next.                                 *)
(***************************************************************************)
Bounds(ws, p, t, asked) ==
  /\ SumFunction(p) <= MaxPending
  /\ \A k \in Keys : ws[k].count + SumFunction(p) <= asked
  /\ \A k \in Keys :
       ws[k].resetAt > t => ws[k].count + SumFunctionOnSet(p, Touching(k)) <= LimitOf(k) - 1 + MaxPending

LEMMA BoundsAre ==
  /\ InFlightIsBounded /\ GuessesAreBounded <=> Bounds(windows, pending, now, signIns)
  /\ (InFlightIsBounded /\ GuessesAreBounded)' <=> Bounds(windows', pending', now', signIns')
BY DEF InFlightIsBounded, GuessesAreBounded, Bounds, PendingAll, PendingOf, Touching

\* What a step has to show.
LEMMA LimitNextIs ==
  ASSUME LimitInv, IsWindows(windows'), pending' \in [Attempts -> Nat],
         now' \in now .. MaxNow, signIns' \in 0 .. MaxSignIns,
         \A k \in Keys :
           \/ Fewer(k, windows'[k]) /\ fails'[k] = fails[k]
           \/ OneMore(k, windows'[k]) /\ fails'[k] = Append(fails[k], now) /\ now' = now
           \/ windows'[k] = NoWindow /\ fails'[k] = <<>>,
         fails' \in [Keys -> Seq(Nat)],
         Bounds(windows', pending', now', signIns')
  PROVE  LimitInv'
<1>1. /\ now \in Nat /\ now' \in Nat /\ now <= now' /\ now' <= MaxNow
      /\ NoWindow \in WindowRange /\ NoWindow.count = 0 /\ LimitTyped
  BY LimitFacts DEF LimitInv, LimitTyped, NoWindow, WindowRange
<1>2. ASSUME NEW k \in Keys
      PROVE  windows'[k] \in WindowRange /\ WindowIsKept(k)'
  <2>1. WindowIsKept(k)' <=>
          LastWindow(fails'[k]) \in WindowRange /\ KeptAs(windows'[k], LastWindow(fails'[k]), now')
    BY DEF WindowIsKept
  <2>2. WindowIsKept(k) /\ LastWindow(fails[k]) \in WindowRange
    BY DEF LimitInv, WindowIsKept
  <2>3. CASE Fewer(k, windows'[k]) /\ fails'[k] = fails[k]
    BY <1>1, <2>1, <2>2, <2>3, FewerIsKept, WindowTypes
  <2>4. CASE OneMore(k, windows'[k]) /\ fails'[k] = Append(fails[k], now)
    <3>1. windows'[k] \in WindowRange /\ LastWindow(fails'[k]) = windows'[k]
      BY <1>1, <2>2, <2>4, OneMoreIsKept, WindowTypes
    <3> QED  BY <2>1, <3>1 DEF KeptAs
  <2>5. CASE windows'[k] = NoWindow /\ fails'[k] = <<>>
    BY <1>1, <2>1, <2>5, WindowOfMore DEF KeptAs
  <2> QED  BY <2>3, <2>4, <2>5
<1>3. LimitTyped'
  <2>1. windows' \in [Keys -> WindowRange]
    BY <1>2 DEF IsWindows
  <2> QED  BY <1>1, <2>1 DEF LimitTyped
<1>4. (InFlightIsBounded /\ GuessesAreBounded)'
  BY BoundsAre
<1> QED  BY <1>2, <1>3, <1>4 DEF LimitInv

\* What the proofs of the steps use of the state.
LEMMA LimitState ==
  ASSUME LimitInv
  PROVE  /\ now \in Nat /\ now <= MaxNow /\ signIns \in Nat /\ signIns <= MaxSignIns
         /\ IsWindows(windows) /\ pending \in [Attempts -> Nat] /\ fails \in [Keys -> Seq(Nat)]
         /\ SumFunction(pending) \in Nat /\ SumFunction(pending) <= MaxPending
         /\ \A k \in Keys :
              /\ windows[k].count \in Nat /\ windows[k].resetAt \in Nat
              /\ windows[k].count + SumFunction(pending) <= signIns
              /\ windows[k].resetAt > now =>
                   windows[k].count + SumFunctionOnSet(pending, Touching(k)) <= LimitOf(k) - 1 + MaxPending
              /\ SumFunctionOnSet(pending, Touching(k)) \in Nat
              /\ SumFunctionOnSet(pending, Touching(k)) <= SumFunction(pending)
<1>1. LimitTyped /\ Bounds(windows, pending, now, signIns)
  BY BoundsAre DEF LimitInv
<1>2. \A k \in Keys : windows[k].count \in Nat /\ windows[k].resetAt \in Nat
  BY <1>1, LimitFacts DEF LimitTyped, WindowRange
<1>3. /\ SumFunction(pending) \in Nat
      /\ \A k : /\ SumFunctionOnSet(pending, Touching(k)) \in Nat
                /\ SumFunctionOnSet(pending, Touching(k)) <= SumFunction(pending)
  BY <1>1, PendingSums DEF LimitTyped
<1>4. IsWindows(windows)
  BY <1>1 DEF LimitTyped, IsWindows
<1> QED  BY <1>1, <1>2, <1>3, <1>4 DEF LimitTyped, Bounds

LEMMA AskStep ==
  ASSUME LimitInv, NEW e \in Emails, NEW a \in Addresses, Ask(e, a)
  PROVE  LimitInv'
<1> DEFINE P == SumFunction(pending)
           Of(k) == SumFunctionOnSet(pending, Touching(k))
           P1 == SumFunction(pending')
           Of1(k) == SumFunctionOnSet(pending', Touching(k))
           free == ~Blocked(e) /\ ~Blocked(a)
<1>1. /\ signIns < MaxSignIns /\ P < MaxPending /\ signIns' = signIns + 1
      /\ windows' = [k \in Keys |-> IF k \in {e, a} THEN Live(k) ELSE windows[k]]
      /\ now' = now /\ fails' = fails
      /\ free => pending' = [pending EXCEPT ![<<e, a>>] = @ + 1]
      /\ ~free => pending' = pending
  BY Zenon DEF Ask, Active, PendingAll
<1>2. /\ LimitTyped /\ MaxPending \in Nat /\ MaxSignIns \in Nat /\ \A k \in Keys : LimitOf(k) \in Nat
  BY LimitFacts DEF LimitInv
<1>3. \A k \in Keys : Fewer(k, windows'[k])
  BY <1>1, LiveIs
<1>4. \A k \in Keys : windows'[k] \in WindowRange /\ windows'[k].count <= windows[k].count
                      /\ windows'[k].resetAt <= windows[k].resetAt
  BY <1>2, <1>3, WindowTypes
<1>5. \A k \in Keys : windows'[k].count \in Nat /\ windows'[k].resetAt \in Nat
  BY <1>2, <1>4, LimitFacts DEF WindowRange
<1>6. pending' \in [Attempts -> Nat] /\ P1 <= MaxPending
      /\ (\A k \in Keys : windows'[k].count + P1 <= signIns')
      /\ \A k \in Keys : windows'[k].resetAt > now' => windows'[k].count + Of1(k) <= LimitOf(k) - 1 + MaxPending
  <2>1. CASE ~free
    <3>1. pending' = pending
      BY <1>1, <2>1
    <3> HIDE DEF free, P, Of
    <3>2. P1 = P /\ \A k \in Keys : Of1(k) = Of(k)
      BY <3>1 DEF P, Of
    <3> HIDE DEF P1, Of1
    <3>3. /\ pending \in [Attempts -> Nat] /\ P \in Nat /\ P <= MaxPending /\ signIns \in Nat
          /\ \A k \in Keys : windows[k].count \in Nat /\ windows[k].resetAt \in Nat /\ Of(k) \in Nat
      BY LimitState DEF P, Of
    <3>4. \A k \in Keys : windows[k].count + P <= signIns
      BY LimitState DEF P
    <3>5. \A k \in Keys : windows[k].resetAt > now => windows[k].count + Of(k) <= LimitOf(k) - 1 + MaxPending
      BY LimitState DEF Of
    <3>6. now \in Nat
      BY LimitState
    <3>7. \A k \in Keys : windows'[k].count + P1 <= signIns'
      BY <1>1, <1>4, <1>5, <3>2, <3>3, <3>4
    <3>8. ASSUME NEW k \in Keys, windows'[k].resetAt > now'
          PROVE  windows'[k].count + Of1(k) <= LimitOf(k) - 1 + MaxPending
      <4>1. windows[k].resetAt > now
        BY <1>1, <1>4, <1>5, <3>3, <3>6, <3>8
      <4>2. windows[k].count + Of(k) <= LimitOf(k) - 1 + MaxPending /\ LimitOf(k) \in Nat
        BY <1>2, <3>5, <4>1
      <4> QED  BY <1>2, <1>4, <1>5, <3>2, <3>3, <4>2
    <3> QED  BY <3>1, <3>2, <3>3, <3>7, <3>8
  <2>2. CASE free
    <3>1. pending' = [pending EXCEPT ![<<e, a>>] = @ + 1]
      BY <1>1, <2>2
    <3>2. pending \in [Attempts -> Nat] /\ pending' \in [Attempts -> Nat]
      <4>1. pending \in [Attempts -> Nat] /\ <<e, a>> \in Attempts
        BY LimitState DEF Attempts
      <4> QED  BY ONLY <3>1, <4>1
    <3>3. P1 = P + 1 /\ \A k \in Keys : Of1(k) = IF k \in {e, a} THEN Of(k) + 1 ELSE Of(k)
      <4> HIDE DEF free
      <4> QED  BY <3>1, <3>2, PendingGrows
    <3>4. \A k \in Keys : Of1(k) <= P1 /\ Of1(k) \in Nat
      BY <3>2, PendingSums
    <3>5. \A k \in Keys \intersect {e, a} : windows'[k].count < LimitOf(k)
      <4>1. \A k \in Keys \intersect {e, a} : windows'[k] = Live(k) /\ ~(Live(k).count >= LimitOf(k))
        BY <1>1, <2>2 DEF Blocked
      <4> QED  BY <1>2, <1>5, <4>1
    <3> HIDE DEF free, P, Of, P1, Of1
    <3>6. P1 <= MaxPending
      BY <1>1, <1>2, <3>3, LimitState DEF P
    <3>7. \A k \in Keys : windows'[k].count + P1 <= signIns'
      BY <1>1, <1>4, <1>5, <3>3, LimitState DEF P
    <3>8. ASSUME NEW k \in Keys, windows'[k].resetAt > now'
          PROVE  windows'[k].count + Of1(k) <= LimitOf(k) - 1 + MaxPending
      <4>1. /\ windows'[k].count \in Nat /\ windows[k].count \in Nat /\ LimitOf(k) \in Nat
            /\ windows'[k].count <= windows[k].count /\ windows[k].resetAt > now
            /\ Of(k) \in Nat /\ Of1(k) \in Nat /\ Of1(k) <= P1 /\ P1 \in Nat /\ MaxPending \in Nat
        BY <1>1, <1>2, <1>4, <1>5, <3>3, <3>4, <3>8, LimitState DEF P, Of
      <4>2. CASE k \in {e, a}
        BY <3>5, <3>6, <4>1, <4>2
      <4>3. CASE k \notin {e, a}
        <5>1. Of1(k) = Of(k)
          BY <3>3, <4>3
        <5>2. windows[k].count + Of(k) <= LimitOf(k) - 1 + MaxPending
          BY <4>1, LimitState DEF Of
        <5> QED  BY <4>1, <5>1, <5>2
      <4> QED  BY <4>2, <4>3
    <3> QED  BY <3>2, <3>6, <3>7, <3>8 DEF Of1, P1
  <2> QED  BY <2>1, <2>2
<1>7. Bounds(windows', pending', now', signIns')
  BY <1>6 DEF Bounds
<1>8. IsWindows(windows')
  BY <1>1 DEF IsWindows
<1>9. now' \in now .. MaxNow /\ signIns' \in 0 .. MaxSignIns /\ fails' \in [Keys -> Seq(Nat)]
  BY <1>1, <1>2, LimitState, LimitFacts
<1> QED
  <2> HIDE DEF P, Of, P1, Of1, free
  <2> QED  BY <1>1, <1>3, <1>6, <1>7, <1>8, <1>9, LimitNextIs

LEMMA WrongStep ==
  ASSUME LimitInv, NEW e \in Emails, NEW a \in Addresses, Wrong(e, a)
  PROVE  LimitInv'
<1> DEFINE P == SumFunction(pending)
           Of(k) == SumFunctionOnSet(pending, Touching(k))
           P1 == SumFunction(pending')
           Of1(k) == SumFunctionOnSet(pending', Touching(k))
<1>1. /\ pending[<<e, a>>] > 0 /\ pending' = [pending EXCEPT ![<<e, a>>] = @ - 1]
      /\ windows' = Recorded(Recorded(windows, e), a)
      /\ fails' = [fails EXCEPT ![e] = Append(@, now), ![a] = Append(@, now)]
      /\ now' = now /\ signIns' = signIns
  BY DEF Wrong
<1>2. /\ LimitTyped /\ MaxPending \in Nat /\ MaxSignIns \in Nat /\ MaxNow \in Nat
      /\ \A k \in Keys : LimitOf(k) \in Nat /\ LimitOf(k) >= 1
  BY LimitFacts DEF LimitInv
<1>3. e \in Keys /\ a \in Keys /\ e # a
  BY Limits DEF Keys
<1>4. /\ IsWindows(windows') /\ OneMore(e, windows'[e]) /\ OneMore(a, windows'[a])
      /\ \A k \in Keys \ {e, a} : Fewer(k, windows'[k])
  BY <1>1, LimitState, BothRecorded
<1>5. pending' \in [Attempts -> Nat]
  <2>1. pending \in [Attempts -> Nat] /\ <<e, a>> \in Attempts
    BY LimitState DEF Attempts
  <2>2. \A n \in Nat : n > 0 => n - 1 \in Nat
    OBVIOUS
  <2>3. pending[<<e, a>>] \in Nat
    BY ONLY <2>1
  <2>4. pending[<<e, a>>] - 1 \in Nat
    BY <1>1, <2>2, <2>3
  <2> QED  BY ONLY <1>1, <2>1, <2>4
<1>6. /\ fails'[e] = Append(fails[e], now) /\ fails'[a] = Append(fails[a], now)
      /\ \A k \in Keys \ {e, a} : fails'[k] = fails[k]
      /\ fails' \in [Keys -> Seq(Nat)]
  <2>1. fails \in [Keys -> Seq(Nat)] /\ now \in Nat
    BY LimitState
  <2>2. \A s \in Seq(Nat) : Append(s, now) \in Seq(Nat)
    BY <2>1
  <2> DEFINE ve == Append(fails[e], now)
             va == Append(fails[a], now)
  <2>3. ve \in Seq(Nat) /\ va \in Seq(Nat)
    BY <1>3, <2>1, <2>2
  <2>4. fails' = [fails EXCEPT ![e] = ve, ![a] = va]
    BY <1>1
  <2> HIDE DEF ve, va
  <2>5. fails'[e] = ve /\ fails'[a] = va /\ \A k \in Keys \ {e, a} : fails'[k] = fails[k]
    BY ONLY <1>3, <2>1, <2>4
  <2>6. fails' \in [Keys -> Seq(Nat)]
    BY ONLY <1>3, <2>1, <2>3, <2>4
  <2> QED  BY <2>5, <2>6 DEF ve, va
<1>7. P1 = P - 1 /\ \A k : Of1(k) = IF k \in {e, a} THEN Of(k) - 1 ELSE Of(k)
  <2>1. pending \in [Attempts -> Nat]
    BY LimitState
  <2> QED  BY <1>1, <1>5, <2>1, PendingShrinks
<1>8. /\ P \in Nat /\ P <= MaxPending /\ signIns \in Nat /\ now \in Nat
      /\ \A k \in Keys : /\ Of(k) \in Nat /\ Of(k) <= P
                         /\ windows[k].count \in Nat /\ windows[k].resetAt \in Nat
                         /\ windows[k].count + P <= signIns
  BY LimitState
<1>9. \A k \in Keys : windows[k].resetAt > now => windows[k].count + Of(k) <= LimitOf(k) - 1 + MaxPending
  BY LimitState
<1> HIDE DEF P, Of, P1, Of1
<1>10. /\ \A k \in Keys : windows'[k].count \in Nat /\ windows'[k].count <= windows[k].count + 1
       /\ \A k \in Keys \ {e, a} : windows'[k].count <= windows[k].count
       /\ \A k \in Keys \ {e, a} : windows'[k].resetAt \in Nat /\ windows'[k].resetAt <= windows[k].resetAt
  <2>1. \A k \in Keys \ {e, a} :
          /\ windows'[k] \in WindowRange /\ windows'[k].count <= windows[k].count
          /\ windows'[k].resetAt <= windows[k].resetAt
    BY <1>2, <1>4, WindowTypes
  <2>2. \A k \in {e, a} : windows'[k] \in WindowRange /\ windows'[k].count <= windows[k].count + 1
    BY <1>2, <1>3, <1>4, WindowTypes
  <2>3. \A w \in WindowRange : w.count \in Nat /\ w.resetAt \in Nat
    BY LimitFacts DEF WindowRange
  <2> QED  BY <1>8, <2>1, <2>2, <2>3
<1>11. P1 <= MaxPending
  BY <1>2, <1>7, <1>8
<1>12. \A k \in Keys : windows'[k].count + P1 <= signIns'
  <2> SUFFICES ASSUME NEW k \in Keys PROVE windows'[k].count + P1 <= signIns'
    OBVIOUS
  <2>1. signIns' = signIns /\ P1 = P - 1 /\ windows'[k].count <= windows[k].count + 1
    BY <1>1, <1>7, <1>10
  <2>2. windows[k].count + P <= signIns
    BY <1>8
  <2> QED  BY <1>8, <1>10, <2>1, <2>2
<1>13. ASSUME NEW k \in Keys, windows'[k].resetAt > now'
       PROVE  windows'[k].count + Of1(k) <= LimitOf(k) - 1 + MaxPending
  <2>1. /\ LimitOf(k) \in Nat /\ LimitOf(k) >= 1 /\ MaxPending \in Nat
        /\ Of(k) \in Nat /\ P \in Nat /\ Of(k) <= P /\ P <= MaxPending
        /\ windows[k].count \in Nat /\ windows'[k].count \in Nat
    BY <1>2, <1>8, <1>10
  <2>2. CASE k \in {e, a}
    <3>1. Of1(k) = Of(k) - 1 /\ OneMore(k, windows'[k])
      BY <1>4, <1>7, <2>2
    <3>2. CASE Live(k).count > 0
      <4>1. Live(k) = windows[k] /\ ~Expired(windows[k])
        BY <3>2 DEF Live, NoWindow
      <4>2. windows'[k].count = windows[k].count + 1 /\ windows[k].resetAt > now
        <5>1. windows'[k] = [windows[k] EXCEPT !.count = @ + 1] /\ windows[k].count > 0
          BY <3>1, <3>2, <4>1 DEF OneMore
        <5>2. windows[k] \in WindowRange
          BY <1>2, WindowTypes
        <5>3. windows'[k].count = windows[k].count + 1
          BY <5>1, <5>2 DEF WindowRange
        <5>4. ~(windows[k].resetAt <= now)
          BY <4>1, <5>1 DEF Expired
        <5> QED  BY <1>8, <5>3, <5>4
      <4>3. windows[k].count + Of(k) <= LimitOf(k) - 1 + MaxPending
        BY <1>9, <4>2
      <4> QED  BY ONLY <2>1, <3>1, <4>2, <4>3
    <3>3. CASE ~(Live(k).count > 0)
      <4>1. windows'[k].count = 1
        BY <3>1, <3>3 DEF OneMore
      <4> QED  BY ONLY <2>1, <3>1, <4>1
    <3> QED  BY <3>2, <3>3
  <2>3. CASE k \notin {e, a}
    <3>1. /\ Of1(k) = Of(k) /\ windows'[k].count <= windows[k].count
          /\ windows'[k].resetAt <= windows[k].resetAt /\ windows'[k].resetAt \in Nat
      BY <1>7, <1>10, <2>3
    <3>2. windows[k].resetAt > now
      BY <1>1, <1>8, <1>13, <3>1
    <3>3. windows[k].count + Of(k) <= LimitOf(k) - 1 + MaxPending
      BY <1>9, <3>2
    <3> QED  BY ONLY <2>1, <3>1, <3>3
  <2> QED  BY <2>2, <2>3
<1>14. Bounds(windows', pending', now', signIns')
  BY <1>11, <1>12, <1>13 DEF Bounds, P1, Of1
<1>15. now' \in now .. MaxNow /\ signIns' \in 0 .. MaxSignIns
  BY <1>1, <1>2 DEF LimitTyped
<1> QED  BY <1>1, <1>4, <1>5, <1>6, <1>14, <1>15, LimitNextIs

LEMMA RightStep ==
  ASSUME LimitInv, NEW e \in Emails, NEW a \in Addresses, Right(e, a)
  PROVE  LimitInv'
<1> DEFINE P == SumFunction(pending)
           Of(k) == SumFunctionOnSet(pending, Touching(k))
           P1 == SumFunction(pending')
           Of1(k) == SumFunctionOnSet(pending', Touching(k))
<1>1. /\ pending[<<e, a>>] > 0 /\ pending' = [pending EXCEPT ![<<e, a>>] = @ - 1]
      /\ windows' = [windows EXCEPT ![e] = NoWindow] /\ fails' = [fails EXCEPT ![e] = <<>>]
      /\ now' = now /\ signIns' = signIns
  BY DEF Right
<1>2. /\ MaxPending \in Nat /\ MaxSignIns \in Nat /\ MaxNow \in Nat /\ LimitTyped
      /\ \A k \in Keys : LimitOf(k) \in Nat /\ LimitOf(k) >= 1
  BY LimitFacts DEF LimitInv
<1>3. e \in Keys /\ NoWindow.count = 0 /\ NoWindow.resetAt = 0
  BY DEF Keys, NoWindow
<1>4. /\ IsWindows(windows) /\ pending \in [Attempts -> Nat] /\ fails \in [Keys -> Seq(Nat)]
      /\ P \in Nat /\ P <= MaxPending /\ signIns \in Nat /\ now \in Nat
      /\ \A k \in Keys : /\ Of(k) \in Nat /\ Of(k) <= P
                         /\ windows[k].count \in Nat /\ windows[k].resetAt \in Nat
                         /\ windows[k].count + P <= signIns
  BY LimitState
<1>5. \A k \in Keys : windows[k].resetAt > now => windows[k].count + Of(k) <= LimitOf(k) - 1 + MaxPending
  BY LimitState
<1>6. pending' \in [Attempts -> Nat]
  <2>1. <<e, a>> \in Attempts
    BY DEF Attempts
  <2>2. \A n \in Nat : n > 0 => n - 1 \in Nat
    OBVIOUS
  <2>3. pending[<<e, a>>] \in Nat
    BY ONLY <1>4, <2>1
  <2>4. pending[<<e, a>>] - 1 \in Nat
    BY <1>1, <2>2, <2>3
  <2> QED  BY ONLY <1>1, <1>4, <2>1, <2>4
<1>7. P1 = P - 1 /\ \A k : Of1(k) = IF k \in {e, a} THEN Of(k) - 1 ELSE Of(k)
  BY <1>1, <1>4, <1>6, PendingShrinks
<1> HIDE DEF P, Of, P1, Of1
<1>8. /\ IsWindows(windows') /\ windows'[e] = NoWindow
      /\ \A k \in Keys \ {e} : windows'[k] = windows[k]
  BY <1>1, <1>3, <1>4 DEF IsWindows
<1>9. /\ fails'[e] = <<>> /\ fails' \in [Keys -> Seq(Nat)]
      /\ \A k \in Keys \ {e} : fails'[k] = fails[k]
  BY ONLY <1>1, <1>3, <1>4
<1>10. P1 <= MaxPending /\ \A k \in Keys : Of1(k) <= Of(k) /\ Of1(k) \in Int
  <2>1. P1 <= MaxPending
    BY <1>2, <1>4, <1>7
  <2>2. \A n \in Nat : n - 1 \in Int /\ n \in Int /\ n - 1 <= n /\ n <= n
    OBVIOUS
  <2>3. \A k \in Keys : Of(k) \in Nat
    BY <1>4
  <2>4. \A k \in Keys : Of1(k) = Of(k) - 1 \/ Of1(k) = Of(k)
    BY <1>7
  <2>5. \A k \in Keys : Of1(k) <= Of(k) /\ Of1(k) \in Int
    BY ONLY <2>2, <2>3, <2>4
  <2> QED  BY <2>1, <2>5
<1>11. ASSUME NEW k \in Keys
       PROVE  /\ windows'[k].count + P1 <= signIns'
              /\ windows'[k].resetAt > now' => windows'[k].count + Of1(k) <= LimitOf(k) - 1 + MaxPending
  <2>1. CASE k = e
    <3>1. windows'[k].count = 0 /\ windows'[k].resetAt = 0 /\ windows[k].count + P <= signIns
          /\ windows[k].count \in Nat
      BY <1>3, <1>4, <1>8, <2>1
    <3> QED  BY <1>1, <1>4, <1>7, <3>1
  <2>2. CASE k # e
    <3>1. windows'[k] = windows[k]
      BY <1>8, <2>2
    <3>2. /\ windows[k].count + P <= signIns /\ windows[k].count \in Nat
          /\ Of(k) \in Nat /\ Of1(k) \in Int /\ Of1(k) <= Of(k) /\ LimitOf(k) \in Nat
          /\ windows[k].resetAt > now => windows[k].count + Of(k) <= LimitOf(k) - 1 + MaxPending
      BY <1>2, <1>4, <1>5, <1>10
    <3>3. windows[k].count + P1 <= signIns
      <4>1. P \in Nat /\ signIns \in Nat /\ P1 = P - 1
        BY <1>4, <1>7
      <4> QED  BY ONLY <4>1, <3>2
    <3>a. MaxPending \in Nat
      BY <1>2
    <3>4. windows[k].resetAt > now => windows[k].count + Of1(k) <= LimitOf(k) - 1 + MaxPending
      BY ONLY <3>a, <3>2
    <3> QED  BY <1>1, <3>1, <3>3, <3>4
  <2> QED  BY <2>1, <2>2
<1>12. Bounds(windows', pending', now', signIns')
  BY <1>10, <1>11 DEF Bounds, P1, Of1
<1>13. now' \in now .. MaxNow /\ signIns' \in 0 .. MaxSignIns
  BY <1>1, <1>2 DEF LimitTyped
<1>14. \A k \in Keys \ {e} : Fewer(k, windows'[k])
  BY <1>8, LiveIs
<1> QED  BY <1>6, <1>8, <1>9, <1>12, <1>13, <1>14, LimitNextIs

LEMMA TickStep ==
  ASSUME LimitInv, Tick
  PROVE  LimitInv'
<1>1. /\ now < MaxNow /\ now' = now + 1 /\ windows' = windows /\ pending' = pending
      /\ fails' = fails /\ signIns' = signIns
  BY DEF Tick
<1>2. now \in Nat /\ signIns \in 0 .. MaxSignIns /\ MaxNow \in Nat
  BY LimitFacts DEF LimitInv, LimitTyped
<1>3. /\ IsWindows(windows) /\ pending \in [Attempts -> Nat] /\ fails \in [Keys -> Seq(Nat)]
      /\ \A k \in Keys : windows[k].resetAt \in Nat
  BY LimitState
<1>4. Bounds(windows, pending, now, signIns)
  BY BoundsAre DEF LimitInv
<1>5. Bounds(windows, pending, now', signIns)
  <2>1. \A k \in Keys : windows[k].resetAt > now' => windows[k].resetAt > now
    BY <1>1, <1>2, <1>3
  <2> QED  BY <1>4, <2>1 DEF Bounds
<1>6. \A k \in Keys : Fewer(k, windows'[k]) /\ fails'[k] = fails[k]
  BY <1>1, LiveIs
<1>7. /\ IsWindows(windows') /\ pending' \in [Attempts -> Nat] /\ fails' \in [Keys -> Seq(Nat)]
      /\ Bounds(windows', pending', now', signIns')
  BY <1>1, <1>3, <1>5
<1>8. now' \in now .. MaxNow /\ signIns' \in 0 .. MaxSignIns
  BY <1>1, <1>2
<1> QED  BY <1>6, <1>7, <1>8, LimitNextIs

LEMMA RestartStep ==
  ASSUME LimitInv, Restart
  PROVE  LimitInv'
<1>1. /\ windows' = [k \in Keys |-> NoWindow] /\ pending' = [p \in Attempts |-> 0]
      /\ fails' = [k \in Keys |-> <<>>] /\ now' = now /\ signIns' = signIns
  BY DEF Restart
<1>2. /\ LimitTyped /\ MaxPending \in Nat /\ NoWindow.count = 0 /\ NoWindow.resetAt = 0
      /\ now \in Nat /\ signIns \in Nat
  BY LimitFacts DEF LimitInv, LimitTyped, NoWindow
<1>3. pending' \in [Attempts -> Nat] /\ fails' \in [Keys -> Seq(Nat)] /\ IsWindows(windows')
  BY <1>1 DEF IsWindows
<1> DEFINE g == pending'
<1>4. SumFunction(g) = 0
  <2>1. g \in [Attempts -> Nat] /\ \A p \in Attempts : g[p] \in Nat /\ g[p] = 0
    BY <1>1
  <2> HIDE DEF g
  <2>2. SumFunctionOnSet(g, Attempts) = SumFunctionOnSet(g, {})
    BY <2>1, LimitFacts, SumDropsZeros
  <2>3. SumFunction(g) = SumFunctionOnSet(g, Attempts)
    BY <2>1, PendingSums
  <2> QED  BY <2>2, <2>3, SumOfNone
<1>5. \A k \in Keys : windows'[k].count = 0 /\ windows'[k].resetAt = 0
  BY <1>1, <1>2
<1>6. Bounds(windows', pending', now', signIns')
  <2>1. \A k \in Keys : ~(windows'[k].resetAt > now')
    BY <1>1, <1>2, <1>5
  <2> QED  BY <1>1, <1>2, <1>4, <1>5, <2>1 DEF Bounds
<1>7. \A k \in Keys : windows'[k] = NoWindow /\ fails'[k] = <<>>
  BY <1>1
<1>8. now' \in now .. MaxNow /\ signIns' \in 0 .. MaxSignIns
  BY <1>1, <1>2, LimitFacts DEF LimitTyped
<1> QED  BY <1>3, <1>6, <1>7, <1>8, LimitNextIs

LEMMA LimitStep == LimitInv /\ [LimitNext]_limitVars => LimitInv'
<1> SUFFICES ASSUME LimitInv, [LimitNext]_limitVars PROVE LimitInv'
  OBVIOUS
<1>1. ASSUME NEW e \in Emails, NEW a \in Addresses, Ask(e, a) \/ Wrong(e, a) \/ Right(e, a)
      PROVE  LimitInv'
  BY <1>1, AskStep, WrongStep, RightStep
<1>2. CASE Tick
  BY <1>2, TickStep
<1>3. CASE Restart
  BY <1>3, RestartStep
<1>4. CASE UNCHANGED limitVars
  <2>1. /\ IsWindows(windows') /\ pending' \in [Attempts -> Nat] /\ fails' \in [Keys -> Seq(Nat)]
        /\ now' = now /\ signIns' = signIns /\ windows' = windows /\ pending' = pending /\ fails' = fails
    BY <1>4, LimitState DEF limitVars
  <2>2. now' \in now .. MaxNow /\ signIns' \in 0 .. MaxSignIns
    BY <2>1, LimitFacts DEF LimitInv, LimitTyped
  <2>3. Bounds(windows', pending', now', signIns')
    BY <2>1, BoundsAre DEF LimitInv
  <2>4. \A k \in Keys : Fewer(k, windows'[k]) /\ fails'[k] = fails[k]
    BY <2>1, LiveIs
  <2> QED  BY <2>1, <2>2, <2>3, <2>4, LimitNextIs
<1> QED  BY <1>1, <1>2, <1>3, <1>4 DEF LimitNext

(***************************************************************************)
(* What they imply.                                                        *)
(***************************************************************************)
LEMMA LimitTypes == LimitInv => LimitTypeOK
<1> SUFFICES ASSUME LimitInv PROVE LimitTypeOK
  OBVIOUS
<1>1. LimitTyped /\ MaxSignIns \in Nat /\ MaxNow \in Nat /\ MaxPending \in Nat /\ Window \in Nat
  BY LimitFacts DEF LimitInv
<1>2. windows \in [Keys -> [count : 0 .. MaxSignIns, resetAt : 0 .. (MaxNow + Window)]]
  <2>1. ASSUME NEW k \in Keys
        PROVE  windows[k] \in [count : 0 .. MaxSignIns, resetAt : 0 .. (MaxNow + Window)]
    <3>1. windows[k] \in WindowRange
      BY <1>1 DEF LimitTyped
    <3>2. /\ windows[k].count + SumFunction(pending) <= signIns /\ signIns \in Nat /\ signIns <= MaxSignIns
          /\ SumFunction(pending) \in Nat /\ windows[k].count \in Nat
      BY LimitState
    <3>3. windows[k].count \in 0 .. MaxSignIns
      BY <1>1, <3>2
    <3> QED  BY <3>1, <3>3 DEF WindowRange
  <2> QED  BY <1>1, <2>1 DEF LimitTyped
<1>3. pending \in [Attempts -> 0 .. MaxPending]
  <2>1. pending \in [Attempts -> Nat] /\ SumFunction(pending) \in Nat /\ SumFunction(pending) <= MaxPending
    BY LimitState
  <2>2. ASSUME NEW p \in Attempts
        PROVE  pending[p] <= MaxPending /\ pending[p] \in Nat
    <3>1. SumFunction(pending) = SumFunctionOnSet(pending, Attempts)
      BY <2>1, PendingSums
    <3>2. \A q \in Attempts : pending[q] \in Nat
      BY <2>1
    <3>3. /\ SumFunctionOnSet(pending, Attempts) = pending[p] + SumFunctionOnSet(pending, Attempts \ {p})
          /\ SumFunctionOnSet(pending, Attempts \ {p}) \in Nat
      BY <3>2, LimitFacts, SumPeels
    <3> QED  BY <1>1, <2>1, <3>1, <3>2, <3>3
  <2> QED  BY <1>1, <2>1, <2>2
<1> QED  BY <1>1, <1>2, <1>3 DEF LimitTyped, LimitTypeOK

LEMMA LimitHolds == LimitInv => LimitsHold
<1> SUFFICES ASSUME LimitInv PROVE LimitsHold
  OBVIOUS
<1>1. ASSUME NEW k \in Keys, NEW last, last = LastWindow(fails[k])
      PROVE  ((IF windows[k].resetAt <= now THEN 0 ELSE windows[k].count) >= LimitOf(k))
               = (last.count >= LimitOf(k) /\ now < last.resetAt)
  <2>1. /\ windows[k] \in WindowRange /\ last \in WindowRange /\ KeptAs(windows[k], last, now)
        /\ now \in Nat /\ LimitOf(k) \in Nat /\ LimitOf(k) >= 1
    BY <1>1, LimitFacts DEF LimitInv, LimitTyped, WindowIsKept
  <2>2. /\ windows[k].count \in Nat /\ windows[k].resetAt \in Nat
        /\ last.count \in Nat /\ last.resetAt \in Nat
    BY <2>1, LimitFacts DEF WindowRange
  <2>3. CASE windows[k] = last
    BY <2>1, <2>2, <2>3
  <2>4. CASE windows[k] = NoWindow /\ (last.count > 0 => last.resetAt <= now)
    <3>1. windows[k].count = 0 /\ windows[k].resetAt = 0
      BY <2>4 DEF NoWindow
    <3> QED  BY <2>1, <2>2, <2>4, <3>1
  <2> QED  BY <2>1, <2>3, <2>4 DEF KeptAs
<1>2. RefusedByWindow
  BY <1>1 DEF RefusedByWindow
<1> QED  BY <1>2 DEF LimitInv, LimitsHold

\* On every path of the login route, with any number of sign-ins in flight, a
\* key is refused exactly while the window its failures opened is running and
\* full, and no more passwords are tried than the limit and the sign-ins in
\* flight allow (rateLimiter.ts, login of auth/router.ts).
THEOREM GuessesAreLimited == LimitSpec => []LimitsHold
<1>1. LimitInit => LimitInv
  BY LimitStart
<1>2. LimitInv /\ [LimitNext]_limitVars => LimitInv'
  BY LimitStep
<1>3. LimitInv => LimitsHold
  BY LimitHolds
<1> QED  BY <1>1, <1>2, <1>3, PTL DEF LimitSpec

(***************************************************************************)
(* Side by side.  A step is a step of one part, and the others stand.      *)
(***************************************************************************)
PartsInv == PollInv /\ LimitInv /\ KeyInv

LEMMA PollStands == PollInv /\ UNCHANGED pollVars => PollInv'
<1> SUFFICES ASSUME PollInv, UNCHANGED pollVars PROVE PollInv'
  OBVIOUS
<1>1. PollTyped'
  BY DEF PollInv, pollVars, redisVars, startVars, PollTyped
<1>2. crashes' \in Nat /\ LeftByCrash'
  BY DEF PollInv, pollVars, redisVars, LeftByCrash
<1> QED  BY <1>1, <1>2 DEF PollInv

\* Counters, keys and jobs stay in their range whatever the parts do; a job is
\* left in Redis by nothing but a crash; the lock is held by the one call that
\* reads (fxPoller.ts close, rateLimiter.ts, secrets.py ApiKeySource.get).
THEOREM PartsAreTyped == Spec => []TypeOK
<1>1. Init => PartsInv
  BY PollBegins, LimitStart, KeyInitially DEF Init, PartsInv
<1>2. PartsInv /\ [Next]_allVars => PartsInv'
  <2> SUFFICES ASSUME PartsInv, [Next]_allVars PROVE PartsInv'
    OBVIOUS
  <2>1. (PollNext \/ UNCHANGED pollVars) /\ [LimitNext]_limitVars /\ [KeyNext]_keyVars
    BY DEF Next, allVars
  <2>2. PollInv'
    BY <2>1, PollStep, PollStands DEF PartsInv
  <2>3. LimitInv'
    BY <2>1, LimitStep DEF PartsInv
  <2>4. KeyInv'
    BY <2>1, KeyStep DEF PartsInv
  <2> QED  BY <2>2, <2>3, <2>4 DEF PartsInv
<1>3. PartsInv => TypeOK
  <2>1. PollInv => PollTypeOK /\ LeftByCrash
    BY PollTypes DEF PollInv
  <2>2. KeyInv => KeyTypeOK
    BY DEF KeyInv, KeyTyped, VaultTyped, KeptTyped, LockIsHeld, KeyTypeOK
  <2> QED  BY <2>1, <2>2, LimitTypes DEF PartsInv, TypeOK
<1> QED  BY <1>1, <1>2, <1>3, PTL DEF Spec
=============================================================================
