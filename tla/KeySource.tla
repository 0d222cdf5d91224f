----------------------------- MODULE KeySource -----------------------------
(***************************************************************************)
(* The optimiser's shared key (optimizer app/secrets.py, require_api_key   *)
(* of main.py): read from the vault at run time, under a lock, and kept    *)
(* for a while; when it cannot be read requests are refused.               *)
(***************************************************************************)
EXTENDS Integers

CONSTANTS Calls, SharedKeys,
          SettingKey,    \* the key of OPTIMIZER_API_KEY, where that is set
          CacheSeconds,
          MaxClock,      \* bound: time
          MaxBadReads    \* bound: reads of the vault that fail

ASSUME KeyTimes == CacheSeconds \in Nat \ {0} /\ {MaxClock, MaxBadReads} \subseteq Nat /\ SettingKey \in SharedKeys

NoKey == "no key"

ASSUME NoKeyIsNone == NoKey \notin Calls /\ NoKey \notin SharedKeys

VARIABLES
  clock,
  keyFrom,      \* the environment: "setting", "vault" or "none"
  vaultKey,
  held,         \* history: held[t], the keys the vault held in second t
  lock,         \* the call that holds the lock, or NoKey
  cached,       \* [value, at]; value NoKey when nothing is kept
  calls,        \* calls[c]: [state, presents, now, expected]
  badReads

vaultVars == <<vaultKey, held>>
keyVars == <<clock, keyFrom, vaultVars, lock, cached, calls, badReads>>

\* main.py require_api_key: what comes of a request whose key is expected to be v.
Verdict(presents, v) == IF presents = v THEN "admitted" ELSE "refused"
Judged(c, v, time) == [calls[c] EXCEPT !.state = Verdict(calls[c].presents, v), !.expected = v, !.now = time]

(***************************************************************************)
(* A request: the environment first, then the vault behind the lock.  No   *)
(* header is a wrong key.                                                  *)
(***************************************************************************)
Present(c, k) ==
  /\ calls[c].state = "new"
  /\ calls' = [calls EXCEPT ![c].presents = k,
                            ![c].state = CASE keyFrom = "none" -> "admitted"
                                           [] keyFrom = "setting" -> Verdict(k, SettingKey)
                                           [] keyFrom = "vault" -> "queued"]
  /\ UNCHANGED <<clock, keyFrom, vaultVars, lock, cached, badReads>>

Kept == cached.value # NoKey /\ clock - cached.at < CacheSeconds

Hit(c) ==
  /\ calls[c].state = "queued" /\ lock = NoKey /\ Kept
  /\ calls' = [calls EXCEPT ![c] = Judged(c, cached.value, clock)]
  /\ UNCHANGED <<clock, keyFrom, vaultVars, lock, cached, badReads>>

Miss(c) ==
  /\ calls[c].state = "queued" /\ lock = NoKey /\ ~Kept
  /\ lock' = c
  /\ calls' = [calls EXCEPT ![c].state = "reading", ![c].now = clock]
  /\ UNCHANGED <<clock, keyFrom, vaultVars, cached, badReads>>

\* The vault answers; the answer is still on its way.
Read(c) ==
  /\ calls[c].state = "reading"
  /\ calls' = [calls EXCEPT ![c].state = "read", ![c].expected = vaultKey]
  /\ UNCHANGED <<clock, keyFrom, vaultVars, lock, cached, badReads>>

\* The value is as old as the moment before it was asked for.
\* (defect: it is stamped when it arrives)
KeepStampedLate(c) ==
  /\ calls[c].state = "read"
  /\ cached' = [value |-> calls[c].expected, at |-> clock]
  /\ calls' = [calls EXCEPT ![c] = Judged(c, @.expected, @.now)]
  /\ lock' = NoKey
  /\ UNCHANGED <<clock, keyFrom, vaultVars, badReads>>
Keep(c) ==
  /\ calls[c].state = "read"
  /\ cached' = [value |-> calls[c].expected, at |-> calls[c].now]
  /\ calls' = [calls EXCEPT ![c] = Judged(c, @.expected, @.now)]
  /\ lock' = NoKey
  /\ UNCHANGED <<clock, keyFrom, vaultVars, badReads>>

\* The identity endpoint or the vault cannot be read, or holds nothing: 503.
\* (defect: the lock is not released)
ReadFailsLocked(c) ==
  /\ calls[c].state \in {"reading", "read"} /\ badReads < MaxBadReads
  /\ badReads' = badReads + 1
  /\ calls' = [calls EXCEPT ![c].state = "unavailable"]
  /\ UNCHANGED <<clock, keyFrom, vaultVars, lock, cached>>
ReadFails(c) ==
  /\ calls[c].state \in {"reading", "read"} /\ badReads < MaxBadReads
  /\ badReads' = badReads + 1
  /\ calls' = [calls EXCEPT ![c].state = "unavailable"]
  /\ lock' = NoKey
  /\ UNCHANGED <<clock, keyFrom, vaultVars, cached>>

(***************************************************************************)
(* The world: time, and an operator who rotates the key in the vault.      *)
(***************************************************************************)
KeyTick ==
  /\ clock < MaxClock /\ clock' = clock + 1
  /\ held' = [held EXCEPT ![clock + 1] = {vaultKey}]
  /\ UNCHANGED <<keyFrom, vaultKey, lock, cached, calls, badReads>>

Rotate(k) ==
  /\ keyFrom = "vault" /\ vaultKey # k
  /\ vaultKey' = k
  /\ held' = [held EXCEPT ![clock] = @ \union {k}]
  /\ UNCHANGED <<clock, keyFrom, lock, cached, calls, badReads>>

KeyInit ==
  /\ clock = 0
  /\ keyFrom \in {"setting", "vault", "none"}
  /\ vaultKey = SettingKey
  /\ held = [t \in 0..MaxClock |-> IF t = 0 THEN {SettingKey} ELSE {}]
  /\ lock = NoKey
  /\ cached = [value |-> NoKey, at |-> 0]
  /\ calls = [c \in Calls |-> [state |-> "new", presents |-> NoKey, now |-> 0, expected |-> NoKey]]
  /\ badReads = 0

Enters(c) == Hit(c) \/ Miss(c)
Leaves(c) == Read(c) \/ Keep(c) \/ ReadFails(c)
KeyNext ==
  \/ KeyTick \/ \E k \in SharedKeys : Rotate(k)
  \/ \E c \in Calls : Enters(c) \/ Leaves(c) \/ \E k \in SharedKeys : Present(c, k)

KeySpec == KeyInit /\ [][KeyNext]_keyVars

(***************************************************************************)
(* Properties.                                                             *)
(***************************************************************************)
\* The lock is held by the one call that reads, and by no call that has ended.
KeyTypeOK ==
  /\ clock \in 0..MaxClock /\ badReads \in 0..MaxBadReads
  /\ cached \in [value : SharedKeys \union {NoKey}, at : 0..clock]
  /\ \A c \in Calls : (lock = c) = (calls[c].state \in {"reading", "read"})
  /\ \A c \in Calls : calls[c].state \in {"queued", "reading", "read", "unavailable"} => keyFrom = "vault"

\* Keys the vault held less than CacheSeconds before the time, or since.
Current(time) == UNION {held[t] : t \in {u \in 0..clock : time - u < CacheSeconds}}

\* A request that has to wait for the vault is judged by a key the vault held
\* less than CacheSeconds before its turn, however long the reading of it took
\* (secrets.py: rotating the secret takes effect without a redeploy).
JudgedByCurrent ==
  \A c \in Calls : keyFrom = "vault" /\ calls[c].state \in {"admitted", "refused"}
                      => calls[c].expected \in Current(calls[c].now)

\* With the vault configured no request is let through but with a key the
\* vault held (main.py require_api_key: failing open would silently remove
\* the protection).
FailsClosed ==
  \A c \in Calls : keyFrom = "vault" /\ calls[c].state = "admitted"
                      => calls[c].presents \in Current(calls[c].now)

\* Every request is answered, whatever happens to those before it at the lock.
CallsAreAnswered == \A c \in Calls : (calls[c].state = "queued") ~> (calls[c].state \in {"admitted", "refused", "unavailable"})

\* What the vault decides, it decides by a key it held, and against a doubt.
KeysAreCurrent == JudgedByCurrent /\ FailsClosed
=============================================================================
