---------------------------- MODULE MCInstances ----------------------------
(***************************************************************************)
(* Parts that do not touch each other and have to come to an end, checked  *)
(* side by side: the loop that splits a shift, the rate poller, the        *)
(* sign-in counters, the optimiser's key.  A behaviour is one of theirs;   *)
(* the others keep an initial state.                                       *)
(***************************************************************************)
EXTENDS WeekSplit, Poller, SignInLimits, KeySource

VARIABLE part

allVars == <<part, splitVars, pollVars, limitVars, keyVars>>

\* A calendar without daylight saving.
RegularMondays == {0, 4, 8, 12}

NoSplit == \A i \in Instants : i >= shift.from /\ i >= shift.to

Init ==
  /\ part \in {"split", "poller", "limits", "keys"}
  /\ SplitInit /\ (part # "split" => NoSplit)
  /\ PollInit /\ (part # "poller" => redisUp)
  /\ LimitInit
  /\ KeyInit /\ (part # "keys" => keyFrom = "none")

Next ==
  \/ part = "split" /\ Pass /\ UNCHANGED <<part, pollVars, limitVars, keyVars>>
  \/ part = "poller" /\ PollNext /\ UNCHANGED <<part, splitVars, limitVars, keyVars>>
  \/ part = "limits" /\ LimitNext /\ UNCHANGED <<part, splitVars, pollVars, keyVars>>
  \/ part = "keys" /\ KeyNext /\ UNCHANGED <<part, splitVars, pollVars, limitVars>>

\* The poller: processes are restarted, Redis comes back, a call that is sent
\* is answered or given up, the queue is worked from the front.
PollerRuns ==
  /\ WF_pollVars(part = "poller" /\ RedisBack)
  /\ \A p \in FxPairs :
       /\ WF_pollVars(part = "poller" /\ Due(p))
       /\ SF_pollVars(part = "poller" /\ Takes(p))
  /\ \A i \in Instances :
       /\ WF_pollVars(part = "poller" /\ Starts(i))
       /\ WF_pollVars(part = "poller" /\ Exit(i))
       /\ \A s \in Slots : WF_pollVars(part = "poller" /\ Works(i, s))

\* The key source: a call at the lock gets it in the end, a read of the vault
\* ends (urlopen's timeout).
KeysRun ==
  \A c \in Calls : SF_keyVars(part = "keys" /\ Enters(c)) /\ WF_keyVars(part = "keys" /\ Leaves(c))

Spec == Init /\ [][Next]_allVars /\ PollerRuns /\ KeysRun

\* The type invariant of the parts, with what a lock and a shutdown leave behind.
TypeOK == PollTypeOK /\ LeftByCrash /\ LimitTypeOK /\ KeyTypeOK
=============================================================================
