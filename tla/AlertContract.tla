--------------------------- MODULE AlertContract ---------------------------
(***************************************************************************)
(* What a student is promised about an FX alert, with no rows, no cache    *)
(* and no concurrent calls: an alert waits until its target was reached,   *)
(* is then spent, once and for good, and its owner is told at most once.   *)
(* An alert deleted while it waits is never spent.  FxService implements   *)
(* this specification.                                                     *)
(***************************************************************************)
EXTENDS Naturals

CONSTANT Alerts

VARIABLES
  known,    \* alerts that were ever created
  waiting,  \* alerts that may still fire
  reached,  \* alerts whose target some recorded rate has reached
  due,      \* spent alerts whose owner has still to be told
  told      \* told[a]: how many times the owner of a was told

contractVars == <<known, waiting, reached, due, told>>

ContractInit ==
  /\ known = {} /\ waiting = {} /\ reached = {} /\ due = {}
  /\ told = [a \in Alerts |-> 0]

Create(a) ==
  /\ a \in Alerts \ known
  /\ known' = known \union {a}
  /\ waiting' = waiting \union {a}
  /\ UNCHANGED <<reached, due, told>>

Remove(a) ==
  /\ a \in waiting
  /\ waiting' = waiting \ {a}
  /\ UNCHANGED <<known, reached, due, told>>

Record ==
  /\ reached' \in SUBSET Alerts /\ reached \subseteq reached'
  /\ UNCHANGED <<known, waiting, due, told>>

Spend(a) ==
  /\ a \in waiting \intersect reached
  /\ waiting' = waiting \ {a}
  /\ due' = due \union {a}
  /\ UNCHANGED <<known, reached, told>>

Tell(a) ==
  /\ a \in due /\ told[a] = 0
  /\ due' = due \ {a}
  /\ told' = [told EXCEPT ![a] = 1]
  /\ UNCHANGED <<known, waiting, reached>>

ContractNext ==
  \/ \E a \in Alerts : Create(a) \/ Remove(a) \/ Spend(a) \/ Tell(a)
  \/ Record

ContractSpec == ContractInit /\ [][ContractNext]_contractVars
=============================================================================
