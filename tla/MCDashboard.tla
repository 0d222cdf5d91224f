---------------------------- MODULE MCDashboard ----------------------------
(***************************************************************************)
(* A small instance of Dashboard: one row of each kind, one of the three   *)
(* still to be added, the deadline due on the second day, so that it is    *)
(* upcoming, due soon and then overdue.                                    *)
(***************************************************************************)
EXTENDS Dashboard

Due(d) == 1

OneNewInit == Init /\ Cardinality({i \in Items : db[i] = "none"}) = 1
OneNewSpec == OneNewInit /\ [][Next]_vars /\ WF_vars(Queries) /\ WF_vars(Arrivals)
=============================================================================
