---------------------------- MODULE MCWarehouse ----------------------------
(***************************************************************************)
(* A small instance of Warehouse: the users and one collection owned by    *)
(* them; at first one student at most has signed up.                       *)
(***************************************************************************)
EXTENDS Warehouse

CONSTANT First

OneStudentInit == Init /\ \A s \in Students \ {First} : app["users"][s] = 0
OneStudentSpec == OneStudentInit /\ [][Next]_vars
=============================================================================
