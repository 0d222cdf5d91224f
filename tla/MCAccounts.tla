----------------------------- MODULE MCAccounts -----------------------------
(***************************************************************************)
(* Interchangeable requests and passwords.                                 *)
(***************************************************************************)
EXTENDS Accounts, TLC

Interchangeable == Permutations(Requests) \union Permutations(Passwords)
=============================================================================
