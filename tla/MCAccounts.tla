----------------------------- MODULE MCAccounts -----------------------------
(* Small instances of Accounts.                                            *)
EXTENDS Accounts, TLC

Symmetry == Permutations(Requests) \cup Permutations(Addresses)
=============================================================================
