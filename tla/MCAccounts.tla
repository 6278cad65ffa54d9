----------------------------- MODULE MCAccounts -----------------------------
(* Small instances of Accounts.                                            *)
EXTENDS Accounts, TLC

Seats == {NoProfile, [NoProfile EXCEPT !.position = "bk"]}

Symmetry == Permutations(Procs) \cup Permutations(Tokens) \cup Permutations(Ids \ {Admin})
=============================================================================
