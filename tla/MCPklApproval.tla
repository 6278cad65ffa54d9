---------------------------- MODULE MCPklApproval ----------------------------
(* Small instances of PklApproval.                                         *)
EXTENDS PklApproval, TLC

CONSTANTS g1, g2, g3, s1, s2

\* One guru per position, as the unique positions of the users table make it.
OneChain == {<<g1, g2, g3>>}

\* The profile of a guru was edited between two reads of Create: one guru
\* holds two steps of the request.
ShortChains == {<<g1, g2>>, <<g1, g1>>}

Symmetry == Permutations(Procs)
=============================================================================
