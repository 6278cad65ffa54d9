---------------------------- MODULE MCChatMemory ----------------------------
(* Small instances of ChatMemory.                                          *)
EXTENDS ChatMemory, TLC

Symmetry == Permutations(Sessions) \cup Permutations(Turns)
=============================================================================
