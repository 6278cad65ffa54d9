------------------------------ MODULE MCBerita ------------------------------
(* Small instances of Berita.                                              *)
EXTENDS Berita, TLC

Symmetry == Permutations(Procs) \cup Permutations(Authors)
=============================================================================
