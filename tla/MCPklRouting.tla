---------------------------- MODULE MCPklRouting ----------------------------
(* Small instances of PklRouting.                                          *)
EXTENDS PklRouting, TLC

Ends == <<"wali_kelas", "kaprog">>

Prof(position, class, jurusan) ==
  [position |-> position, class |-> class, jurusan |-> jurusan]

EndsProfiles ==
  {Prof(None, None, None)}
    \cup {Prof("wali_kelas", class, None) : class \in Classes}
    \cup {Prof("kaprog", None, jurusan) : jurusan \in Majors}
    \cup {Prof(None, class, jurusan) : class \in Classes, jurusan \in Majors}

Symmetry == Permutations(Ids) \cup Permutations(Procs) \cup Permutations(Reqs)
=============================================================================
