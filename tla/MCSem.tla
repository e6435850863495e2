------------------------------- MODULE MCSem -------------------------------
(* Small instances of Sem for TLC: threads and CPUs are interchangeable.   *)
EXTENDS Sem, TLC

SemSymmetry == Permutations(Threads) \cup Permutations(Cpus)

=============================================================================
