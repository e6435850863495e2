----------------------------- MODULE MCMutex -----------------------------
(* Small instances of Mutex for TLC: three threads of distinct priority.   *)
EXTENDS Mutex, TLC

CONSTANTS lo, mid, hi

MCBasePrio == [t \in Threads |-> CASE t = lo -> 4 [] t = mid -> 3 [] t = hi -> 2]

MutexSymmetry == Permutations(Mutexes)

=============================================================================
