---------------------------- MODULE MCCondvar ----------------------------
(* Small instances of Condvar for TLC: three threads of distinct priority. *)
EXTENDS Condvar, TLC

CONSTANTS lo, mid, top

MCBasePrio == [t \in Threads |-> CASE t = lo -> 4 [] t = mid -> 3 [] t = top -> 1]

MutexSymmetry == Permutations(Mutexes)

=============================================================================
