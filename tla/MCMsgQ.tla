------------------------------ MODULE MCMsgQ ------------------------------
(* Small instances of MsgQ for TLC.                                        *)
EXTENDS MsgQ, TLC

MsgQSymmetry == Permutations(Threads) \cup Permutations(Cpus) \cup Permutations(Messages)

\* What the history variables of Sched remember decides no step and no property here.
MsgQView == <<dispatchVars, threadVars, ringVars, swap_data>>

=============================================================================
