------------------------------- MODULE MCAccounts -------------------------------
(* Accounts on two worker threads, with two names, and a content of which a day's *)
(* budget takes one copy and not two.                                             *)
EXTENDS Accounts, TLC

Swaps == Permutations(Thread) \cup Permutations(Display)

MCSize == [s \in Sha |-> 2]

=============================================================================
