------------------------------ MODULE MCPaidCalls ------------------------------
(* TLC instance of PaidCalls: every request has a lock and a table of its own. *)
EXTENDS PaidCalls, TLC

Own == [r \in Request |-> r]
Names == Permutations(Thread) \cup Permutations(Request)
=============================================================================
