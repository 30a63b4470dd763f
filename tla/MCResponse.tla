----------------------------- MODULE MCResponse -----------------------------
(* Instances of Response for TLC. *)
EXTENDS Response, TLC

\* validation[1] of the addresses: neighbours have neighbouring words, from
\* two places of the range, so that some window wraps round.
MCWords == {[a \in Host |-> (a + d) % Width] : d \in {0, 2}}

\* The send threads are alike.
Threads == Permutations(Sender)
=============================================================================
