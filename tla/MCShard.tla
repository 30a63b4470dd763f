------------------------------- MODULE MCShard -------------------------------
(* Instances of Shard for TLC: the .cfg files give the constants. *)
EXTENDS Shard

\* The threads share nothing that a step of Shard changes, so they may as well
\* run one after the other.
Before(s, t) == s[1] < t[1] \/ (s[1] = t[1] /\ s[2] < t[2])
InOrder == \A s, t \in Subshard :
             Before(s, t) /\ ~Over(s) => pc'[t] = pc[t] /\ current'[t] = current[t]
=============================================================================
