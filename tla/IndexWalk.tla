------------------------------ MODULE IndexWalk ------------------------------
(***************************************************************************)
(* The walk of the subshards of shard.c with the elements of the group     *)
(* replaced by their indices: a multiplication by g^tot is an addition of  *)
(* tot modulo the order of the group.  A walk begins at its own number and *)
(* stops when it would step on the end index that shard_init computes.     *)
(***************************************************************************)
EXTENDS Integers

CONSTANT Elements     \* num_elts, the order of the group

VARIABLES tot,      \* tot_shards, the number of walks
          at,       \* the index each walk is at
          visited,  \* the indices it has been at, the end excluded
          stopped

wvars == <<tot, at, visited, stopped>>
Walks == 0 .. tot - 1
Index == 0 .. Elements - 1

EndIdx(b) ==
  LET end == (Elements - (Elements % tot) + b) % Elements
  IN IF end >= tot THEN (end + tot) % Elements ELSE end

Init == /\ tot \in 1 .. Elements
        /\ at = [b \in Walks |-> b]
        /\ visited = [b \in Walks |-> {b}]
        /\ stopped = [b \in Walks |-> FALSE]

After(b) == (at[b] + tot) % Elements

Advance(b) == /\ ~stopped[b] /\ After(b) # EndIdx(b)
              /\ at' = [at EXCEPT ![b] = After(b)]
              /\ visited' = [visited EXCEPT ![b] = @ \cup {After(b)}]
              /\ UNCHANGED <<tot, stopped>>

Stop(b) == /\ ~stopped[b] /\ After(b) = EndIdx(b)
           /\ at' = [at EXCEPT ![b] = After(b)]
           /\ stopped' = [stopped EXCEPT ![b] = TRUE]
           /\ UNCHANGED <<tot, visited>>

\* One walk moves, and either goes on or ends there.
Next == \E b \in Walks : at'[b] = After(b) /\ (Advance(b) \/ Stop(b))

Spec == Init /\ [][Next]_wvars
=============================================================================
