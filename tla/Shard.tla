-------------------------------- MODULE Shard --------------------------------
(***************************************************************************)
(* Which addresses each send thread probes: make_cycle (cyclic.c),         *)
(* iterator_init, shard_init and shard_get_next_ip (shard.c), and the      *)
(* loop of send_run that uses them.  Zmap may run as Shards instances with *)
(* the same seed, each with its own send threads: a subshard is the pair   *)
(* of an instance and one of its threads.                                  *)
(*                                                                         *)
(* An address is its index among the allowed ones; what                    *)
(* blacklist_lookup_index makes of an index is the matter of Constraint.   *)
(***************************************************************************)
EXTENDS Cyclic, Sequences, Functions, FiniteSetsExt

CONSTANTS
  Shards,         (* zconf.total_shards                                      *)
  SenderThreads,  (* zconf.senders as given                                  *)
  AllowedCounts,  (* bound: the numbers of allowed addresses considered      *)
  Limits          (* bound: the values of zconf.max_targets considered       *)

ASSUME ShardAssumption ==
  /\ Limits \subseteq Nat
  /\ Shards \in Nat \ {0} /\ SenderThreads \in Nat \ {0}
  \* 0.0.0.0 is always blacklisted, and get_group takes a larger prime
  /\ AllowedCounts \subseteq 1 .. Word - 1
  /\ \A n \in AllowedCounts : n < Prime

VARIABLES
  allowed,        \* blacklist_count_allowed()
  limit,          \* zconf.max_targets
  generator,      \* cycle.generator, or -1 when find_primroot cannot
  offset,         \* cycle.offset; all instances have the same cycle
  params,         \* shard->params: [first, last, factor]
  pc, current, sent, blacklisted,
  probes,         \* history: the indices each thread probed, in order
  walked          \* history: the elements it went through before the last

vars == <<allowed, limit, generator, offset, params, pc, current, sent, blacklisted,
          probes, walked>>
cycle == <<allowed, limit, generator, offset>>

Lesser(a, b) == IF a < b THEN a ELSE b

-----------------------------------------------------------------------------
(* The parameters that zmap.c, iterator_init and shard_init compute *)

max_index == allowed
targets   == Lesser(allowed, limit)
senders   == IF SenderThreads > targets
             THEN IF targets > 1 THEN targets ELSE 1
             ELSE SenderThreads

Subshard   == (0 .. Shards - 1) \X (0 .. senders - 1)
tot_shards == Shards * senders

Mul64(a, b) == (a * b) % (Word * Word)

begin_idx(s) == s[1] + s[2] * Shards

\* Mutants: the end is not moved on past the last index, or is off by one.
EndShort(e, tot, b) == (e - (e % tot) + b) % e
EndOff(e, tot, b) == (e - (e % tot) + b + 1) % e

end_idx(e, tot, b) ==
  LET end == (e - (e % tot) + b) % e
  IN IF end >= tot THEN (end + tot) % e ELSE end

Params(s) ==
  [factor |-> Power(generator, tot_shards),
   first  |-> Mul64(Power(generator, begin_idx(s) + 1), offset) % Prime,
   last   |-> Mul64(Power(generator, end_idx(Order, tot_shards, begin_idx(s))
                                       + 1), offset) % Prime]

\* Mutant: every thread gets all the targets.
AllTargets(s) == targets

max_targets(s) == targets \div senders
                  + (IF targets % senders > s[1] THEN 1 ELSE 0)

-----------------------------------------------------------------------------
(* Every thread is of its own: an instance that has failed an assertion    *)
(* stays at "badroot" or "badindex".                                       *)

Init ==
  /\ allowed \in AllowedCounts /\ limit \in Limits
  \* make_cycle: two words of the generator, modulo Prime
  /\ \E word \in 0 .. Lesser(Prime, Word) - 1 :
       generator = IF Drawable(word) THEN Generator(word) ELSE -1
  /\ offset \in 0 .. Lesser(Prime, Word) - 1
  /\ params = [s \in Subshard |-> [first |-> 0, last |-> 0, factor |-> 0]]
  /\ pc = [s \in Subshard |-> "new"]
  /\ current = [s \in Subshard |-> 0]
  /\ sent = [s \in Subshard |-> 0]
  /\ blacklisted = [s \in Subshard |-> 0]
  /\ probes = [s \in Subshard |-> <<>>]
  /\ walked = [s \in Subshard |-> {}]

\* find_primroot divided by 0, or called isomorphism with Prime or more
MakeCycleFail(s) ==
  /\ pc[s] = "new" /\ generator = -1
  /\ pc' = [pc EXCEPT ![s] = "badroot"]
  /\ UNCHANGED <<cycle, params, current, sent, blacklisted, probes, walked>>

\* Mutant: the first element is never skipped.
InitNoSkip(s) ==
  /\ pc[s] = "new" /\ generator # -1
  /\ params' = [params EXCEPT ![s] = Params(s)]
  /\ current' = [current EXCEPT ![s] = params'[s].first]
  /\ walked' = [walked EXCEPT ![s] = {params'[s].first}]
  /\ pc' = [pc EXCEPT ![s] = "cur"]
  /\ UNCHANGED <<cycle, sent, blacklisted, probes>>

shard_init(s) ==
  /\ pc[s] = "new" /\ generator # -1
  /\ params' = [params EXCEPT ![s] = Params(s)]
  /\ current' = [current EXCEPT ![s] = params'[s].first]
  /\ walked' = [walked EXCEPT ![s] = {params'[s].first}]
  /\ pc' = [pc EXCEPT ![s] = IF params'[s].first > targets THEN "skip" ELSE "cur"]
  /\ UNCHANGED <<cycle, sent, blacklisted, probes>>

\* assert(index < con->root->count); an index of 0 - 1 is 2^64 - 1
InRange(elem) == elem - 1 \in 0 .. max_index - 1

\* shard_get_cur_ip
CurIp(s) ==
  /\ pc[s] = "cur"
  /\ pc' = [pc EXCEPT ![s] = IF InRange(current[s]) THEN "send"
                             ELSE "badindex"]
  /\ UNCHANGED <<cycle, params, current, sent, blacklisted, probes, walked>>

\* one round of send_run's loop
Probe(s) ==
  /\ pc[s] = "send" /\ sent[s] < max_targets(s)
  /\ sent' = [sent EXCEPT ![s] = @ + 1]
  /\ probes' = [probes EXCEPT ![s] = Append(@, current[s] - 1)]
  /\ pc' = [pc EXCEPT ![s] = "next"]
  /\ UNCHANGED <<cycle, params, current, blacklisted, walked>>

Capped(s) ==
  /\ pc[s] = "send" /\ sent[s] >= max_targets(s)
  /\ pc' = [pc EXCEPT ![s] = "capped"]
  /\ UNCHANGED <<cycle, params, current, sent, blacklisted, probes, walked>>

Seeking(s) == pc[s] \in {"skip", "next"}
NextElem(s) == Mul64(current[s], params[s].factor) % Prime

\* shard_get_next_elem goes on while the element is not a uint32_t
TooLarge(s) ==
  /\ Seeking(s) /\ NextElem(s) >= Word
  /\ walked' = [walked EXCEPT ![s] = @ \cup {NextElem(s)}]
  /\ current' = [current EXCEPT ![s] = NextElem(s)]
  /\ UNCHANGED <<cycle, params, pc, sent, blacklisted, probes>>

\* Mutant: the element before the last is taken for the last.
ReachedSoon(s) ==
  /\ Seeking(s) /\ NextElem(s) < Word
  /\ Mul64(NextElem(s), params[s].factor) % Prime = params[s].last
  /\ current' = [current EXCEPT ![s] = NextElem(s)]
  /\ pc' = [pc EXCEPT ![s] = IF @ = "skip" THEN "cur" ELSE "done"]
  /\ UNCHANGED <<cycle, params, sent, blacklisted, probes, walked>>

\* shard_get_next_ip returns 0: send_run stops, shard_init does not look
ReachedLast(s) ==
  /\ Seeking(s) /\ NextElem(s) < Word /\ NextElem(s) = params[s].last
  /\ current' = [current EXCEPT ![s] = NextElem(s)]
  /\ pc' = [pc EXCEPT ![s] = IF @ = "skip" THEN "cur" ELSE "done"]
  /\ UNCHANGED <<cycle, params, sent, blacklisted, probes, walked>>

Found(s) ==
  /\ Seeking(s) /\ NextElem(s) < Word /\ NextElem(s) # params[s].last
  /\ InRange(NextElem(s))
  /\ walked' = [walked EXCEPT ![s] = @ \cup {NextElem(s)}]
  /\ current' = [current EXCEPT ![s] = NextElem(s)]
  /\ pc' = [pc EXCEPT ![s] = IF @ = "skip" THEN "cur" ELSE "send"]
  /\ UNCHANGED <<cycle, params, sent, blacklisted, probes>>

\* Mutant: the element passed over is not counted.
PassOverSilent(s) ==
  /\ Seeking(s) /\ NextElem(s) < Word /\ NextElem(s) # params[s].last
  /\ ~InRange(NextElem(s))
  /\ walked' = [walked EXCEPT ![s] = @ \cup {NextElem(s)}]
  /\ current' = [current EXCEPT ![s] = NextElem(s)]
  /\ UNCHANGED <<cycle, params, pc, sent, blacklisted, probes>>

PassOver(s) ==
  /\ Seeking(s) /\ NextElem(s) < Word /\ NextElem(s) # params[s].last
  /\ ~InRange(NextElem(s))
  /\ walked' = [walked EXCEPT ![s] = @ \cup {NextElem(s)}]
  /\ current' = [current EXCEPT ![s] = NextElem(s)]
  /\ blacklisted' = [blacklisted EXCEPT ![s] = @ + 1]
  /\ UNCHANGED <<cycle, params, pc, sent, probes>>

Step(s) == \/ MakeCycleFail(s) \/ shard_init(s) \/ CurIp(s)
           \/ Probe(s) \/ Capped(s)
           \/ TooLarge(s) \/ ReachedLast(s) \/ Found(s) \/ PassOver(s)

Over(s) == pc[s] \in {"done", "capped", "badroot", "badindex"}
AllOver == (\A s \in Subshard : Over(s)) /\ UNCHANGED vars

Next == (\E s \in Subshard : Step(s)) \/ AllOver

Spec == Init /\ [][Next]_vars

-----------------------------------------------------------------------------
(* What the group promises, computed without the walk *)

TypeOK ==
  /\ allowed \in AllowedCounts /\ limit \in Limits
  /\ generator \in -1 .. Prime - 1 /\ offset \in 0 .. Prime - 1
  /\ params \in [Subshard -> [first : 0 .. Prime - 1, last : 0 .. Prime - 1,
                              factor : 0 .. Prime - 1]]
  /\ pc \in [Subshard -> {"new", "skip", "cur", "send", "next", "done",
                          "capped", "badroot", "badindex"}]
  /\ current \in [Subshard -> 0 .. Prime - 1]
  /\ sent \in [Subshard -> 0 .. targets]
  /\ blacklisted \in [Subshard -> Nat]
  /\ probes \in [Subshard -> Seq(0 .. allowed - 1)]
  /\ walked \in [Subshard -> SUBSET (0 .. Prime - 1)]

Element(k) == (Power(generator, k + 1) * offset) % Prime
Own(s)     == LET tot == tot_shards
              IN {Element(k) : k \in {j \in 0 .. Order - 1 :
                                        j % tot = begin_idx(s)}}

First(s)   == Element(begin_idx(s) % Order)

\* the indices a thread should probe: shard_init drops a first element above
\* the number of targets
Eligible(s) == {e - 1 : e \in {f \in Own(s) :
                               InRange(f) /\ ~(f > targets /\ f = First(s))}}
\* the elements that are neither probed nor counted
Unseen(s)  == {e \in Own(s) : e >= Word \/ (e = First(s) /\ e > targets)}

\* The subshards that walk as they should: not when the primitive root did not
\* fit its uint32_t and what is left of it generates less than the group, the
\* group has fewer elements than there are subshards, the subshard has no
\* address, its end is not a uint32_t, or a product passes 2^64.
Able(s) == /\ generator \in Generators /\ tot_shards <= Order
           /\ Params(s).last < Word
           /\ Order * Params(s).factor < Word * Word
           /\ Order * offset < Word * Word
           /\ Eligible(s) # {}
Regular(s) == pc[s] # "new" /\ Able(s)

-----------------------------------------------------------------------------
(* Safety *)

\* The threads of all instances probe only addresses of their own subshards,
\* each once, so that no address is probed twice; except for the threads that
\* are not Regular: one without an address begins at an element of another.
OwnOnce ==
  \A s \in Subshard : Over(s) /\ Regular(s)
                     => /\ Range(probes[s]) \subseteq Eligible(s)
                        /\ IsInjective(probes[s])

\* A thread that stops before its max_targets has probed every address of its
\* subshard, and what it sent and passed over are all its elements.
WalkComplete ==
  \A s \in Subshard :
    pc[s] = "done" /\ Regular(s)
      => /\ Range(probes[s]) = Eligible(s)
         /\ sent[s] + blacklisted[s] = Cardinality(Own(s) \ Unseen(s))

\* No thread goes round the group again: it is at its end after one pass over
\* its elements at the latest.
OnePass ==
  \A s \in Subshard :
    Regular(s) => sent[s] + blacklisted[s] <= Cardinality(Own(s))

\* An instance exceeds its targets by less than one address per thread.
CapNearlyKept ==
  \A i \in 0 .. Shards - 1 :
    SumFunctionOnSet(sent, {i} \X (0 .. senders - 1)) < targets + senders

\* A thread with an address in its subshard looks up no index that is out of
\* range, and none sends an address that it did not look up.
LookupSound ==
  /\ TypeOK
  /\ \A s \in Subshard : /\ pc[s] = "badindex" => ~Regular(s)
                         /\ pc[s] = "send" => InRange(current[s])

-----------------------------------------------------------------------------
(* The walk by indices that this one implements *)

Log(e)   == CHOOSE k \in 0 .. Order - 1 : Element(k) = e
SubOf(b) == <<b % Shards, b \div Shards>>

\* A thread that is not Regular is mapped to a walk that has not moved: of what
\* it goes through, WalkKept says nothing.
walk_at      == [b \in 0 .. tot_shards - 1 |->
                   IF Regular(SubOf(b)) THEN Log(current[SubOf(b)]) ELSE b]
walk_visited == [b \in 0 .. tot_shards - 1 |->
                   IF Regular(SubOf(b)) THEN {Log(e) : e \in walked[SubOf(b)]} ELSE {b}]
walk_stopped == [b \in 0 .. tot_shards - 1 |->
                   Regular(SubOf(b)) /\ pc[SubOf(b)] = "done"]

Walk == INSTANCE IndexWalk
  WITH Elements <- Order, tot <- tot_shards, at <- walk_at,
       visited <- walk_visited, stopped <- walk_stopped

\* The walk of every thread with an address in its subshard is a walk by
\* indices: its first, factor and last are right, and so is each step from one
\* element to the next, whichever of the four ways it goes.
WalkKept == Walk!Spec

-----------------------------------------------------------------------------
(* What the source says and a run refutes *)
\* cyclic.c: "we connect to every host once in a scan execution"
EveryHostProbed ==
  (\A s \in Subshard : pc[s] \in {"done", "capped"}) /\ limit >= allowed
    => \A a \in 0 .. allowed - 1 : \E s \in Subshard : a \in Range(probes[s])
=============================================================================
