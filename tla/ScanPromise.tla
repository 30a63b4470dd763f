---------------------------- MODULE ScanPromise ----------------------------
(***************************************************************************)
(* What a scan promises whoever starts it, without its threads: probes go  *)
(* out while it is sending; hosts that were probed are reported once each, *)
(* at most MaxResults of them; it listens until it has those, or for more  *)
(* than Cooldown after the last probe; and it ends.                        *)
(***************************************************************************)
EXTENDS Integers, FiniteSets

CONSTANTS Target, MaxResults, Cooldown

VARIABLES sending, listening,
          probed,  \* targets that got a probe
          hosts,   \* hosts reported
          quiet    \* time since the last probe, saturating above Cooldown

pvars == <<sending, listening, probed, hosts, quiet>>

Enough == MaxResults > 0 /\ Cardinality(hosts) >= MaxResults

Init == /\ sending = TRUE /\ listening = TRUE
        /\ probed = {} /\ hosts = {}
        /\ quiet = Cooldown + 1

\* a probe leaves, or fails to
Probe == /\ sending
         /\ \E a \in Target : probed' \in {probed, probed \cup {a}}
         /\ quiet' = 0
         /\ UNCHANGED <<sending, listening, hosts>>

Report == /\ listening /\ ~Enough
          /\ \E a \in probed \ hosts : hosts' = hosts \cup {a}
          /\ UNCHANGED <<sending, listening, probed, quiet>>

StopSending == /\ sending /\ sending' = FALSE
               /\ UNCHANGED <<listening, probed, hosts, quiet>>

StopListening == /\ listening /\ listening' = FALSE
                 /\ Enough \/ (~sending /\ quiet > Cooldown)
                 /\ UNCHANGED <<sending, probed, hosts, quiet>>

Wait == /\ quiet <= Cooldown /\ quiet' = quiet + 1
        /\ UNCHANGED <<sending, listening, probed, hosts>>

Next == Probe \/ Report \/ StopSending \/ StopListening \/ Wait

\* it ends
Ends == <>(~sending /\ ~listening)

SafeSpec == Init /\ [][Next]_pvars
Spec == SafeSpec /\ WF_pvars(StopSending) /\ WF_pvars(StopListening)
                 /\ WF_pvars(Wait)
=============================================================================
