-------------------------------- MODULE Scan --------------------------------
(***************************************************************************)
(* The threads of one scan and the state they share: the main thread       *)
(* (start_zmap of zmap.c, or libzmap::Threads of async.cc, which is the    *)
(* same without a monitor), one thread per sender (send_run), the receiver *)
(* (recv_run with packet_cb) and the monitor (monitor_run).                *)
(*                                                                         *)
(* A step is what a thread does between two accesses to shared state that  *)
(* another thread can tell apart.  A critical section is one step when all *)
(* it touches is protected by its mutex, and several when it is not.       *)
(* Shared words that are read and written without a mutex (zsend.complete, *)
(* zsend.finish, zrecv.complete) are read and written in program order.    *)
(***************************************************************************)
EXTENDS Integers, FiniteSets, Functions

CONSTANTS
  N,                 (* zconf.senders, the number of send threads            *)
  MaxShare,          (* bound: the most addresses one thread's subshard has  *)
  MaxTargets,        (* shard->state.max_targets, the same for every thread  *)
  Streams,           (* zconf.packet_streams, probes per address             *)
  MaxResults,        (* zconf.max_results as given, 0 for no limit           *)
  MaxRuntime,        (* zconf.max_runtime, 0 for no limit                    *)
  Cooldown,          (* zconf.cooldown_secs                                  *)
  MaxPackets,        (* bound: packets captured in the whole scan            *)
  DryRuns,           (* bound: the values of zconf.dryrun considered         *)
  Monitor,           (* is the monitor started: start_zmap without --quiet   *)
  FilterDuplicates,  (* zconf.filter_duplicates                              *)
  FilterUnsuccessful,(* zconf.filter_unsuccessful                            *)
  InitMayFail        (* can send_run_init fail (an ioctl on the interface)   *)

ASSUME ScanAssumption ==
  /\ N \in Nat /\ MaxShare \in Nat /\ MaxTargets \in Nat
  /\ Streams \in Nat \ {0}
  /\ MaxResults \in Nat /\ MaxRuntime \in Nat /\ Cooldown \in Nat
  /\ MaxPackets \in Nat
  /\ DryRuns \subseteq BOOLEAN /\ Monitor \in BOOLEAN /\ InitMayFail \in BOOLEAN
  /\ FilterDuplicates \in BOOLEAN /\ FilterUnsuccessful \in BOOLEAN

Sender  == 0 .. N - 1              \* sub_id of the thread's shard
Address == Sender \X (1 .. MaxShare)
Free    == -1                      \* no sender holds the mutex
NoPacket == [src |-> Free]

VARIABLES
  dryrun,              \* zconf.dryrun, as the scan was configured
  mpc, joined,         \* main thread, and its loop index i
  spc,                 \* sender threads
  left,                \* addresses of the subshard still ahead, curr included
  stream,              \* send_run's loop index over packet_streams
  shard,               \* [sent, failures]: shard->state of each thread
  sockaddr,            \* static of send-linux.h: destination of every sendto
  probed,              \* the network: addresses that have got a probe
  send_mutex, it_mutex, recv_ready_mutex,
  complete,            \* iterator: complete[thread_id]
  zsend,               \* [sent, failures, complete]
  since_finish,        \* now() - zsend.finish, saturating above Cooldown
  elapsed,             \* now() - zsend.start, saturating at MaxRuntime
  rpc, pcap,           \* receiver thread, and the handle `pc'
  recv_ready, seen, zrecv,
  packet, captured,    \* the packet in packet_cb, packets captured so far
  rows,                \* [all, cooldown]: records handed to process_ip
  monpc,               \* monitor thread
  silence,             \* history: time since the last probe left
  late                 \* history: probes sent after zrecv.complete was set

mainVars == <<dryrun, mpc, joined>>
sendVars == <<spc, left, stream, shard, sockaddr, probed, send_mutex, silence, late>>
iterVars == <<it_mutex, complete, zsend>>
timeVars == <<since_finish, elapsed>>
recvVars == <<rpc, pcap, recv_ready, seen, zrecv, packet, captured, rows>>
vars == <<mainVars, sendVars, iterVars, timeVars, recvVars,
          monpc, recv_ready_mutex>>

-----------------------------------------------------------------------------
(* The state after send_init: the shards are set up and zsend.start taken.  *)
(* zsend.finish is still 0.0, so its age is beyond every cooldown.          *)

Init ==
  /\ dryrun \in DryRuns
  /\ mpc = "start" /\ joined = 0
  /\ spc = [i \in Sender |-> "absent"]
  /\ left \in [Sender -> 0 .. MaxShare]
  /\ stream = [i \in Sender |-> 0]
  /\ shard = [i \in Sender |-> [sent |-> 0, failures |-> 0]]
  /\ sockaddr = "blank" /\ probed = {}
  /\ send_mutex = Free /\ it_mutex = Free /\ recv_ready_mutex = "free"
  /\ complete = [i \in Sender |-> FALSE]
  /\ zsend = [sent |-> 0, failures |-> 0, complete |-> FALSE]
  /\ since_finish = Cooldown + 1 /\ elapsed = 0
  /\ rpc = "absent" /\ pcap = "null" /\ recv_ready = FALSE
  /\ seen = {} /\ packet = NoPacket /\ captured = 0
  /\ zrecv = [success_total |-> 0, success_unique |-> 0, cooldown_total |-> 0,
              cooldown_unique |-> 0, failure_total |-> 0, complete |-> FALSE]
  /\ rows = [all |-> 0, cooldown |-> 0]
  /\ monpc = "absent"
  /\ silence = Cooldown + 1 /\ late = [i \in Sender |-> 0]

-----------------------------------------------------------------------------
(* Main thread *)

\* pthread_create(&trecv, ...)
MainStartRecv ==
  /\ mpc = "start" /\ mpc' = "poll"
  /\ rpc' = "open"
  /\ UNCHANGED <<dryrun, joined, sendVars, iterVars, timeVars, monpc,
                 recv_ready_mutex, pcap, recv_ready, seen, zrecv, packet,
                 captured, rows>>

\* for (;;) { lock; if (recv_ready) { unlock; break; } unlock; }
MainLock ==
  /\ mpc = "poll" /\ mpc' = "test"
  /\ recv_ready_mutex = "free" /\ recv_ready_mutex' = "main"
  /\ UNCHANGED <<dryrun, joined, sendVars, iterVars, timeVars, recvVars, monpc>>

MainTest ==
  /\ mpc = "test" /\ recv_ready_mutex' = "free"
  /\ mpc' = IF recv_ready THEN "spawn" ELSE "poll"
  /\ UNCHANGED <<dryrun, joined, sendVars, iterVars, timeVars, recvVars, monpc>>

MainSpawn ==
  /\ mpc = "spawn" /\ joined < N
  /\ spc' = [spc EXCEPT ![joined] = "lock"]
  /\ joined' = joined + 1
  /\ UNCHANGED <<dryrun, mpc, left, stream, shard, sockaddr, probed, send_mutex,
                 silence, late, iterVars, timeVars, recvVars, monpc,
                 recv_ready_mutex>>

\* pthread_create(&tmon, ...) unless quiet; the join loop starts at i = 0
MainSpawnMonitor ==
  /\ mpc = "spawn" /\ joined = N
  /\ mpc' = "join" /\ joined' = 0
  /\ monpc' = IF Monitor THEN "first" ELSE monpc
  /\ UNCHANGED <<dryrun, sendVars, iterVars, timeVars, recvVars, recv_ready_mutex>>

MainJoinSender ==
  /\ mpc = "join" /\ joined < N
  /\ spc[joined] = "exited"
  /\ joined' = joined + 1
  /\ UNCHANGED <<dryrun, mpc, sendVars, iterVars, timeVars, recvVars, monpc,
                 recv_ready_mutex>>

MainJoinRecv ==
  /\ mpc = "join" /\ joined = N
  /\ rpc = "exited" /\ mpc' = "joinmon"
  /\ UNCHANGED <<dryrun, joined, sendVars, iterVars, timeVars, recvVars, monpc,
                 recv_ready_mutex>>

\* Mutant: the monitor is not joined.
MainForgetMonitor ==
  /\ mpc = "joinmon" /\ mpc' = "done"
  /\ UNCHANGED <<dryrun, joined, sendVars, iterVars, timeVars, recvVars, monpc,
                 recv_ready_mutex>>

\* join the monitor if there is one, summary, close the modules
MainFinish ==
  /\ mpc = "joinmon" /\ mpc' = "done"
  /\ Monitor => monpc = "exited"
  /\ UNCHANGED <<dryrun, joined, sendVars, iterVars, timeVars, recvVars, monpc,
                 recv_ready_mutex>>

Main == \/ MainStartRecv \/ MainLock \/ MainTest \/ MainSpawn
        \/ MainSpawnMonitor \/ MainJoinSender \/ MainJoinRecv \/ MainFinish

-----------------------------------------------------------------------------
(* Send threads: send_run, and shard_complete called through s->cb *)

\* Mutant: send_run does not wait for send_mutex.
SenderBarge(i) ==
  /\ spc[i] = "lock" /\ spc' = [spc EXCEPT ![i] = "init"]
  /\ send_mutex' = i
  /\ UNCHANGED <<mainVars, left, stream, shard, sockaddr, probed, silence, late,
                 iterVars, timeVars, recvVars, monpc, recv_ready_mutex>>

SenderLock(i) ==
  /\ spc[i] = "lock" /\ spc' = [spc EXCEPT ![i] = "init"]
  /\ send_mutex = Free /\ send_mutex' = i
  /\ UNCHANGED <<mainVars, left, stream, shard, sockaddr, probed, silence, late,
                 iterVars, timeVars, recvVars, monpc, recv_ready_mutex>>

\* if (send_run_init(sock)) return -1;  the mutex stays locked
SenderInitFail(i) ==
  /\ InitMayFail
  /\ spc[i] = "init" /\ spc' = [spc EXCEPT ![i] = "exited"]
  /\ UNCHANGED <<mainVars, left, stream, shard, sockaddr, probed, send_mutex,
                 silence, late, iterVars, timeVars, recvVars, monpc,
                 recv_ready_mutex>>

\* send_run_init zeroes sockaddr ...
SenderClear(i) ==
  /\ spc[i] = "init" /\ spc' = [spc EXCEPT ![i] = "fill"]
  /\ sockaddr' = "blank"
  /\ UNCHANGED <<mainVars, left, stream, shard, probed, send_mutex, silence, late,
                 iterVars, timeVars, recvVars, monpc, recv_ready_mutex>>

\* ... and fills it in; thread_initialize; the unlock
SenderInit(i) ==
  /\ spc[i] = "fill" /\ spc' = [spc EXCEPT ![i] = "check"]
  /\ sockaddr' = "set" /\ send_mutex' = Free
  /\ UNCHANGED <<mainVars, left, stream, shard, probed, silence, late, iterVars,
                 timeVars, recvVars, monpc, recv_ready_mutex>>

\* Mutant: zrecv.complete is not tested.
SenderTestDeaf(i) ==
  /\ spc[i] = "check" /\ spc' = [spc EXCEPT ![i] = "test"]
  /\ UNCHANGED <<mainVars, left, stream, shard, sockaddr, probed, send_mutex,
                 silence, late, iterVars, timeVars, recvVars, monpc,
                 recv_ready_mutex>>

\* the first reason to leave the send loop, an unlocked read: what it has read
\* may have changed when the thread acts on it
SenderTest(i) ==
  /\ spc[i] = "check"
  /\ spc' = [spc EXCEPT ![i] = IF zrecv.complete THEN "callback" ELSE "test"]
  /\ UNCHANGED <<mainVars, left, stream, shard, sockaddr, probed, send_mutex,
                 silence, late, iterVars, timeVars, recvVars, monpc,
                 recv_ready_mutex>>

\* Mutant of MustStop: an off-by-one on max_targets.
MustStopEarly(i) == \/ shard[i].sent + 1 >= MaxTargets
                    \/ MaxRuntime > 0 /\ MaxRuntime <= elapsed
                    \/ left[i] = 0

\* the other three, about the thread's own state and the clock
MustStop(i) == \/ shard[i].sent >= MaxTargets
               \/ MaxRuntime > 0 /\ MaxRuntime <= elapsed
               \/ left[i] = 0

SenderStop(i) ==
  /\ spc[i] = "test" /\ MustStop(i)
  /\ spc' = [spc EXCEPT ![i] = "callback"]
  /\ UNCHANGED <<mainVars, left, stream, shard, sockaddr, probed, send_mutex,
                 silence, late, iterVars, timeVars, recvVars, monpc,
                 recv_ready_mutex>>

\* s->state.sent++
SenderNext(i) ==
  /\ spc[i] = "test" /\ ~MustStop(i)
  /\ spc' = [spc EXCEPT ![i] = "send"]
  /\ shard' = [shard EXCEPT ![i].sent = @ + 1]
  /\ stream' = [stream EXCEPT ![i] = 0]
  /\ UNCHANGED <<mainVars, left, sockaddr, probed, send_mutex, silence, late,
                 iterVars, timeVars, recvVars, monpc, recv_ready_mutex>>

\* shard_get_next_ip after the last stream, the next packet before it
Advance(i) ==
  IF stream[i] + 1 < Streams
  THEN /\ stream' = [stream EXCEPT ![i] = @ + 1]
       /\ UNCHANGED <<spc, left>>
  ELSE /\ spc' = [spc EXCEPT ![i] = "check"]
       /\ left' = [left EXCEPT ![i] = @ - 1]
       /\ UNCHANGED stream

\* the history of a probe that leaves
Leaves(i) ==
  /\ silence' = 0
  /\ late' = IF zrecv.complete THEN [late EXCEPT ![i] = @ + 1] ELSE late

\* sendto: to an interface index of 0 it fails, and it may fail anyway
SenderSend(i) ==
  /\ spc[i] = "send" /\ ~dryrun
  /\ \/ /\ sockaddr = "set"
        /\ probed' = probed \cup {<<i, left[i]>>} /\ UNCHANGED shard
     \/ shard' = [shard EXCEPT ![i].failures = @ + 1] /\ UNCHANGED probed
  /\ Leaves(i) /\ Advance(i)
  /\ UNCHANGED <<mainVars, sockaddr, send_mutex, iterVars, timeVars, recvVars,
                 monpc, recv_ready_mutex>>

\* Mutant: the unlock after print_packet is missing.
SenderPrintHold(i) ==
  /\ spc[i] = "send" /\ dryrun
  /\ send_mutex = Free /\ send_mutex' = i
  /\ Leaves(i) /\ Advance(i)
  /\ UNCHANGED <<mainVars, shard, sockaddr, probed, iterVars, timeVars,
                 recvVars, monpc, recv_ready_mutex>>

\* lock; print_packet; unlock
SenderPrint(i) ==
  /\ spc[i] = "send" /\ dryrun
  /\ send_mutex = Free
  /\ Leaves(i) /\ Advance(i)
  /\ UNCHANGED <<mainVars, shard, sockaddr, probed, send_mutex, iterVars,
                 timeVars, recvVars, monpc, recv_ready_mutex>>

\* Mutants: done as soon as one thread is; the loop goes on after the callback.
FirstOne(done) == \E j \in Sender : done[j]
BackToLoop == "check"

\* shard_complete: complete[thread_id] = 1, the sums, and the done loop
LastOne(done) == \A j \in Sender : done[j]

AfterCallback == IF dryrun THEN "flush" ELSE "exited"

CallbackBegin(i) ==
  /\ spc[i] = "callback" /\ it_mutex = Free
  /\ complete' = [complete EXCEPT ![i] = TRUE]
  /\ zsend' = [sent |-> zsend.sent + shard[i].sent,
               failures |-> zsend.failures + shard[i].failures,
               complete |-> zsend.complete]
  /\ IF LastOne(complete')
     THEN it_mutex' = i /\ spc' = [spc EXCEPT ![i] = "finish"]
     ELSE it_mutex' = Free /\ spc' = [spc EXCEPT ![i] = AfterCallback]
  /\ UNCHANGED <<mainVars, left, stream, shard, sockaddr, probed, send_mutex,
                 silence, late, timeVars, recvVars, monpc, recv_ready_mutex>>

\* Mutant: zsend.finish keeps its initial 0.0.
CallbackNoFinish(i) ==
  /\ spc[i] = "finish" /\ spc' = [spc EXCEPT ![i] = "publish"]
  /\ UNCHANGED <<mainVars, left, stream, shard, sockaddr, probed, send_mutex,
                 silence, late, iterVars, timeVars, recvVars, monpc,
                 recv_ready_mutex>>

\* zsend.finish = now()
CallbackFinish(i) ==
  /\ spc[i] = "finish" /\ spc' = [spc EXCEPT ![i] = "publish"]
  /\ since_finish' = 0
  /\ UNCHANGED <<mainVars, left, stream, shard, sockaddr, probed, send_mutex,
                 silence, late, iterVars, elapsed, recvVars, monpc,
                 recv_ready_mutex>>

\* zsend.complete = 1, then the unlock
CallbackPublish(i) ==
  /\ spc[i] = "publish" /\ spc' = [spc EXCEPT ![i] = AfterCallback]
  /\ zsend' = [zsend EXCEPT !.complete = TRUE]
  /\ it_mutex' = Free
  /\ UNCHANGED <<mainVars, left, stream, shard, sockaddr, probed, send_mutex,
                 silence, late, complete, timeVars, recvVars, monpc,
                 recv_ready_mutex>>

\* dry run: lock; fflush(stdout); unlock
SenderFlush(i) ==
  /\ spc[i] = "flush" /\ send_mutex = Free
  /\ spc' = [spc EXCEPT ![i] = "exited"]
  /\ UNCHANGED <<mainVars, left, stream, shard, sockaddr, probed, send_mutex,
                 silence, late, iterVars, timeVars, recvVars, monpc,
                 recv_ready_mutex>>

SenderStep(i) == \/ SenderLock(i) \/ SenderInitFail(i) \/ SenderClear(i)
                 \/ SenderInit(i) \/ SenderTest(i)
                 \/ SenderStop(i) \/ SenderNext(i)
                 \/ SenderSend(i) \/ SenderPrint(i)
                 \/ CallbackBegin(i) \/ CallbackFinish(i) \/ CallbackPublish(i)
                 \/ SenderFlush(i)

-----------------------------------------------------------------------------
(* Receiver: recv_run, and packet_cb called from pcap_dispatch *)

\* pcap_open_live, unless this is a dry run
RecvOpen ==
  /\ rpc = "open" /\ rpc' = "ready"
  /\ pcap' = IF dryrun THEN "null" ELSE "open"
  /\ UNCHANGED <<mainVars, sendVars, iterVars, timeVars, monpc,
                 recv_ready_mutex, recv_ready, seen, zrecv, packet, captured,
                 rows>>

RecvReady ==
  /\ rpc = "ready" /\ recv_ready_mutex = "free"
  /\ recv_ready' = TRUE /\ rpc' = "dispatch"
  /\ UNCHANGED <<mainVars, sendVars, iterVars, timeVars, monpc,
                 recv_ready_mutex, pcap, seen, zrecv, packet, captured, rows>>

\* Mutant: an off-by-one on max_results.
ResultsOver == MaxResults > 0 /\ zrecv.success_unique > MaxResults

ResultsFull == MaxResults > 0 /\ zrecv.success_unique >= MaxResults

\* packet_cb up to fs_add_system_fields: a valid response of a probed address
\* is matched against `seen' and stamped with zsend.complete
RecvPacket(a, success) ==
  /\ rpc = "dispatch" /\ ~dryrun /\ captured < MaxPackets
  /\ captured' = captured + 1
  /\ IF ResultsFull
     THEN UNCHANGED <<rpc, packet>>
     ELSE /\ rpc' = "packet"
          /\ packet' = [src |-> a, success |-> success, repeat |-> a \in seen,
                        cooldown |-> zsend.complete]
  /\ UNCHANGED <<mainVars, sendVars, iterVars, timeVars, monpc,
                 recv_ready_mutex, pcap, recv_ready, seen, zrecv, rows>>

One(b) == IF b THEN 1 ELSE 0

Counted(p, cool) ==
  [success_total   |-> zrecv.success_total + One(p.success),
   success_unique  |-> zrecv.success_unique + One(p.success /\ ~p.repeat),
   cooldown_total  |-> zrecv.cooldown_total + One(p.success /\ cool),
   cooldown_unique |-> zrecv.cooldown_unique
                         + One(p.success /\ cool /\ ~p.repeat),
   failure_total   |-> zrecv.failure_total + One(~p.success),
   complete        |-> zrecv.complete]

Emitted(p) == /\ p.success \/ ~FilterUnsuccessful
              /\ ~p.repeat \/ ~FilterDuplicates

\* the rest of packet_cb: the counters, with a second read of zsend.complete,
\* pbm_set, the filters and process_ip
RecvCount ==
  /\ rpc = "packet" /\ rpc' = "dispatch"
  /\ zrecv' = Counted(packet, zsend.complete)
  /\ seen' = IF packet.success THEN seen \cup {packet.src} ELSE seen
  /\ rows' = [all |-> rows.all + One(Emitted(packet)),
              cooldown |-> rows.cooldown
                             + One(Emitted(packet) /\ packet.cooldown)]
  /\ packet' = NoPacket
  /\ UNCHANGED <<mainVars, sendVars, iterVars, timeVars, monpc,
                 recv_ready_mutex, pcap, recv_ready, captured>>

\* Mutant: no cooldown.
CooldownSkipped == zsend.complete

CooldownOver == zsend.complete /\ since_finish > Cooldown

\* the two ways out of the dispatch loop, tested between two dispatches
RecvLeave ==
  /\ rpc = "dispatch"
  /\ (~dryrun /\ ResultsFull) \/ CooldownOver
  /\ rpc' = IF dryrun THEN "final" ELSE "close"
  /\ UNCHANGED <<mainVars, sendVars, iterVars, timeVars, monpc,
                 recv_ready_mutex, pcap, recv_ready, seen, zrecv, packet,
                 captured, rows>>

\* Mutant: pcap_close outside the mutex.
RecvCloseUnlocked ==
  /\ rpc = "close" /\ rpc' = "closing"
  /\ pcap' = "closed"
  /\ UNCHANGED <<mainVars, sendVars, iterVars, timeVars, monpc, recv_ready,
                 recv_ready_mutex, seen, zrecv, packet, captured, rows>>

\* lock; pcap_close(pc)
RecvClose ==
  /\ rpc = "close" /\ rpc' = "closing"
  /\ recv_ready_mutex = "free" /\ recv_ready_mutex' = "recv"
  /\ pcap' = "closed"
  /\ UNCHANGED <<mainVars, sendVars, iterVars, timeVars, monpc, recv_ready,
                 seen, zrecv, packet, captured, rows>>

\* pc = NULL; unlock
RecvForget ==
  /\ rpc = "closing" /\ rpc' = "final"
  /\ pcap' = "null" /\ recv_ready_mutex' = "free"
  /\ UNCHANGED <<mainVars, sendVars, iterVars, timeVars, monpc, recv_ready,
                 seen, zrecv, packet, captured, rows>>

RecvFinal ==
  /\ rpc = "final" /\ rpc' = "exited"
  /\ zrecv' = [zrecv EXCEPT !.complete = TRUE]
  /\ UNCHANGED <<mainVars, sendVars, iterVars, timeVars, monpc,
                 recv_ready_mutex, pcap, recv_ready, seen, packet, captured,
                 rows>>

\* The network: any probed address may answer, once, again, late or never.
RecvStep == \/ RecvOpen \/ RecvReady \/ RecvCount \/ RecvLeave
            \/ RecvClose \/ RecvForget \/ RecvFinal
Arrival  == \E a \in probed, success \in BOOLEAN : RecvPacket(a, success)

-----------------------------------------------------------------------------
(* Monitor: monitor_run and monitor_update, which skips the statistics the  *)
(* first time (last_now is 0.0)                                             *)

AllDone == zsend.complete /\ zrecv.complete

MonTest ==
  /\ monpc \in {"first", "loop"}
  /\ monpc' = IF AllDone THEN "exited"
              ELSE IF monpc = "first" THEN "loop" ELSE "update"
  /\ UNCHANGED <<mainVars, sendVars, iterVars, timeVars, recvVars,
                 recv_ready_mutex>>

\* lock; recv_update_pcap_stats tests `pc' ...
MonLock ==
  /\ monpc = "update" /\ recv_ready_mutex = "free"
  /\ recv_ready_mutex' = "mon"
  /\ monpc' = IF pcap = "null" THEN "unlock" ELSE "stats"
  /\ UNCHANGED <<mainVars, sendVars, iterVars, timeVars, recvVars>>

\* ... and calls pcap_stats(pc) if it is not NULL; unlock; print; sleep
MonUnlock ==
  /\ monpc \in {"stats", "unlock"} /\ monpc' = "loop"
  /\ recv_ready_mutex' = "free"
  /\ UNCHANGED <<mainVars, sendVars, iterVars, timeVars, recvVars>>

MonStep == MonTest \/ MonLock \/ MonUnlock

-----------------------------------------------------------------------------
(* Time, and the whole program *)

Capped(t, cap) == IF t < cap THEN t + 1 ELSE cap

Tick ==
  /\ since_finish' = Capped(since_finish, Cooldown + 1)
  /\ elapsed' = Capped(elapsed, MaxRuntime)
  /\ silence' = Capped(silence, Cooldown + 1)
  /\ UNCHANGED <<mainVars, spc, left, stream, shard, sockaddr, probed,
                 send_mutex, late, iterVars, recvVars, monpc, recv_ready_mutex>>

\* the scan is over and the process may stop
Done == mpc = "done" /\ UNCHANGED vars

Next == \/ Main
        \/ \E i \in Sender : SenderStep(i)
        \/ RecvStep \/ Arrival
        \/ MonStep
        \/ Tick
        \/ Done

(* Every thread that can run does run.  The receiver waits for a mutex that *)
(* main (polling) and the monitor (once per second) take and release again  *)
(* and again: it gets its turn, since both leave it free most of the time.  *)
Fairness ==
  /\ WF_vars(Main)
  /\ \A i \in Sender : WF_vars(SenderStep(i))
  /\ WF_vars(RecvStep) /\ SF_vars(RecvReady) /\ SF_vars(RecvClose)
  /\ WF_vars(MonStep)
  /\ WF_vars(Tick)

SafeSpec == Init /\ [][Next]_vars
Spec == SafeSpec /\ Fairness

-----------------------------------------------------------------------------
(* Type correctness *)

SenderPc == {"absent", "lock", "init", "fill", "check", "test", "send",
             "callback", "finish", "publish", "flush", "exited"}
Packet == [src : Address, success : BOOLEAN, repeat : BOOLEAN,
           cooldown : BOOLEAN]

MainType == /\ dryrun \in BOOLEAN /\ joined \in 0 .. N
            /\ mpc \in {"start", "poll", "test", "spawn", "join", "joinmon",
                       "done"}
SendType == /\ spc \in [Sender -> SenderPc]
            /\ left \in [Sender -> 0 .. MaxShare]
            /\ stream \in [Sender -> 0 .. Streams - 1]
            /\ shard \in [Sender -> [sent : Nat, failures : Nat]]
            /\ sockaddr \in {"blank", "set"}
            /\ probed \subseteq Address
            /\ send_mutex \in Sender \cup {Free}
            /\ silence \in 0 .. Cooldown + 1 /\ late \in [Sender -> Nat]
IterType == /\ it_mutex \in Sender \cup {Free}
            /\ complete \in [Sender -> BOOLEAN]
            /\ zsend \in [sent : Nat, failures : Nat, complete : BOOLEAN]
TimeType == since_finish \in 0 .. Cooldown + 1 /\ elapsed \in 0 .. MaxRuntime
RecvType == /\ rpc \in {"absent", "open", "ready", "dispatch", "packet",
                        "close", "closing", "final", "exited"}
            /\ pcap \in {"null", "open", "closed"}
            /\ recv_ready \in BOOLEAN
            /\ seen \subseteq Address
            /\ zrecv \in [success_total : Nat, success_unique : Nat,
                          cooldown_total : Nat, cooldown_unique : Nat,
                          failure_total : Nat, complete : BOOLEAN]
            /\ packet \in Packet \cup {NoPacket}
            /\ captured \in 0 .. MaxPackets
            /\ rows \in [all : Nat, cooldown : Nat]
MonType  == /\ recv_ready_mutex \in {"free", "main", "recv", "mon"}
            /\ monpc \in {"absent", "first", "loop", "update", "stats",
                          "unlock", "exited"}

\* The sets the variables range over, thread by thread.
TypeOK == MainType /\ SendType /\ IterType /\ TimeType /\ RecvType /\ MonType

-----------------------------------------------------------------------------
(* Safety *)

Stopped(i) == spc[i] \in {"callback", "finish", "publish", "flush", "exited"}
Listening  == rpc \in {"absent", "open", "ready", "dispatch", "packet"}
Full       == ~dryrun /\ ResultsFull

SendLocks == \A i \in Sender :
  /\ spc[i] \in {"init", "fill"} => send_mutex = i
  /\ send_mutex = i => \/ spc[i] \in {"init", "fill"}
                       \/ InitMayFail /\ spc[i] = "exited"
  /\ spc[i] \in {"finish", "publish"} <=> it_mutex = i

ReadyLock == /\ mpc = "test" <=> recv_ready_mutex = "main"
             /\ rpc = "closing" <=> recv_ready_mutex = "recv"
             /\ monpc \in {"stats", "unlock"} <=> recv_ready_mutex = "mon"

\* Each mutex is held exactly by the thread that is inside the section it
\* guards, so that two threads are never inside together.  (The exception is
\* the send thread that left send_run with send_mutex locked.)
LockOwners == SendLocks /\ ReadyLock

\* pcap_stats is never called by the monitor on a handle that recv_run has
\* closed or not opened (recv_update_pcap_stats tests a global pointer).
PcapNotUsedAfterClose == monpc = "stats" => pcap = "open"

\* zsend.complete tells the receiver and the monitor that no thread sends.
CompleteMeansStopped == zsend.complete => \A i \in Sender : Stopped(i)

\* The receiver stops listening only when it has its max_results, or when the
\* last probe left more than cooldown_secs ago and no thread will send another
\* ("how long to continue receiving after sending has completed").
CooldownHonoured ==
  ~Listening /\ ~Full => /\ \A i \in Sender : Stopped(i)
                        /\ silence > Cooldown

\* Unless the results are full or the time is up, sending is complete only
\* when every thread went through its addresses or spent its max_targets.
NothingSkipped ==
  zsend.complete /\ ~Full /\ MaxRuntime = 0
    => \A i \in Sender : left[i] = 0 \/ shard[i].sent >= MaxTargets

\* The totals of zsend count every finished thread's shard once, and the
\* threads that have not finished not at all.
SentAccounted ==
  LET Total(f) == SumFunctionOnSet(f, {i \in Sender : complete[i]})
  IN /\ zsend.sent = Total([i \in Sender |-> shard[i].sent])
     /\ zsend.failures = Total([i \in Sender |-> shard[i].failures])

\* success_unique counts the hosts in `seen', and however many packets one
\* pcap_dispatch delivers it never exceeds --max-results.
ResultsExact ==
  /\ zrecv.success_unique = Cardinality(seen)
  /\ MaxResults > 0 => zrecv.success_unique <= MaxResults

\* With both filters on, the records written are the unique results, and the
\* records that say `cooldown' are the ones counted in cooldown_unique except
\* for at most one packet that was in packet_cb when sending completed.
CooldownLag ==
  FilterDuplicates /\ FilterUnsuccessful
    => /\ rows.all = zrecv.success_unique
       /\ zrecv.cooldown_unique - rows.cooldown \in {0, 1}

\* What the summary adds up is what the threads did, though they report in any
\* order and the receiver counts before and after sending completes.
TotalsExact == SentAccounted /\ CooldownLag

\* When main returns, every thread has exited, the handle is gone, and the
\* counters the summary prints are final.  (A send thread that failed in
\* send_run_init has not reported back and still holds send_mutex.)
MainIsLast ==
  mpc = "done" => /\ \A i \in Sender : /\ spc[i] = "exited"
                                       /\ complete[i] \/ send_mutex = i
                  /\ zsend.complete \/ send_mutex # Free
                  /\ rpc = "exited" /\ monpc \in {"absent", "exited"}
                  /\ pcap = "null"

\* When the receiver has finished, a thread sends no more than the probes of
\* one address: one it had begun, or was about to begin with a zrecv.complete
\* read before.  So max_results ends the sending, without a lock.
FewLateProbes == \A i \in Sender : late[i] <= Streams

-----------------------------------------------------------------------------
(* The inductive invariant behind the safety properties *)

\* what a send thread and packet_cb know at a program point
SendFacts == \A i \in Sender : spc[i] = "send" => left[i] > 0
PacketFacts ==
  rpc = "packet" => /\ packet \in Packet /\ ~ResultsFull
                    /\ packet.repeat <=> packet.src \in seen
                    /\ packet.cooldown => zsend.complete
LocalFacts == SendFacts /\ PacketFacts

\* threads that main has not started
SpawnFacts ==
  /\ mpc = "start" => rpc = "absent"
  /\ mpc \in {"start", "poll", "test", "spawn"} => monpc = "absent"
  /\ mpc \in {"start", "poll", "test"} => joined = 0
  /\ mpc \in {"start", "poll", "test", "spawn"}
       => \A i \in Sender : i >= joined => spc[i] = "absent"

\* `pc' is open from RecvOpen to RecvClose and dangles only in between
HandleFacts ==
  /\ dryrun => pcap = "null" /\ rpc \notin {"close", "closing"}
  /\ rpc \in {"absent", "open", "final", "exited"} => pcap = "null"
  /\ rpc \in {"ready", "dispatch", "packet", "close"} => pcap # "closed"
  /\ monpc = "stats" => pcap = "open"

\* a thread that reported back is past its last probe; the one that publishes
\* saw them all report; zsend.finish is no earlier than the last probe
CompletionFacts ==
  /\ \A i \in Sender : complete[i] => spc[i] \in {"finish", "publish", "flush",
                                                "exited"}
  /\ \A i \in Sender : spc[i] \in {"finish", "publish"} => LastOne(complete)
  /\ zsend.complete => LastOne(complete)
  /\ zsend.complete \/ (\E i \in Sender : spc[i] = "publish")
       => since_finish <= silence

\* Everything together, inductive.
ScanInv == /\ TypeOK /\ LocalFacts /\ SpawnFacts /\ LockOwners
           /\ HandleFacts /\ CompletionFacts /\ CooldownHonoured

-----------------------------------------------------------------------------
(* Liveness *)

\* The scan ends: main gets through all its joins.
ScanEnds == <>(mpc = "done")

-----------------------------------------------------------------------------
(* What a scan promises, and how this module keeps it *)

Promise == INSTANCE ScanPromise
             WITH Target    <- Address,
                  sending   <- \E i \in Sender : ~Stopped(i),
                  listening <- Listening,
                  hosts     <- seen,
                  quiet     <- silence

PromiseKept == Promise!Spec
=============================================================================
