------------------------------- MODULE Session -------------------------------
(***************************************************************************)
(* A run of zmap, or a script that calls the binding: the configuration    *)
(* (CommandLine, Binding), send_init, and the threads as start_zmap and    *)
(* Threads (async.cc) start them, wait for them and close what they used.  *)
(* What the threads do in between is the matter of Scan.                   *)
(***************************************************************************)
EXTENDS CommandLine, Binding

CONSTANTS CreateMayFail, \* whether pthread_create may fail
          InitMayFail    \* whether send_run_init may fail

VARIABLES
  user, euid,           \* who started the process, and who it is now
  recv_ready, complete, \* zconf.recv_ready, zsend.complete
  receiver,             \* the receive thread
  spawned,              \* send threads created, and of these,
  sending, finished,    \* those in the send loop, those that have reported,
  failed,               \* and those that returned from a failed send_run_init
  lost,                 \* threads that could not be created
  closed                \* the modules closed, in order

workers == <<spawned, sending, finished, failed>>
threads == <<receiver, workers, lost>>
vars == <<program, pc, settings, calls, user, euid, recv_ready, complete, threads,
          closed>>
flags == <<user, euid, recv_ready, complete>>

Init ==
  /\ program \in {"zmap", "node"}
  /\ pc = IF program = "zmap" THEN "log" ELSE "idle"
  /\ args \in IF program = "zmap" THEN SUBSET {"output-fields", "output-filter"}
              ELSE {{}}
  /\ zconf = Defaults /\ targets = 0 /\ constraint = FALSE
  /\ thrown = FALSE /\ asked = Nothing
  /\ calls = 0 /\ user \in {"root", "user"} /\ euid = user
  /\ recv_ready = FALSE /\ complete = FALSE
  /\ receiver = "absent" /\ lost = 0
  /\ spawned = 0 /\ sending = 0 /\ finished = 0 /\ failed = 0
  /\ closed = <<>>

\* zmap: log_fatal, which ends the process; the binding: an exception
Fail(from, to) ==
  IF program = "zmap" THEN End(from, "fatal") ELSE Throw(from, to, zconf)

-----------------------------------------------------------------------------
(* The modules *)

\* the init of an output module that cannot work ends the process; one that
\* is not there is used for its name in the log
InitOutput(from, to) ==
  \/ End(from, IF zconf.output = NULL THEN "crashed" ELSE "fatal")
  \/ /\ zconf.output # NULL
     /\ zconf.output = "redis-packed" => zconf.fields \notin {"saddr", "list"}
     /\ Configure(from, to, zconf)

\* iterator_init (Shard) divides by the number of shards; a source address
\* that is none; the end of a range, as the code asserts, above its beginning
SendInit(from, to) ==
  pc = from /\
  LET first == zconf.source_ip[1]
      last  == zconf.source_ip[2]
  IN IF zconf.total_shards = 0 /\ zconf.senders > 0 THEN End(from, "crashed")
     ELSE IF Byte * Byte - 1 \in {first, last} THEN End(from, "fatal")
     ELSE IF first # last /\ (first = 0 \/ Swap(last) <= Swap(first))
     THEN End(from, "aborted")
     ELSE \/ End(from, "fatal")   \* no hardware address of the interface
          \/ \E word \in Words :
               Configure(from, to,
                 [zconf EXCEPT !.srcip_offset = srcip_offset(first, last, word),
                               !.rate = Rate(zconf)])

InitModules ==
  \/ program = "zmap" /\ (\/ InitOutput("init-output", "init-send")
                          \/ SendInit("init-send", "start"))
  \/ program = "node" /\ (\/ SendInit("init-send", "init-output")
                          \/ InitOutput("init-output", "start"))

-----------------------------------------------------------------------------
(* The main thread, from the receive thread on *)

NoWorkers == spawned' = 0 /\ sending' = 0 /\ finished' = 0 /\ failed' = 0

StartReceiver ==
  /\ NoWorkers
  /\ \/ /\ Step("start", "wait") /\ receiver' = "opening"
        /\ UNCHANGED <<settings, lost>>
     \/ /\ CreateMayFail /\ Fail("start", "wait")
        /\ lost' = lost + 1 /\ UNCHANGED receiver

\* Mutant: the main thread does not wait.
WaitNot ==
  /\ Step("wait", "spawn")
  /\ UNCHANGED <<settings, threads>>

WaitReady ==
  /\ Step("wait", "spawn") /\ recv_ready
  /\ UNCHANGED <<settings, threads>>

Spawning == pc = "spawn" /\ spawned + lost < zconf.senders

\* Only root gets a raw socket.
Allowed == zconf.dryrun \/ euid = "root"

SpawnSender ==
  /\ Spawning
  /\ \/ End("spawn", IF Allowed THEN "fatal" ELSE "denied") /\ UNCHANGED threads
     \/ Allowed /\ pc' = pc /\ spawned' = spawned + 1
        /\ UNCHANGED <<settings, receiver, sending, finished, failed, lost>>
     \/ /\ Allowed /\ CreateMayFail /\ Fail("spawn", "spawn")
        /\ lost' = lost + 1 /\ UNCHANGED <<receiver, workers>>

\* the monitor (Scan), which shares no state of this module
Spawned ==
  /\ ~Spawning /\ Step("spawn", "drop")
  /\ UNCHANGED <<settings, threads>>

drop_privs ==
  /\ IF euid = "root"
     THEN \/ Step("drop", "join-send") /\ euid' = "nobody" /\ UNCHANGED settings
          \/ Fail("drop", "join-send") /\ UNCHANGED euid
     ELSE /\ UNCHANGED euid
          /\ IF program = "zmap" THEN Step("drop", "join-send") /\ UNCHANGED settings
             ELSE Throw("drop", "join-send", zconf)
  /\ UNCHANGED threads

AllReturned == finished + failed = spawned

\* the handle of a thread that was not created is what xmalloc returned
JoinSenders ==
  /\ \/ AllReturned /\ lost = 0 /\ Step("join-send", "join-recv") /\ UNCHANGED settings
     \/ AllReturned /\ lost > 0 /\ Throw("join-send", "join-recv", zconf)
     \/ lost > 0 /\ End("join-send", "crashed")
  /\ UNCHANGED threads

JoinReceiver ==
  /\ Step("join-recv", "close") /\ receiver = "done"
  /\ UNCHANGED <<settings, threads>>

\* and the monitor, which has ended when both flags are up: Summary, and the
\* callback
Close ==
  /\ Step("close", IF program = "zmap" THEN "over" ELSE "idle")
  /\ closed' = closed \o <<"output", "probe">>
  /\ UNCHANGED <<settings, threads>>

-----------------------------------------------------------------------------
(* The threads *)

\* pcap_open_live, and recv_ready
RecvOpen ==
  /\ receiver = "opening" /\ pc \notin Ended
  /\ \/ Allowed /\ receiver' = "ready" /\ recv_ready' = TRUE /\ UNCHANGED pc
     \/ /\ ~zconf.dryrun /\ pc' = IF euid = "root" THEN "fatal" ELSE "denied"
        /\ UNCHANGED <<receiver, recv_ready>>
  /\ UNCHANGED <<settings, workers, lost, user, euid, complete>>

Leave == receiver = "ready" /\ pc \notin Ended /\ receiver' = "done"
         /\ UNCHANGED <<pc, settings, workers, lost, flags>>

\* the cooldown after the last probe is over
RecvEnd == complete /\ Leave

\* enough results, which only the command line asks for
RecvEnough == program = "zmap" /\ ~zconf.dryrun /\ Leave

\* send_run_init, under send_mutex
SenderInit ==
  /\ failed = 0 /\ sending + finished < spawned /\ pc \notin Ended
  /\ sending' = sending + 1
  /\ UNCHANGED <<pc, settings, receiver, spawned, finished, failed, lost, flags>>

\* the thread returns without a report and keeps the mutex: no thread after it
\* gets into the send loop
SenderInitFail ==
  /\ InitMayFail
  /\ failed = 0 /\ sending + finished < spawned /\ pc \notin Ended
  /\ failed' = 1
  /\ UNCHANGED <<pc, settings, receiver, spawned, sending, finished, lost, flags>>

\* Mutant: the threads are counted from zero.
SenderEndsEarly ==
  /\ sending > 0 /\ pc \notin Ended
  /\ sending' = sending - 1 /\ finished' = finished + 1
  /\ complete' = (complete \/ finished + 1 = zconf.senders + 1)
  /\ UNCHANGED <<pc, settings, receiver, spawned, failed, lost, user, euid, recv_ready>>

\* shard_complete: the last of zconf.senders completes the scan
SenderEnd ==
  /\ sending > 0 /\ pc \notin Ended
  /\ sending' = sending - 1 /\ finished' = finished + 1
  /\ complete' = (complete \/ finished + 1 = zconf.senders)
  /\ UNCHANGED <<pc, settings, receiver, spawned, failed, lost, user, euid, recv_ready>>

-----------------------------------------------------------------------------

Configuring ==
  /\ \/ program = "zmap" /\ CommandLineNext /\ UNCHANGED calls
     \/ program = "node" /\ BindingNext
     \/ InitModules /\ UNCHANGED calls
  /\ UNCHANGED <<flags, threads, closed>>

MainThread ==
  \/ /\ StartReceiver \/ WaitReady \/ SpawnSender \/ Spawned \/ JoinSenders
        \/ JoinReceiver
     /\ UNCHANGED <<flags, closed>>
  \/ drop_privs /\ UNCHANGED <<user, recv_ready, complete, closed>>
  \/ Close /\ UNCHANGED flags

Main == (Configuring \/ (MainThread /\ UNCHANGED calls)) /\ UNCHANGED program

Thread(Act) == Act /\ UNCHANGED <<program, calls, closed>>
OtherThreads == \/ RecvOpen \/ RecvEnd \/ RecvEnough
                \/ SenderInit \/ SenderInitFail \/ SenderEnd

Next == Main \/ Thread(OtherThreads)

Spec == /\ Init /\ [][Next]_vars
        /\ WF_vars(MainThread /\ UNCHANGED <<calls, program>>)
        /\ WF_vars(Thread(RecvOpen)) /\ WF_vars(Thread(RecvEnd))
        /\ WF_vars(Thread(SenderInit)) /\ WF_vars(Thread(SenderEnd))

-----------------------------------------------------------------------------
(* Properties *)

SessionTypeOK ==
  /\ zconf.output \in OutputModules \cup {NULL}
  /\ zconf.senders \in 0 .. ByteWord - 1
  /\ zconf.shard_num \in 0 .. ByteWord - 1 /\ zconf.total_shards \in 0 .. ByteWord - 1
  /\ \A k \in {1, 2} : zconf.ports[k] \in 0 .. PortWord - 1
  /\ zconf.rate \in -(Word \div 2) .. (Word \div 2) - 1 /\ targets \in 0 .. Word - 1
  /\ receiver \in {"absent", "opening", "ready", "done"}
  /\ failed \in {0, 1} /\ sending + finished + failed <= spawned
  /\ spawned + lost <= ByteWord
  /\ thrown => program = "node"

\* A scan that root starts is never refused a socket or a capture: all of them
\* are opened before the privileges are dropped, though two threads open them.
RootNeverDenied == pc = "denied" => user # "root"

\* No scan begins with the flags of another: recv_ready and complete, which
\* nothing resets, are down whenever the threads are started.
FreshLaunch == pc = "start" => ~recv_ready /\ ~complete

\* What a scan of the command line is started with makes sense together.
LaunchSane ==
  /\ SessionTypeOK
  /\ pc = "start" /\ program = "zmap" =>
       /\ zconf.ports[1] <= zconf.ports[2]
       /\ zconf.shard_num < zconf.total_shards
       /\ zconf.senders <= AtLeastOne(targets) /\ targets <= zconf.max_targets
       /\ zconf.seed # NULL /\ zconf.seed < Word - 1 => zconf.rng = zconf.seed + 1
       /\ zconf.output # NULL /\ zconf.success = "success"

\* The frames go to the gateway: when the answers of the kernel are complete,
\* and no hardware address is given, to that of the first gateway.
GatewayFound ==
  pc = "start" /\ asked.mac # NULL /\ ~thrown => zconf.gw_mac = asked.mac

\* In a range of addresses that differ in their last byte only, every probe
\* leaves from an address of the range.
SourceInRange ==
  LET first == zconf.source_ip[1]
      last  == zconf.source_ip[2]
  IN pc = "start" /\ Swap(first) \div Byte = Swap(last) \div Byte =>
       \A dst \in Address, stream \in {0, 1} :
         Swap(get_src_ip(first, last, zconf.srcip_offset, dst, stream))
           \in Swap(first) .. Swap(last)

\* The modules are closed, the output first and once in every scan, when each
\* send thread and the receiver have returned.  A script, whose receiver waits
\* for nothing else, is not called back before every thread that ConfigThreads
\* asked for has reported: not when one of them could not be created or failed
\* in send_run_init, and not when it asked for none.
ClosedLast ==
  /\ closed \in {<<>>, <<"output", "probe">>}
  /\ pc = "close" \/ closed # <<>> =>
       receiver = "done" /\ lost = 0 /\ sending = 0 /\ AllReturned
  /\ pc = "close" /\ program = "node" => finished = zconf.senders /\ finished > 0

\* Two scans of one process have nothing of each other: neither the flags nor
\* the modules that are still in use.
ScansApart == FreshLaunch /\ ClosedLast

\* A scan ends, that is the process ends or the callback is called, except in
\* the three cases in which zsend.complete is never set: it has no send thread, a
\* thread could not be created (async.cc goes on without it), or send_run_init
\* failed.  ClosedLast says what does not happen then.
ScanReturns == (pc = "wait" /\ zconf.senders > 0) ~> (\/ pc \in Ended \cup {"idle"}
                                               \/ lost > 0 \/ failed > 0)
=============================================================================
