---------------------------- MODULE SessionProofs ----------------------------
(***************************************************************************)
(* For any options, interfaces, answers of the kernel, numbers of threads  *)
(* and of calls: a scan that root starts is not refused a socket or a      *)
(* capture, and a scan has nothing of one before it in the same process    *)
(* (SessionInv); what a scan is started with makes sense together, and the *)
(* source addresses stay in their range (LaunchInv); and the hardware      *)
(* address is that of the gateway (MacFacts, with lemmas about the folds   *)
(* over the messages of an answer).                                        *)
(***************************************************************************)
EXTENDS Session, Counting

Stopped == Ended \ {"denied"}

\* The configuration before blacklist_init has made its constraint ...
Before ==
  IF program = "zmap"
  THEN {"log", "output", "probe", "vpn", "fields", "filter", "options", "ports",
        "source", "mac", "shards", "bandwidth", "max", "blacklist"}
  ELSE {"idle", "config", "ipaddr", "hwaddr", "bandwidth", "blacklist"}

\* ... and after that, up to the start of the threads.
After ==
  IF program = "zmap"
  THEN {"senders", "iface", "address", "gateway", "seed",
        "init-output", "init-send", "start"}
  ELSE {"targets", "cores", "seed", "probe", "output", "shard", "total", "threads",
        "init-send", "init-output", "start"}

Joining == {"join-recv", "close"}
Dropped == {"join-send"} \cup Joining
Running == {"wait", "spawn", "drop"} \cup Dropped

\* Nothing has been started.
Fresh == /\ euid = user /\ ~recv_ready /\ ~complete /\ receiver = "absent"
         /\ spawned = 0 /\ sending = 0 /\ finished = 0 /\ failed = 0
         /\ lost = 0 /\ closed = <<>>

\* Each thread that was created is in one place at most.
WorkerFacts ==
  /\ spawned \in Nat /\ sending \in Nat /\ finished \in Nat /\ failed \in {0, 1}
  /\ sending + finished + failed <= spawned

\* The second call finds the constraint of the first, so that the threads are
\* started once; the receiver opens its capture before main goes on.
SessionInv ==
  /\ program \in {"zmap", "node"}
  /\ pc \in Before \cup After \cup Running \cup Ended
  /\ pc \in Before => constraint \/ Fresh
  /\ pc \in After => constraint /\ Fresh
  /\ pc \in Running => constraint /\ closed = <<>>
  /\ pc \in {"wait", "spawn", "drop"} => euid = user
  /\ pc \in Running \ {"wait"} => recv_ready
  /\ receiver = "opening" => ~recv_ready /\ pc \in {"wait"} \cup Ended
  /\ receiver \in {"absent", "opening", "ready", "done"}
  /\ pc = "close" => receiver = "done"
  /\ pc = "denied" => user # "root"
  /\ closed \in {<<>>, <<"output", "probe">>}
  /\ lost \in Nat /\ WorkerFacts

-----------------------------------------------------------------------------
(* The configuration *)

\* One of its steps stays on its side of blacklist_init, or is blacklist_init.
ConfigStep ==
  \/ pc \in Before /\ pc' \in Before \cup Stopped /\ constraint' = constraint
  \/ pc \in Before /\ pc' \in After /\ ~constraint /\ constraint'
  \/ pc \in After /\ pc' \in After \cup Stopped /\ constraint' = constraint

LEMMA CommandLineGoes ==
  ASSUME program = "zmap", CommandLineNext
  PROVE  ConfigStep
<1> USE DEF ConfigStep, Before, After, Stopped, Ended, Configure, Given, End, Step, settings
<1>1. CASE Log BY <1>1 DEF Log
<1>2. CASE OutputModule BY <1>2 DEF OutputModule, Module
<1>3. CASE ProbeModule BY <1>3 DEF ProbeModule
<1>4. CASE Vpn BY <1>4 DEF Vpn
<1>5. CASE Fields BY <1>5 DEF Fields
<1>6. CASE Filter BY <1>6 DEF Filter
<1>7. CASE Options BY <1>7 DEF Options
<1>8. CASE Ports BY <1>8 DEF Ports, PortRange
<1>9. CASE SourceIp BY <1>9 DEF SourceIp
<1>10. CASE GatewayMac BY <1>10 DEF GatewayMac
<1>11. CASE Shards BY <1>11 DEF Shards
<1>12. CASE Bandwidth BY <1>12 DEF Bandwidth
<1>13. CASE MaxTargets BY <1>13 DEF MaxTargets
<1>14. CASE CountTargets BY <1>14 DEF CountTargets
<1>15. CASE Senders BY <1>15 DEF Senders
<1>16. CASE StartIface BY <1>16 DEF StartIface
<1>17. CASE StartSourceIp BY <1>17 DEF StartSourceIp
<1>18. CASE StartGateway BY <1>18 DEF StartGateway
<1>19. CASE StartSeed BY <1>19 DEF StartSeed
<1> QED BY <1>1, <1>2, <1>3, <1>4, <1>5, <1>6, <1>7, <1>8, <1>9, <1>10, <1>11,
           <1>12, <1>13, <1>14, <1>15, <1>16, <1>17, <1>18, <1>19
        DEF CommandLineNext

LEMMA BindingGoes ==
  ASSUME program = "node", BindingNext
  PROVE  ConfigStep
<1> USE DEF ConfigStep, Before, After, Stopped, Ended, Configure, Given, End, Throw,
            Step, settings
<1>1. CASE LibZMAP BY <1>1 DEF LibZMAP
<1>2. CASE ConfigIface BY <1>2 DEF ConfigIface
<1>3. CASE ConfigIpaddr BY <1>3 DEF ConfigIpaddr
<1>4. CASE ConfigHwaddr BY <1>4 DEF ConfigHwaddr, GivenHwaddr, DetectHwaddr
<1>5. CASE ConfigBandwidth BY <1>5 DEF ConfigBandwidth
<1>6. CASE ConfigWhiteBlackLists BY <1>6 DEF ConfigWhiteBlackLists
<1>7. CASE ConfigTargets BY <1>7 DEF ConfigTargets
<1>8. CASE ConfigCores BY <1>8 DEF ConfigCores
<1>9. CASE ConfigSeed BY <1>9 DEF ConfigSeed
<1>10. CASE ConfigProbeModule BY <1>10 DEF ConfigProbeModule
<1>11. CASE ConfigOutputModule BY <1>11 DEF ConfigOutputModule
<1>12. CASE ConfigShards BY <1>12 DEF ConfigShards
<1>13. CASE ConfigShardTotal BY <1>13 DEF ConfigShardTotal
<1>14. CASE ConfigThreads BY <1>14 DEF ConfigThreads
<1> QED BY <1>1, <1>2, <1>3, <1>4, <1>5, <1>6, <1>7, <1>8, <1>9, <1>10, <1>11,
           <1>12, <1>13, <1>14
        DEF BindingNext

LEMMA ModulesGo ==
  ASSUME program \in {"zmap", "node"}, InitModules
  PROVE  ConfigStep
<1> USE DEF ConfigStep, After, Stopped, Ended, Configure, End, Step, settings
<1>1. ASSUME NEW from, NEW to, InitOutput(from, to)
      PROVE  pc = from /\ (pc' = to \/ pc' \in Stopped) /\ constraint' = constraint
      BY <1>1 DEF InitOutput
<1>2. ASSUME NEW from, NEW to, SendInit(from, to)
      PROVE  pc = from /\ (pc' = to \/ pc' \in Stopped) /\ constraint' = constraint
      BY <1>2 DEF SendInit
<1> QED BY <1>1, <1>2 DEF InitModules

\* A step of the configuration starts nothing: after the first scan it does not
\* come past blacklist_init.
LEMMA ConfigKeeps == SessionInv /\ Configuring /\ program' = program => SessionInv'
<1> SUFFICES ASSUME SessionInv, Configuring, program' = program PROVE SessionInv'
    OBVIOUS
<1>1. ConfigStep
      BY CommandLineGoes, BindingGoes, ModulesGo DEF Configuring, SessionInv
<1>2. UNCHANGED <<user, euid, recv_ready, complete, receiver, spawned, sending,
                  finished, failed, lost, closed>>
      BY DEF Configuring, flags, threads, workers
<1>3. Before' = Before /\ After' = After BY DEF Before, After
<1>4. Fresh' <=> Fresh BY <1>2 DEF Fresh
<1>5. WorkerFacts' BY <1>2 DEF SessionInv, WorkerFacts
<1>6. pc' \notin Running /\ pc' # "denied" /\ pc' \in Before \cup After \cup Ended
      BY <1>1 DEF ConfigStep, Before, After, Running, Dropped, Joining, Stopped, Ended
<1>7. receiver = "opening" => pc' \in Ended
  <2>1. pc \in Before \cup After BY <1>1 DEF ConfigStep
  <2>2. receiver = "opening" => pc \in {"wait"} \cup Ended BY DEF SessionInv
  <2> QED BY <2>1, <2>2 DEF Before, After, Ended
<1>8. /\ pc' \in Before => constraint' \/ Fresh
      /\ pc' \in After => constraint' /\ Fresh
  <2>1. CASE pc' \in Before /\ constraint' = constraint /\ pc \in Before
        BY <2>1 DEF SessionInv, Before, After
  <2>2. CASE pc' \in After /\ ~constraint /\ constraint' /\ pc \in Before
        BY <2>2 DEF SessionInv, Before, After
  <2>3. CASE pc' \in After /\ constraint' = constraint /\ pc \in After
        BY <2>3 DEF SessionInv, Before, After
  <2>4. CASE pc' \in Stopped
        BY <2>4 DEF Before, After, Stopped, Ended
  <2> QED BY <1>1, <2>1, <2>2, <2>3, <2>4 DEF ConfigStep
<1> QED BY <1>2, <1>3, <1>4, <1>5, <1>6, <1>7, <1>8
        DEF SessionInv, Running, Dropped, Joining

-----------------------------------------------------------------------------
(* The main thread *)

LEMMA StartKeeps ==
  SessionInv /\ StartReceiver /\ UNCHANGED <<flags, closed, program>> => SessionInv'
<1> SUFFICES ASSUME SessionInv, StartReceiver, UNCHANGED <<flags, closed, program>>
             PROVE  SessionInv'
    OBVIOUS
<1>1. pc = "start" BY DEF StartReceiver, Fail, End, Throw, Step
<1>2. pc \in After BY <1>1 DEF After
<1>3. constraint /\ Fresh BY <1>2 DEF SessionInv
<1>4. /\ pc' \in {"wait"} \cup Stopped /\ constraint' = constraint
      /\ receiver' \in {"opening", receiver} /\ lost' \in {lost, lost + 1} /\ (pc' # "wait" => receiver' = receiver)
      BY DEF StartReceiver, Fail, End, Throw, Step, settings, Stopped, Ended
<1>5. UNCHANGED <<user, euid, recv_ready, complete, closed, program>> BY DEF flags
<1>6. WorkerFacts' BY DEF StartReceiver, NoWorkers, WorkerFacts
<1> QED BY <1>3, <1>4, <1>5, <1>6
        DEF SessionInv, Fresh, Before, After, Running, Dropped, Joining, Stopped, Ended

LEMMA WaitKeeps ==
  SessionInv /\ (WaitReady \/ Spawned) /\ UNCHANGED <<flags, closed, program>>
    => SessionInv'
<1> SUFFICES ASSUME SessionInv, WaitReady \/ Spawned,
                    UNCHANGED <<flags, closed, program>>
             PROVE  SessionInv'
    OBVIOUS
<1>1. \/ pc = "wait" /\ pc' = "spawn" /\ recv_ready
      \/ pc = "spawn" /\ pc' = "drop"
      BY DEF WaitReady, Spawned, Step
<1>2. UNCHANGED <<constraint, user, euid, recv_ready, complete, closed, program,
                  receiver, spawned, sending, finished, failed, lost>>
      BY DEF WaitReady, Spawned, settings, threads, workers, flags
<1>3. WorkerFacts' BY <1>2 DEF SessionInv, WorkerFacts
<1> QED BY <1>1, <1>2, <1>3
        DEF SessionInv, Before, After, Running, Dropped, Joining, Ended

LEMMA SpawnKeeps ==
  SessionInv /\ SpawnSender /\ UNCHANGED <<flags, closed, program>> => SessionInv'
<1> SUFFICES ASSUME SessionInv, SpawnSender, UNCHANGED <<flags, closed, program>>
             PROVE  SessionInv'
    OBVIOUS
<1>1. pc = "spawn" BY DEF SpawnSender, Spawning
<1>2. /\ pc' \in {"spawn"} \cup Ended /\ (pc' = "denied" => euid # "root")
      /\ UNCHANGED <<constraint, receiver, sending, finished, failed>>
      /\ lost' \in {lost, lost + 1} /\ spawned' \in {spawned, spawned + 1}
      BY <1>1 DEF SpawnSender, Allowed, Fail, End, Throw, Step, settings, threads, workers,
                  Ended
<1>3. UNCHANGED <<user, euid, recv_ready, complete, closed, program>> BY DEF flags
<1>4. WorkerFacts' BY <1>2 DEF SessionInv, WorkerFacts
<1>5. lost' \in Nat BY <1>2 DEF SessionInv
<1> QED BY <1>1, <1>2, <1>3, <1>4, <1>5
        DEF SessionInv, Before, After, Running, Dropped, Joining, Ended

LEMMA DropKeeps ==
  SessionInv /\ drop_privs /\ UNCHANGED <<user, recv_ready, complete, closed, program>>
    => SessionInv'
<1> SUFFICES ASSUME SessionInv, drop_privs,
                    UNCHANGED <<user, recv_ready, complete, closed, program>>
             PROVE  SessionInv'
    OBVIOUS
<1>1. /\ pc = "drop" /\ pc' \in {"join-send"} \cup Stopped
      /\ UNCHANGED <<constraint, receiver, spawned, sending, finished, failed, lost>>
      BY DEF drop_privs, Fail, End, Throw, Step, settings, threads, workers, Stopped, Ended
<1>2. WorkerFacts' BY <1>1 DEF SessionInv, WorkerFacts
<1> QED BY <1>1, <1>2
        DEF SessionInv, Before, After, Running, Dropped, Joining, Stopped,
            Ended

LEMMA JoinKeeps ==
  SessionInv /\ (JoinSenders \/ JoinReceiver) /\ UNCHANGED <<flags, closed, program>>
    => SessionInv'
<1> SUFFICES ASSUME SessionInv, JoinSenders \/ JoinReceiver,
                    UNCHANGED <<flags, closed, program>>
             PROVE  SessionInv'
    OBVIOUS
<1>1. UNCHANGED <<constraint, user, euid, recv_ready, complete, closed, program,
                  receiver, spawned, sending, finished, failed, lost>>
      BY DEF JoinSenders, JoinReceiver, End, Throw, Step, settings, threads, workers, flags
<1>2. \/ pc = "join-send" /\ pc' = "join-recv"
      \/ pc = "join-send" /\ pc' = "crashed"
      \/ pc = "join-recv" /\ pc' = "close" /\ receiver = "done"
      BY DEF JoinSenders, JoinReceiver, End, Throw, Step, SessionInv
<1>3. WorkerFacts' BY <1>1 DEF SessionInv, WorkerFacts
<1> QED BY <1>1, <1>2, <1>3
        DEF SessionInv, Before, After, Running, Dropped, Joining, Ended

LEMMA CloseKeeps ==
  SessionInv /\ Close /\ UNCHANGED <<flags, program>> => SessionInv'
<1> SUFFICES ASSUME SessionInv, Close, UNCHANGED <<flags, program>> PROVE SessionInv'
    OBVIOUS
<1>1. /\ pc = "close" /\ pc' = IF program = "zmap" THEN "over" ELSE "idle"
      /\ UNCHANGED <<constraint, receiver, spawned, sending, finished, failed, lost,
                     user, euid, recv_ready, complete, program>>
      BY DEF Close, Step, settings, threads, workers, flags
<1>2. closed = <<>> /\ closed' = closed \o <<"output", "probe">>
      BY <1>1 DEF Close, SessionInv, Running, Dropped, Joining
<1>3. closed' = <<"output", "probe">> BY <1>2
<1>4. WorkerFacts' BY <1>1 DEF SessionInv, WorkerFacts
<1> QED BY <1>1, <1>3, <1>4
        DEF SessionInv, Before, After, Running, Dropped, Joining, Ended

-----------------------------------------------------------------------------
(* The other threads *)

LEMMA ThreadKeeps == SessionInv /\ Thread(OtherThreads) => SessionInv'
<1> SUFFICES ASSUME SessionInv, Thread(OtherThreads) PROVE SessionInv'
    OBVIOUS
<1>1. UNCHANGED <<program, closed, constraint, user, euid, spawned, lost>>
      BY DEF Thread, OtherThreads, RecvOpen, RecvEnd, RecvEnough, Leave, SenderInit,
         SenderInitFail, SenderEnd, settings, workers, flags
<1>2. CASE RecvOpen
  <2>1. pc = "wait" /\ receiver = "opening"
        BY <1>2 DEF RecvOpen, SessionInv
  <2>2. UNCHANGED <<sending, finished, failed, complete>> BY <1>2 DEF RecvOpen, workers
  <2>3. \/ pc' = pc /\ receiver' = "ready" /\ recv_ready' = TRUE
        \/ /\ pc' = IF euid = "root" THEN "fatal" ELSE "denied"
           /\ receiver' = receiver /\ recv_ready' = recv_ready
        BY <1>2 DEF RecvOpen
  <2>4. WorkerFacts' BY <1>1, <2>2 DEF SessionInv, WorkerFacts
  <2> QED BY <1>1, <2>1, <2>2, <2>3, <2>4
          DEF SessionInv, Before, After, Running, Dropped, Joining, Ended
<1>3. CASE RecvEnd \/ RecvEnough
  <2>1. receiver = "ready" /\ receiver' = "done" /\ pc' = pc
        /\ UNCHANGED <<sending, finished, failed, recv_ready, complete>>
        BY <1>3 DEF RecvEnd, RecvEnough, Leave, workers, flags
  <2>2. WorkerFacts' BY <1>1, <2>1 DEF SessionInv, WorkerFacts
  <2> QED BY <1>1, <2>1, <2>2
          DEF SessionInv, Fresh, Before, After, Running, Dropped, Joining, Ended
<1>4. CASE SenderInit \/ SenderInitFail \/ SenderEnd
  <2>1. pc' = pc /\ UNCHANGED <<receiver, recv_ready>>
        BY <1>4 DEF SenderInit, SenderInitFail, SenderEnd, flags
  <2>2. WorkerFacts' /\ spawned # 0
        BY <1>1, <1>4 DEF SenderInit, SenderInitFail, SenderEnd, SessionInv, WorkerFacts
  <2> QED BY <1>1, <2>1, <2>2
          DEF SessionInv, Fresh, Before, After, Running, Dropped, Joining, Ended
<1> QED BY <1>2, <1>3, <1>4 DEF Thread, OtherThreads

-----------------------------------------------------------------------------
(* The theorems *)

LEMMA SessionInit == Init => SessionInv
BY DEF Init, SessionInv, Fresh, WorkerFacts, Before, After, Running, Dropped, Joining,
       Ended

LEMMA SessionStays == SessionInv /\ UNCHANGED vars => SessionInv'
BY DEF SessionInv, Fresh, WorkerFacts, Before, After, vars, settings, threads, workers

LEMMA SessionStep == SessionInv /\ [Next]_vars => SessionInv'
BY ConfigKeeps, StartKeeps, WaitKeeps, SpawnKeeps, DropKeeps, JoinKeeps, CloseKeeps,
   ThreadKeeps, SessionStays
   DEF Next, Main, MainThread

LEMMA SessionInvariance == Spec => []SessionInv
BY SessionInit, SessionStep, PTL DEF Spec

\* Whatever the options and the number of threads, the privileges are dropped
\* after the last socket and the capture have been opened.
THEOREM PrivilegesLastLongEnough == Spec => []RootNeverDenied
<1>1. SessionInv => RootNeverDenied BY DEF SessionInv, RootNeverDenied
<1>2. QED BY SessionInvariance, <1>1, PTL

-----------------------------------------------------------------------------
(* What a scan is started with *)

\* Where main of zmap is past the output module, past the fields, past the
\* shards, past the targets, past the threads, and past the seed.
Launching   == {"init-output", "init-send", "start"}
PastSenders == {"iface", "address", "gateway", "seed"} \cup Launching
PastTargets == {"senders"} \cup PastSenders
PastShards  == {"bandwidth", "max", "blacklist"} \cup PastTargets
PastFields  == {"filter", "options", "ports", "source", "mac", "shards"} \cup PastShards

\* zconf holds numbers of their widths, and addresses.
ConfTypes ==
  /\ {"output", "fields", "success", "iface", "source_ip", "srcip_offset", "ports",
      "seed", "rng", "shard_num", "total_shards", "bandwidth", "rate", "max_targets",
      "senders", "quiet", "dryrun", "send_ip_pkts", "gw_mac", "gw_mac_set",
      "filter_duplicates", "filter_unsuccessful"} \subseteq DOMAIN zconf
  /\ zconf.output \in OutputModules \cup {NULL}
  /\ zconf.senders \in 0 .. ByteWord - 1
  /\ zconf.shard_num \in 0 .. ByteWord - 1 /\ zconf.total_shards \in 0 .. ByteWord - 1
  /\ zconf.ports \in (0 .. PortWord - 1) \X (0 .. PortWord - 1)
  /\ zconf.bandwidth \in Nat /\ zconf.rate \in -(Word \div 2) .. (Word \div 2) - 1
  /\ zconf.max_targets \in 0 .. Word - 1 /\ targets \in 0 .. Word - 1
  /\ zconf.seed \in (0 .. Word - 1) \cup {NULL}

\* What main of zmap has made sure of by the point where it is.
MainFacts ==
  /\ zconf.ports[1] <= zconf.ports[2]
  /\ zconf.shard_num = 0 \/ pc \in PastShards \cup Running \cup Ended
  /\ pc \in PastFields => zconf.success = "success"
  /\ pc \in PastShards => zconf.shard_num < zconf.total_shards
  /\ pc \in PastTargets => targets <= zconf.max_targets
  /\ pc \in PastSenders => zconf.senders <= AtLeastOne(targets)
  /\ pc \in Launching => zconf.rng = aesrand_init(zconf)
  /\ pc \in {"init-send", "start"} => zconf.output # NULL

\* Where both have a source address, and where they have found it to be good.
PastAddress ==
  IF program = "zmap" THEN {"gateway", "seed"} \cup Launching
  ELSE (After \ {"senders"}) \cup {"hwaddr", "bandwidth", "blacklist"}
PastSendInit == IF program = "zmap" THEN {"start"} ELSE {"init-output", "start"}

RangeGood(first, last) == first = last \/ (first # 0 /\ Swap(last) > Swap(first))

SourceFacts ==
  /\ zconf.source_ip \in (Address \X Address) \cup {NULL}
  /\ pc \in PastAddress => zconf.source_ip \in Address \X Address
  /\ program = "zmap" /\ pc \in (Before \cup {"senders", "iface"}) =>
       zconf.iface \in Interface \cup {NULL}
  /\ pc \in (IF program = "zmap" THEN {"address"} ELSE {"ipaddr"}) => zconf.iface \in Interface
  /\ pc \in PastSendInit => /\ RangeGood(zconf.source_ip[1], zconf.source_ip[2])
                            /\ zconf.srcip_offset \in Nat

\* No more threads than zconf says, or than one that failed before the first.
ThreadFacts ==
  /\ spawned + lost <= ByteWord
  /\ thrown => program = "node"
  /\ program = "zmap" /\ pc \in Running => lost = 0

LaunchInv ==
  /\ ConfTypes /\ SourceFacts /\ ThreadFacts
  /\ program = "zmap" => MainFacts

LEMMA CommandLineSane ==
  ASSUME LaunchInv, program = "zmap", program' = program, CommandLineNext,
         UNCHANGED <<spawned, lost>>
  PROVE  LaunchInv'
<1> USE DEF LaunchInv, ConfTypes, MainFacts, SourceFacts, ThreadFacts, PastAddress,
            PastSendInit, Before, Launching, PastSenders, PastTargets, PastShards,
            PastFields, Running, Dropped, Joining, Ended,
            Configure, Given, End, Step, settings
<1> USE ZConfAssumption, ArgsAssumption
<1>1. CASE Log BY <1>1 DEF Log
<1>2. CASE OutputModule
  <2>1. \/ pc' \in Ended /\ zconf' = zconf
        \/ \E name, fields, duplicates, unsuccessful :
             Module(name, fields, duplicates, unsuccessful)
        BY <1>2 DEF OutputModule
  <2>2. ASSUME NEW name, NEW fields, NEW duplicates, NEW unsuccessful,
               Module(name, fields, duplicates, unsuccessful)
        PROVE  LaunchInv'
        BY <2>2 DEF Module, get_output_module_by_name
  <2>3. pc = "output" /\ UNCHANGED <<targets, thrown>>
        BY <1>2 DEF OutputModule, Module
  <2> QED BY <2>1, <2>2, <2>3
<1>3. CASE ProbeModule BY <1>3 DEF ProbeModule
<1>4. CASE Vpn
  <2>1. CASE Configure("vpn", "fields", zconf) BY <2>1
  <2>2. CASE pc = "vpn" /\ pc' = "fields" /\ UNCHANGED <<targets, thrown>>
             /\ zconf' = [zconf EXCEPT !.send_ip_pkts = TRUE, !.gw_mac_set = TRUE,
                                       !.gw_mac = "zero"]
        BY <2>2
  <2> QED BY <1>4, <2>1, <2>2 DEF Vpn
<1>5. CASE Fields
  <2>1. CASE pc' \in Ended BY <1>5, <2>1 DEF Fields
  <2>2. ASSUME NEW named, Configure("fields", "filter",
                          [zconf EXCEPT !.fields = named, !.success = "success"])
        PROVE  LaunchInv'
        BY <2>2
  <2> QED BY <1>5, <2>1, <2>2 DEF Fields
<1>6. CASE Filter BY <1>6 DEF Filter
<1>7. CASE Options BY <1>7 DEF Options
<1>8. CASE Ports BY <1>8 DEF Ports, PortRange
<1>9. CASE SourceIp BY <1>9 DEF SourceIp
<1>10. CASE GatewayMac
  <2>1. CASE Configure("mac", "shards", zconf) BY <2>1
  <2>2. CASE Given("mac", "shards", [zconf EXCEPT !.gw_mac = "given", !.gw_mac_set = TRUE])
        BY <2>2
  <2>3. CASE End("mac", "exit") BY <2>3
  <2> QED BY <1>10, <2>1, <2>2, <2>3 DEF GatewayMac
<1>11. CASE Shards
  <2>1. CASE Configure("shards", "bandwidth", [zconf EXCEPT !.total_shards = 1])
        BY <2>1
  <2>2. CASE End("shards", "fatal") BY <2>2
  <2>3. ASSUME NEW seed \in SeedArgs \cup {NULL}, NEW shard, NEW shards,
               shard \in 0 .. ByteWord - 2, shards \in 1 .. ByteWord - 2, shard < shards,
               Given("shards", "bandwidth",
                     [zconf EXCEPT !.seed = seed, !.shard_num = shard,
                                   !.total_shards = shards])
        PROVE  LaunchInv'
        BY <2>3
  <2>4. ASSUME NEW seed \in SeedArgs \cup {NULL},
               Given("shards", "bandwidth",
                     [zconf EXCEPT !.seed = seed, !.shard_num = 0, !.total_shards = 1])
        PROVE  LaunchInv'
        BY <2>4
  <2> HIDE DEF Given, Configure, End, LaunchInv
  <2>5. CASE \E seed \in SeedArgs \cup {NULL}, shard, shards \in ShardArgs \cup {NULL} :
               /\ ~ (shard = NULL) # (shards = NULL)
               /\ ShardFits(shard, shards)
               /\ Given("shards", "bandwidth",
                        [zconf EXCEPT !.seed = seed,
                                 !.shard_num = IF shard = NULL THEN 0 ELSE shard,
                                 !.total_shards = IF shards = NULL THEN 1 ELSE shards])
    <3>1. PICK seed \in SeedArgs \cup {NULL}, shard \in ShardArgs \cup {NULL},
               shards \in ShardArgs \cup {NULL} :
               /\ ~ (shard = NULL) # (shards = NULL)
               /\ ShardFits(shard, shards)
               /\ Given("shards", "bandwidth",
                        [zconf EXCEPT !.seed = seed,
                                 !.shard_num = IF shard = NULL THEN 0 ELSE shard,
                                 !.total_shards = IF shards = NULL THEN 1 ELSE shards])
          BY <2>5
    <3>2. CASE shard = NULL
      <4>1. Given("shards", "bandwidth",
                  [zconf EXCEPT !.seed = seed, !.shard_num = 0, !.total_shards = 1])
            BY <3>1, <3>2
      <4> QED BY <4>1, <2>4
    <3>3. CASE shard # NULL
      <4>1. Given("shards", "bandwidth",
                  [zconf EXCEPT !.seed = seed, !.shard_num = shard,
                                !.total_shards = shards])
            BY <3>1, <3>3
      <4>2. shard \in 0 .. ByteWord - 2 /\ shards \in 1 .. ByteWord - 2 /\ shard < shards
            BY <3>1, <3>3 DEF ShardFits
      <4> QED BY <4>1, <4>2, <2>3
    <3> QED BY <3>2, <3>3
  <2> QED BY <1>11, <2>1, <2>2, <2>5 DEF Shards
<1>12. CASE Bandwidth BY <1>12 DEF Bandwidth
<1>13. CASE MaxTargets BY <1>13 DEF MaxTargets, Smaller
<1>14. CASE CountTargets BY <1>14 DEF CountTargets, Targets, Smaller
<1>15. CASE Senders BY <1>15 DEF Senders, Fit, DefaultSenders, AtLeastOne
<1>16. CASE StartIface BY <1>16 DEF StartIface
<1>17. CASE StartSourceIp BY <1>17 DEF StartSourceIp, OwnAddress, Interface
<1>18. CASE StartGateway
  <2>1. CASE Configure("gateway", "seed", zconf) BY <2>1
  <2>2. CASE End("gateway", "fatal") BY <2>2
  <2>3. ASSUME NEW iface, NEW mac, Step("gateway", "seed"),
               zconf' = [zconf EXCEPT !.iface = iface, !.gw_mac = mac, !.gw_mac_set = TRUE],
               UNCHANGED <<args, targets, constraint, thrown>>
        PROVE  LaunchInv'
        BY <2>3
  <2> HIDE DEF Configure, End, LaunchInv
  <2> QED BY <1>18, <2>1, <2>2, <2>3 DEF StartGateway
<1>19. CASE StartSeed BY <1>19 DEF StartSeed, aesrand_init
<1> QED BY <1>1, <1>2, <1>3, <1>4, <1>5, <1>6, <1>7, <1>8, <1>9, <1>10, <1>11,
           <1>12, <1>13, <1>14, <1>15, <1>16, <1>17, <1>18, <1>19
        DEF CommandLineNext

LEMMA BindingSane ==
  ASSUME LaunchInv, program = "node", program' = program, BindingNext,
         UNCHANGED <<spawned, lost>>
  PROVE  LaunchInv'
<1> USE DEF LaunchInv, ConfTypes, SourceFacts, ThreadFacts, PastAddress,
            PastSendInit, Before, After, Launching, Running, Dropped, Joining, Ended,
            Configure, Given, End, Throw, Step, settings
<1> USE ZConfAssumption, ArgsAssumption
<1>1. CASE LibZMAP BY <1>1 DEF LibZMAP
<1>2. CASE ConfigIface BY <1>2 DEF ConfigIface
<1>3. CASE ConfigIpaddr BY <1>3 DEF ConfigIpaddr, OwnAddress, Interface
<1>4. CASE GivenHwaddr
  <2>1. CASE Given("hwaddr", "bandwidth",
                   [zconf EXCEPT !.gw_mac = "given", !.gw_mac_set = TRUE])
        BY <2>1
  <2>2. CASE Throw("hwaddr", "bandwidth",
                   [zconf EXCEPT !.gw_mac = Junk, !.gw_mac_set = TRUE])
        BY <2>2
  <2> QED BY <1>4, <2>1, <2>2 DEF GivenHwaddr
<1>5. CASE DetectHwaddr
  <2>1. CASE End("hwaddr", "fatal") BY <2>1
  <2>2. ASSUME NEW iface, NEW mac, Step("hwaddr", "bandwidth"),
               zconf' = [zconf EXCEPT !.iface = iface, !.gw_mac_set = TRUE, !.gw_mac = mac],
               UNCHANGED <<args, targets, constraint>>
        PROVE  LaunchInv'
        BY <2>2
  <2> HIDE DEF End, LaunchInv
  <2> QED BY <1>5, <2>1, <2>2 DEF DetectHwaddr
<1>6. CASE ConfigBandwidth BY <1>6 DEF ConfigBandwidth
<1>7. CASE ConfigWhiteBlackLists BY <1>7 DEF ConfigWhiteBlackLists
<1>8. CASE ConfigTargets BY <1>8 DEF ConfigTargets, Targets, Smaller
<1>9. CASE ConfigCores BY <1>9 DEF ConfigCores, Fit, DefaultSenders, AtLeastOne
<1>10. CASE ConfigSeed BY <1>10 DEF ConfigSeed
<1>11. CASE ConfigProbeModule BY <1>11 DEF ConfigProbeModule
<1>12. CASE ConfigOutputModule BY <1>12 DEF ConfigOutputModule
<1>13. CASE ConfigShards BY <1>13 DEF ConfigShards
<1>14. CASE ConfigShardTotal BY <1>14 DEF ConfigShardTotal
<1>15. CASE ConfigThreads BY <1>15 DEF ConfigThreads, Fit, DefaultSenders, AtLeastOne
<1> QED BY <1>1, <1>2, <1>3, <1>4, <1>5, <1>6, <1>7, <1>8, <1>9, <1>10, <1>11,
           <1>12, <1>13, <1>14, <1>15
        DEF BindingNext, ConfigHwaddr

-----------------------------------------------------------------------------
(* send_init, and the threads *)

\* The rate is an int, whatever the bandwidth.
LEMMA RateFits ==
  ASSUME ConfTypes
  PROVE  Rate(zconf) \in -(Word \div 2) .. (Word \div 2) - 1
<1> DEFINE half == Word \div 2
           pps  == zconf.bandwidth \div PacketBits
<1>1. half \in Nat /\ Word = half + half /\ half >= 1 BY ZConfAssumption
<1>2. pps \in Nat BY ZConfAssumption DEF ConfTypes
<1>3. zconf.rate \in -half .. half - 1 BY DEF ConfTypes
<1>4. \A r \in 0 .. Word - 1 : (IF r >= half THEN r - Word ELSE r) \in -half .. half - 1
      BY <1>1
<1>5. (IF pps >= Word THEN 0 ELSE IF pps = 0 THEN 1 ELSE pps) \in 0 .. Word - 1
      BY <1>1, <1>2
<1> HIDE DEF half, pps
<1>6. Rate(zconf) = IF zconf.bandwidth = 0 THEN zconf.rate
                    ELSE LET r == IF pps >= Word THEN 0 ELSE IF pps = 0 THEN 1 ELSE pps
                         IN IF r >= half THEN r - Word ELSE r
      BY DEF Rate, pps, half
<1>7. Rate(zconf) \in -half .. half - 1 BY <1>3, <1>4, <1>5, <1>6
<1> QED BY <1>7 DEF half

\* An address is two bytes, and Swap changes their places.
LEMMA SwapFacts ==
  /\ \A a \in Address : /\ (a \div Byte) \in 0 .. Byte - 1 /\ (a % Byte) \in 0 .. Byte - 1
                         /\ a = (a \div Byte) * Byte + (a % Byte)
                         /\ Swap(a) = (a % Byte) * Byte + (a \div Byte)
                         /\ Swap(a) \in Nat
  /\ \A high, low \in 0 .. Byte - 1 :
       /\ high * Byte + low \in Address
       /\ (high * Byte + low) \div Byte = high /\ (high * Byte + low) % Byte = low
<1> USE GatewayAssumption
<1>1. ASSUME NEW a \in Address
      PROVE  /\ (a \div Byte) \in 0 .. Byte - 1 /\ (a % Byte) \in 0 .. Byte - 1
             /\ a = (a \div Byte) * Byte + (a % Byte)
             /\ Swap(a) = (a % Byte) * Byte + (a \div Byte)
             /\ Swap(a) \in Nat
  <2> DEFINE x == a \div Byte
             h == a % Byte
  <2>1. a \in Nat /\ a < Byte * Byte BY DEF Address
  <2>2. x \in Nat /\ h \in 0 .. Byte - 1 /\ a = x * Byte + h BY <2>1
  <2> HIDE DEF x, h
  <2>3. x < Byte
    <3>1. SUFFICES ASSUME x >= Byte PROVE FALSE BY <2>2
    <3>2. x * Byte >= Byte * Byte BY <2>2, <3>1
    <3> QED BY <2>1, <2>2, <3>2
  <2>4. h * Byte + x \in Nat BY <2>2
  <2> QED BY <2>2, <2>3, <2>4 DEF Swap, x, h
<1>2. ASSUME NEW high \in 0 .. Byte - 1, NEW low \in 0 .. Byte - 1
      PROVE  /\ high * Byte + low \in Address
             /\ (high * Byte + low) \div Byte = high /\ (high * Byte + low) % Byte = low
  <2> DEFINE a == high * Byte + low
  <2>1. a \in Nat BY DEF a
  <2>2. high * Byte <= (Byte - 1) * Byte OBVIOUS
  <2>3. a < Byte * Byte BY <2>2
  <2>4. a \div Byte = high
    <3>1. (a \div Byte) \in Nat /\ (a \div Byte) * Byte <= a
          /\ a < (a \div Byte) * Byte + Byte
          BY <2>1
    <3> DEFINE q == a \div Byte
    <3> HIDE DEF q
    <3>2. q \in Nat /\ q * Byte <= a /\ a < q * Byte + Byte BY <3>1 DEF q
    <3>3. ~(q < high)
      <4>1. SUFFICES ASSUME q + 1 <= high PROVE FALSE BY <3>2
      <4>2. (q + 1) * Byte <= high * Byte BY <3>2, <4>1
      <4> QED BY <3>2, <4>2
    <3>4. ~(q > high)
      <4>1. SUFFICES ASSUME q >= high + 1 PROVE FALSE BY <3>2
      <4>2. q * Byte >= (high + 1) * Byte BY <3>2, <4>1
      <4> QED BY <3>2, <4>2
    <3> QED BY <3>2, <3>3, <3>4 DEF q
  <2>5. a % Byte = low BY <2>1, <2>4
  <2>6. 0 <= a /\ a <= Byte * Byte - 1 /\ Byte * Byte - 1 \in Int BY <2>1, <2>3
  <2>7. a \in Address BY <2>1, <2>6 DEF Address
  <2> QED BY <2>4, <2>5, <2>7
<1> QED BY <1>1, <1>2

LEMMA OffsetFits ==
  ASSUME NEW first \in Address, NEW last \in Address, NEW word \in Nat
  PROVE  srcip_offset(first, last, word) \in Nat
<1> DEFINE all == Byte * Byte
<1>1. all \in Nat \ {0} BY GatewayAssumption
<1>2. first \in 0 .. all - 1 /\ last \in 0 .. all - 1 BY DEF Address
<1> HIDE DEF all
<1>3. CASE first = last BY <1>3 DEF srcip_offset
<1>4. CASE first < last
  <2>1. (last - first) % all = last - first BY <1>1, <1>2, <1>4
  <2>2. last - first \in Nat \ {0} BY <1>2, <1>4
  <2>3. (word % (last - first)) \in Nat BY <2>2
  <2> QED BY <1>4, <2>1, <2>3 DEF srcip_offset, all
<1>5. CASE last < first
  <2>1. (last - first) % all = last - first + all BY <1>1, <1>2, <1>5
  <2>2. last - first + all \in Nat \ {0} BY <1>1, <1>2, <1>5
  <2>3. (word % (last - first + all)) \in Nat BY <2>2
  <2> QED BY <1>2, <1>5, <2>1, <2>3 DEF srcip_offset, all
<1> QED BY <1>2, <1>3, <1>4, <1>5

LEMMA OutputSane ==
  ASSUME LaunchInv, program' = program, NEW from, NEW to, InitOutput(from, to),
         \/ program = "zmap" /\ from = "init-output" /\ to = "init-send"
         \/ program = "node" /\ from = "init-output" /\ to = "start",
         UNCHANGED <<spawned, lost>>
  PROVE  LaunchInv'
<1> USE DEF LaunchInv, ConfTypes, MainFacts, SourceFacts, ThreadFacts, PastAddress,
            PastSendInit, Before, After, Launching, PastSenders, PastTargets, PastShards,
            PastFields, Running, Dropped, Joining, Ended,
            Configure, End, Step, settings
<1>1. \/ pc = from /\ pc' \in Ended
      \/ pc = from /\ pc' = to /\ zconf.output # NULL
      BY DEF InitOutput
<1>2. UNCHANGED <<zconf, targets, thrown>> BY DEF InitOutput
<1> QED BY <1>1, <1>2

LEMMA SendInitSane ==
  ASSUME LaunchInv, program' = program, NEW from, NEW to, SendInit(from, to),
         \/ program = "zmap" /\ from = "init-send" /\ to = "start"
         \/ program = "node" /\ from = "init-send" /\ to = "init-output",
         UNCHANGED <<spawned, lost>>
  PROVE  LaunchInv'
<1> DEFINE first == zconf.source_ip[1]
           last  == zconf.source_ip[2]
<1>1. pc \in PastAddress /\ pc = from
      BY DEF PastAddress, Launching, After, SendInit
<1>2. first \in Address /\ last \in Address BY <1>1 DEF LaunchInv, SourceFacts
<1>3. CASE pc' \in Ended /\ UNCHANGED <<zconf, targets, thrown>>
      BY <1>3 DEF LaunchInv, ConfTypes, MainFacts, SourceFacts, ThreadFacts, PastAddress,
            PastSendInit, Before, After, Launching, PastSenders, PastTargets, PastShards,
            PastFields, Running, Dropped, Joining, Ended
<1>4. ASSUME NEW word \in Words,
             Configure(from, to, [zconf EXCEPT !.srcip_offset = srcip_offset(first, last, word),
                                               !.rate = Rate(zconf)]),
             RangeGood(first, last)
      PROVE  LaunchInv'
  <2> DEFINE offset == srcip_offset(first, last, word)
             rate == Rate(zconf)
  <2>1. offset \in Nat BY <1>2, OffsetFits, ArgsAssumption
  <2>2. rate \in -(Word \div 2) .. (Word \div 2) - 1 BY RateFits DEF LaunchInv
  <2>3. zconf' = [zconf EXCEPT !.srcip_offset = offset, !.rate = rate]
        /\ pc' = to /\ UNCHANGED <<targets, thrown>>
        BY <1>4 DEF Configure, Step
  <2> HIDE DEF offset, rate
  <2>4. ConfTypes' BY <2>1, <2>2, <2>3 DEF LaunchInv, ConfTypes
  <2>5. SourceFacts'
        BY <1>1, <1>2, <1>4, <2>1, <2>3
        DEF LaunchInv, ConfTypes, SourceFacts, PastAddress, PastSendInit, RangeGood,
            After, Before, Launching
  <2>6. program = "zmap" => MainFacts'
        BY <1>1, <2>3 DEF LaunchInv, ConfTypes, MainFacts, PastSenders, PastTargets, PastShards,
            PastFields, Running, Dropped, Joining, Ended, Launching, aesrand_init
  <2>7. ThreadFacts'
        BY <1>1, <2>3 DEF LaunchInv, ThreadFacts, Running, Dropped, Joining
  <2> QED BY <2>4, <2>5, <2>6, <2>7 DEF LaunchInv
<1>5. Swap(first) \in Nat /\ Swap(last) \in Nat
      BY <1>2, SwapFacts
<1>6. \/ \E how \in Ended : End(from, how)
      \/ /\ ~(first # last /\ (first = 0 \/ Swap(last) <= Swap(first)))
         /\ \E word \in Words :
               Configure(from, to,
                 [zconf EXCEPT !.srcip_offset = srcip_offset(first, last, word),
                               !.rate = Rate(zconf)])
      BY DEF SendInit, Ended
<1>7. CASE \E how \in Ended : End(from, how)
      BY <1>3, <1>7 DEF End, Step, settings
<1>8. (first # last /\ (first = 0 \/ Swap(last) <= Swap(first))) \/ RangeGood(first, last)
      BY <1>5 DEF RangeGood
<1> QED BY <1>4, <1>6, <1>7, <1>8

\* From the start of the threads on, nothing of the configuration changes.
LEMMA RunSane ==
  ASSUME LaunchInv, UNCHANGED <<zconf, targets, program>>,
         \/ pc' \in Running \cup Ended \/ pc' = pc
         \/ pc' = "idle" /\ program = "node",
         ThreadFacts'
  PROVE  LaunchInv'
<1>1. ConfTypes' BY DEF LaunchInv, ConfTypes
<1>2. SourceFacts'
  <2>1. CASE pc' = pc
        BY <2>1 DEF LaunchInv, SourceFacts, PastAddress, PastSendInit, Before, After
  <2>2. CASE pc' # pc
        BY <2>2 DEF LaunchInv, SourceFacts, PastAddress, PastSendInit, Before, After,
           Running, Dropped, Joining, Ended, Launching
  <2> QED BY <2>1, <2>2
<1>3. program = "zmap" => MainFacts'
  <2>1. CASE pc' = pc
        BY <2>1 DEF LaunchInv, MainFacts, aesrand_init
  <2>2. CASE pc' # pc
        BY <2>2 DEF LaunchInv, MainFacts, PastShards, PastTargets, PastSenders,
           PastFields, Launching, Running, Dropped, Joining, Ended
  <2> QED BY <2>1, <2>2
<1> QED BY <1>1, <1>2, <1>3 DEF LaunchInv

LEMMA MainSane ==
  ASSUME SessionInv, LaunchInv, UNCHANGED program, MainThread
  PROVE  LaunchInv'
<1> USE DEF Step, End, Throw, Fail, settings, threads, workers
<1>0. /\ spawned \in Nat /\ lost \in Nat
      /\ spawned + lost <= ByteWord /\ program \in {"zmap", "node"}
      /\ (thrown => program = "node") /\ (program = "zmap" /\ pc \in Running => lost = 0)
      /\ ByteWord \in Nat \ {0, 1} /\ zconf.senders \in 0 .. ByteWord - 1
      BY ZConfAssumption DEF SessionInv, WorkerFacts, LaunchInv, ThreadFacts, ConfTypes
<1>1. UNCHANGED <<zconf, targets>>
      BY DEF MainThread, StartReceiver, WaitReady, SpawnSender, Spawned, JoinSenders,
             JoinReceiver, drop_privs, Close
<1>2. \/ pc' \in Running \cup Ended \/ pc' = pc
      \/ pc' = "idle" /\ program = "node"
      BY <1>0 DEF MainThread, StartReceiver, WaitReady, SpawnSender, Spawned, JoinSenders,
         JoinReceiver, drop_privs, Close, Running, Dropped, Joining, Ended
<1>3. CASE StartReceiver
  <2>1. pc \in After /\ pc = "start" BY <1>3 DEF StartReceiver, After
  <2>2. lost = 0 BY <2>1 DEF SessionInv, Fresh
  <2>3. ThreadFacts'
        BY <1>0, <1>3, <2>2 DEF StartReceiver, NoWorkers, ThreadFacts, Running, Dropped, Joining, Ended
  <2> QED BY <1>1, <1>2, <2>3, RunSane
<1>4. CASE SpawnSender
  <2>1. pc \in Running BY <1>4 DEF SpawnSender, Spawning, Running
  <2>2. ThreadFacts'
        BY <1>0, <1>4, <2>1
        DEF SpawnSender, Spawning, ThreadFacts, Running, Dropped, Joining, Ended
  <2> QED BY <1>1, <1>2, <2>2, RunSane
<1>5. CASE WaitReady \/ Spawned \/ JoinSenders \/ JoinReceiver \/ drop_privs \/ Close
  <2>1. pc \in Running /\ UNCHANGED <<spawned, lost>>
        BY <1>5 DEF WaitReady, Spawned, JoinSenders, JoinReceiver, drop_privs, Close,
           Running, Dropped, Joining
  <2>2. thrown' => program = "node"
    <3>1. CASE drop_privs BY <1>0, <3>1 DEF drop_privs
    <3>2. CASE JoinSenders
      <4>1. program = "zmap" => ~(lost > 0) BY <1>0, <2>1
      <4> QED BY <1>0, <3>2, <4>1 DEF JoinSenders
    <3> QED BY <1>0, <1>5, <3>1, <3>2 DEF WaitReady, Spawned, JoinReceiver, Close
  <2> QED BY <1>0, <1>1, <1>2, <2>1, <2>2, RunSane DEF ThreadFacts
<1> QED BY <1>3, <1>4, <1>5 DEF MainThread

LEMMA OtherSane ==
  ASSUME SessionInv, LaunchInv, Thread(OtherThreads)
  PROVE  LaunchInv'
<1>1. /\ UNCHANGED <<program, zconf, targets, thrown, spawned, lost>>
      /\ pc' = pc \/ pc' \in Ended
      BY DEF Thread, OtherThreads, RecvOpen, RecvEnd, RecvEnough, Leave, SenderInit,
         SenderInitFail, SenderEnd, settings, workers, flags, Ended
<1>2. ThreadFacts'
      BY <1>1 DEF LaunchInv, ThreadFacts, Running, Dropped, Joining, Ended
<1> QED BY <1>1, <1>2, RunSane

LEMMA LaunchInit == Init => LaunchInv
<1> SUFFICES ASSUME Init PROVE LaunchInv OBVIOUS
<1> USE ZConfAssumption, ArgsAssumption DEF Init
<1>1. ConfTypes
  <2>1. (PortWord \div 2) \in 0 .. PortWord - 1 /\ PortWord - 1 \in 0 .. PortWord - 1
        OBVIOUS
  <2>2. 0 \in -(Word \div 2) .. (Word \div 2) - 1 OBVIOUS
  <2> QED BY <2>1, <2>2 DEF ConfTypes, Defaults
<1>2. SourceFacts
      BY DEF SourceFacts, Defaults, PastAddress, PastSendInit, Before, After, Launching
<1>3. ThreadFacts BY DEF ThreadFacts, Running, Dropped, Joining
<1>4. program = "zmap" => MainFacts
      BY DEF MainFacts, Defaults, PastFields, PastShards, PastTargets, PastSenders,
         Launching
<1> QED BY <1>1, <1>2, <1>3, <1>4 DEF LaunchInv

LEMMA LaunchStep == SessionInv /\ LaunchInv /\ [Next]_vars => LaunchInv'
<1> SUFFICES ASSUME SessionInv, LaunchInv, [Next]_vars PROVE LaunchInv' OBVIOUS
<1>1. CASE Configuring /\ UNCHANGED program
  <2>1. UNCHANGED <<spawned, lost>> BY <1>1 DEF Configuring, threads, workers
  <2>2. CASE InitModules
        BY <1>1, <2>1, <2>2, OutputSane, SendInitSane DEF InitModules
  <2> QED BY <1>1, <2>1, <2>2, CommandLineSane, BindingSane DEF Configuring
<1>2. CASE MainThread /\ UNCHANGED program BY <1>2, MainSane
<1>3. CASE Thread(OtherThreads) BY <1>3, OtherSane
<1>4. CASE UNCHANGED vars
      BY <1>4, RunSane DEF vars, settings, threads, workers, LaunchInv, ThreadFacts
<1> QED BY <1>1, <1>2, <1>3, <1>4 DEF Next, Main

LEMMA LaunchInvariance == Spec => [](SessionInv /\ LaunchInv)
BY SessionInit, SessionStep, LaunchInit, LaunchStep, PTL DEF Spec

\* Whatever the options and whatever the host answers, zconf holds numbers of
\* their widths, and main of zmap starts its threads with a window of ports, a
\* shard among the shards, no more threads than targets and targets than asked
\* for, the key of the seed, an output module and the field `success'.
THEOREM LaunchIsSane == Spec => []LaunchSane
<1>1. ASSUME SessionInv, LaunchInv PROVE LaunchSane
  <2>1. SessionTypeOK
        BY <1>1 DEF SessionInv, WorkerFacts, LaunchInv, SessionTypeOK, ConfTypes, ThreadFacts
  <2>2. ASSUME pc = "start", program = "zmap"
        PROVE  /\ zconf.ports[1] <= zconf.ports[2]
               /\ zconf.shard_num < zconf.total_shards
               /\ zconf.senders <= AtLeastOne(targets) /\ targets <= zconf.max_targets
               /\ zconf.output # NULL /\ zconf.success = "success"
               /\ zconf.rng = aesrand_init(zconf)
        BY <1>1, <2>2 DEF LaunchInv, MainFacts, PastFields, PastShards, PastTargets,
           PastSenders, Launching
  <2>3. zconf.seed # NULL /\ zconf.seed < Word - 1 /\ zconf.rng = aesrand_init(zconf)
          => zconf.rng = zconf.seed + 1
        BY <1>1, ZConfAssumption DEF LaunchInv, ConfTypes, aesrand_init
  <2> QED BY <2>1, <2>2, <2>3 DEF LaunchSane
<1> QED BY <1>1, LaunchInvariance, PTL

-----------------------------------------------------------------------------
(* The reports of the threads *)

\* zsend.complete is up only when as many threads have reported as zconf asks
\* for, so that none of them was lost or failed; and a script's receiver has no
\* other reason to leave.
ReportInv ==
  /\ recv_ready => receiver # "absent"
  /\ receiver = "absent" => spawned = 0
  /\ pc \in Running /\ receiver # "absent" => spawned + lost <= zconf.senders
  /\ pc \in Running /\ complete => finished = zconf.senders /\ finished > 0
  /\ program = "node" /\ receiver = "done" => complete
  /\ pc \in Joining => AllReturned
  /\ ClosedLast

\* What a step that touches neither threads nor flags keeps.
LEMMA IdleReports ==
  ASSUME SessionInv, ReportInv,
         UNCHANGED <<program, threads, recv_ready, complete, closed>>,
         \/ pc' \notin Running
         \/ pc' \in Running /\ pc \in Running /\ zconf' = zconf /\ pc' # "close"
            /\ (pc' \in Joining => AllReturned)
  PROVE  ReportInv'
<1>1. UNCHANGED <<receiver, spawned, sending, finished, failed, lost>>
      BY DEF threads, workers
<1>2. AllReturned' <=> AllReturned BY <1>1 DEF AllReturned
<1>3. pc' # "close" /\ (pc' \notin Running => pc' \notin Joining)
      BY DEF Running, Dropped, Joining
<1>4. ClosedLast' BY <1>1, <1>2, <1>3 DEF ReportInv, ClosedLast
<1> QED BY <1>1, <1>2, <1>3, <1>4 DEF ReportInv

LEMMA StartReports ==
  ASSUME SessionInv, LaunchInv, ReportInv, StartReceiver,
         UNCHANGED <<flags, closed, program>>
  PROVE  ReportInv'
<1>1. pc = "start" BY DEF StartReceiver, Fail, End, Throw, Step
<1>2. pc \in After BY <1>1 DEF After
<1>3. Fresh BY <1>2 DEF SessionInv
<1>4. /\ pc' \in {"wait"} \cup Stopped /\ receiver' \in {"opening", "absent"}
      /\ spawned' = 0 /\ (receiver' # "absent" => lost' = lost)
      /\ zconf' = zconf
      BY <1>3 DEF StartReceiver, NoWorkers, Fail, End, Throw, Step, settings, Stopped, Ended,
                  Fresh
<1>5. ~recv_ready' /\ ~complete' /\ closed' = <<>> BY <1>3 DEF Fresh, flags
<1>6. spawned' + lost' <= zconf'.senders \/ receiver' = "absent"
  <2>1. lost = 0 /\ zconf.senders \in Nat
        BY <1>3, ZConfAssumption DEF Fresh, LaunchInv, ConfTypes
  <2> QED BY <1>4, <2>1
<1>7. pc' \notin Joining /\ pc' # "close" BY <1>4 DEF Joining, Stopped, Ended
<1>8. ClosedLast' BY <1>5, <1>7 DEF ClosedLast
<1> QED BY <1>4, <1>5, <1>6, <1>7, <1>8 DEF ReportInv

LEMMA SpawnReports ==
  ASSUME SessionInv, LaunchInv, ReportInv, SpawnSender,
         UNCHANGED <<flags, closed, program>>
  PROVE  ReportInv'
<1>1. pc = "spawn" /\ spawned + lost < zconf.senders BY DEF SpawnSender, Spawning
<1>2. /\ pc' \in {"spawn"} \cup Ended /\ zconf' = zconf
      /\ UNCHANGED <<receiver, sending, finished, failed>>
      /\ \/ lost' = lost /\ spawned' \in {spawned, spawned + 1}
         \/ lost' = lost + 1 /\ spawned' = spawned
      BY <1>1 DEF SpawnSender, Allowed, Fail, End, Throw, Step, settings, threads, workers,
                  Ended
<1>3. UNCHANGED <<recv_ready, complete, closed, program>> BY DEF flags
<1>4. spawned' + lost' <= zconf'.senders
  <2>1. spawned \in Nat /\ lost \in Nat /\ zconf.senders \in Nat
        BY ZConfAssumption DEF SessionInv, WorkerFacts, LaunchInv, ConfTypes
  <2> QED BY <1>1, <1>2, <2>1
<1>5. pc' \notin Joining /\ pc' # "close" /\ pc \in Running /\ closed = <<>>
      BY <1>1, <1>2 DEF SessionInv, Running, Dropped, Joining, Ended
<1>6. ClosedLast' BY <1>3, <1>5 DEF ClosedLast
<1>7. receiver # "absent" BY <1>1 DEF SessionInv, ReportInv, Running, Dropped, Joining
<1> QED BY <1>2, <1>3, <1>4, <1>5, <1>6, <1>7 DEF ReportInv

\* When the receiver of a script is back, the scan is complete.
LEMMA JoinReports ==
  ASSUME SessionInv, LaunchInv, ReportInv, JoinReceiver,
         UNCHANGED <<flags, closed, program>>
  PROVE  ReportInv'
<1>1. /\ pc = "join-recv" /\ pc' = "close" /\ receiver = "done" /\ zconf' = zconf
      /\ UNCHANGED <<receiver, spawned, sending, finished, failed, lost>>
      BY DEF JoinReceiver, Step, settings, threads, workers
<1>2. UNCHANGED <<recv_ready, complete, closed, program>> BY DEF flags
<1>3. pc \in Running /\ pc \in Joining BY <1>1 DEF Running, Dropped, Joining
<1>4. AllReturned /\ spawned + lost <= zconf.senders /\ closed = <<>>
      /\ (complete => finished = zconf.senders /\ finished > 0)
      BY <1>1, <1>3 DEF ReportInv, SessionInv
<1>5. /\ spawned \in Nat /\ sending \in Nat /\ finished \in Nat /\ failed \in {0, 1}
      /\ lost \in Nat /\ zconf.senders \in Nat /\ sending + finished + failed <= spawned
      BY ZConfAssumption DEF SessionInv, WorkerFacts, LaunchInv, ConfTypes
<1>6. sending = 0 BY <1>4, <1>5 DEF AllReturned
<1>7. lost = 0
  <2>1. CASE program = "zmap" BY <1>3, <2>1 DEF LaunchInv, ThreadFacts
  <2>2. CASE program = "node"
    <3>1. complete BY <1>1, <2>2 DEF ReportInv
    <3> QED BY <1>4, <1>5, <3>1
  <2> QED BY <2>1, <2>2 DEF SessionInv
<1>8. program = "node" => complete BY <1>1 DEF ReportInv
<1>9. AllReturned' BY <1>1, <1>4 DEF AllReturned
<1>10. ClosedLast' BY <1>1, <1>2, <1>4, <1>6, <1>7, <1>8, <1>9 DEF ClosedLast
<1> QED BY <1>1, <1>2, <1>3, <1>4, <1>9, <1>10 DEF ReportInv

LEMMA CloseReports ==
  ASSUME SessionInv, ReportInv, Close, UNCHANGED <<flags, program>>
  PROVE  ReportInv'
<1>1. /\ pc = "close" /\ pc' = IF program = "zmap" THEN "over" ELSE "idle"
      /\ UNCHANGED <<receiver, spawned, sending, finished, failed, lost, recv_ready,
                     complete, program>>
      BY DEF Close, Step, settings, threads, workers, flags
<1>2. closed = <<>> /\ closed' = closed \o <<"output", "probe">>
      BY <1>1 DEF Close, SessionInv, Running, Dropped, Joining
<1>3. closed' = <<"output", "probe">> BY <1>2
<1>4. AllReturned' <=> AllReturned BY <1>1 DEF AllReturned
<1>5. pc' \notin Running /\ pc' \notin Joining /\ pc' # "close"
      BY <1>1 DEF Running, Dropped, Joining
<1>6. ClosedLast' BY <1>1, <1>3, <1>4, <1>5 DEF ReportInv, ClosedLast
<1> QED BY <1>1, <1>5, <1>6 DEF ReportInv

\* After the last thread has returned, there is none that could still act.
LEMMA SenderReports ==
  ASSUME SessionInv, LaunchInv, ReportInv,
         Thread(SenderInit \/ SenderInitFail \/ SenderEnd)
  PROVE  ReportInv'
<1>1. /\ UNCHANGED <<program, pc, zconf, closed, receiver, spawned, lost, recv_ready>>
      /\ \/ failed = 0 /\ sending + finished < spawned
            /\ UNCHANGED <<finished, complete>>
         \/ /\ sending > 0 /\ finished' = finished + 1
            /\ complete' = (complete \/ finished + 1 = zconf.senders)
      BY DEF Thread, SenderInit, SenderInitFail, SenderEnd, settings, workers, flags
<1>2. /\ spawned \in Nat /\ sending \in Nat /\ finished \in Nat /\ failed \in {0, 1}
      /\ lost \in Nat /\ zconf.senders \in Nat /\ sending + finished + failed <= spawned
      BY ZConfAssumption DEF SessionInv, WorkerFacts, LaunchInv, ConfTypes
<1>3. ~AllReturned BY <1>1, <1>2 DEF AllReturned
<1>4. pc \notin Joining /\ closed = <<>> BY <1>3 DEF ReportInv, ClosedLast, SessionInv
<1>5. ASSUME pc \in Running, complete'
      PROVE  finished' = zconf.senders /\ finished' > 0
  <2>1. sending + finished < spawned \/ sending > 0  BY <1>1
  <2>2. spawned # 0 BY <1>2, <2>1
  <2>3. spawned + lost <= zconf.senders BY <1>5, <2>2 DEF ReportInv
  <2>4. finished < zconf.senders BY <1>2, <2>1, <2>3
  <2>5. complete => finished = zconf.senders BY <1>5 DEF ReportInv
  <2>6. ~complete BY <1>2, <2>4, <2>5
  <2>7. CASE complete' = complete BY <1>5, <2>6, <2>7
  <2>8. CASE finished' = finished + 1 /\ complete' = (complete \/ finished + 1 = zconf.senders)
    <3>1. finished + 1 = zconf.senders BY <1>5, <2>6, <2>8
    <3> QED BY <1>2, <2>8, <3>1
  <2> QED BY <1>1, <2>7, <2>8
<1>6. complete => complete' BY <1>1
<1>7. ClosedLast' BY <1>1, <1>4 DEF ClosedLast, Joining
<1> QED BY <1>1, <1>4, <1>5, <1>6, <1>7 DEF ReportInv

LEMMA ReceiverReports ==
  ASSUME SessionInv, ReportInv, Thread(RecvOpen \/ RecvEnd \/ RecvEnough)
  PROVE  ReportInv'
<1>1. /\ UNCHANGED <<program, zconf, closed, spawned, sending, finished, failed, lost,
                     complete>>
      /\ receiver \in {"opening", "ready"} /\ receiver' \in {"opening", "ready", "done"}
      /\ pc' = pc \/ pc' \in Ended
      /\ receiver' = "done" => complete \/ program = "zmap"
      BY DEF Thread, RecvOpen, RecvEnd, RecvEnough, Leave, settings, workers, flags, Ended
<1>2. pc' \in Running => pc' = pc BY <1>1 DEF Running, Dropped, Joining, Ended
<1>3. pc # "close" /\ closed = <<>>
      BY <1>1 DEF SessionInv, ReportInv, ClosedLast
<1>4. pc' # "close" BY <1>1, <1>3 DEF Ended
<1>5. AllReturned' <=> AllReturned BY <1>1 DEF AllReturned
<1>6. pc' \in Joining => pc \in Joining BY <1>1 DEF Joining, Ended
<1>7. ClosedLast' BY <1>1, <1>3, <1>4 DEF ClosedLast
<1> QED BY <1>1, <1>2, <1>5, <1>6, <1>7 DEF ReportInv

LEMMA ReportStep == SessionInv /\ LaunchInv /\ ReportInv /\ [Next]_vars => ReportInv'
<1> SUFFICES ASSUME SessionInv, LaunchInv, ReportInv, [Next]_vars PROVE ReportInv'
    OBVIOUS
<1>1. CASE Configuring /\ UNCHANGED program
  <2>1. ConfigStep
        BY <1>1, CommandLineGoes, BindingGoes, ModulesGo DEF Configuring, SessionInv
  <2>2. pc' \notin Running
        BY <2>1 DEF ConfigStep, Before, After, Running, Dropped, Joining, Stopped, Ended
  <2>3. UNCHANGED <<threads, recv_ready, complete, closed>>
        BY <1>1 DEF Configuring, flags
  <2> QED BY <1>1, <2>2, <2>3, IdleReports
<1>2. CASE /\ WaitReady \/ Spawned \/ JoinSenders
           /\ UNCHANGED <<flags, closed, program>>
  <2>1. UNCHANGED <<threads, recv_ready, complete, closed, program, zconf>>
        BY <1>2 DEF WaitReady, Spawned, JoinSenders, flags, settings, Step, End, Throw
  <2>2. \/ pc' = "crashed"
        \/ pc \in Running /\ pc' \in {"spawn", "drop"}
        \/ pc \in Running /\ pc' = "join-recv" /\ AllReturned
        BY <1>2 DEF WaitReady, Spawned, JoinSenders, Step, End, Throw, Running, Dropped
  <2> QED BY <2>1, <2>2, IdleReports DEF Running, Dropped, Joining
<1>3. CASE drop_privs /\ UNCHANGED <<user, recv_ready, complete, closed, program>>
  <2>1. UNCHANGED <<threads, zconf>> /\ pc \in Running /\ pc' \in {"join-send"} \cup Stopped
        BY <1>3 DEF drop_privs, Fail, End, Throw, Step, settings, Stopped, Ended, Running,
                    Dropped
  <2> QED BY <1>3, <2>1, IdleReports DEF Running, Dropped, Joining, Stopped, Ended
<1>4. CASE UNCHANGED vars
  <2>1. UNCHANGED <<pc, zconf, threads, recv_ready, complete, closed, program>>
        BY <1>4 DEF vars, settings
  <2>2. UNCHANGED <<receiver, spawned, sending, finished, failed, lost>>
        BY <2>1 DEF threads, workers
  <2>3. AllReturned' <=> AllReturned BY <2>2 DEF AllReturned
  <2>4. ClosedLast' BY <2>1, <2>2, <2>3 DEF ReportInv, ClosedLast
  <2> QED BY <2>1, <2>2, <2>3, <2>4 DEF ReportInv
<1>5. CASE StartReceiver /\ UNCHANGED <<flags, closed, program>> BY <1>5, StartReports
<1>6. CASE SpawnSender /\ UNCHANGED <<flags, closed, program>> BY <1>6, SpawnReports
<1>7. CASE JoinReceiver /\ UNCHANGED <<flags, closed, program>> BY <1>7, JoinReports
<1>8. CASE Close /\ UNCHANGED <<flags, program>> BY <1>8, CloseReports
<1>9. CASE Thread(OtherThreads)
  <2>1. \/ Thread(RecvOpen \/ RecvEnd \/ RecvEnough)
        \/ Thread(SenderInit \/ SenderInitFail \/ SenderEnd)
        BY <1>9 DEF Thread, OtherThreads
  <2> QED BY <2>1, ReceiverReports, SenderReports
<1> QED BY <1>1, <1>2, <1>3, <1>4, <1>5, <1>6, <1>7, <1>8, <1>9
        DEF Next, Main, MainThread

LEMMA ReportInit == Init => ReportInv
BY DEF Init, ReportInv, ClosedLast, Running, Dropped, Joining

\* Whatever the number of calls, a scan finds the flags down; and its modules are
\* closed when its threads are done, in a script when every thread that was asked
\* for has reported, whichever could not be created or failed at its start.
THEOREM SessionsApart == Spec => []ScansApart
<1>1. SessionInv /\ ReportInv => ScansApart
  <2>1. "start" \in After BY DEF After
  <2> QED BY <2>1 DEF SessionInv, Fresh, ReportInv, ScansApart, FreshLaunch
<1> QED BY LaunchInvariance, ReportInit, ReportStep, <1>1, PTL DEF Spec

-----------------------------------------------------------------------------
(* The source addresses *)

LEMMA RangeKept ==
  ASSUME NEW first \in Address, NEW last \in Address, NEW offset \in Nat,
         NEW dst \in Address, NEW stream \in {0, 1},
         RangeGood(first, last), Swap(first) \div Byte = Swap(last) \div Byte
  PROVE  Swap(get_src_ip(first, last, offset, dst, stream)) \in Swap(first) .. Swap(last)
<1> USE GatewayAssumption
<1>1. CASE first = last
  <2>1. Swap(first) \in Nat BY SwapFacts
  <2> QED BY <1>1, <2>1 DEF get_src_ip
<1>2. CASE first # last
  <2> DEFINE x == first \div Byte
             y == last \div Byte
             h == first % Byte
             turn == (Swap(dst) + offset + stream) % (Byte * Byte)
             num == y - x + 1
             k == turn % num
  <2>1. /\ x \in 0 .. Byte - 1 /\ h \in 0 .. Byte - 1
        /\ first = x * Byte + h /\ Swap(first) = h * Byte + x
        BY SwapFacts
  <2>2. /\ y \in 0 .. Byte - 1 /\ (last % Byte) \in 0 .. Byte - 1
        /\ Swap(last) = (last % Byte) * Byte + y
        BY SwapFacts
  <2>3. Swap(first) \div Byte = h /\ Swap(last) \div Byte = last % Byte
        BY <2>1, <2>2, SwapFacts
  <2>4. last % Byte = h BY <2>3
  <2>5. Swap(last) = h * Byte + y BY <2>2, <2>4
  <2> HIDE DEF x, y, h
  <2>6. x < y
    <3>1. Swap(last) > Swap(first) BY <1>2 DEF RangeGood
    <3> QED BY <2>1, <2>2, <2>5, <3>1
  <2>7. num_src_addrs(first, last) = num
    <3> DEFINE hb == h * Byte
    <3>1. hb \in Nat /\ Swap(first) = hb + x /\ Swap(last) = hb + y
          BY <2>1, <2>5
    <3> HIDE DEF hb
    <3> QED BY <2>1, <2>2, <3>1 DEF num_src_addrs
  <2>8. num \in 1 .. Byte BY <2>1, <2>2, <2>6
  <2>9. turn \in Nat
    <3>1. Byte * Byte \in Nat \ {0} OBVIOUS
    <3>2. Swap(dst) \in Nat BY SwapFacts
    <3>3. Swap(dst) + offset + stream \in Nat BY <3>2
    <3> HIDE DEF Swap
    <3> QED BY <3>1, <3>3
  <2> HIDE DEF turn, num
  <2>10. k \in 0 .. num - 1 BY <2>8, <2>9
  <2> HIDE DEF k
  <2>11. k \in 0 .. Byte - 1 /\ x + k \in 0 .. Byte - 1 /\ x + k <= y
         BY <2>1, <2>2, <2>6, <2>8, <2>10 DEF num
  <2>12. Swap(k) = k * Byte
    <3>1. k \div Byte = 0 /\ k % Byte = k BY <2>11
    <3> QED BY <2>11, <3>1 DEF Swap
  <2>13. Swap(k) + first = (x + k) * Byte + h BY <2>1, <2>11, <2>12
  <2>14. (x + k) * Byte + h \in Address
         /\ ((x + k) * Byte + h) \div Byte = x + k /\ ((x + k) * Byte + h) % Byte = h
         BY <2>1, <2>11, SwapFacts
  <2> DEFINE a == (x + k) * Byte + h
  <2>15. Swap(a) = h * Byte + (x + k) BY <2>14, SwapFacts
  <2>16. a % (Byte * Byte) = a
    <3>1. a \in 0 .. Byte * Byte - 1 /\ Byte * Byte \in Nat \ {0} BY <2>14 DEF Address
    <3> HIDE DEF a
    <3> QED BY <3>1
  <2>17. get_src_ip(first, last, offset, dst, stream) = a
         BY <1>2, <2>7, <2>13, <2>16 DEF get_src_ip, turn, k
  <2>18. h * Byte \in Nat BY <2>1
  <2>19. h * Byte + (x + k) \in h * Byte + x .. h * Byte + y
         BY <2>1, <2>2, <2>11, <2>18
  <2> QED BY <2>1, <2>5, <2>15, <2>17, <2>19
<1> QED BY <1>1, <1>2

\* In a range of source addresses within one last byte, every probe of a scan
\* leaves from an address of the range, whatever its destination and stream:
\* a range that comes this far is in order, and the offset is a number
\* (send_init, get_src_ip).
THEOREM SourceStaysInRange == Spec => []SourceInRange
<1>1. ASSUME SessionInv, LaunchInv PROVE SourceInRange
  <2>1. SUFFICES ASSUME pc = "start",
                        Swap(zconf.source_ip[1]) \div Byte = Swap(zconf.source_ip[2]) \div Byte,
                        NEW dst \in Address, NEW stream \in {0, 1}
                 PROVE  Swap(get_src_ip(zconf.source_ip[1], zconf.source_ip[2],
                                        zconf.srcip_offset, dst, stream))
                          \in Swap(zconf.source_ip[1]) .. Swap(zconf.source_ip[2])
        BY DEF SourceInRange
  <2>2. pc \in PastSendInit /\ pc \in PastAddress
        BY <2>1 DEF PastSendInit, PastAddress, After, Launching
  <2>3. /\ zconf.source_ip[1] \in Address /\ zconf.source_ip[2] \in Address
        /\ zconf.srcip_offset \in Nat
        /\ RangeGood(zconf.source_ip[1], zconf.source_ip[2])
        BY <1>1, <2>2 DEF LaunchInv, SourceFacts
  <2> QED BY <2>1, <2>3, RangeKept
<1> QED BY <1>1, LaunchInvariance, PTL

-----------------------------------------------------------------------------
(* Folds over sequences, as the community modules define them *)

\* h gives, for each set of places of s, the fold of f over them in their order.
Folds(h, r, f, s) ==
  /\ h[{}] = r
  /\ \A T \in (SUBSET DOMAIN s) \ {{}} : h[T] = f[<<h[T \ {Max(T)}], s[Max(T)]>>]

LEMMA MaxIsIn == ASSUME NEW n \in Nat, NEW T \in (SUBSET (1 .. n)) \ {{}}
                 PROVE  Max(T) \in T /\ \A x \in T : Max(T) >= x
<1> DEFINE B == {n - x : x \in T}
<1>1. B \subseteq Nat /\ B # {} OBVIOUS
<1>2. PICK b \in B : \A m \in B : b <= m
  <2> HIDE DEF B
  <2> QED BY <1>1, LeastNumber
<1>3. PICK x \in T : b = n - x BY <1>2
<1>4. \A y \in T : x >= y
  <2> SUFFICES ASSUME NEW y \in T PROVE x >= y OBVIOUS
  <2>1. n - y \in B OBVIOUS
  <2>2. n - x <= n - y BY <1>2, <1>3, <2>1
  <2>3. x \in 1 .. n /\ y \in 1 .. n BY <1>3
  <2> QED BY <2>2, <2>3
<1> QED BY <1>3, <1>4 DEF Max

LEMMA SequenceFold ==
  ASSUME NEW M, NEW s \in Seq(M), NEW R, NEW r \in R, NEW f \in [R \X M -> R]
  PROVE  \E h \in [SUBSET DOMAIN s -> R] : Folds(h, r, f, s)
<1> DEFINE n == Len(s)
           c == [T \in SUBSET (1 .. n) |-> Max(T)]
           g == [x \in (1 .. n) \X R |-> f[<<x[2], s[x[1]]>>]]
<1>1. n \in Nat /\ DOMAIN s = 1 .. n /\ \A i \in 1 .. n : s[i] \in M OBVIOUS
<1>2. IsFiniteSet(1 .. n) BY <1>1, FS_Interval
<1>3. g \in [(1 .. n) \X R -> R] BY <1>1
<1>4. \A T \in (SUBSET (1 .. n)) \ {{}} : c[T] \in T BY <1>1, MaxIsIn
<1>5. PICK h \in [SUBSET (1 .. n) -> R] : Gathers(h, r, g, c, 1 .. n)
  <2> HIDE DEF c, g, n
  <2> QED BY <1>2, <1>3, <1>4, SetRecursion
<1>6. ASSUME NEW T \in (SUBSET (1 .. n)) \ {{}}
      PROVE  h[T] = f[<<h[T \ {Max(T)}], s[Max(T)]>>]
  <2>1. h[T] = g[<<c[T], h[T \ {c[T]}]>>] BY <1>5 DEF Gathers
  <2>2. c[T] = Max(T) /\ Max(T) \in 1 .. n BY <1>4
  <2>3. T \ {Max(T)} \in SUBSET (1 .. n) OBVIOUS
  <2>4. <<Max(T), h[T \ {Max(T)}]>> \in (1 .. n) \X R BY <2>2, <2>3
  <2> HIDE DEF c
  <2> QED BY <2>1, <2>2, <2>4
<1>7. h[{}] = r BY <1>5 DEF Gathers
<1> HIDE DEF n
<1>8. Folds(h, r, f, s) BY <1>1, <1>6, <1>7 DEF Folds
<1> QED BY <1>1, <1>8

LEMMA MaxOfPrefix ==
  ASSUME NEW k \in Nat
  PROVE  Max(1 .. k + 1) = k + 1 /\ (1 .. k + 1) \ {k + 1} = 1 .. k
<1>1. k + 1 \in 1 .. k + 1 /\ k + 1 \in Nat OBVIOUS
<1>2. 1 .. k + 1 \in (SUBSET (1 .. k + 1)) \ {{}} BY <1>1
<1>3. Max(1 .. k + 1) \in 1 .. k + 1 /\ Max(1 .. k + 1) >= k + 1
      BY <1>1, <1>2, MaxIsIn
<1>4. Max(1 .. k + 1) = k + 1 BY <1>3
<1>5. (1 .. k + 1) \ {k + 1} = 1 .. k OBVIOUS
<1> QED BY <1>4, <1>5

-----------------------------------------------------------------------------
(* Answers of the kernel *)

\* Whatever is concatenated, the whole is a sequence.
LEMMA FlattenType ==
  ASSUME NEW M, NEW n \in Nat, NEW seqs \in [1 .. n -> Seq(M)]
  PROVE  FlattenSeq(seqs) \in Seq(M)
<1> DEFINE D(g) == [i \in 1 .. n |-> IF i = 1 THEN seqs[i] ELSE g[i - 1] \o seqs[i]]
           flatten == CHOOSE g : g = D(g)
<1>1. Len(seqs) = n /\ seqs \in Seq(Seq(M)) OBVIOUS
<1>2. CASE n = 0
  <2>1. FlattenSeq(seqs) = seqs BY <1>1, <1>2 DEF FlattenSeq
  <2>2. seqs \in Seq(M) BY <1>2
  <2> QED BY <2>1, <2>2
<1>3. CASE n # 0
  <2>1. FlattenSeq(seqs) = flatten[n] BY <1>1, <1>3 DEF FlattenSeq
  <2> DEFINE f == [x \in Nat \X Seq(M) |-> IF x[1] \in 1 .. n THEN x[2] \o seqs[x[1]]
                                          ELSE x[2]]
  <2>2. f \in [Nat \X Seq(M) -> Seq(M)] OBVIOUS
  <2>3. <<>> \in Seq(M) OBVIOUS
  <2>4. PICK h \in [0 .. n -> Seq(M)] : Iterates(h, <<>>, f, n)
    <3> HIDE DEF f
    <3> QED BY <2>2, <2>3, NumberRecursion
  <2> DEFINE g == [i \in 1 .. n |-> h[i]]
  <2>5. ASSUME NEW i \in 1 .. n PROVE g[i] = D(g)[i]
    <3>1. h[i] = f[<<i, h[i - 1]>>] /\ h[0] = <<>> BY <2>4 DEF Iterates
    <3>2. i - 1 \in 0 .. n /\ h[i - 1] \in Seq(M) /\ i \in Nat OBVIOUS
    <3>3. h[i] = h[i - 1] \o seqs[i] BY <3>1, <3>2
    <3>4. CASE i = 1
      <4>1. seqs[i] \in Seq(M) OBVIOUS
      <4>2. <<>> \o seqs[i] = seqs[i] BY <4>1
      <4>3. i - 1 = 0 BY <3>4
      <4>4. h[i] = seqs[i] BY <3>1, <3>3, <4>2, <4>3
      <4> QED BY <3>4, <4>4
    <3>5. CASE i # 1
      <4>1. i - 1 \in 1 .. n BY <3>5
      <4> QED BY <3>3, <3>5, <4>1
    <3> QED BY <3>4, <3>5
  <2>6. g = D(g)
    <3> HIDE DEF g, D
    <3>1. g = [i \in 1 .. n |-> g[i]] BY DEF g
    <3>2. D(g) = [i \in 1 .. n |-> D(g)[i]] BY DEF D
    <3> QED BY <2>5, <3>1, <3>2
  <2>7. flatten = D(flatten)
    <3> HIDE DEF D, g
    <3> QED BY <2>6
  <2> HIDE DEF flatten
  <2> DEFINE G == {k \in Nat : k + 1 \in 1 .. n => flatten[k + 1] \in Seq(M)}
  <2>8. 0 \in G
    <3>1. 1 \in 1 .. n /\ 0 + 1 = 1 BY <1>3
    <3>2. flatten[1] = seqs[1] BY <2>7, <3>1
    <3> QED BY <3>1, <3>2
  <2>9. ASSUME NEW k \in Nat, k \in G PROVE k + 1 \in G
    <3> SUFFICES ASSUME k + 2 \in 1 .. n PROVE flatten[k + 2] \in Seq(M)
        OBVIOUS
    <3>1. k + 1 \in 1 .. n /\ k + 2 # 1 /\ (k + 2) - 1 = k + 1 OBVIOUS
    <3>2. flatten[k + 1] \in Seq(M) BY <2>9, <3>1
    <3>3. flatten[k + 2] = flatten[(k + 2) - 1] \o seqs[k + 2] BY <2>7, <3>1
    <3>4. seqs[k + 2] \in Seq(M) OBVIOUS
    <3> QED BY <3>1, <3>2, <3>3, <3>4
  <2> HIDE DEF G
  <2>10. n - 1 \in Nat /\ (n - 1) + 1 = n /\ n \in 1 .. n BY <1>3
  <2>11. n - 1 \in G BY <2>8, <2>9, <2>10, Induction
  <2>12. flatten[n] \in Seq(M) BY <2>10, <2>11 DEF G
  <2> QED BY <2>1, <2>12
<1> QED BY <1>2, <1>3

LEMMA ReadType ==
  ASSUME NEW answer, IsAnswer(answer)
  PROVE  \E M : read_nl_sock(answer).messages \in Seq(M)
<1> DEFINE M == UNION {Range(d.messages) : d \in {e \in Range(answer) : e.type = "messages"}}
           stop == LastRead(answer)
           part(k) == IF answer[k].type = "messages" THEN answer[k].messages ELSE <<>>
           fits == IF stop > Room THEN Room ELSE stop
           parts == [k \in 1 .. fits |-> IF k > Len(answer) THEN <<>> ELSE part(k)]
<1>1. read_nl_sock(answer).messages = FlattenSeq(parts) BY DEF read_nl_sock
<1>2. Len(answer) \in Nat /\ DOMAIN answer = 1 .. Len(answer)
      /\ answer \in Seq(Range(answer))
      BY DEF IsAnswer
<1>3. stop \in Nat
  <2> DEFINE all == answer \o <<[type |-> "error"]>>
             I == {i \in 1 .. Len(all) : all[i].type # "messages" \/ ~all[i].multi}
  <2>1. stop = IF I # {} THEN Min(I) ELSE 0 BY DEF LastRead, SelectInSeq
  <2>2. I \subseteq Nat
    <3> HIDE DEF all
    <3> QED OBVIOUS
  <2> HIDE DEF I
  <2>3. I # {} => Min(I) \in I
    <3>1. I # {} => \E i \in I : \A j \in I : i <= j BY <2>2, LeastNumber
    <3> QED BY <3>1 DEF Min
  <2> HIDE DEF stop
  <2>4. CASE I = {} BY <2>1, <2>4
  <2>5. CASE I # {} BY <2>1, <2>2, <2>3, <2>5
  <2> QED BY <2>4, <2>5
<1> HIDE DEF stop
<1>4. fits \in Nat BY <1>3, GatewayAssumption
<1>5. ASSUME NEW k \in 1 .. fits PROVE parts[k] \in Seq(M)
  <2>1. CASE k > Len(answer) BY <2>1
  <2>2. CASE ~(k > Len(answer))
    <3>1. k \in DOMAIN answer /\ answer[k] \in Range(answer)
          BY <1>2, <1>4, <2>2 DEF Range
    <3>2. CASE answer[k].type = "messages"
      <4> DEFINE d == answer[k]
      <4>1. d.messages \in Seq(Range(d.messages)) BY <3>1, <3>2 DEF IsAnswer
      <4>2. Range(d.messages) \subseteq M BY <3>1, <3>2
      <4> HIDE DEF d, M
      <4>3. d.messages \in Seq(M) BY <4>1, <4>2
      <4> QED BY <2>2, <3>2, <4>3 DEF d
    <3>3. CASE answer[k].type # "messages" BY <2>2, <3>3
    <3> QED BY <3>2, <3>3
  <2> QED BY <2>1, <2>2
<1> HIDE DEF M, fits
<1>6. parts \in [1 .. fits -> Seq(M)] BY <1>5
<1> HIDE DEF parts
<1> QED BY <1>1, <1>4, <1>6, FlattenType

\* The first message with a gateway, if get_default_gw finds one.
LEMMA GatewayIsFirst ==
  ASSUME NEW answer, IsAnswer(answer), ~read_nl_sock(answer).failed, NEW iface,
         NEW gw \in get_default_gw(answer, iface), gw.ret = "found"
  PROVE  LET ms == read_nl_sock(answer).messages
         IN \E k \in 1 .. Len(ms) : /\ ms[k].gateway # NULL /\ gw.val = ms[k].gateway
                                    /\ \A j \in 1 .. k - 1 : ms[j].gateway = NULL
<1> DEFINE read == read_nl_sock(answer)
           ms == read.messages
           n == Len(ms)
           base == [ret |-> "more", val |-> Junk, iface |-> iface]
           next(r, m) ==
             IF r.ret # "more" THEN r
             ELSE IF ~m.main THEN [r EXCEPT !.ret = "none"]
             ELSE [ret   |-> IF m.gateway = NULL THEN "more" ELSE "found",
                   val   |-> m.gateway,
                   iface |-> IF m.oif = NULL THEN r.iface ELSE m.oif]
           D(g) == [T \in SUBSET DOMAIN ms |->
                      IF T = {} THEN base ELSE next(g[T \ {Max(T)}], ms[Max(T)])]
           iter == CHOOSE g : g = D(g)
           result == iter[DOMAIN ms]
<1>1. get_default_gw(answer, iface) = Parsed(read, result)
      BY DEF get_default_gw, FoldLeft, MapThenFoldSet
<1>2. PICK M : ms \in Seq(M) BY ReadType
<1>3. n \in Nat /\ DOMAIN ms = 1 .. n /\ \A k \in 1 .. n : ms[k] \in M BY <1>2
<1>4. iter = D(iter)
  <2> DEFINE R == [ret : {"more", "none", "found"}, val : {Junk} \cup {m.gateway : m \in M},
                   iface : {iface} \cup {m.oif : m \in M}]
             f == [x \in R \X M |-> next(x[1], x[2])]
  <2>1. base \in R OBVIOUS
  <2>2. f \in [R \X M -> R] OBVIOUS
  <2> HIDE DEF read, base
  <2>3. PICK h \in [SUBSET DOMAIN ms -> R] : Folds(h, base, f, ms)
    <3> HIDE DEF R, f, ms
    <3> QED BY <1>2, <2>1, <2>2, SequenceFold
  <2>4. ASSUME NEW T \in SUBSET DOMAIN ms PROVE h[T] = D(h)[T]
    <3>1. CASE T = {} BY <2>3, <3>1 DEF Folds
    <3>2. CASE T # {}
      <4>1. h[T] = f[<<h[T \ {Max(T)}], ms[Max(T)]>>] BY <2>3, <3>2 DEF Folds
      <4>2. Max(T) \in T /\ T \ {Max(T)} \in SUBSET DOMAIN ms BY <1>3, <3>2, MaxIsIn
      <4>3. <<h[T \ {Max(T)}], ms[Max(T)]>> \in R \X M BY <1>3, <4>2
      <4> HIDE DEF R, next
      <4> QED BY <3>2, <4>1, <4>3
    <3> QED BY <3>1, <3>2
  <2>5. h = D(h)
    <3> HIDE DEF D
    <3>1. h = [T \in SUBSET DOMAIN ms |-> h[T]] OBVIOUS
    <3>2. D(h) = [T \in SUBSET DOMAIN ms |-> D(h)[T]] BY DEF D
    <3> QED BY <2>4, <3>1, <3>2
  <2> HIDE DEF D
  <2> QED BY <2>5
<1> HIDE DEF iter
<1> DEFINE First(k) == /\ ms[k].gateway # NULL /\ \A j \in 1 .. k - 1 : ms[j].gateway = NULL
           Good(r, k) ==
             /\ DOMAIN r = {"ret", "val", "iface"}
             /\ r.ret = "more" => \A j \in 1 .. k : ms[j].gateway = NULL
             /\ r.ret = "found" => \E j \in 1 .. k : First(j) /\ r.val = ms[j].gateway
           G == {k \in Nat : k <= n => Good(iter[1 .. k], k)}
<1>5. 0 \in G
  <2>1. iter[{}] = base BY <1>4
  <2>2. 1 .. 0 = {} OBVIOUS
  <2>3. Good(base, 0) OBVIOUS
  <2> HIDE DEF Good, base
  <2> QED BY <2>1, <2>2, <2>3
<1>6. ASSUME NEW k \in Nat, k \in G PROVE k + 1 \in G
  <2> SUFFICES ASSUME k + 1 <= n PROVE Good(iter[1 .. k + 1], k + 1)
      OBVIOUS
  <2> DEFINE r == iter[1 .. k]
             m == ms[k + 1]
  <2>1. Good(r, k)
    <3>1. k \in Nat /\ k <= n BY <1>3
    <3> HIDE DEF Good
    <3> QED BY <1>6, <3>1
  <2>2. iter[1 .. k + 1] = next(r, m)
    <3>1. 1 .. k + 1 \in SUBSET DOMAIN ms /\ k + 1 \in 1 .. k + 1 BY <1>3
    <3> HIDE DEF next
    <3> QED BY <1>4, <3>1, MaxOfPrefix
  <2> HIDE DEF r
  <2>3. CASE r.ret # "more"
    <3>1. iter[1 .. k + 1] = r BY <2>2, <2>3
    <3> QED BY <2>1, <2>3, <3>1
  <2>4. CASE r.ret = "more" /\ ~m.main
    <3>1. iter[1 .. k + 1] = [r EXCEPT !.ret = "none"] BY <2>2, <2>4
    <3> QED BY <2>1, <3>1
  <2>5. CASE r.ret = "more" /\ m.main /\ m.gateway = NULL
    <3>1. iter[1 .. k + 1] = [ret |-> "more", val |-> m.gateway,
                              iface |-> IF m.oif = NULL THEN r.iface ELSE m.oif]
          BY <2>2, <2>5
    <3>2. \A j \in 1 .. k + 1 : ms[j].gateway = NULL BY <2>1, <2>5
    <3> QED BY <3>1, <3>2
  <2>6. CASE r.ret = "more" /\ m.main /\ m.gateway # NULL
    <3>1. iter[1 .. k + 1] = [ret |-> "found", val |-> m.gateway,
                              iface |-> IF m.oif = NULL THEN r.iface ELSE m.oif]
          BY <2>2, <2>6
    <3>2. First(k + 1) /\ k + 1 \in 1 .. k + 1 BY <2>1, <2>6
    <3> QED BY <3>1, <3>2
  <2> QED BY <2>3, <2>4, <2>5, <2>6
<1> HIDE DEF G
<1>7. n \in G BY <1>3, <1>5, <1>6, Induction
<1>8. Good(result, n) BY <1>3, <1>7 DEF G
<1>9. gw = result
  <2>1. result.ret # "more" => gw = result BY <1>1 DEF Parsed
  <2>2. result.ret = "more" => gw = [result EXCEPT !.ret = "none"] BY <1>1 DEF Parsed
  <2>3. result.ret = "more" => gw.ret = "none" BY <1>8, <2>2
  <2> QED BY <2>1, <2>3
<1> HIDE DEF result
<1> QED BY <1>8, <1>9

\* A neighbour that has the address asked for, if get_hw_addr finds one; its
\* hardware address, if it has one.
LEMMA NeighbourHas ==
  ASSUME NEW answer, IsAnswer(answer), ~read_nl_sock(answer).failed, NEW gw,
         NEW hw \in get_hw_addr(answer, gw), hw.ret = "found"
  PROVE  LET ms == read_nl_sock(answer).messages
         IN \E k \in 1 .. Len(ms) : /\ ms[k].dst = gw
                                    /\ ms[k].lladdr # NULL => hw.val = ms[k].lladdr
<1> DEFINE read == read_nl_sock(answer)
           ms == read.messages
           n == Len(ms)
           base == [ret |-> "more", val |-> Junk]
           next(r, m) ==
             IF r.ret # "more" THEN r
             ELSE IF ~m.inet THEN [r EXCEPT !.ret = "none"]
             ELSE IF m.lladdr = "long" THEN [r EXCEPT !.ret = "fatal"]
             ELSE [ret |-> IF m.dst = gw THEN "found" ELSE "more",
                   val |-> IF m.lladdr = NULL THEN r.val ELSE m.lladdr]
           D(g) == [T \in SUBSET DOMAIN ms |->
                      IF T = {} THEN base ELSE next(g[T \ {Max(T)}], ms[Max(T)])]
           iter == CHOOSE g : g = D(g)
           result == iter[DOMAIN ms]
<1>1. get_hw_addr(answer, gw) = Parsed(read, result)
      BY DEF get_hw_addr, FoldLeft, MapThenFoldSet
<1>2. PICK M : ms \in Seq(M) BY ReadType
<1>3. n \in Nat /\ DOMAIN ms = 1 .. n /\ \A k \in 1 .. n : ms[k] \in M BY <1>2
<1>4. iter = D(iter)
  <2> DEFINE R == [ret : {"more", "none", "found", "fatal"},
                   val : {Junk} \cup {m.lladdr : m \in M}]
             f == [x \in R \X M |-> next(x[1], x[2])]
  <2>1. base \in R OBVIOUS
  <2>2. f \in [R \X M -> R] OBVIOUS
  <2> HIDE DEF read, base
  <2>3. PICK h \in [SUBSET DOMAIN ms -> R] : Folds(h, base, f, ms)
    <3> HIDE DEF R, f, ms
    <3> QED BY <1>2, <2>1, <2>2, SequenceFold
  <2>4. ASSUME NEW T \in SUBSET DOMAIN ms PROVE h[T] = D(h)[T]
    <3>1. CASE T = {} BY <2>3, <3>1 DEF Folds
    <3>2. CASE T # {}
      <4>1. h[T] = f[<<h[T \ {Max(T)}], ms[Max(T)]>>] BY <2>3, <3>2 DEF Folds
      <4>2. Max(T) \in T /\ T \ {Max(T)} \in SUBSET DOMAIN ms BY <1>3, <3>2, MaxIsIn
      <4>3. <<h[T \ {Max(T)}], ms[Max(T)]>> \in R \X M BY <1>3, <4>2
      <4> HIDE DEF R, next
      <4> QED BY <3>2, <4>1, <4>3
    <3> QED BY <3>1, <3>2
  <2>5. h = D(h)
    <3> HIDE DEF D
    <3>1. h = [T \in SUBSET DOMAIN ms |-> h[T]] OBVIOUS
    <3>2. D(h) = [T \in SUBSET DOMAIN ms |-> D(h)[T]] BY DEF D
    <3> QED BY <2>4, <3>1, <3>2
  <2> HIDE DEF D
  <2> QED BY <2>5
<1> HIDE DEF iter
<1> DEFINE Good(r, k) ==
             /\ DOMAIN r = {"ret", "val"}
             /\ r.ret = "found" => \E j \in 1 .. k : /\ ms[j].dst = gw
                                                     /\ ms[j].lladdr # NULL => r.val = ms[j].lladdr
           G == {k \in Nat : k <= n => Good(iter[1 .. k], k)}
<1>5. 0 \in G
  <2>1. iter[{}] = base BY <1>4
  <2>2. 1 .. 0 = {} OBVIOUS
  <2>3. Good(base, 0) OBVIOUS
  <2> HIDE DEF Good, base
  <2> QED BY <2>1, <2>2, <2>3
<1>6. ASSUME NEW k \in Nat, k \in G PROVE k + 1 \in G
  <2> SUFFICES ASSUME k + 1 <= n PROVE Good(iter[1 .. k + 1], k + 1)
      OBVIOUS
  <2> DEFINE r == iter[1 .. k]
             m == ms[k + 1]
  <2>1. Good(r, k)
    <3>1. k \in Nat /\ k <= n BY <1>3
    <3> HIDE DEF Good
    <3> QED BY <1>6, <3>1
  <2>2. iter[1 .. k + 1] = next(r, m)
    <3>1. 1 .. k + 1 \in SUBSET DOMAIN ms /\ k + 1 \in 1 .. k + 1 BY <1>3
    <3> HIDE DEF next
    <3> QED BY <1>4, <3>1, MaxOfPrefix
  <2> HIDE DEF r
  <2>3. CASE r.ret # "more"
    <3>1. iter[1 .. k + 1] = r BY <2>2, <2>3
    <3> QED BY <2>1, <2>3, <3>1
  <2>4. CASE r.ret = "more" /\ ~m.inet
    <3>1. iter[1 .. k + 1] = [r EXCEPT !.ret = "none"] BY <2>2, <2>4
    <3> QED BY <2>1, <3>1
  <2>5. CASE r.ret = "more" /\ m.inet /\ m.lladdr = "long"
    <3>1. iter[1 .. k + 1] = [r EXCEPT !.ret = "fatal"] BY <2>2, <2>5
    <3> QED BY <2>1, <3>1
  <2>6. CASE r.ret = "more" /\ m.inet /\ m.lladdr # "long"
    <3>1. iter[1 .. k + 1] = [ret |-> IF m.dst = gw THEN "found" ELSE "more",
                              val |-> IF m.lladdr = NULL THEN r.val ELSE m.lladdr]
          BY <2>2, <2>6
    <3>2. k + 1 \in 1 .. k + 1 OBVIOUS
    <3> QED BY <3>1, <3>2
  <2> QED BY <2>3, <2>4, <2>5, <2>6
<1> HIDE DEF G
<1>7. n \in G BY <1>3, <1>5, <1>6, Induction
<1>8. Good(result, n) BY <1>3, <1>7 DEF G
<1>9. hw = result
  <2>1. result.ret # "more" => hw = result BY <1>1 DEF Parsed
  <2>2. result.ret = "more" => hw = [result EXCEPT !.ret = "none"] BY <1>1 DEF Parsed
  <2>3. result.ret = "more" => hw.ret = "none" BY <1>8, <2>2
  <2> QED BY <2>1, <2>3
<1> HIDE DEF result
<1> QED BY <1>8, <1>9

\* What is found with complete answers is the hardware address of the gateway.
LEMMA FoundIsKnown ==
  ASSUME NEW routes, IsAnswer(routes), NEW neighbours, IsAnswer(neighbours), NEW iface,
         NEW gateway \in get_default_gw(routes, iface), gateway.ret = "found",
         NEW hw \in get_hw_addr(neighbours, gateway.val), hw.ret = "found",
         Known(routes, neighbours) # NULL
  PROVE  hw.val = Known(routes, neighbours)
<1> DEFINE read == read_nl_sock(routes)
           near == read_nl_sock(neighbours)
           rs == read.messages
           ns == near.messages
           gates == {k \in 1 .. Len(rs) : rs[k].gateway # NULL}
           first == CHOOSE k \in gates : \A j \in gates : k <= j
           gate == rs[first].gateway
           its == {ns[k] : k \in {j \in 1 .. Len(ns) : ns[j].dst = gate}}
<1>1. /\ ~read.failed /\ ~near.failed /\ gates # {} /\ Cardinality(its) = 1
      /\ Known(routes, neighbours) = (CHOOSE m \in its : TRUE).lladdr
      BY DEF Known
<1>2. PICK M, N : rs \in Seq(M) /\ ns \in Seq(N)
  <2>1. PICK M : rs \in Seq(M) BY ReadType
  <2>2. PICK N : ns \in Seq(N) BY ReadType
  <2> QED BY <2>1, <2>2
<1>3. PICK k \in 1 .. Len(rs) : /\ rs[k].gateway # NULL /\ gateway.val = rs[k].gateway
                                /\ \A j \in 1 .. k - 1 : rs[j].gateway = NULL
      BY <1>1, GatewayIsFirst
<1>4. Len(rs) \in Nat /\ Len(ns) \in Nat BY <1>2
<1> HIDE DEF rs, ns
<1>5. first = k
  <2>1. k \in gates /\ \A j \in gates : k <= j
    <3>1. ASSUME NEW j \in gates, j < k PROVE FALSE
      <4>1. j \in 1 .. k - 1 BY <1>4, <3>1
      <4> QED BY <1>3, <4>1, <3>1
    <3> QED BY <1>3, <1>4, <3>1
  <2>2. \A j \in gates : j \in Int BY <1>4
  <2>3. \A j \in gates : (\A i \in gates : j <= i) => j = k
        BY <1>4, <2>1, <2>2
  <2> HIDE DEF gates
  <2> QED BY <2>1, <2>3
<1>6. gateway.val = gate BY <1>3, <1>5
<1>7. PICK i \in 1 .. Len(ns) : /\ ns[i].dst = gate
                                /\ ns[i].lladdr # NULL => hw.val = ns[i].lladdr
  <2> HIDE DEF gate
  <2>1. \E i \in 1 .. Len(near.messages) :
          /\ near.messages[i].dst = gateway.val
          /\ near.messages[i].lladdr # NULL => hw.val = near.messages[i].lladdr
    <3>1. ~read_nl_sock(neighbours).failed BY <1>1
    <3> QED BY <3>1, NeighbourHas
  <2> QED BY <1>6, <2>1 DEF ns
<1>8. ns[i] \in its BY <1>7
<1> HIDE DEF its
<1>9. (CHOOSE m \in its : TRUE) = ns[i]
  <2>1. IsFiniteSet(its)
    <3>1. IsFiniteSet(1 .. Len(ns)) BY <1>4, FS_Interval
    <3> DEFINE J == {j \in 1 .. Len(ns) : ns[j].dst = gate}
    <3>2. IsFiniteSet(J) BY <3>1, FS_Subset
    <3> HIDE DEF J
    <3>3. [j \in J |-> ns[j]] \in Surjection(J, its) BY DEF its, J, Surjection
    <3> QED BY <3>2, <3>3, FS_Surjection
  <2>2. \E m : its = {m} BY <1>1, <2>1, FS_Singleton
  <2> QED BY <1>8, <2>2
<1> QED BY <1>1, <1>7, <1>9

-----------------------------------------------------------------------------
(* The gateway *)

\* Where no gateway has been looked for in this scan.
Unasked == IF program = "zmap" THEN Before \cup {"senders", "iface", "address", "gateway"}
           ELSE {"config", "ipaddr", "hwaddr"}

\* What the host was found to know is what zconf has, unless an exception is
\* pending; a scan starts without.
MacFacts ==
  /\ {"mac", "options"} \subseteq DOMAIN asked
  /\ pc \in Unasked => asked.mac = NULL
  /\ asked.mac # NULL /\ ~thrown => zconf.gw_mac = asked.mac

\* A step that has nothing to do with the gateway.
MacKept ==
  /\ UNCHANGED program /\ {"mac", "options"} \subseteq DOMAIN asked'
  /\ zconf'.gw_mac = zconf.gw_mac /\ asked'.mac = asked.mac /\ thrown' \in {thrown, TRUE}
  /\ pc' \in Unasked => pc \in Unasked

LEMMA KeptMac == MacFacts /\ MacKept => MacFacts'
<1> SUFFICES ASSUME MacFacts, MacKept PROVE MacFacts' OBVIOUS
<1>1. Unasked' = Unasked BY DEF MacKept, Unasked, Before
<1>2. ~thrown' => ~thrown BY DEF MacKept
<1> QED BY <1>1, <1>2 DEF MacFacts, MacKept

LEMMA CommandLineMac ==
  ASSUME LaunchInv, MacFacts, program = "zmap", program' = program, CommandLineNext
  PROVE  MacFacts'
<1> USE DEF MacFacts, MacKept, Unasked, Before, LaunchInv, ConfTypes, Ended,
            Configure, Given, End, Step, settings
<1>1. CASE Log BY <1>1, KeptMac DEF Log
<1>2. CASE OutputModule
  <2>1. ASSUME NEW name, NEW fields, NEW duplicates, NEW unsuccessful,
               Module(name, fields, duplicates, unsuccessful)
        PROVE  MacFacts'
        BY <2>1 DEF Module
  <2>2. ASSUME End("output", "fatal") PROVE MacFacts' BY <2>2
  <2> HIDE DEF MacFacts, End
  <2> QED BY <1>2, <2>1, <2>2 DEF OutputModule
<1>3. CASE ProbeModule BY <1>3 DEF ProbeModule
<1>4. CASE Vpn
  <2>1. pc = "vpn" /\ pc' = "fields" /\ asked'.mac = asked.mac
        /\ {"mac", "options"} \subseteq DOMAIN asked'
        BY <1>4 DEF Vpn
  <2> QED BY <2>1
<1>5. CASE Fields
  <2>1. CASE pc' \in Ended BY <1>5, <2>1 DEF Fields
  <2>2. ASSUME NEW named, Configure("fields", "filter",
                          [zconf EXCEPT !.fields = named, !.success = "success"])
        PROVE  MacFacts'
        BY <2>2
  <2> QED BY <1>5, <2>1, <2>2 DEF Fields
<1>6. CASE Filter BY <1>6 DEF Filter
<1>7. CASE Options BY <1>7 DEF Options
<1>8. CASE Ports BY <1>8 DEF Ports, PortRange
<1>9. CASE SourceIp BY <1>9 DEF SourceIp
<1>10. CASE GatewayMac
  <2>1. /\ pc = "mac" /\ asked'.mac = asked.mac /\ {"mac", "options"} \subseteq DOMAIN asked'
        BY <1>10 DEF GatewayMac
  <2> QED BY <2>1
<1>11. CASE Shards
  <2>1. /\ pc = "shards" /\ asked'.mac = asked.mac
        /\ {"mac", "options"} \subseteq DOMAIN asked'
        BY <1>11 DEF Shards
  <2> QED BY <2>1
<1>12. CASE Bandwidth BY <1>12 DEF Bandwidth
<1>13. CASE MaxTargets BY <1>13 DEF MaxTargets
<1>14. CASE CountTargets BY <1>14 DEF CountTargets
<1>15. CASE Senders BY <1>15 DEF Senders
<1>16. CASE StartIface BY <1>16 DEF StartIface
<1>17. CASE StartSourceIp BY <1>17 DEF StartSourceIp
<1>18. CASE StartGateway
  <2>1. CASE Configure("gateway", "seed", zconf) BY <2>1
  <2>2. CASE End("gateway", "fatal") BY <2>2
  <2>3. ASSUME NEW routes \in Routes, NEW neighbours \in Neighbours,
               NEW gateway \in get_default_gw(routes, zconf.iface),
               gateway.ret = "found",
               NEW hw \in get_hw_addr(neighbours, gateway.val), hw.ret = "found",
               Step("gateway", "seed"),
               zconf' = [zconf EXCEPT !.iface = gateway.iface, !.gw_mac = hw.val,
                                      !.gw_mac_set = TRUE],
               asked' = [asked EXCEPT !.mac = Known(routes, neighbours)]
        PROVE  MacFacts'
    <3>1. Known(routes, neighbours) # NULL => hw.val = Known(routes, neighbours)
          BY <2>3, ArgsAssumption, FoundIsKnown
    <3>2. zconf'.gw_mac = hw.val /\ asked'.mac = Known(routes, neighbours)
          /\ {"mac", "options"} \subseteq DOMAIN asked' /\ pc' \notin Unasked'
          BY <2>3
    <3> QED BY <3>1, <3>2
  <2> HIDE DEF Configure, End, LaunchInv, MacFacts
  <2> QED BY <1>18, <2>1, <2>2, <2>3 DEF StartGateway
<1>19. CASE StartSeed BY <1>19 DEF StartSeed
<1> QED BY <1>1, <1>2, <1>3, <1>4, <1>5, <1>6, <1>7, <1>8, <1>9, <1>10, <1>11,
           <1>12, <1>13, <1>14, <1>15, <1>16, <1>17, <1>18, <1>19
        DEF CommandLineNext

LEMMA BindingMac ==
  ASSUME LaunchInv, MacFacts, program = "node", program' = program, BindingNext
  PROVE  MacFacts'
<1> USE DEF MacFacts, Unasked, LaunchInv, ConfTypes, Ended,
            Configure, Given, End, Throw, Step, settings
<1>1. CASE LibZMAP BY <1>1 DEF LibZMAP, Nothing
<1>2. CASE ConfigIface BY <1>2 DEF ConfigIface
<1>3. CASE ConfigIpaddr BY <1>3 DEF ConfigIpaddr
<1>4. CASE GivenHwaddr
  <2>1. /\ pc = "hwaddr" /\ asked'.mac = asked.mac
        /\ {"mac", "options"} \subseteq DOMAIN asked'
        BY <1>4 DEF GivenHwaddr
  <2> QED BY <2>1
<1>5. CASE DetectHwaddr
  <2>1. CASE End("hwaddr", "fatal") BY <2>1
  <2>2. ASSUME NEW routes \in Routes, NEW neighbours \in Neighbours,
               NEW gateway \in get_default_gw(routes, zconf.iface),
               NEW hw \in get_hw_addr(neighbours, IF gateway.ret = "found" THEN gateway.val
                                                  ELSE Junk),
               Step("hwaddr", "bandwidth"),
               thrown' = (thrown \/ gateway.ret # "found" \/ hw.ret # "found"),
               zconf' = [zconf EXCEPT !.iface = gateway.iface, !.gw_mac_set = TRUE,
                                      !.gw_mac = IF hw.ret = "found" THEN hw.val ELSE @],
               asked' = [asked EXCEPT !.mac = Known(routes, neighbours)]
        PROVE  MacFacts'
    <3>1. CASE gateway.ret = "found" /\ hw.ret = "found"
      <4>1. Known(routes, neighbours) # NULL => hw.val = Known(routes, neighbours)
            BY <2>2, <3>1, ArgsAssumption, FoundIsKnown
      <4>2. zconf'.gw_mac = hw.val /\ asked'.mac = Known(routes, neighbours)
            /\ {"mac", "options"} \subseteq DOMAIN asked' /\ pc' \notin Unasked'
            BY <2>2, <3>1
      <4> QED BY <4>1, <4>2
    <3>2. CASE gateway.ret # "found" \/ hw.ret # "found"
      <4>1. thrown' /\ {"mac", "options"} \subseteq DOMAIN asked' /\ pc' \notin Unasked'
            BY <2>2, <3>2
      <4> QED BY <4>1
    <3> QED BY <3>1, <3>2
  <2> HIDE DEF End, LaunchInv, MacFacts
  <2> QED BY <1>5, <2>1, <2>2 DEF DetectHwaddr
<1>6. CASE ConfigBandwidth BY <1>6 DEF ConfigBandwidth
<1>7. CASE ConfigWhiteBlackLists BY <1>7 DEF ConfigWhiteBlackLists
<1>8. CASE ConfigTargets BY <1>8 DEF ConfigTargets
<1>9. CASE ConfigCores BY <1>9 DEF ConfigCores
<1>10. CASE ConfigSeed BY <1>10 DEF ConfigSeed
<1>11. CASE ConfigProbeModule BY <1>11 DEF ConfigProbeModule
<1>12. CASE ConfigOutputModule BY <1>12 DEF ConfigOutputModule
<1>13. CASE ConfigShards BY <1>13 DEF ConfigShards
<1>14. CASE ConfigShardTotal BY <1>14 DEF ConfigShardTotal
<1>15. CASE ConfigThreads BY <1>15 DEF ConfigThreads
<1> QED BY <1>1, <1>2, <1>3, <1>4, <1>5, <1>6, <1>7, <1>8, <1>9, <1>10, <1>11,
           <1>12, <1>13, <1>14, <1>15
        DEF BindingNext, ConfigHwaddr

LEMMA RestMac ==
  ASSUME LaunchInv, MacFacts, UNCHANGED program, program \in {"zmap", "node"},
         InitModules \/ MainThread \/ OtherThreads \/ UNCHANGED vars
  PROVE  MacFacts'
<1> USE DEF Configure, End, Throw, Fail, Step, settings, threads, flags
<1>1. ASSUME NEW from, NEW to, InitOutput(from, to)
      PROVE  /\ UNCHANGED <<zconf, asked, thrown>> /\ pc' \in {to} \cup Ended
      BY <1>1 DEF InitOutput, Ended
<1>2. ASSUME NEW from, NEW to, SendInit(from, to)
      PROVE  /\ zconf'.gw_mac = zconf.gw_mac /\ UNCHANGED <<asked, thrown>>
             /\ pc' \in {to} \cup Ended
      BY <1>2 DEF SendInit, Ended, LaunchInv, ConfTypes
<1>3. CASE InitModules
  <2>1. /\ zconf'.gw_mac = zconf.gw_mac /\ UNCHANGED <<asked, thrown>>
        /\ pc' \in Launching \cup Ended
        BY <1>1, <1>2, <1>3 DEF InitModules, Launching
  <2> QED BY <2>1, KeptMac DEF MacKept, MacFacts, Unasked, Before, Launching, Ended
<1>4. CASE MainThread
  <2>1. UNCHANGED <<zconf, asked>> /\ thrown' \in {thrown, TRUE}
        BY <1>4 DEF MainThread, StartReceiver, WaitReady, SpawnSender, Spawned,
           JoinSenders, JoinReceiver, drop_privs, Close
  <2>2. pc' \in Running \cup Ended \/ pc' = pc \/ (pc' = "idle" /\ program = "node")
        BY <1>4 DEF MainThread, StartReceiver, WaitReady, SpawnSender, Spawned,
           JoinSenders, JoinReceiver, drop_privs, Close, Running, Dropped, Joining, Ended
  <2> QED BY <2>1, <2>2, KeptMac
          DEF MacKept, MacFacts, Unasked, Before, Running, Dropped, Joining, Ended
<1>5. CASE OtherThreads
  <2>1. UNCHANGED <<zconf, asked, thrown>> /\ pc' \in {pc} \cup Ended
        BY <1>5 DEF OtherThreads, RecvOpen, RecvEnd, RecvEnough, Leave, SenderInit,
           SenderInitFail, SenderEnd, Ended
  <2> QED BY <2>1, KeptMac DEF MacKept, MacFacts, Unasked, Before, Ended
<1>6. CASE UNCHANGED vars
  <2>1. UNCHANGED <<zconf, asked, thrown, pc>> BY <1>6 DEF vars
  <2> QED BY <2>1, KeptMac DEF MacKept, MacFacts
<1> QED BY <1>3, <1>4, <1>5, <1>6

LEMMA MacInvariance == Spec => []MacFacts
<1>1. Init => MacFacts BY DEF Init, MacFacts, Unasked, Before, Nothing
<1>2. SessionInv /\ LaunchInv /\ MacFacts /\ [Next]_vars => MacFacts'
  <2>1. SUFFICES ASSUME SessionInv, LaunchInv, MacFacts, [Next]_vars PROVE MacFacts'
        OBVIOUS
  <2>2. program' = program BY <2>1 DEF Next, Main, Thread, vars
  <2>3. program \in {"zmap", "node"} BY <2>1 DEF SessionInv
  <2> QED BY <2>1, <2>2, <2>3, CommandLineMac, BindingMac, RestMac
          DEF Next, Main, Configuring, Thread
<1> QED BY <1>1, <1>2, LaunchInvariance, PTL DEF Spec

\* Whatever the kernel answers, in however many messages: with complete answers
\* in which the gateway is one neighbour, a scan of which no hardware address is
\* given starts with that neighbour's (get_default_gw, get_hw_addr).
THEOREM GatewayIsFound == Spec => []GatewayFound
<1>1. MacFacts => GatewayFound BY DEF MacFacts, GatewayFound
<1> QED BY <1>1, MacInvariance, PTL
=============================================================================
