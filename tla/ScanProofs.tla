----------------------------- MODULE ScanProofs -----------------------------
(***************************************************************************)
(* Safety of Scan for every number of threads, every share and all limits: *)
(* types, mutexes, completion and cooldown; then what the counters, main   *)
(* and the send threads' progress say at the end; and that the threads     *)
(* keep the safety part of ScanPromise.                                    *)
(***************************************************************************)
EXTENDS Scan, Counting

(***************************************************************************)
(* Type correctness.  A step that leaves a group of variables alone leaves *)
(* their types alone; the others are shown group by group.                 *)
(***************************************************************************)
LEMMA SameTypes ==
  /\ MainType /\ UNCHANGED mainVars => MainType'
  /\ SendType /\ UNCHANGED sendVars => SendType'
  /\ IterType /\ UNCHANGED iterVars => IterType'
  /\ TimeType /\ UNCHANGED timeVars => TimeType'
  /\ RecvType /\ UNCHANGED recvVars => RecvType'
  /\ MonType /\ UNCHANGED <<recv_ready_mutex, monpc>> => MonType'
<1>1. MainType /\ UNCHANGED mainVars => MainType'
      BY DEF MainType, mainVars
<1>2. SendType /\ UNCHANGED sendVars => SendType'
      BY DEF SendType, sendVars
<1>3. IterType /\ UNCHANGED iterVars => IterType'
      BY DEF IterType, iterVars
<1>4. TimeType /\ UNCHANGED timeVars => TimeType'
      BY DEF TimeType, timeVars
<1>5. RecvType /\ UNCHANGED recvVars => RecvType'
      BY DEF RecvType, recvVars
<1>6. MonType /\ UNCHANGED <<recv_ready_mutex, monpc>> => MonType'
      BY DEF MonType
<1> QED BY <1>1, <1>2, <1>3, <1>4, <1>5, <1>6

LEMMA TypeInit == Init => TypeOK
<1> SUFFICES ASSUME Init PROVE TypeOK
    OBVIOUS
<1> USE ScanAssumption DEF Init
<1>1. MainType BY DEF MainType
<1>2. SendType
  <2>1. spc \in [Sender -> SenderPc] BY DEF SenderPc
  <2>2. stream \in [Sender -> 0 .. Streams - 1] OBVIOUS
  <2>3. shard \in [Sender -> [sent : Nat, failures : Nat]] OBVIOUS
  <2>4. silence \in 0 .. Cooldown + 1 /\ late \in [Sender -> Nat] OBVIOUS
  <2>5. left \in [Sender -> 0 .. MaxShare] OBVIOUS
  <2>6. /\ probed \subseteq Address /\ send_mutex \in Sender \cup {Free}
        /\ sockaddr \in {"blank", "set"}
        OBVIOUS
  <2> HIDE ScanAssumption DEF Init
  <2> QED BY <2>1, <2>2, <2>3, <2>4, <2>5, <2>6 DEF SendType
<1>3. IterType BY DEF IterType
<1>4. TimeType BY DEF TimeType
<1>5. RecvType
  <2>1. zrecv \in [success_total : Nat, success_unique : Nat,
                   cooldown_total : Nat, cooldown_unique : Nat,
                   failure_total : Nat, complete : BOOLEAN]
        OBVIOUS
  <2>2. rows \in [all : Nat, cooldown : Nat] OBVIOUS
  <2>3. captured \in 0 .. MaxPackets /\ packet \in Packet \cup {NoPacket}
        OBVIOUS
  <2> QED BY <2>1, <2>2, <2>3 DEF RecvType
<1>6. MonType BY DEF MonType
<1> QED BY <1>1, <1>2, <1>3, <1>4, <1>5, <1>6 DEF TypeOK

LEMMA TypeMain == TypeOK /\ Main => TypeOK'
<1> SUFFICES ASSUME TypeOK, Main PROVE TypeOK'
    OBVIOUS
<1> USE ScanAssumption, SameTypes DEF TypeOK, LocalFacts
<1>1. CASE MainStartRecv
      BY <1>1 DEF MainStartRecv, MainType, RecvType, mainVars
<1>2. CASE MainLock  BY <1>2 DEF MainLock, MainType, MonType
<1>3. CASE MainTest  BY <1>3 DEF MainTest, MainType, MonType
<1>4. CASE MainSpawn
  <2>1. SendType' BY <1>4 DEF MainSpawn, SendType, SenderPc
  <2>2. MainType' BY <1>4 DEF MainSpawn, MainType
  <2>3. MonType' BY <1>4 DEF MainSpawn
  <2> QED BY <1>4, <2>1, <2>2, <2>3 DEF MainSpawn
<1>5. CASE MainSpawnMonitor BY <1>5 DEF MainSpawnMonitor, MainType, MonType
<1>6. CASE MainJoinSender  BY <1>6 DEF MainJoinSender, MainType
<1>7. CASE MainJoinRecv  BY <1>7 DEF MainJoinRecv, MainType
<1>8. CASE MainFinish BY <1>8 DEF MainFinish, MainType
<1>9. QED BY <1>1, <1>2, <1>3, <1>4, <1>5, <1>6, <1>7, <1>8 DEF Main

LEMMA AdvanceType ==
  ASSUME SendType, SendFacts, NEW i \in Sender, spc[i] = "send", Advance(i)
  PROVE  /\ spc' \in [Sender -> SenderPc]
         /\ left' \in [Sender -> 0 .. MaxShare]
         /\ stream' \in [Sender -> 0 .. Streams - 1]
<1>1. CASE stream[i] + 1 < Streams
  <2>1. /\ stream' = [stream EXCEPT ![i] = stream[i] + 1]
        /\ UNCHANGED <<spc, left>>
        BY <1>1 DEF Advance
  <2>2. stream[i] + 1 \in 0 .. Streams - 1
        BY <1>1, ScanAssumption DEF SendType
  <2> QED BY <2>1, <2>2 DEF SendType
<1>2. CASE ~(stream[i] + 1 < Streams)
  <2>1. /\ spc' = [spc EXCEPT ![i] = "check"]
        /\ left' = [left EXCEPT ![i] = left[i] - 1]
        /\ UNCHANGED stream
        BY <1>2 DEF Advance
  <2>2. left[i] - 1 \in 0 .. MaxShare
        BY ScanAssumption DEF SendType, SendFacts
  <2>3. "check" \in SenderPc
        BY DEF SenderPc
  <2> QED BY <2>1, <2>2, <2>3 DEF SendType
<1> QED BY <1>1, <1>2

LEMMA LeavesType ==
  ASSUME SendType, NEW i \in Sender, Leaves(i)
  PROVE  late' \in [Sender -> Nat] /\ silence' \in 0 .. Cooldown + 1
<1>1. silence' = 0 /\ Cooldown \in Nat BY ScanAssumption DEF Leaves
<1>2. CASE zrecv.complete
  <2>1. late' = [late EXCEPT ![i] = late[i] + 1] BY <1>2 DEF Leaves
  <2>2. late[i] + 1 \in Nat BY DEF SendType
  <2> QED BY <1>1, <2>1, <2>2 DEF SendType
<1>3. CASE ~zrecv.complete BY <1>1, <1>3 DEF Leaves, SendType
<1> QED BY <1>2, <1>3

LEMMA TypeSender ==
  ASSUME TypeOK, LocalFacts, NEW i \in Sender, SenderStep(i)
  PROVE  TypeOK'
<1> USE ScanAssumption, SameTypes DEF TypeOK, LocalFacts
<1>1. CASE SenderLock(i)
      BY <1>1 DEF SenderLock, SendType, SenderPc
<1>2. CASE SenderInit(i)
      BY <1>2 DEF SenderInit, SendType, SenderPc
<1>3. CASE SenderInitFail(i) \/ SenderClear(i)
      BY <1>3 DEF SenderInitFail, SenderClear, SendType, SenderPc
<1>4. CASE SenderTest(i) \/ SenderStop(i)
      BY <1>4 DEF SenderTest, SenderStop, SendType, SenderPc
<1>5. CASE SenderNext(i)
      BY <1>5 DEF SenderNext, SendType, SenderPc
<1>6. CASE SenderSend(i)
  <2>1. SendType'
    <3>1. <<i, left[i]>> \in Address
          BY <1>6 DEF SenderSend, SendType, SendFacts, Address
    <3>2. shard' \in [Sender -> [sent : Nat, failures : Nat]]
          BY <1>6 DEF SenderSend, SendType
    <3>3. probed' \subseteq Address
          BY <1>6, <3>1 DEF SenderSend, SendType
    <3>4. /\ spc' \in [Sender -> SenderPc]
          /\ left' \in [Sender -> 0 .. MaxShare]
          /\ stream' \in [Sender -> 0 .. Streams - 1]
          BY <1>6, AdvanceType DEF SenderSend
    <3>5. late' \in [Sender -> Nat] /\ silence' \in 0 .. Cooldown + 1
          BY <1>6, LeavesType DEF SenderSend
    <3> QED BY <1>6, <3>2, <3>3, <3>4, <3>5 DEF SenderSend, SendType
  <2> QED BY <1>6, <2>1 DEF SenderSend
<1>7. CASE SenderPrint(i)
  <2>1. /\ spc' \in [Sender -> SenderPc]
        /\ left' \in [Sender -> 0 .. MaxShare]
        /\ stream' \in [Sender -> 0 .. Streams - 1]
        BY <1>7, AdvanceType DEF SenderPrint
  <2>2. late' \in [Sender -> Nat] /\ silence' \in 0 .. Cooldown + 1
        BY <1>7, LeavesType DEF SenderPrint
  <2>3. SendType' BY <1>7, <2>1, <2>2 DEF SenderPrint, SendType
  <2> QED BY <1>7, <2>3 DEF SenderPrint
<1>8. CASE CallbackBegin(i)
  <2>1. SendType'
        BY <1>8 DEF CallbackBegin, SendType, SenderPc, AfterCallback
  <2>2. zsend' \in [sent : Nat, failures : Nat, complete : BOOLEAN]
    <3> HIDE SameTypes, ScanAssumption
    <3>1. shard[i].sent \in Nat /\ shard[i].failures \in Nat
          BY DEF SendType
    <3>2. zsend \in [sent : Nat, failures : Nat, complete : BOOLEAN]
          BY DEF IterType
    <3>3. zsend' = [sent |-> zsend.sent + shard[i].sent,
                    failures |-> zsend.failures + shard[i].failures,
                    complete |-> zsend.complete]
          BY <1>8 DEF CallbackBegin
    <3> HIDE DEF TypeOK
    <3> QED BY <3>1, <3>2, <3>3
  <2>3. complete' \in [Sender -> BOOLEAN] /\ it_mutex' \in Sender \cup {Free}
        BY <1>8 DEF CallbackBegin, IterType
  <2>4. IterType' BY <2>2, <2>3 DEF IterType
  <2> QED BY <1>8, <2>1, <2>4 DEF CallbackBegin
<1>9. CASE CallbackFinish(i)
  <2>1. SendType' BY <1>9 DEF CallbackFinish, SendType, SenderPc
  <2>2. TimeType' BY <1>9 DEF CallbackFinish, TimeType
  <2> QED BY <1>9, <2>1, <2>2 DEF CallbackFinish
<1>10. CASE CallbackPublish(i)
  <2>1. SendType'
        BY <1>10 DEF CallbackPublish, SendType, SenderPc, AfterCallback
  <2>2. IterType' BY <1>10 DEF CallbackPublish, IterType
  <2> QED BY <1>10, <2>1, <2>2 DEF CallbackPublish
<1>11. CASE SenderFlush(i)
      BY <1>11 DEF SenderFlush, SendType, SenderPc
<1> QED BY <1>1, <1>2, <1>3, <1>4, <1>5, <1>6, <1>7, <1>8, <1>9, <1>10, <1>11
        DEF SenderStep

LEMMA OneType == ASSUME NEW b PROVE One(b) \in {0, 1}
BY DEF One

LEMMA TypeRecv ==
  ASSUME TypeOK, LocalFacts, RecvStep \/ Arrival
  PROVE  TypeOK'
<1> USE ScanAssumption, SameTypes DEF TypeOK, LocalFacts
<1>1. CASE RecvOpen  BY <1>1 DEF RecvOpen, RecvType
<1>2. CASE RecvReady BY <1>2 DEF RecvReady, RecvType
<1>3. CASE RecvCount
  <2>1. zrecv' \in [success_total : Nat, success_unique : Nat,
                    cooldown_total : Nat, cooldown_unique : Nat,
                    failure_total : Nat, complete : BOOLEAN]
    <3> HIDE SameTypes, ScanAssumption
    <3>1. zrecv' = Counted(packet, zsend.complete) BY <1>3 DEF RecvCount
    <3>2. zrecv \in [success_total : Nat, success_unique : Nat,
                     cooldown_total : Nat, cooldown_unique : Nat,
                     failure_total : Nat, complete : BOOLEAN]
          BY DEF RecvType
    <3> HIDE DEF TypeOK
    <3> QED BY <3>1, <3>2, OneType DEF Counted
  <2>2. seen' \subseteq Address
        BY <1>3 DEF RecvCount, RecvType, PacketFacts, Packet
  <2>3. rows' \in [all : Nat, cooldown : Nat]
        BY <1>3 DEF RecvCount, RecvType, One
  <2>4. RecvType' BY <1>3, <2>1, <2>2, <2>3 DEF RecvCount, RecvType
  <2> QED BY <1>3, <2>4 DEF RecvCount
<1>4. CASE RecvLeave BY <1>4 DEF RecvLeave, RecvType
<1>5. CASE RecvClose BY <1>5 DEF RecvClose, RecvType, MonType
<1>6. CASE RecvForget BY <1>6 DEF RecvForget, RecvType, MonType
<1>7. CASE RecvFinal BY <1>7 DEF RecvFinal, RecvType
<1>8. CASE Arrival
  <2> SUFFICES ASSUME NEW a \in probed, NEW success \in BOOLEAN,
                      RecvPacket(a, success)
               PROVE  TypeOK'
      BY <1>8 DEF Arrival
  <2>1. [src |-> a, success |-> success, repeat |-> a \in seen,
         cooldown |-> zsend.complete] \in Packet
        BY DEF Packet, SendType, IterType
  <2>2. RecvType' BY <2>1 DEF RecvPacket, RecvType
  <2> QED BY <2>2 DEF RecvPacket
<1> QED BY <1>1, <1>2, <1>3, <1>4, <1>5, <1>6, <1>7, <1>8 DEF RecvStep

LEMMA TypeOther ==
  ASSUME TypeOK, MonStep \/ Tick \/ UNCHANGED vars
  PROVE  TypeOK'
<1> USE ScanAssumption, SameTypes DEF TypeOK, LocalFacts
<1>1. CASE MonTest   BY <1>1 DEF MonTest, MonType
<1>2. CASE MonLock   BY <1>2 DEF MonLock, MonType
<1>3. CASE MonUnlock BY <1>3 DEF MonUnlock, MonType
<1>4. CASE Tick
  <2>1. TimeType' BY <1>4 DEF Tick, Capped, TimeType
  <2>2. SendType' BY <1>4 DEF Tick, Capped, SendType
  <2> QED BY <1>4, <2>1, <2>2 DEF Tick
<1>5. CASE UNCHANGED vars BY <1>5 DEF vars
<1> QED BY <1>1, <1>2, <1>3, <1>4, <1>5 DEF MonStep

LEMMA TypeStep == TypeOK /\ LocalFacts /\ [Next]_vars => TypeOK'
BY TypeMain, TypeSender, TypeRecv, TypeOther DEF Next, Done

(***************************************************************************)
(* The other conjuncts of the inductive invariant, one lemma for each.     *)
(***************************************************************************)
LEMMA SendFactsStep == TypeOK /\ SendFacts /\ [Next]_vars => SendFacts'
<1> SUFFICES ASSUME TypeOK, SendFacts, [Next]_vars PROVE SendFacts'
    OBVIOUS
<1> USE DEF SendFacts
<1>1. CASE UNCHANGED <<spc, left>>
      BY <1>1
<1>2. CASE MainSpawn
      BY <1>2 DEF MainSpawn, TypeOK, SendType
<1>3. ASSUME NEW i \in Sender, SenderStep(i) PROVE SendFacts'
  <2>1. CASE SenderNext(i)
        BY <2>1 DEF SenderNext, MustStop, TypeOK, SendType
  <2>2. CASE SenderSend(i) \/ SenderPrint(i)
        BY <2>2 DEF SenderSend, SenderPrint, Advance, TypeOK, SendType
  <2>3. CASE \/ SenderLock(i) \/ SenderInit(i) \/ SenderInitFail(i)
             \/ SenderClear(i) \/ SenderTest(i) \/ SenderStop(i) \/ SenderFlush(i)
        BY <2>3 DEF SenderLock, SenderInit, SenderInitFail, SenderClear,
                    SenderTest, SenderStop, SenderFlush, TypeOK, SendType
  <2>4. CASE CallbackBegin(i) \/ CallbackFinish(i) \/ CallbackPublish(i)
        BY <2>4 DEF CallbackBegin, CallbackFinish, CallbackPublish,
                    AfterCallback, TypeOK, SendType
  <2> QED BY <1>3, <2>1, <2>2, <2>3, <2>4 DEF SenderStep
<1>4. CASE Main /\ ~MainSpawn
      BY <1>1, <1>4 DEF Main, MainStartRecv, MainLock, MainTest,
         MainSpawnMonitor, MainJoinSender, MainJoinRecv, MainFinish, sendVars
<1>5. CASE RecvStep \/ Arrival
      BY <1>1, <1>5 DEF RecvStep, Arrival, RecvOpen, RecvReady, RecvCount,
         RecvLeave, RecvClose, RecvForget, RecvFinal, RecvPacket, sendVars
<1>6. CASE MonStep \/ Tick \/ UNCHANGED vars
      BY <1>1, <1>6 DEF MonStep, MonTest, MonLock, MonUnlock, Tick, vars,
         sendVars
<1> QED BY <1>2, <1>3, <1>4, <1>5, <1>6 DEF Next, Done

\* What each thread leaves alone.
LEMMA Frames ==
  /\ Main => UNCHANGED <<dryrun, left, stream, shard, sockaddr, probed,
                         send_mutex, silence, late,
                         iterVars, timeVars, pcap, recv_ready, seen, zrecv,
                         packet, captured, rows>>
  /\ \A i \in Sender : SenderStep(i) => UNCHANGED <<mainVars, recvVars, monpc,
                                                   recv_ready_mutex>>
  /\ RecvStep \/ Arrival => UNCHANGED <<mainVars, sendVars, iterVars, timeVars,
                                        monpc>>
  /\ MonStep => UNCHANGED <<mainVars, sendVars, iterVars, timeVars, recvVars>>
  /\ Tick => UNCHANGED <<mainVars, spc, left, stream, shard, sockaddr, probed,
                         send_mutex, late, iterVars, recvVars, monpc,
                         recv_ready_mutex>>
<1> USE DEF mainVars, sendVars, iterVars, timeVars, recvVars
<1>1. ASSUME Main
      PROVE  UNCHANGED <<dryrun, left, stream, shard, sockaddr, probed,
                         send_mutex, silence, late,
                         iterVars, timeVars, pcap, recv_ready, seen, zrecv,
                         packet, captured, rows>>
      BY <1>1 DEF Main, MainStartRecv, MainLock, MainTest, MainSpawn,
         MainSpawnMonitor, MainJoinSender, MainJoinRecv, MainFinish
<1>2. ASSUME NEW i \in Sender, SenderStep(i)
      PROVE  UNCHANGED <<mainVars, recvVars, monpc, recv_ready_mutex>>
      BY <1>2 DEF SenderStep, SenderLock, SenderInit, SenderInitFail,
         SenderClear, SenderTest, SenderStop, SenderNext, SenderSend, SenderPrint,
         CallbackBegin,
         CallbackFinish, CallbackPublish, SenderFlush
<1>3. ASSUME RecvStep \/ Arrival
      PROVE  UNCHANGED <<mainVars, sendVars, iterVars, timeVars, monpc>>
      BY <1>3 DEF RecvStep, Arrival, RecvOpen, RecvReady, RecvCount,
         RecvLeave, RecvClose, RecvForget, RecvFinal, RecvPacket
<1>4. ASSUME MonStep
      PROVE  UNCHANGED <<mainVars, sendVars, iterVars, timeVars, recvVars>>
      BY <1>4 DEF MonStep, MonTest, MonLock, MonUnlock
<1>5. ASSUME Tick
      PROVE  UNCHANGED <<mainVars, spc, left, stream, shard, sockaddr, probed,
                         send_mutex, late, iterVars, recvVars, monpc,
                         recv_ready_mutex>>
      BY <1>5 DEF Tick
<1> QED BY <1>1, <1>2, <1>3, <1>4, <1>5

LEMMA DryrunKept == [Next]_vars => dryrun' = dryrun
BY Frames DEF Next, Done, vars, mainVars

LEMMA PacketFactsStep == TypeOK /\ PacketFacts /\ [Next]_vars => PacketFacts'
<1> SUFFICES ASSUME TypeOK, PacketFacts, [Next]_vars PROVE PacketFacts'
    OBVIOUS
<1> USE Frames DEF PacketFacts, ResultsFull, iterVars, recvVars
<1>1. CASE Main
      BY <1>1 DEF Main, MainStartRecv, MainLock, MainTest, MainSpawn,
         MainSpawnMonitor, MainJoinSender, MainJoinRecv, MainFinish
<1>2. ASSUME NEW i \in Sender, SenderStep(i) PROVE PacketFacts'
  <2>1. zsend.complete => zsend'.complete
        BY <1>2 DEF SenderStep, SenderLock, SenderInit, SenderInitFail,
           SenderClear, SenderTest, SenderStop, SenderNext, SenderSend, SenderPrint,
           CallbackBegin,
           CallbackFinish, CallbackPublish, SenderFlush, TypeOK, IterType
  <2> QED BY <1>2, <2>1
<1>3. CASE RecvStep
      BY <1>3 DEF RecvStep, RecvOpen, RecvReady, RecvCount, RecvLeave,
         RecvClose, RecvForget, RecvFinal
<1>4. CASE Arrival
  <2> SUFFICES ASSUME NEW a \in probed, NEW success \in BOOLEAN,
                      RecvPacket(a, success)
               PROVE  PacketFacts'
      BY <1>4 DEF Arrival
  <2>1. [src |-> a, success |-> success, repeat |-> a \in seen,
         cooldown |-> zsend.complete] \in Packet
        BY DEF Packet, TypeOK, SendType, IterType
  <2>2. seen' = seen /\ zrecv' = zrecv /\ zsend' = zsend
        BY <1>4 DEF RecvPacket
  <2>3. CASE ResultsFull
        BY <2>3 DEF RecvPacket
  <2>4. CASE ~ResultsFull
    <3> DEFINE p == [src |-> a, success |-> success, repeat |-> a \in seen,
                     cooldown |-> zsend.complete]
    <3>1. packet' = p BY <2>4 DEF RecvPacket
    <3>2. p.repeat <=> p.src \in seen OBVIOUS
    <3>3. p.cooldown <=> zsend.complete OBVIOUS
    <3> HIDE DEF p
    <3> QED BY <2>1, <2>2, <2>4, <3>1, <3>2, <3>3 DEF p
  <2> QED BY <2>3, <2>4
<1>5. CASE MonStep \/ Tick \/ UNCHANGED vars BY <1>5 DEF vars
<1> QED BY <1>1, <1>2, <1>3, <1>4, <1>5 DEF Next, Done

LEMMA SpawnFactsStep == TypeOK /\ SpawnFacts /\ [Next]_vars => SpawnFacts'
<1> SUFFICES ASSUME TypeOK, SpawnFacts, [Next]_vars PROVE SpawnFacts'
    OBVIOUS
<1> USE Frames DEF SpawnFacts, mainVars
<1>1. CASE Main
  <2>1. CASE MainSpawn
        BY <2>1, ScanAssumption
        DEF MainSpawn, TypeOK, MainType, SendType, Sender, recvVars
  <2>2. CASE Main /\ ~MainSpawn
        BY <2>2, ScanAssumption
        DEF Main, MainStartRecv, MainLock, MainTest, MainSpawnMonitor,
            MainJoinSender, MainJoinRecv, MainFinish, sendVars, recvVars,
            TypeOK, MainType
  <2> QED BY <1>1, <2>1, <2>2
<1>2. ASSUME NEW i \in Sender, SenderStep(i) PROVE SpawnFacts'
  <2>1. spc[i] # "absent" /\ \A j \in Sender \ {i} : spc'[j] = spc[j]
        BY <1>2 DEF SenderStep, SenderLock, SenderInit, SenderInitFail,
           SenderClear, SenderTest, SenderStop, SenderNext, SenderSend, SenderPrint,
           CallbackBegin,
           CallbackFinish, CallbackPublish, SenderFlush, Advance, TypeOK,
           SendType
  <2> QED BY <1>2, <2>1 DEF recvVars
<1>3. CASE RecvStep \/ Arrival
      BY <1>3 DEF RecvStep, Arrival, RecvOpen, RecvReady, RecvCount,
         RecvLeave, RecvClose, RecvForget, RecvFinal, RecvPacket, sendVars
<1>4. CASE MonStep
      BY <1>4 DEF MonStep, MonTest, MonLock, MonUnlock, sendVars, recvVars
<1>5. CASE Tick \/ UNCHANGED vars
      BY <1>5 DEF vars, sendVars, recvVars
<1> QED BY <1>1, <1>2, <1>3, <1>4, <1>5 DEF Next, Done

LEMMA SendLocksStep ==
  TypeOK /\ SpawnFacts /\ SendLocks /\ [Next]_vars => SendLocks'
<1> SUFFICES ASSUME TypeOK, SpawnFacts, SendLocks, [Next]_vars
             PROVE  SendLocks'
    OBVIOUS
<1> USE Frames DEF SendLocks
<1>1. CASE Main
  <2>1. CASE MainSpawn
        BY <2>1, <1>1
        DEF MainSpawn, TypeOK, MainType, SendType, Sender, SpawnFacts, iterVars
  <2>2. CASE Main /\ ~MainSpawn
        BY <2>2, <1>1
        DEF Main, MainStartRecv, MainLock, MainTest, MainSpawnMonitor,
            MainJoinSender, MainJoinRecv, MainFinish, sendVars, iterVars
  <2> QED BY <1>1, <2>1, <2>2
<1>2. ASSUME NEW i \in Sender, SenderStep(i) PROVE SendLocks'
  <2> HIDE Frames
  <2>0. /\ spc \in [Sender -> SenderPc]
        /\ \A j \in Sender : j # Free
        BY ScanAssumption DEF TypeOK, SendType, Sender, Free
  <2>1. CASE SenderLock(i)
    <3>1. /\ send_mutex = Free /\ send_mutex' = i /\ it_mutex' = it_mutex
          /\ spc[i] = "lock" /\ spc' = [spc EXCEPT ![i] = "init"]
          BY <2>1 DEF SenderLock, iterVars
    <3> QED BY <2>0, <3>1
  <2>2. CASE SenderInit(i)
    <3>1. /\ send_mutex' = Free /\ it_mutex' = it_mutex
          /\ spc[i] = "fill" /\ spc' = [spc EXCEPT ![i] = "check"]
          BY <2>2 DEF SenderInit, iterVars
    <3> QED BY <2>0, <3>1
  <2>3. CASE SenderInitFail(i)
    <3>1. /\ send_mutex' = send_mutex /\ it_mutex' = it_mutex /\ InitMayFail
          /\ spc[i] = "init" /\ spc' = [spc EXCEPT ![i] = "exited"]
          BY <2>3 DEF SenderInitFail, iterVars
    <3> QED BY <2>0, <3>1
  <2>8. CASE SenderClear(i)
    <3>1. /\ send_mutex' = send_mutex /\ it_mutex' = it_mutex
          /\ spc[i] = "init" /\ spc' = [spc EXCEPT ![i] = "fill"]
          BY <2>8 DEF SenderClear, iterVars
    <3> QED BY <2>0, <3>1
  <2>4. CASE \/ SenderTest(i) \/ SenderStop(i) \/ SenderNext(i) \/ SenderSend(i)
             \/ SenderPrint(i) \/ SenderFlush(i)
    <3>1. /\ send_mutex' = send_mutex /\ it_mutex' = it_mutex
          /\ spc[i] \in {"check", "test", "send", "flush"}
          /\ \/ spc' = [spc EXCEPT ![i] = "callback"]
             \/ spc' = [spc EXCEPT ![i] = "test"]
             \/ spc' = [spc EXCEPT ![i] = "send"]
             \/ spc' = [spc EXCEPT ![i] = "check"]
             \/ spc' = spc
             \/ spc' = [spc EXCEPT ![i] = "exited"] /\ send_mutex = Free
          BY <2>4 DEF SenderTest, SenderStop, SenderNext, SenderSend, SenderPrint,
             SenderFlush, Advance, iterVars
    <3> QED BY <2>0, <3>1
  <2>5. CASE CallbackBegin(i)
    <3>1. /\ send_mutex' = send_mutex /\ it_mutex = Free
          /\ spc[i] = "callback"
          /\ \/ spc' = [spc EXCEPT ![i] = "finish"] /\ it_mutex' = i
             \/ spc' = [spc EXCEPT ![i] = "flush"] /\ it_mutex' = Free
             \/ spc' = [spc EXCEPT ![i] = "exited"] /\ it_mutex' = Free
          BY <2>5 DEF CallbackBegin, AfterCallback
    <3> QED BY <2>0, <3>1
  <2>6. CASE CallbackFinish(i)
    <3>1. /\ send_mutex' = send_mutex /\ it_mutex' = it_mutex
          /\ spc[i] = "finish" /\ spc' = [spc EXCEPT ![i] = "publish"]
          BY <2>6 DEF CallbackFinish, iterVars
    <3> QED BY <2>0, <3>1
  <2>7. CASE CallbackPublish(i)
    <3>1. /\ send_mutex' = send_mutex /\ it_mutex' = Free
          /\ spc[i] = "publish"
          /\ \/ spc' = [spc EXCEPT ![i] = "flush"]
             \/ spc' = [spc EXCEPT ![i] = "exited"]
          BY <2>7 DEF CallbackPublish, AfterCallback
    <3> QED BY <2>0, <3>1
  <2> QED BY <1>2, <2>1, <2>2, <2>3, <2>4, <2>5, <2>6, <2>7, <2>8
     DEF SenderStep
<1>3. CASE RecvStep \/ Arrival \/ MonStep \/ Tick \/ UNCHANGED vars
      BY <1>3 DEF vars, sendVars, iterVars
<1> QED BY <1>1, <1>2, <1>3 DEF Next, Done

LEMMA ReadyLockStep ==
  TypeOK /\ SpawnFacts /\ ReadyLock /\ [Next]_vars => ReadyLock'
<1> SUFFICES ASSUME TypeOK, SpawnFacts, ReadyLock, [Next]_vars
             PROVE  ReadyLock'
    OBVIOUS
<1> USE Frames DEF ReadyLock
<1>1. CASE Main
      BY <1>1 DEF Main, MainStartRecv, MainLock, MainTest, MainSpawn,
         MainSpawnMonitor, MainJoinSender, MainJoinRecv, MainFinish,
         recvVars, SpawnFacts
<1>2. ASSUME NEW i \in Sender, SenderStep(i) PROVE ReadyLock'
      BY <1>2 DEF mainVars, recvVars
<1>3. CASE RecvStep \/ Arrival
      BY <1>3 DEF RecvStep, Arrival, RecvOpen, RecvReady, RecvCount,
         RecvLeave, RecvClose, RecvForget, RecvFinal, RecvPacket, mainVars
<1>4. CASE MonStep
      BY <1>4 DEF MonStep, MonTest, MonLock, MonUnlock, mainVars, recvVars
<1>5. CASE Tick \/ UNCHANGED vars
      BY <1>5 DEF vars, mainVars, recvVars
<1> QED BY <1>1, <1>2, <1>3, <1>4, <1>5 DEF Next, Done

LEMMA HandleFactsStep ==
  TypeOK /\ SpawnFacts /\ ReadyLock /\ HandleFacts /\ [Next]_vars
    => HandleFacts'
<1> SUFFICES ASSUME TypeOK, SpawnFacts, ReadyLock, HandleFacts, [Next]_vars
             PROVE  HandleFacts'
    OBVIOUS
<1>0. dryrun' = dryrun BY DryrunKept
<1> USE Frames, <1>0 DEF HandleFacts
<1>1. CASE Main
      BY <1>1 DEF Main, MainStartRecv, MainLock, MainTest, MainSpawn,
         MainSpawnMonitor, MainJoinSender, MainJoinRecv, MainFinish,
         recvVars, SpawnFacts
<1>2. ASSUME NEW i \in Sender, SenderStep(i) PROVE HandleFacts'
      BY <1>2 DEF recvVars
<1>3. CASE RecvStep \/ Arrival
  <2>1. monpc' = monpc BY <1>3
  <2>2. monpc = "stats" => recv_ready_mutex = "mon" BY DEF ReadyLock
  <2>3. CASE RecvOpen \/ RecvReady \/ RecvCount \/ RecvLeave
        BY <2>1, <2>3 DEF RecvOpen, RecvReady, RecvCount, RecvLeave
  <2>4. CASE RecvClose \/ RecvForget \/ RecvFinal
        BY <2>1, <2>2, <2>4
        DEF RecvClose, RecvForget, RecvFinal, ReadyLock
  <2>5. CASE Arrival
        BY <2>1, <2>5 DEF Arrival, RecvPacket
  <2> QED BY <1>3, <2>3, <2>4, <2>5 DEF RecvStep
<1>4. CASE MonStep
      BY <1>4 DEF MonStep, MonTest, MonLock, MonUnlock, recvVars, ReadyLock,
         TypeOK, RecvType
<1>5. CASE Tick \/ UNCHANGED vars
      BY <1>5 DEF vars, recvVars
<1> QED BY <1>1, <1>2, <1>3, <1>4, <1>5 DEF Next, Done

LEMMA CompletionFactsStep ==
  TypeOK /\ SpawnFacts /\ CompletionFacts /\ [Next]_vars => CompletionFacts'
<1> SUFFICES ASSUME TypeOK, SpawnFacts, CompletionFacts, [Next]_vars
             PROVE  CompletionFacts'
    OBVIOUS
<1> USE Frames DEF CompletionFacts, LastOne
<1>1. CASE Main
  <2>1. CASE MainSpawn
        BY <2>1, <1>1 DEF MainSpawn, TypeOK, MainType, SendType, Sender,
           SpawnFacts, iterVars, timeVars
  <2>2. CASE Main /\ ~MainSpawn
        BY <2>2, <1>1
        DEF Main, MainStartRecv, MainLock, MainTest, MainSpawnMonitor,
            MainJoinSender, MainJoinRecv, MainFinish, sendVars, iterVars,
            timeVars
  <2> QED BY <1>1, <2>1, <2>2
<1>2. ASSUME NEW i \in Sender, SenderStep(i) PROVE CompletionFacts'
  <2> USE DEF TypeOK, SendType, IterType
  <2>1. CASE \/ SenderLock(i) \/ SenderInit(i) \/ SenderInitFail(i)
             \/ SenderClear(i) \/ SenderTest(i) \/ SenderStop(i) \/ SenderNext(i)
             \/ SenderFlush(i)
        BY <2>1 DEF SenderLock, SenderInit, SenderInitFail,
           SenderClear, SenderTest, SenderStop, SenderNext, SenderFlush, iterVars, timeVars
  <2>2. CASE SenderSend(i) \/ SenderPrint(i)
        BY <2>2 DEF SenderSend, SenderPrint, Leaves, Advance, iterVars, timeVars
  <2>3. CASE CallbackBegin(i)
        BY <2>3 DEF CallbackBegin, AfterCallback, timeVars
  <2>4. CASE CallbackFinish(i)
        BY <2>4, ScanAssumption DEF CallbackFinish, iterVars
  <2>5. CASE CallbackPublish(i)
        BY <2>5 DEF CallbackPublish, AfterCallback, timeVars
  <2> QED BY <1>2, <2>1, <2>2, <2>3, <2>4, <2>5 DEF SenderStep
<1>3. CASE RecvStep \/ Arrival \/ MonStep \/ UNCHANGED vars
      BY <1>3 DEF vars, sendVars, iterVars, timeVars
<1>4. CASE Tick
      BY <1>4, ScanAssumption
      DEF Tick, Capped, iterVars, TypeOK, SendType, TimeType
<1> QED BY <1>1, <1>2, <1>3, <1>4 DEF Next, Done

LEMMA CooldownStep ==
  TypeOK /\ SpawnFacts /\ CompletionFacts /\ CooldownHonoured /\ [Next]_vars
    => CooldownHonoured'
<1> SUFFICES ASSUME TypeOK, SpawnFacts, CompletionFacts, CooldownHonoured,
                    [Next]_vars
             PROVE  CooldownHonoured'
    OBVIOUS
<1>0. dryrun' = dryrun BY DryrunKept
<1> USE Frames, <1>0 DEF CooldownHonoured, Listening, Full, ResultsFull, Stopped
<1>1. CASE Main
  <2>1. CASE MainSpawn
        BY <2>1, <1>1 DEF MainSpawn, TypeOK, MainType, SendType, Sender,
           SpawnFacts, recvVars
  <2>2. CASE Main /\ ~MainSpawn
        BY <2>2, <1>1
        DEF Main, MainStartRecv, MainLock, MainTest, MainSpawnMonitor,
            MainJoinSender, MainJoinRecv, MainFinish, sendVars, recvVars
  <2> QED BY <1>1, <2>1, <2>2
<1>2. ASSUME NEW i \in Sender, SenderStep(i) PROVE CooldownHonoured'
  <2> USE DEF TypeOK, SendType
  <2>1. CASE \/ SenderLock(i) \/ SenderInit(i) \/ SenderInitFail(i)
             \/ SenderClear(i) \/ SenderTest(i) \/ SenderStop(i) \/ SenderNext(i)
             \/ SenderFlush(i)
        BY <1>2, <2>1 DEF SenderLock, SenderInit, SenderInitFail,
           SenderClear, SenderTest, SenderStop, SenderNext, SenderFlush, recvVars
  <2>2. CASE SenderSend(i) \/ SenderPrint(i)
        BY <1>2, <2>2 DEF SenderSend, SenderPrint, Leaves, recvVars
  <2>3. CASE CallbackBegin(i) \/ CallbackFinish(i) \/ CallbackPublish(i)
        BY <1>2, <2>3 DEF CallbackBegin, CallbackFinish, CallbackPublish,
           AfterCallback, recvVars
  <2> QED BY <1>2, <2>1, <2>2, <2>3 DEF SenderStep
<1>3. CASE RecvLeave
      BY <1>3, ScanAssumption DEF RecvLeave, CooldownOver, CompletionFacts,
         LastOne, TypeOK, SendType, TimeType, sendVars
<1>4. CASE RecvStep /\ ~RecvLeave
      BY <1>4 DEF RecvStep, RecvOpen, RecvReady, RecvCount, RecvClose,
         RecvForget, RecvFinal, sendVars, TypeOK, RecvType
<1>5. CASE Arrival
      BY <1>5 DEF Arrival, RecvPacket, sendVars
<1>6. CASE MonStep \/ UNCHANGED vars
      BY <1>6 DEF vars, sendVars, recvVars
<1>7. CASE Tick
      BY <1>7, ScanAssumption DEF Tick, Capped, recvVars, TypeOK, SendType
<1> QED BY <1>1, <1>2, <1>3, <1>4, <1>5, <1>6, <1>7 DEF Next, RecvStep, Done

-----------------------------------------------------------------------------
LEMMA InvInit == Init => ScanInv
<1> SUFFICES ASSUME Init PROVE ScanInv
    OBVIOUS
<1>1. TypeOK BY TypeInit
<1>2. LocalFacts BY DEF Init, LocalFacts, SendFacts, PacketFacts
<1>3. SpawnFacts BY DEF Init, SpawnFacts
<1>4. LockOwners
      BY ScanAssumption DEF Init, LockOwners, SendLocks, ReadyLock, Sender,
      Free
<1>5. HandleFacts BY DEF Init, HandleFacts
<1>6. CompletionFacts BY DEF Init, CompletionFacts
<1>7. CooldownHonoured BY DEF Init, CooldownHonoured, Listening
<1> QED BY <1>1, <1>2, <1>3, <1>4, <1>5, <1>6, <1>7 DEF ScanInv

LEMMA InvStep == ScanInv /\ [Next]_vars => ScanInv'
BY TypeStep, SendFactsStep, PacketFactsStep, SpawnFactsStep, SendLocksStep,
   ReadyLockStep, HandleFactsStep, CompletionFactsStep, CooldownStep
DEF ScanInv, LocalFacts, LockOwners

\* The strengthening of the invariants below, as a property of its own: what
\* every thread knows at each of its program points.
THEOREM Invariance == Spec => []ScanInv
<1>1. Spec => Init /\ [][Next]_vars BY DEF Spec, SafeSpec
<1>2. QED BY InvInit, InvStep, <1>1, PTL

\* Every variable keeps its type, for any number of threads and any limits.
THEOREM TypeCorrect == Spec => []TypeOK
<1>1. ScanInv => TypeOK BY DEF ScanInv
<1>2. QED BY Invariance, <1>1, PTL

\* The three mutexes exclude: whoever is inside a critical section of
\* send_run, shard_complete, recv_run, main's poll or the monitor holds its
\* mutex, and no two threads are inside at once.
THEOREM MutualExclusion == Spec => []LockOwners
<1>1. ScanInv => LockOwners BY DEF ScanInv
<1>2. QED BY Invariance, <1>1, PTL

\* The monitor never hands pcap_stats a closed handle.
THEOREM PcapSafe == Spec => []PcapNotUsedAfterClose
<1>1. ScanInv => PcapNotUsedAfterClose
      BY DEF ScanInv, HandleFacts, PcapNotUsedAfterClose
<1>2. QED BY Invariance, <1>1, PTL

\* zsend.complete is set only when every send thread is past its last probe.
THEOREM CompletionSound == Spec => []CompleteMeansStopped
<1>1. ScanInv => CompleteMeansStopped
      BY DEF ScanInv, CompletionFacts, CompleteMeansStopped, LastOne, Stopped
<1>2. QED BY Invariance, <1>1, PTL

\* The receiver listens through the whole cooldown after the last probe of the
\* last thread, unless it has its max_results.
THEOREM CooldownKept == Spec => []CooldownHonoured
<1>1. ScanInv => CooldownHonoured BY DEF ScanInv
<1>2. QED BY Invariance, <1>1, PTL

-----------------------------------------------------------------------------
(***************************************************************************)
(* The results: each host of `seen' was probed and counted once.           *)
(***************************************************************************)
ResultFacts ==
  /\ IsFiniteSet(seen) /\ seen \subseteq probed
  /\ rpc = "packet" => packet.src \in probed
  /\ ResultsExact
  /\ zrecv.complete => rpc = "exited"

LEMMA ResultInit == Init => ResultFacts
<1>1. IsFiniteSet({}) /\ Cardinality({}) = 0 BY FS_EmptySet
<1> QED BY <1>1, ScanAssumption DEF Init, ResultFacts, ResultsExact

\* packet_cb counts a host when it adds it to `seen'
LEMMA CountStep == ScanInv /\ ResultFacts /\ RecvCount => ResultFacts'
<1> SUFFICES ASSUME ScanInv, ResultFacts, RecvCount PROVE ResultFacts'
    OBVIOUS
<1> DEFINE new == packet.success /\ ~packet.repeat
<1>1. /\ packet \in Packet /\ ~ResultsFull
      /\ packet.repeat <=> packet.src \in seen
      BY DEF ScanInv, LocalFacts, PacketFacts, RecvCount
<1>2. /\ zrecv.success_unique \in Nat /\ MaxResults \in Nat
      BY ScanAssumption DEF ScanInv, TypeOK, RecvType
<1>3. /\ zrecv'.success_unique = zrecv.success_unique + One(new)
      /\ zrecv'.complete = zrecv.complete
      BY DEF RecvCount, Counted
<1>4. probed' = probed BY Frames DEF RecvStep, sendVars
<1>5. rpc = "packet" /\ rpc' = "dispatch" BY DEF RecvCount
<1>6. IsFiniteSet(seen') /\ seen' \subseteq probed
      BY FS_AddElement DEF RecvCount, ResultFacts
<1>7. zrecv'.success_unique = Cardinality(seen')
  <2>1. zrecv.success_unique = Cardinality(seen)
        BY DEF ResultFacts, ResultsExact
  <2>2. CASE new
    <3>1. seen' = seen \cup {packet.src} /\ packet.src \notin seen
          BY <1>1, <2>2 DEF RecvCount
    <3>2. Cardinality(seen') = Cardinality(seen) + 1
          BY <3>1, FS_AddElement DEF ResultFacts
    <3> QED BY <1>3, <2>1, <2>2, <3>2 DEF One
  <2>3. CASE ~new
    <3>1. seen' = seen BY <1>1, <2>3 DEF RecvCount
    <3> QED BY <1>2, <1>3, <2>1, <2>3, <3>1 DEF One
  <2> QED BY <2>2, <2>3
<1>8. MaxResults > 0 => zrecv'.success_unique <= MaxResults
  <2>1. MaxResults > 0 => zrecv.success_unique < MaxResults
        BY <1>1, <1>2 DEF ResultsFull
  <2>2. One(new) \in {0, 1} BY DEF One
  <2> HIDE DEF new
  <2> QED BY <1>2, <1>3, <2>1, <2>2
<1>9. ~zrecv'.complete BY <1>3, <1>5 DEF ResultFacts
<1> QED BY <1>4, <1>5, <1>6, <1>7, <1>8, <1>9 DEF ResultFacts, ResultsExact

LEMMA ResultStep == ScanInv /\ ResultFacts /\ [Next]_vars => ResultFacts'
<1> SUFFICES ASSUME ScanInv, ResultFacts, [Next]_vars PROVE ResultFacts'
    OBVIOUS
<1> USE Frames DEF ResultFacts, ResultsExact, sendVars, recvVars
<1>1. CASE Main
  <2>1. UNCHANGED <<probed, seen, zrecv, packet>> BY <1>1
  <2>2. rpc' = rpc \/ (~zrecv.complete /\ rpc' = "open")
        BY <1>1 DEF Main, MainStartRecv, MainLock, MainTest, MainSpawn,
           MainSpawnMonitor, MainJoinSender, MainJoinRecv, MainFinish,
           ScanInv, SpawnFacts
  <2> QED BY <2>1, <2>2
<1>2. ASSUME NEW i \in Sender, SenderStep(i) PROVE ResultFacts'
  <2>1. probed \subseteq probed'
        BY <1>2 DEF SenderStep, SenderLock, SenderInit, SenderInitFail,
           SenderClear, SenderTest, SenderStop, SenderNext, SenderSend, SenderPrint,
           CallbackBegin,
           CallbackFinish, CallbackPublish, SenderFlush
  <2> QED BY <1>2, <2>1
<1>3. CASE RecvCount BY <1>3, CountStep
<1>4. CASE RecvFinal
  <2>1. zrecv' = [zrecv EXCEPT !.complete = TRUE] /\ rpc' = "exited"
        BY <1>4 DEF RecvFinal
  <2>2. zrecv'.success_unique = zrecv.success_unique BY <2>1
  <2> QED BY <1>4, <2>1, <2>2 DEF RecvFinal, RecvStep
<1>5. CASE RecvOpen \/ RecvReady \/ RecvLeave \/ RecvClose \/ RecvForget
      BY <1>5 DEF RecvStep, RecvOpen, RecvReady, RecvLeave, RecvClose,
         RecvForget
<1>6. CASE Arrival
      BY <1>6 DEF Arrival, RecvPacket
<1>7. CASE MonStep \/ Tick \/ UNCHANGED vars BY <1>7 DEF vars
<1> QED BY <1>1, <1>2, <1>3, <1>4, <1>5, <1>6, <1>7 DEF Next, RecvStep, Done

LEMMA ResultInvariance == Spec => [](ScanInv /\ ResultFacts)
<1>1. Spec => Init /\ [][Next]_vars BY DEF Spec, SafeSpec
<1>2. QED BY InvInit, InvStep, ResultInit, ResultStep, <1>1, PTL

\* success_unique is the number of hosts in `seen' and never exceeds
\* max_results, however many packets arrive and however many are repeats.
THEOREM ResultsCorrect == Spec => []ResultsExact
<1>1. ResultFacts => ResultsExact BY DEF ResultFacts
<1>2. QED BY ResultInvariance, <1>1, PTL

-----------------------------------------------------------------------------
(***************************************************************************)
(* The last probes.  A thread between its test of zrecv.complete and the   *)
(* first probe of the address has sent none too late; one that is sending  *)
(* has sent at most those before the stream it is at.                      *)
(***************************************************************************)
LateFacts ==
  \A i \in Sender : /\ ~zrecv.complete \/ spc[i] = "test" => late[i] = 0
                    /\ spc[i] = "send" => late[i] <= stream[i]
                    /\ late[i] <= Streams

LEMMA LateInit == Init => LateFacts
BY ScanAssumption DEF Init, LateFacts

\* zrecv.complete is set once and stays.
LEMMA CompleteStays ==
  ASSUME ScanInv, ResultFacts, [Next]_vars, zrecv.complete
  PROVE  zrecv'.complete
<1>1. rpc = "exited" BY DEF ResultFacts
<1> QED BY <1>1, Frames DEF Next, Done, vars, recvVars, RecvStep, RecvOpen, RecvReady,
       RecvCount, RecvLeave, RecvClose, RecvForget, RecvFinal, Arrival, RecvPacket

\* A probe that leaves is the next of the streams, or the last.
LEMMA LateProbe ==
  ASSUME ScanInv, LateFacts, NEW j \in Sender, SenderSend(j) \/ SenderPrint(j)
  PROVE  LateFacts'
<1>1. /\ late \in [Sender -> Nat] /\ stream \in [Sender -> 0 .. Streams - 1]
      /\ spc \in [Sender -> SenderPc] /\ Streams \in Nat \ {0}
      BY ScanAssumption DEF ScanInv, TypeOK, SendType
<1>2. Leaves(j) /\ Advance(j) /\ spc[j] = "send" /\ zrecv' = zrecv
      BY Frames DEF SenderSend, SenderPrint, SenderStep, recvVars
<1>3. late[j] <= stream[j] /\ (~zrecv.complete => late[j] = 0) BY <1>2 DEF LateFacts
<1>4. late'[j] <= stream[j] + 1 /\ (~zrecv.complete => late'[j] = 0)
      BY <1>1, <1>2, <1>3 DEF Leaves
<1>5. late'[j] \in Nat /\ \A i \in Sender \ {j} : late'[i] = late[i]
      BY <1>1, <1>2 DEF Leaves
<1>6. \A i \in Sender \ {j} : spc'[i] = spc[i] /\ stream'[i] = stream[i]
      BY <1>1, <1>2 DEF Advance
<1>7. spc'[j] # "test" /\ (spc'[j] = "send" => late'[j] <= stream'[j])
      /\ late'[j] <= Streams
  <2>1. stream[j] \in 0 .. Streams - 1 BY <1>1
  <2>2. CASE stream[j] + 1 < Streams
    <3>1. stream'[j] = stream[j] + 1 /\ spc' = spc BY <1>1, <1>2, <2>2 DEF Advance
    <3> QED BY <1>1, <1>2, <1>4, <1>5, <2>1, <2>2, <3>1
  <2>3. CASE ~(stream[j] + 1 < Streams)
    <3>1. spc'[j] = "check" BY <1>1, <1>2, <2>3 DEF Advance
    <3> QED BY <1>1, <1>4, <1>5, <2>1, <2>3, <3>1
  <2> QED BY <2>2, <2>3
<1> QED BY <1>2, <1>4, <1>5, <1>6, <1>7 DEF LateFacts

LEMMA LateStep ==
  ScanInv /\ ResultFacts /\ LateFacts /\ [Next]_vars => LateFacts'
<1> SUFFICES ASSUME ScanInv, ResultFacts, LateFacts, [Next]_vars PROVE LateFacts'
    OBVIOUS
<1>1. /\ late \in [Sender -> Nat] /\ stream \in [Sender -> 0 .. Streams - 1]
      /\ spc \in [Sender -> SenderPc]
      BY DEF ScanInv, TypeOK, SendType
<1>2. ~zrecv'.complete => ~zrecv.complete BY CompleteStays
<1>3. ASSUME UNCHANGED <<late, stream>>,
             \A i \in Sender : spc'[i] \in {"test", "send"} => spc'[i] = spc[i]
      PROVE  LateFacts'
      BY <1>2, <1>3 DEF LateFacts
<1>4. CASE \E j \in Sender : SenderSend(j) \/ SenderPrint(j) BY <1>4, LateProbe
<1>5. ASSUME NEW j \in Sender, SenderNext(j) PROVE LateFacts'
  <2>1. /\ late' = late /\ zrecv' = zrecv /\ spc[j] = "test"
        /\ spc' = [spc EXCEPT ![j] = "send"] /\ stream' = [stream EXCEPT ![j] = 0]
        BY <1>5 DEF SenderNext, recvVars
  <2>2. late[j] = 0 BY <2>1 DEF LateFacts
  <2>3. stream'[j] = 0 /\ spc'[j] = "send"
        /\ \A i \in Sender \ {j} : stream'[i] = stream[i] /\ spc'[i] = spc[i]
        BY <1>1, <2>1
  <2> QED BY <2>1, <2>2, <2>3 DEF LateFacts
<1>6. ASSUME NEW j \in Sender, SenderTest(j) PROVE LateFacts'
  <2>1. UNCHANGED <<late, stream, zrecv>> /\ spc[j] = "check"
        BY <1>6 DEF SenderTest, recvVars
  <2>2. CASE zrecv.complete
        BY <1>1, <1>3, <1>6, <2>1, <2>2 DEF SenderTest
  <2>3. CASE ~zrecv.complete
    <3>1. \A i \in Sender : spc'[i] = "send" => spc[i] = "send"
          BY <1>1, <1>6 DEF SenderTest
    <3> QED BY <2>1, <2>3, <3>1 DEF LateFacts
  <2> QED BY <2>2, <2>3
<1>7. ASSUME NEW j \in Sender, \/ SenderLock(j) \/ SenderInitFail(j) \/ SenderClear(j)
                                 \/ SenderInit(j) \/ SenderStop(j) \/ CallbackBegin(j)
                                 \/ CallbackFinish(j) \/ CallbackPublish(j)
                                 \/ SenderFlush(j)
      PROVE  LateFacts'
      BY <1>1, <1>3, <1>7 DEF SenderLock, SenderInitFail, SenderClear, SenderInit,
         SenderStop, CallbackBegin, CallbackFinish, CallbackPublish, SenderFlush,
         AfterCallback
<1>8. CASE Main
  <2>1. UNCHANGED <<late, stream>> BY <1>8, Frames
  <2>2. \A i \in Sender : spc'[i] \in {"test", "send"} => spc'[i] = spc[i]
        BY <1>1, <1>8 DEF Main, MainStartRecv, MainLock, MainTest, MainSpawn,
           MainSpawnMonitor, MainJoinSender, MainJoinRecv, MainFinish, sendVars
  <2> QED BY <1>3, <2>1, <2>2
<1>9. CASE RecvStep \/ Arrival \/ MonStep \/ Tick \/ UNCHANGED vars
  <2>1. UNCHANGED <<late, stream, spc>> BY <1>9, Frames DEF vars, sendVars
  <2> QED BY <1>3, <2>1
<1> QED BY <1>4, <1>5, <1>6, <1>7, <1>8, <1>9 DEF Next, Done, SenderStep

\* After recv_run has set zrecv.complete a send thread sends at most the probes
\* of one address, however its unlocked test and the receiver interleave.
THEOREM LateProbesFew == Spec => []FewLateProbes
<1>1. LateFacts => FewLateProbes BY DEF LateFacts, FewLateProbes
<1>2. Spec => Init /\ [][Next]_vars BY DEF Spec, SafeSpec
<1>3. QED BY ResultInvariance, LateInit, LateStep, <1>1, <1>2, PTL

-----------------------------------------------------------------------------
(***************************************************************************)
(* Nothing is skipped: a thread that leaves its loop has done its share.   *)
(***************************************************************************)
Leaving(i) == spc[i] = "callback" \/ complete[i]
ShareDone(i) == left[i] = 0 \/ shard[i].sent >= MaxTargets
SkipFacts == MaxRuntime = 0 /\ ~Full
               => \A i \in Sender : Leaving(i) => ShareDone(i)

\* The results stay full.
LEMMA FullStays == ScanInv /\ [Next]_vars /\ Full => Full'
<1> SUFFICES ASSUME ScanInv, [Next]_vars, Full PROVE Full'
    OBVIOUS
<1>1. zrecv.success_unique \in Nat /\ MaxResults \in Nat
      BY ScanAssumption DEF ScanInv, TypeOK, RecvType
<1>0. dryrun' = dryrun BY DryrunKept
<1> USE <1>0
<1>2. CASE RecvCount
  <2>1. zrecv'.success_unique
          = zrecv.success_unique + One(packet.success /\ ~packet.repeat)
        BY <1>2 DEF RecvCount, Counted
  <2>2. One(packet.success /\ ~packet.repeat) \in {0, 1} BY DEF One
  <2> QED BY <1>1, <2>1, <2>2 DEF Full, ResultsFull
<1>3. CASE RecvFinal
  <2>1. zrecv'.success_unique = zrecv.success_unique
        BY <1>3 DEF RecvFinal
  <2> QED BY <2>1 DEF Full, ResultsFull
<1>4. CASE zrecv' = zrecv BY <1>4 DEF Full, ResultsFull
<1>5. RecvCount \/ RecvFinal \/ zrecv' = zrecv
      BY Frames DEF Next, Done, vars, recvVars, RecvStep, RecvOpen, RecvReady,
         RecvLeave, RecvClose, RecvForget, Arrival, RecvPacket
<1> QED BY <1>2, <1>3, <1>4, <1>5

\* The reasons to stop are the share, the time, and full results: zrecv.complete
\* is seen by a running thread only when the results are full.
LEMMA StopReason ==
  ASSUME ScanInv, ResultFacts, MaxRuntime = 0, ~Full,
         NEW i \in Sender
  PROVE  /\ spc[i] = "check" => ~zrecv.complete
         /\ spc[i] = "test" /\ MustStop(i) => ShareDone(i)
<1>1. CASE spc[i] = "check"
  <2>1. ~Stopped(i) BY <1>1 DEF Stopped
  <2>2. Listening BY <2>1 DEF ScanInv, CooldownHonoured
  <2> QED BY <1>1, <2>2 DEF ResultFacts, Listening
<1>2. CASE spc[i] = "test" BY <1>2 DEF MustStop, ShareDone
<1> QED BY <1>1, <1>2

LEMMA SkipStep ==
  ScanInv /\ ResultFacts /\ SkipFacts /\ [Next]_vars => SkipFacts'
<1> SUFFICES ASSUME ScanInv, ResultFacts, SkipFacts, [Next]_vars,
                    MaxRuntime = 0, ~Full', NEW i \in Sender, Leaving(i)'
             PROVE  ShareDone(i)'
    BY DEF SkipFacts
<1>1. ~Full BY FullStays
<1>2. Leaving(i) => ShareDone(i) BY <1>1 DEF SkipFacts
<1>3. complete[i] => spc[i] \notin {"check", "test", "send"}
      BY DEF ScanInv, CompletionFacts
<1>4. ASSUME NEW j \in Sender, SenderStep(j) PROVE ShareDone(i)'
  <2>1. CASE SenderStop(j)
    <3>1. UNCHANGED <<left, shard, complete>>
          BY <2>1 DEF SenderTest, SenderStop, iterVars
    <3>2. CASE i = j
          BY <1>1, <2>1, <3>1, <3>2, StopReason DEF SenderTest, SenderStop, ShareDone
    <3>3. CASE i # j
      <4>1. spc'[i] = spc[i]
            BY <2>1, <3>3 DEF SenderTest, SenderStop, ScanInv, TypeOK, SendType
      <4> QED BY <1>2, <3>1, <4>1 DEF Leaving, ShareDone
    <3> QED BY <3>2, <3>3
  <2>2. CASE CallbackBegin(j)
    <3>1. UNCHANGED <<left, shard>> /\ spc[j] = "callback"
          BY <2>2 DEF CallbackBegin
    <3>2. Leaving(i)
      <4>1. CASE i = j BY <3>1, <4>1 DEF Leaving
      <4>2. CASE i # j
            BY <2>2, <4>2
            DEF CallbackBegin, Leaving, ScanInv, TypeOK, SendType, IterType
      <4> QED BY <4>1, <4>2
    <3> QED BY <1>2, <3>1, <3>2 DEF ShareDone
  <2>3. CASE SenderNext(j) \/ SenderSend(j) \/ SenderPrint(j)
    <3>1. complete' = complete /\ spc[j] \in {"test", "send"}
          BY <2>3 DEF SenderNext, SenderSend, SenderPrint, iterVars
    <3>2. spc'[j] \in {"check", "send"}
          BY <2>3, <3>1 DEF SenderNext, SenderSend, SenderPrint, Advance,
             ScanInv, TypeOK, SendType
    <3>3. i # j BY <1>3, <3>1, <3>2 DEF Leaving
    <3>4. spc'[i] = spc[i] /\ left'[i] = left[i]
          BY <2>3, <3>3 DEF SenderNext, SenderSend, SenderPrint, Advance,
             ScanInv, TypeOK, SendType
    <3>5. shard'[i] = shard[i]
          BY <2>3, <3>3 DEF SenderNext, SenderSend, SenderPrint,
             ScanInv, TypeOK, SendType
    <3> QED BY <1>2, <3>1, <3>4, <3>5 DEF Leaving, ShareDone
  <2>4. CASE \/ SenderLock(j) \/ SenderInitFail(j) \/ SenderClear(j)
             \/ SenderInit(j) \/ CallbackFinish(j) \/ CallbackPublish(j)
             \/ SenderFlush(j)
    <3>1. UNCHANGED <<left, shard, complete>>
          BY <2>4 DEF SenderLock, SenderInitFail, SenderClear, SenderInit,
             CallbackFinish, CallbackPublish, SenderFlush, iterVars
    <3>2. spc'[i] = "callback" => spc[i] = "callback"
          BY <2>4 DEF SenderLock, SenderInitFail, SenderClear, SenderInit,
             CallbackFinish, CallbackPublish, SenderFlush, AfterCallback,
             ScanInv, TypeOK, SendType
    <3> QED BY <1>2, <3>1, <3>2 DEF Leaving, ShareDone
  <2>5. CASE SenderTest(j)
    <3>1. UNCHANGED <<left, shard, complete>> /\ spc[j] = "check"
          BY <2>5 DEF SenderTest, iterVars
    <3>2. spc' = [spc EXCEPT ![j] = "test"]
          BY <1>1, <2>5, <3>1, StopReason DEF SenderTest
    <3>3. spc'[i] = "callback" => spc[i] = "callback"
          BY <3>2 DEF ScanInv, TypeOK, SendType
    <3> QED BY <1>2, <3>1, <3>3 DEF Leaving, ShareDone
  <2> QED BY <1>4, <2>1, <2>2, <2>3, <2>4, <2>5 DEF SenderStep
<1>5. CASE Main
  <2>1. UNCHANGED <<left, shard, complete>> BY <1>5, Frames DEF iterVars
  <2>2. spc'[i] = "callback" => spc[i] = "callback"
        BY <1>5 DEF Main, MainStartRecv, MainLock, MainTest, MainSpawn,
           MainSpawnMonitor, MainJoinSender, MainJoinRecv, MainFinish,
           sendVars, ScanInv, TypeOK, SendType
  <2> QED BY <1>2, <2>1, <2>2 DEF Leaving, ShareDone
<1>6. CASE RecvStep \/ Arrival \/ MonStep \/ Tick \/ UNCHANGED vars
  <2>1. UNCHANGED <<left, shard, complete, spc>>
        BY <1>6, Frames DEF vars, sendVars, iterVars
  <2> QED BY <1>2, <2>1 DEF Leaving, ShareDone
<1> QED BY <1>4, <1>5, <1>6 DEF Next, Done

\* When sending is complete, neither stopped by full results nor by the clock,
\* every send thread has gone through its addresses or spent its max_targets.
THEOREM NothingSkippedCorrect == Spec => []NothingSkipped
<1>1. Spec => Init /\ [][Next]_vars BY DEF Spec, SafeSpec
<1>2. Init => SkipFacts BY DEF Init, SkipFacts, Leaving
<1>3. ScanInv /\ SkipFacts => NothingSkipped
      BY DEF ScanInv, CompletionFacts, LastOne, SkipFacts, Leaving, ShareDone,
         NothingSkipped
<1>4. QED BY ResultInvariance, SkipStep, <1>1, <1>2, <1>3, PTL

-----------------------------------------------------------------------------
(***************************************************************************)
(* Main is last, whichever send threads fail to initialise.                *)
(***************************************************************************)
Reporting == \E i \in Sender : spc[i] \in {"finish", "publish"}
Last == {"finish", "publish", "flush", "exited"}
\* a thread that has reported back, or has failed and keeps send_mutex
Accounted(i) == complete[i] \/ (spc[i] = "exited" /\ send_mutex = i)
EndFacts ==
  /\ mpc = "join" => \A i \in Sender : i < joined => spc[i] = "exited"
  /\ mpc \in {"joinmon", "done"}
       => (\A i \in Sender : spc[i] = "exited") /\ rpc = "exited"
  /\ ~Monitor => monpc = "absent"
  /\ mpc = "done" => monpc \in {"absent", "exited"}
  /\ \A i \in Sender : spc[i] \in Last => Accounted(i)
  /\ N > 0 /\ LastOne(complete) => zsend.complete \/ Reporting

LEMMA EndInit == Init => EndFacts
<1> SUFFICES ASSUME Init PROVE EndFacts
    OBVIOUS
<1>1. N > 0 => ~LastOne(complete)
  <2>1. N > 0 => 0 \in Sender BY ScanAssumption DEF Sender
  <2> QED BY <2>1 DEF Init, LastOne
<1> QED BY <1>1 DEF Init, EndFacts, Last

LEMMA EndMain == TypeOK /\ SpawnFacts /\ EndFacts /\ Main => EndFacts'
<1> SUFFICES ASSUME TypeOK, SpawnFacts, EndFacts, Main PROVE EndFacts'
    OBVIOUS
<1> USE DEF Accounted, Last
<1>1. complete' = complete /\ zsend' = zsend /\ send_mutex' = send_mutex
      BY Frames DEF iterVars
<1>2. joined \in Nat /\ N \in Nat /\ \A i \in Sender : i \in Nat /\ i < N
      BY ScanAssumption DEF TypeOK, MainType, Sender
<1>3. CASE MainStartRecv \/ MainLock \/ MainTest
      BY <1>1, <1>3 DEF MainStartRecv, MainLock, MainTest, EndFacts, sendVars,
         recvVars, Reporting, LastOne
<1>4. CASE MainSpawn
  <2>1. joined \in Sender /\ spc[joined] = "absent" /\ mpc' = "spawn"
        BY <1>2, <1>4, ScanAssumption
        DEF MainSpawn, SpawnFacts, Sender, TypeOK, MainType
  <2>2. \A i \in Sender : spc'[i] = IF i = joined THEN "lock" ELSE spc[i]
        BY <1>4 DEF MainSpawn, TypeOK, SendType
  <2>3. Reporting => Reporting' BY <2>1, <2>2 DEF Reporting
  <2> QED BY <1>1, <1>4, <2>1, <2>2, <2>3 DEF MainSpawn, EndFacts, LastOne
<1>5. CASE MainSpawnMonitor
  <2>1. \A i \in Sender : ~(i < joined') BY <1>2, <1>5 DEF MainSpawnMonitor
  <2> QED BY <1>1, <1>5, <2>1 DEF MainSpawnMonitor, EndFacts, sendVars,
             recvVars, Reporting, LastOne
<1>6. CASE MainJoinSender
  <2>1. \A i \in Sender : i < joined' => i < joined \/ i = joined
        BY <1>2, <1>6 DEF MainJoinSender
  <2> QED BY <1>1, <1>6, <2>1 DEF MainJoinSender, EndFacts, sendVars,
             recvVars, Reporting, LastOne
<1>7. CASE MainJoinRecv
  <2>1. \A i \in Sender : spc[i] = "exited"
        BY <1>2, <1>7 DEF MainJoinRecv, EndFacts
  <2> QED BY <1>1, <1>7, <2>1 DEF MainJoinRecv, EndFacts, sendVars, recvVars,
             Reporting, LastOne
<1>8. CASE MainFinish
      BY <1>1, <1>8 DEF MainFinish, EndFacts, sendVars, recvVars, Reporting,
         LastOne
<1> QED BY <1>3, <1>4, <1>5, <1>6, <1>7, <1>8 DEF Main

LEMMA EndSender ==
  ASSUME TypeOK, SendLocks, EndFacts, NEW j \in Sender, SenderStep(j)
  PROVE  EndFacts'
<1>1. UNCHANGED <<mainVars, recvVars, monpc>> /\ spc[j] # "exited"
      BY Frames DEF SenderStep, SenderLock, SenderInitFail, SenderClear,
         SenderInit, SenderTest, SenderStop, SenderNext, SenderSend, SenderPrint,
         CallbackBegin, CallbackFinish, CallbackPublish, SenderFlush
<1>2. \A i \in Sender \ {j} : spc'[i] = spc[i]
      BY DEF SenderStep, SenderLock, SenderInitFail, SenderClear, SenderInit,
         SenderTest, SenderStop, SenderNext, SenderSend, SenderPrint, Advance,
         CallbackBegin, CallbackFinish, CallbackPublish, SenderFlush, TypeOK,
         SendType
<1>3. /\ mpc = "join" => \A i \in Sender : i < joined => spc'[i] = "exited"
      /\ mpc \notin {"joinmon", "done"}
      BY <1>1, <1>2 DEF EndFacts
<1>4. \A i \in Sender : complete[i] => complete'[i]
      BY DEF SenderStep, SenderLock, SenderInitFail, SenderClear, SenderInit,
         SenderTest, SenderStop, SenderNext, SenderSend, SenderPrint, iterVars,
         CallbackBegin, CallbackFinish, CallbackPublish, SenderFlush, TypeOK,
         IterType
<1>5. \A i \in Sender \ {j} : send_mutex = i => send_mutex' = i
  <2>1. \A i \in Sender : i # Free BY ScanAssumption DEF Sender, Free
  <2> QED BY <2>1 DEF SenderStep, SenderLock, SenderInitFail, SenderClear,
             SenderInit, SenderTest, SenderStop, SenderNext, SenderSend, SenderPrint,
             CallbackBegin, CallbackFinish, CallbackPublish, SenderFlush,
             SendLocks
<1>6. \A i \in Sender \ {j} : Accounted(i) => Accounted(i)'
      BY <1>2, <1>4, <1>5 DEF Accounted
<1>7. /\ spc'[j] \in Last => Accounted(j)'
      /\ N > 0 /\ LastOne(complete') => zsend'.complete \/ Reporting'
  <2>1. CASE CallbackBegin(j)
    <3>1. complete' = [complete EXCEPT ![j] = TRUE]
          BY <2>1 DEF CallbackBegin
    <3>2. complete'[j] BY <3>1 DEF TypeOK, IterType
    <3>3. LastOne(complete') => spc'[j] = "finish"
          BY <2>1 DEF CallbackBegin, TypeOK, SendType
    <3> QED BY <3>2, <3>3 DEF Accounted, Reporting
  <2>2. CASE CallbackFinish(j)
    <3>1. UNCHANGED <<complete, zsend>> BY <2>2 DEF CallbackFinish, iterVars
    <3>2. spc'[j] = "publish" /\ spc[j] = "finish"
          BY <2>2 DEF CallbackFinish, TypeOK, SendType
    <3>3. complete[j] BY <3>2 DEF EndFacts, Accounted, Last
    <3>4. Reporting' BY <3>2 DEF Reporting
    <3> QED BY <3>1, <3>3, <3>4 DEF Accounted
  <2>3. CASE CallbackPublish(j)
    <3>1. complete' = complete /\ spc[j] = "publish"
          BY <2>3 DEF CallbackPublish
    <3>2. zsend'.complete
          BY <2>3 DEF CallbackPublish, TypeOK, IterType
    <3>3. complete[j] BY <3>1 DEF EndFacts, Accounted, Last
    <3> QED BY <3>1, <3>2, <3>3 DEF Accounted
  <2>4. CASE SenderInitFail(j)
    <3>1. send_mutex = j /\ send_mutex' = send_mutex /\ spc'[j] = "exited"
          BY <2>4 DEF SenderInitFail, SendLocks, TypeOK, SendType
    <3>2. UNCHANGED <<complete, zsend>> /\ spc[j] = "init"
          BY <2>4 DEF SenderInitFail, iterVars
    <3>3. Reporting => Reporting' BY <1>2, <3>2 DEF Reporting
    <3> QED BY <3>1, <3>2, <3>3 DEF Accounted, EndFacts
  <2>5. CASE SenderFlush(j)
    <3>1. UNCHANGED <<complete, zsend>> /\ spc[j] = "flush"
          BY <2>5 DEF SenderFlush, iterVars
    <3>2. complete[j] BY <3>1 DEF EndFacts, Accounted, Last
    <3>3. Reporting => Reporting' BY <1>2, <3>1 DEF Reporting
    <3> QED BY <3>1, <3>2, <3>3 DEF Accounted, EndFacts
  <2>6. CASE \/ SenderLock(j) \/ SenderClear(j) \/ SenderInit(j)
             \/ SenderTest(j) \/ SenderStop(j) \/ SenderNext(j) \/ SenderSend(j)
             \/ SenderPrint(j)
    <3>1. UNCHANGED <<complete, zsend>>
          BY <2>6 DEF SenderLock, SenderClear, SenderInit, SenderTest, SenderStop,
             SenderNext, SenderSend, SenderPrint, iterVars
    <3>2. spc'[j] \notin Last /\ spc[j] \notin Last
          BY <2>6 DEF SenderLock, SenderClear, SenderInit, SenderTest, SenderStop,
             SenderNext, SenderSend, SenderPrint, Advance, Last,
             TypeOK, SendType
    <3>3. Reporting => Reporting' BY <1>2, <3>2 DEF Reporting, Last
    <3> QED BY <3>1, <3>2, <3>3 DEF EndFacts
  <2> QED BY <2>1, <2>2, <2>3, <2>4, <2>5, <2>6 DEF SenderStep
<1>8. \A i \in Sender : spc'[i] \in Last => Accounted(i)'
      BY <1>2, <1>6, <1>7 DEF EndFacts
<1> QED BY <1>1, <1>3, <1>7, <1>8 DEF EndFacts, mainVars, recvVars

LEMMA EndStep == ScanInv /\ EndFacts /\ [Next]_vars => EndFacts'
<1> SUFFICES ASSUME ScanInv, EndFacts, [Next]_vars PROVE EndFacts'
    OBVIOUS
<1>1. TypeOK /\ SpawnFacts /\ SendLocks BY DEF ScanInv, LockOwners
<1>2. CASE Main BY <1>1, <1>2, EndMain
<1>3. ASSUME NEW j \in Sender, SenderStep(j) PROVE EndFacts'
      BY <1>1, <1>3, EndSender
<1>4. CASE RecvStep \/ Arrival
  <2>1. rpc # "exited"
        BY <1>4 DEF RecvStep, RecvOpen, RecvReady, RecvCount, RecvLeave,
           RecvClose, RecvForget, RecvFinal, Arrival, RecvPacket
  <2>2. UNCHANGED <<mainVars, sendVars, iterVars, monpc>> BY <1>4, Frames
  <2> QED BY <2>1, <2>2 DEF EndFacts, mainVars, sendVars, iterVars, Reporting,
             LastOne, Accounted
<1>5. CASE MonStep
  <2>1. UNCHANGED <<mainVars, sendVars, iterVars, recvVars>> BY <1>5, Frames
  <2>2. monpc \notin {"absent", "exited"}
        BY <1>5 DEF MonStep, MonTest, MonLock, MonUnlock
  <2> QED BY <2>1, <2>2 DEF EndFacts, mainVars, sendVars, iterVars, recvVars,
             Reporting, LastOne, Accounted
<1>6. CASE Tick \/ UNCHANGED vars
  <2>1. UNCHANGED <<mainVars, spc, send_mutex, iterVars, rpc, monpc>>
        BY <1>6, Frames DEF vars, sendVars, recvVars
  <2> QED BY <2>1 DEF EndFacts, mainVars, iterVars, Reporting, LastOne,
             Accounted
<1> QED BY <1>2, <1>3, <1>4, <1>5, <1>6 DEF Next, Done

\* With at least one send thread, main returns when all threads have exited,
\* and those that did not fail to initialise have reported back.
THEOREM MainLast == ASSUME N > 0 PROVE Spec => []MainIsLast
<1>1. Spec => Init /\ [][Next]_vars BY DEF Spec, SafeSpec
<1>2. ScanInv /\ EndFacts => MainIsLast
  <2> SUFFICES ASSUME ScanInv, EndFacts, mpc = "done"
               PROVE  /\ \A i \in Sender : /\ spc[i] = "exited"
                                           /\ complete[i] \/ send_mutex = i
                      /\ zsend.complete \/ send_mutex # Free
                      /\ rpc = "exited" /\ monpc \in {"absent", "exited"}
                      /\ pcap = "null"
      BY DEF MainIsLast
  <2>1. \A i \in Sender : spc[i] = "exited" /\ (complete[i] \/ send_mutex = i)
        BY DEF EndFacts, Accounted, Last
  <2>2. zsend.complete \/ send_mutex # Free
    <3>1. CASE LastOne(complete)
          BY <2>1, <3>1 DEF EndFacts, Reporting
    <3>2. CASE ~LastOne(complete)
          BY <2>1, <3>2, ScanAssumption DEF LastOne, Free, Sender
    <3> QED BY <3>1, <3>2
  <2> QED BY <2>1, <2>2 DEF EndFacts, ScanInv, HandleFacts
<1>3. QED BY Invariance, EndInit, EndStep, <1>1, <1>2, PTL

-----------------------------------------------------------------------------
(***************************************************************************)
(* The totals: what the threads report adds up, in whatever order they do. *)
(***************************************************************************)
Reported == {i \in Sender : complete[i]}
SentOf == [i \in Sender |-> shard[i].sent]
FailuresOf == [i \in Sender |-> shard[i].failures]

LEMMA ReportedFinite == IsFiniteSet(Reported)
<1>1. IsFiniteSet(Sender) BY ScanAssumption, FS_Interval DEF Sender
<1> QED BY <1>1, FS_Subset DEF Reported

LEMMA SentInit == Init => SentAccounted
<1> SUFFICES ASSUME Init PROVE SentAccounted
    OBVIOUS
<1>1. {i \in Sender : complete[i]} = {} BY DEF Init
<1>2. zsend.sent = 0 /\ zsend.failures = 0 BY DEF Init
<1> QED BY <1>1, <1>2, SumOfNone DEF SentAccounted

\* A thread adds its own counters once: before, it was not among the reported.
LEMMA SentReport ==
  ASSUME ScanInv, SentAccounted, NEW j \in Sender, CallbackBegin(j)
  PROVE  SentAccounted'
<1>1. j \notin Reported /\ Reported' = Reported \cup {j}
  <2>1. ~complete[j] BY DEF CallbackBegin, ScanInv, CompletionFacts
  <2>2. \A i \in Sender : complete'[i] = (i = j \/ complete[i])
        BY DEF CallbackBegin, ScanInv, TypeOK, IterType
  <2> QED BY <2>1, <2>2 DEF Reported
<1>2. /\ shard' = shard
      /\ zsend'.sent = zsend.sent + shard[j].sent
      /\ zsend'.failures = zsend.failures + shard[j].failures
      BY DEF CallbackBegin
<1>3. \A i \in Sender : shard[i].sent \in Nat /\ shard[i].failures \in Nat
      BY DEF ScanInv, TypeOK, SendType
<1>4. SumFunctionOnSet(SentOf, Reported')
        = SumFunctionOnSet(SentOf, Reported) + shard[j].sent
  <2>1. /\ \A y \in Reported : SentOf[y] \in Nat
        /\ SentOf[j] = shard[j].sent /\ shard[j].sent \in Nat
        BY <1>3 DEF SentOf, Reported
  <2> QED BY <1>1, <2>1, ReportedFinite, SumOneMore
<1>5. SumFunctionOnSet(FailuresOf, Reported')
        = SumFunctionOnSet(FailuresOf, Reported) + shard[j].failures
  <2>1. /\ \A y \in Reported : FailuresOf[y] \in Nat
        /\ FailuresOf[j] = shard[j].failures /\ shard[j].failures \in Nat
        BY <1>3 DEF FailuresOf, Reported
  <2> QED BY <1>1, <2>1, ReportedFinite, SumOneMore
<1> QED BY <1>2, <1>4, <1>5 DEF SentAccounted, SentOf, FailuresOf, Reported

\* No other step changes a counter that has been added.
LEMMA SentKept ==
  ASSUME ScanInv, SentAccounted, complete' = complete,
         zsend'.sent = zsend.sent, zsend'.failures = zsend.failures,
         \A i \in Reported : shard'[i] = shard[i]
  PROVE  SentAccounted'
<1>1. Reported' = Reported BY DEF Reported
<1>2. \A i \in Sender : shard[i].sent \in Nat /\ shard[i].failures \in Nat
      BY DEF ScanInv, TypeOK, SendType
<1>3. SumFunctionOnSet(SentOf', Reported) = SumFunctionOnSet(SentOf, Reported)
  <2>1. \A i \in Reported : SentOf[i] \in Nat /\ SentOf'[i] = SentOf[i]
        BY <1>2 DEF SentOf, Reported
  <2> QED BY <2>1, ReportedFinite, SumSame
<1>4. SumFunctionOnSet(FailuresOf', Reported)
        = SumFunctionOnSet(FailuresOf, Reported)
  <2>1. \A i \in Reported :
          FailuresOf[i] \in Nat /\ FailuresOf'[i] = FailuresOf[i]
        BY <1>2 DEF FailuresOf, Reported
  <2> QED BY <2>1, ReportedFinite, SumSame
<1> QED BY <1>1, <1>3, <1>4 DEF SentAccounted, SentOf, FailuresOf, Reported

LEMMA SentStep == ScanInv /\ SentAccounted /\ [Next]_vars => SentAccounted'
<1> SUFFICES ASSUME ScanInv, SentAccounted, [Next]_vars PROVE SentAccounted'
    OBVIOUS
<1>1. CASE Main \/ RecvStep \/ Arrival \/ MonStep \/ Tick \/ UNCHANGED vars
  <2>1. UNCHANGED <<complete, zsend, shard>>
        BY <1>1, Frames DEF vars, sendVars, iterVars
  <2> QED BY <2>1, SentKept
<1>2. ASSUME NEW j \in Sender, SenderStep(j) PROVE SentAccounted'
  <2>1. CASE CallbackBegin(j) BY <2>1, SentReport
  <2>2. CASE CallbackPublish(j)
    <3>1. /\ UNCHANGED <<complete, shard>>
          /\ zsend'.sent = zsend.sent /\ zsend'.failures = zsend.failures
          BY <2>2 DEF CallbackPublish
    <3> QED BY <3>1, SentKept
  <2>3. CASE SenderNext(j) \/ SenderSend(j)
    <3>1. UNCHANGED <<complete, zsend>> /\ spc[j] \in {"test", "send"}
          BY <2>3 DEF SenderNext, SenderSend, iterVars
    <3>2. j \notin Reported BY <3>1 DEF ScanInv, CompletionFacts, Reported
    <3>3. \A i \in Sender \ {j} : shard'[i] = shard[i]
          BY <2>3 DEF SenderNext, SenderSend, ScanInv, TypeOK, SendType
    <3>4. \A i \in Reported : shard'[i] = shard[i]
          BY <3>2, <3>3 DEF Reported
    <3> QED BY <3>1, <3>4, SentKept
  <2>4. CASE \/ SenderLock(j) \/ SenderInitFail(j) \/ SenderClear(j)
             \/ SenderInit(j) \/ SenderTest(j) \/ SenderStop(j) \/ SenderPrint(j)
             \/ CallbackFinish(j) \/ SenderFlush(j)
    <3>1. UNCHANGED <<complete, zsend, shard>>
          BY <2>4 DEF SenderLock, SenderInitFail, SenderClear, SenderInit,
             SenderTest, SenderStop, SenderPrint, CallbackFinish, SenderFlush, iterVars
    <3> QED BY <3>1, SentKept
  <2> QED BY <1>2, <2>1, <2>2, <2>3, <2>4 DEF SenderStep
<1> QED BY <1>1, <1>2 DEF Next, Done

\* With both filters a record is written for each unique result.  The two
\* reads of zsend.complete differ for one packet at most: the one in packet_cb
\* when sending completed.
LagFacts ==
  FilterDuplicates /\ FilterUnsuccessful
    => /\ rows.all = zrecv.success_unique
       /\ zrecv.cooldown_unique - rows.cooldown \in {0, 1}
       /\ ~zsend.complete \/ (rpc = "packet" /\ ~packet.cooldown)
            => zrecv.cooldown_unique = rows.cooldown

LEMMA LagCount == ScanInv /\ LagFacts /\ RecvCount => LagFacts'
<1> SUFFICES ASSUME ScanInv, LagFacts, RecvCount,
                    FilterDuplicates, FilterUnsuccessful
             PROVE  LagFacts'
    BY DEF LagFacts
<1> DEFINE new == packet.success /\ ~packet.repeat
<1>1. /\ zrecv.success_unique \in Nat /\ zrecv.cooldown_unique \in Nat
      /\ rows.all \in Nat /\ rows.cooldown \in Nat
      BY DEF ScanInv, TypeOK, RecvType
<1>2. packet \in Packet /\ (packet.cooldown => zsend.complete)
      BY DEF RecvCount, ScanInv, LocalFacts, PacketFacts
<1>3. zsend' = zsend /\ rpc = "packet" /\ rpc' = "dispatch"
      BY DEF RecvCount, iterVars
<1>4. Emitted(packet) <=> new BY DEF Emitted
<1>5. /\ zrecv'.success_unique = zrecv.success_unique + One(new)
      /\ zrecv'.cooldown_unique
           = zrecv.cooldown_unique + One(new /\ zsend.complete)
      /\ rows'.all = rows.all + One(new)
      /\ rows'.cooldown = rows.cooldown + One(new /\ packet.cooldown)
      BY <1>4 DEF RecvCount, Counted, One
<1>6. rows'.all = zrecv'.success_unique BY <1>5 DEF LagFacts
<1> HIDE DEF new
<1>7. CASE packet.cooldown
  <2>1. One(new /\ zsend.complete) = One(new /\ packet.cooldown)
        BY <1>2, <1>7 DEF One
  <2>2. One(new /\ packet.cooldown) \in {0, 1} BY DEF One
  <2>3. zrecv'.cooldown_unique - rows'.cooldown
          = zrecv.cooldown_unique - rows.cooldown
        BY <1>1, <1>5, <2>1, <2>2
  <2> QED BY <1>2, <1>3, <1>6, <1>7, <2>3 DEF LagFacts
<1>8. CASE ~packet.cooldown
  <2>1. zrecv.cooldown_unique = rows.cooldown BY <1>3, <1>8 DEF LagFacts
  <2>2. One(new /\ packet.cooldown) = 0 BY <1>8 DEF One
  <2>3. One(new /\ zsend.complete) \in {0, 1}
        /\ (~zsend.complete => One(new /\ zsend.complete) = 0)
        BY DEF One
  <2>4. /\ zrecv'.cooldown_unique - rows'.cooldown \in {0, 1}
        /\ ~zsend.complete => zrecv'.cooldown_unique = rows'.cooldown
        BY <1>1, <1>5, <2>1, <2>2, <2>3
  <2> QED BY <1>3, <1>6, <2>4 DEF LagFacts
<1> QED BY <1>7, <1>8

LEMMA LagStep == ScanInv /\ LagFacts /\ [Next]_vars => LagFacts'
<1> SUFFICES ASSUME ScanInv, LagFacts, [Next]_vars PROVE LagFacts'
    OBVIOUS
<1>1. CASE RecvCount BY <1>1, LagCount
<1>2. CASE RecvFinal
  <2>1. /\ zrecv'.success_unique = zrecv.success_unique
        /\ zrecv'.cooldown_unique = zrecv.cooldown_unique
        BY <1>2 DEF RecvFinal
  <2>2. UNCHANGED <<rows, zsend, packet>> /\ rpc' = "exited"
        BY <1>2 DEF RecvFinal, iterVars
  <2> QED BY <2>1, <2>2 DEF LagFacts
<1>3. CASE RecvOpen \/ RecvReady \/ RecvLeave \/ RecvClose \/ RecvForget
  <2>1. UNCHANGED <<rows, zrecv, zsend, packet>> /\ rpc' # "packet"
        BY <1>3 DEF RecvOpen, RecvReady, RecvLeave, RecvClose, RecvForget,
           iterVars
  <2> QED BY <2>1 DEF LagFacts
<1>4. CASE Arrival
  <2>1. UNCHANGED <<rows, zrecv, zsend>>
        BY <1>4, Frames DEF Arrival, RecvPacket, iterVars
  <2>2. rpc' = "packet" => \/ rpc = "packet" /\ packet' = packet
                           \/ packet'.cooldown = zsend.complete
        BY <1>4 DEF Arrival, RecvPacket
  <2> QED BY <2>1, <2>2 DEF LagFacts
<1>5. ASSUME NEW j \in Sender, SenderStep(j) PROVE LagFacts'
  <2>1. UNCHANGED <<rows, zrecv, packet, rpc>>
        BY <1>5, Frames DEF recvVars
  <2>2. zsend.complete => zsend'.complete
        BY <1>5 DEF SenderStep, SenderLock, SenderInitFail, SenderClear,
           SenderInit, SenderTest, SenderStop, SenderNext, SenderSend, SenderPrint,
           CallbackBegin, CallbackFinish, CallbackPublish, SenderFlush,
           iterVars, ScanInv, TypeOK, IterType
  <2> QED BY <2>1, <2>2 DEF LagFacts
<1>6. CASE Main
  <2>1. UNCHANGED <<rows, zrecv, zsend, packet>>
        BY <1>6, Frames DEF iterVars
  <2>2. rpc' = "packet" => rpc = "packet"
        BY <1>6 DEF Main, MainStartRecv, MainLock, MainTest, MainSpawn,
           MainSpawnMonitor, MainJoinSender, MainJoinRecv, MainFinish,
           recvVars
  <2> QED BY <2>1, <2>2 DEF LagFacts
<1>7. CASE MonStep \/ Tick \/ UNCHANGED vars
  <2>1. UNCHANGED <<rows, zrecv, zsend, packet, rpc>>
        BY <1>7, Frames DEF vars, iterVars, recvVars
  <2> QED BY <2>1 DEF LagFacts
<1> QED BY <1>1, <1>2, <1>3, <1>4, <1>5, <1>6, <1>7 DEF Next, RecvStep, Done

\* The totals of zsend are the sums over the threads that reported, each once;
\* with both filters the records are the unique results, and those marked
\* `cooldown' miss at most one of those counted as such.
THEOREM TotalsCorrect == Spec => []TotalsExact
<1>1. Spec => Init /\ [][Next]_vars BY DEF Spec, SafeSpec
<1>2. Init => LagFacts BY DEF Init, LagFacts
<1>3. SentAccounted /\ LagFacts => TotalsExact
      BY DEF TotalsExact, LagFacts, CooldownLag
<1>4. QED BY Invariance, SentInit, SentStep, LagStep, <1>1, <1>2, <1>3, PTL

-----------------------------------------------------------------------------
(***************************************************************************)
(* The threads implement the safety part of ScanPromise.                   *)
(***************************************************************************)
Sending == \E i \in Sender : ~Stopped(i)

LEMMA StutterOrStop ==
  ASSUME Listening' <=> Listening, probed' = probed, seen' = seen,
         silence' = silence, Sending' => Sending
  PROVE  [Promise!Next]_(Promise!pvars)
BY DEF Sending, Promise!Next, Promise!StopSending, Promise!pvars

LEMMA EnoughFull == ResultFacts => (Promise!Enough <=> ResultsFull)
<1>1. Promise!Cardinality(seen) = Cardinality(seen)
      BY Zenon DEF Promise!Cardinality, Cardinality
<1> QED BY <1>1 DEF ResultFacts, ResultsExact, Promise!Enough,
           ResultsFull

LEMMA PromiseInit == ASSUME N > 0 PROVE Init => Promise!Init
<1>1. 0 \in Sender BY ScanAssumption DEF Sender
<1> QED BY <1>1 DEF Init, Stopped, Listening, Promise!Init

\* A send thread probes, or leaves its loop, or does nothing the promise is
\* about.
LEMMA PromiseSender ==
  ASSUME ScanInv, NEW j \in Sender, SenderStep(j)
  PROVE  [Promise!Next]_(Promise!pvars)
<1>1. seen' = seen /\ (Listening' <=> Listening)
      BY Frames DEF recvVars, Listening
<1>2. \A i \in Sender \ {j} : spc'[i] = spc[i]
      BY DEF SenderStep, SenderLock, SenderInitFail, SenderClear, SenderInit,
         SenderTest, SenderStop, SenderNext, SenderSend, SenderPrint, Advance,
         CallbackBegin, CallbackFinish, CallbackPublish, SenderFlush, ScanInv,
         TypeOK, SendType
<1>3. CASE SenderSend(j) \/ SenderPrint(j)
  <2>1. <<j, left[j]>> \in Address
        BY <1>3, ScanAssumption DEF SenderSend, SenderPrint, ScanInv, TypeOK, SendType,
           LocalFacts, SendFacts, Address
  <2>2. probed' \in {probed, probed \cup {<<j, left[j]>>}} /\ silence' = 0
        BY <1>3 DEF SenderSend, SenderPrint, Leaves
  <2>3. spc[j] = "send" /\ spc'[j] \in {"send", "check"}
        BY <1>3 DEF SenderSend, SenderPrint, Advance, ScanInv, TypeOK, SendType
  <2>4. Sending /\ Sending' BY <2>3 DEF Sending, Stopped
  <2>5. Promise!Probe
        BY <1>1, <2>1, <2>2, <2>4 DEF Promise!Probe, Sending
  <2> QED BY <2>5 DEF Promise!Next
<1>4. CASE ~(SenderSend(j) \/ SenderPrint(j))
  <2>1. probed' = probed /\ silence' = silence
        BY <1>4 DEF SenderStep, SenderLock, SenderInitFail, SenderClear,
           SenderInit, SenderTest, SenderStop, SenderNext, CallbackBegin, CallbackFinish,
           CallbackPublish, SenderFlush
  <2>2. Stopped(j) => Stopped(j)'
        BY <1>4 DEF SenderStep, SenderLock, SenderInitFail, SenderClear,
           SenderInit, SenderTest, SenderStop, SenderNext, CallbackBegin, CallbackFinish,
           CallbackPublish, SenderFlush, AfterCallback, Stopped, ScanInv,
           TypeOK, SendType
  <2>3. Sending' => Sending BY <1>2, <2>2 DEF Sending, Stopped
  <2> QED BY <1>1, <2>1, <2>3, StutterOrStop
<1> QED BY <1>3, <1>4

\* The receiver reports a host, leaves, or does nothing the promise is about.
LEMMA PromiseRecv ==
  ASSUME ScanInv, ResultFacts, RecvStep \/ Arrival
  PROVE  [Promise!Next]_(Promise!pvars)
<1>1. /\ UNCHANGED <<probed, silence, spc>>
      /\ (Sending' <=> Sending)
      BY Frames DEF sendVars, Sending, Stopped
<1>2. CASE RecvCount
  <2>1. packet \in Packet /\ ~ResultsFull /\ packet.src \in probed
        BY <1>2 DEF RecvCount, ScanInv, LocalFacts, PacketFacts, ResultFacts
  <2>2. Listening /\ Listening' BY <1>2 DEF RecvCount, Listening
  <2>3. ~Promise!Enough
        BY <2>1, EnoughFull
  <2>4. CASE seen' = seen
        BY <1>1, <2>2, <2>4, StutterOrStop
  <2>5. CASE seen' # seen
    <3>1. seen' = seen \cup {packet.src} /\ packet.src \in probed \ seen
          BY <1>2, <2>1, <2>5 DEF RecvCount
    <3>2. Promise!Report
          BY <1>1, <2>2, <2>3, <3>1 DEF Promise!Report, Sending
    <3> QED BY <3>2 DEF Promise!Next
  <2> QED BY <2>4, <2>5
<1>3. CASE RecvLeave
  <2>1. Listening /\ ~Listening' /\ seen' = seen
        BY <1>3 DEF RecvLeave, Listening
  <2>2. Promise!Enough \/ (~Sending /\ silence > Cooldown)
    <3>1. CASE ~dryrun /\ ResultsFull
          BY <3>1, EnoughFull
    <3>2. CASE CooldownOver
      <4>1. zsend.complete /\ since_finish > Cooldown
            BY <3>2 DEF CooldownOver
      <4>2. since_finish <= silence /\ LastOne(complete)
            BY <4>1 DEF ScanInv, CompletionFacts
      <4>3. ~Sending
            BY <4>2 DEF ScanInv, CompletionFacts, LastOne, Sending, Stopped
      <4>4. silence > Cooldown
            BY <4>1, <4>2, ScanAssumption
            DEF ScanInv, TypeOK, TimeType, SendType
      <4> QED BY <4>3, <4>4
    <3> QED BY <1>3, <3>1, <3>2 DEF RecvLeave
  <2>3. Promise!StopListening
        BY <1>1, <2>1, <2>2 DEF Promise!StopListening, Sending
  <2> QED BY <2>3 DEF Promise!Next
<1>4. CASE \/ RecvOpen \/ RecvReady \/ RecvClose \/ RecvForget \/ RecvFinal
           \/ Arrival
  <2>1. seen' = seen /\ (Listening' <=> Listening)
        BY <1>4 DEF RecvOpen, RecvReady, RecvClose, RecvForget, RecvFinal,
           Arrival, RecvPacket, Listening
  <2> QED BY <1>1, <2>1, StutterOrStop
<1> QED BY <1>2, <1>3, <1>4 DEF RecvStep

LEMMA PromiseOther ==
  ASSUME ScanInv, Main \/ MonStep \/ Tick \/ UNCHANGED vars
  PROVE  [Promise!Next]_(Promise!pvars)
<1>1. CASE Main
  <2>1. UNCHANGED <<probed, silence, seen>> BY <1>1, Frames
  <2>2. Listening' <=> Listening
        BY <1>1 DEF Main, MainStartRecv, MainLock, MainTest, MainSpawn,
           MainSpawnMonitor, MainJoinSender, MainJoinRecv, MainFinish,
           ScanInv, SpawnFacts, Listening, recvVars
  <2>3. \A i \in Sender : Stopped(i) => Stopped(i)'
    <3>1. CASE MainSpawn
      <4>1. joined \in Sender /\ spc[joined] = "absent"
            BY <3>1, ScanAssumption
            DEF MainSpawn, ScanInv, SpawnFacts, Sender, TypeOK, MainType
      <4> QED BY <3>1, <4>1 DEF MainSpawn, Stopped, ScanInv, TypeOK, SendType
    <3>2. CASE ~MainSpawn
          BY <1>1, <3>2 DEF Main, MainStartRecv, MainLock, MainTest,
             MainSpawnMonitor, MainJoinSender, MainJoinRecv, MainFinish,
             sendVars, Stopped
    <3> QED BY <3>1, <3>2
  <2> QED BY <2>1, <2>2, <2>3, StutterOrStop DEF Sending
<1>2. CASE MonStep \/ UNCHANGED vars
  <2>1. UNCHANGED <<probed, silence, seen, spc, rpc>>
        BY <1>2, Frames DEF vars, sendVars, recvVars
  <2> QED BY <2>1, StutterOrStop DEF Sending, Stopped, Listening
<1>3. CASE Tick
  <2>1. UNCHANGED <<probed, seen, spc, rpc>> /\ silence' = Capped(silence, Cooldown + 1)
        BY <1>3, Frames DEF Tick, recvVars
  <2>2. (Sending' <=> Sending) /\ (Listening' <=> Listening)
        BY <2>1 DEF Sending, Stopped, Listening
  <2>3. silence \in 0 .. Cooldown + 1 /\ Cooldown \in Nat
        BY ScanAssumption DEF ScanInv, TypeOK, SendType
  <2>4. CASE silence <= Cooldown
    <3>1. silence' = silence + 1 BY <2>1, <2>3, <2>4 DEF Capped
    <3>2. Promise!Wait
          BY <2>1, <2>4, <3>1 DEF Promise!Wait, Stopped, Listening
    <3> QED BY <3>2 DEF Promise!Next
  <2>5. CASE silence > Cooldown
    <3>1. silence' = silence BY <2>1, <2>3, <2>5 DEF Capped
    <3> QED BY <2>1, <2>2, <3>1, StutterOrStop
  <2> QED BY <2>3, <2>4, <2>5
<1> QED BY <1>1, <1>2, <1>3

\* With at least one send thread, the interleaved threads of a scan do only
\* what ScanPromise allows: report probed hosts once each and at most
\* max_results of them, and stop listening only with those or after the
\* cooldown.
THEOREM PromiseSafe == ASSUME N > 0 PROVE Spec => Promise!SafeSpec
<1>1. Spec => Init /\ [][Next]_vars BY DEF Spec, SafeSpec
<1>2. Init => Promise!Init BY PromiseInit
<1>3. ScanInv /\ ResultFacts /\ [Next]_vars => [Promise!Next]_(Promise!pvars)
      BY PromiseSender, PromiseRecv, PromiseOther DEF Next, Done
<1>4. QED BY ResultInvariance, <1>1, <1>2, <1>3, PTL DEF Promise!SafeSpec
=============================================================================
