--------------------------- MODULE ReceiverProofs ---------------------------
(***************************************************************************)
(* The two halves of packet_cb.  Response: what it accepts and counts, for *)
(* any addresses, threads, ports, page size and limits, and whatever the   *)
(* threads do to each other's encryptions; the heart is the paged bitmap,  *)
(* of which pbm_set adds one address and no other.  Output: what it hands  *)
(* on, for any packets, any list of fields, any filter and any buffer; the *)
(* heart is that a field is found by its position where its name says, and *)
(* that the tree of a filter is evaluated to what the filter means.        *)
(***************************************************************************)
EXTENDS Response, Output, Counting

-----------------------------------------------------------------------------
(* Response: the bitmap and the counters *)

\* What is known of the bitmap ...
BitmapFacts == \A h \in Host : pbm_check(seen, h) <=> h \in succeeded

\* ... of the numbers: packet_cb tests the limit before it takes a packet ...
CountFacts ==
  /\ zrecv.success_unique = Cardinality(succeeded)
  /\ zrecv.success_total >= zrecv.success_unique
  /\ MaxResults > 0 => zrecv.success_unique <= MaxResults
  /\ rpc # "dispatch" /\ MaxResults > 0 => zrecv.success_unique < MaxResults
  /\ FilterDuplicates /\ FilterUnsuccessful => rows = Cardinality(succeeded)

\* ... and of the packet in hand.
VerdictFacts == /\ rpc # "dispatch" => verdict = Unjudged
                /\ StrayRejected

ResponseInv == TypeOK /\ BitmapFacts /\ CountFacts /\ VerdictFacts

-----------------------------------------------------------------------------
(* Arithmetic *)

\* Division with remainder, as the provers know it.
LEMMA DivMod ==
  ASSUME NEW a \in Nat, NEW t \in Nat \ {0}
  PROVE  a = t * (a \div t) + (a % t) /\ a \div t \in Nat /\ a % t \in 0 .. t - 1
BY SMT

\* Page and offset together are the address.
LEMMA PlaceUnique ==
  ASSUME NEW h \in Host, NEW v \in Host
  PROVE  /\ Page(h) = Page(v) /\ Offset(h) = Offset(v) => h = v
         /\ Offset(v) \in 0 .. PageSize - 1
<1>1. h \in Nat /\ v \in Nat /\ PageSize \in Nat \ {0}
      BY ResponseAssumption
<1>2. h = PageSize * (h \div PageSize) + (h % PageSize)
      BY <1>1, DivMod
<1>3. v = PageSize * (v \div PageSize) + (v % PageSize) /\ v % PageSize \in 0 .. PageSize - 1
      BY <1>1, DivMod
<1> QED BY <1>2, <1>3 DEF Page, Offset

\* A port that get_src_port computes is in the range.
LEMMA PortInRange ==
  ASSUME NEW k \in 0 .. Streams - 1, NEW a \in Host, word \in Words
  PROVE  get_src_port(k, a) \in 0 .. NumPorts - 1
<1>1. Width \in Nat \ {0} /\ NumPorts \in Nat \ {0} /\ word[a] \in Nat /\ k \in Nat
      BY ResponseAssumption
<1>2. (word[a] + k) % Width \in Nat
      BY <1>1, DivMod
<1> QED BY <1>1, <1>2, DivMod DEF get_src_port

-----------------------------------------------------------------------------
(* The bitmap *)

\* pbm_set marks the address it is given, and no other, and leaves a bitmap.
LEMMA SetMarksOne ==
  ASSUME NEW b, DOMAIN b = Pages,
         \A p \in Pages : b[p] = NoPage \/ b[p] \subseteq 0 .. PageSize - 1,
         NEW v \in Host
  PROVE  /\ DOMAIN pbm_set(b, v) = Pages
         /\ \A p \in Pages : \/ pbm_set(b, v)[p] = NoPage
                             \/ pbm_set(b, v)[p] \subseteq 0 .. PageSize - 1
         /\ \A h \in Host : pbm_check(pbm_set(b, v), h) <=> h = v \/ pbm_check(b, h)
<1> DEFINE new == (IF b[Page(v)] = NoPage THEN {} ELSE b[Page(v)]) \cup {Offset(v)}
<1>1. pbm_set(b, v) = [b EXCEPT ![Page(v)] = new]
      BY DEF pbm_set
<1>2. \A h \in Host : Page(h) \in Pages
      BY DEF Pages
<1>3. new \subseteq 0 .. PageSize - 1
      BY <1>2, PlaceUnique
<1>4. -1 \notin 0 .. PageSize - 1
      BY ResponseAssumption
<1>5. new # NoPage
      BY <1>3, <1>4 DEF NoPage
<1>6. \A o : o \in new <=> o = Offset(v) \/ (b[Page(v)] # NoPage /\ o \in b[Page(v)])
      OBVIOUS
<1> HIDE DEF new
<1>7. ASSUME NEW h \in Host
      PROVE  pbm_check(pbm_set(b, v), h) <=> h = v \/ pbm_check(b, h)
  <2>1. CASE Page(h) = Page(v)
    <3>1. pbm_set(b, v)[Page(h)] = new
          BY <1>1, <1>2, <2>1
    <3>2. Offset(h) = Offset(v) <=> h = v
          BY <2>1, PlaceUnique
    <3> QED BY <3>1, <3>2, <1>5, <1>6, <2>1 DEF pbm_check
  <2>2. CASE Page(h) # Page(v)
    <3>1. pbm_set(b, v)[Page(h)] = b[Page(h)]
          BY <1>1, <1>2, <2>2
    <3> QED BY <3>1, <2>2 DEF pbm_check
  <2> QED BY <2>1, <2>2
<1> QED BY <1>1, <1>2, <1>3, <1>7

-----------------------------------------------------------------------------
(* The invariant *)

LEMMA InvInit == Init => ResponseInv
<1> SUFFICES ASSUME Init PROVE ResponseInv
    OBVIOUS
<1> USE ResponseAssumption
<1>1. TypeOK
  <2>1. Outside \in Port /\ 0 \in 0 .. Streams - 1 /\ 0 \in 0 .. MaxPackets
        BY DEF Outside, Port
  <2>2. Unjudged \in [valid : BOOLEAN, with : Token, repeat : BOOLEAN, success : BOOLEAN]
        BY DEF Unjudged, Token
  <2>3. packet \in [kind : Kinds[module] \cup {"none"}, src : Host,
                    val : Token, port : Port, target : BOOLEAN]
        BY <2>1 DEF Init, NoPacket, Token, Blank
  <2>4. \A p \in Pages : seen[p] = NoPage
        BY DEF Init
  <2>5. stream \in [Sender -> 0 .. Streams - 1] /\ \A i \in Sender : stream[i] = 0
        BY <2>1 DEF Init
  <2> QED BY <2>1, <2>2, <2>3, <2>4, <2>5 DEF Init, TypeOK, Blank
<1>2. BitmapFacts
  <2>1. \A h \in Host : seen[Page(h)] = NoPage
        BY DEF Init, Pages
  <2> QED BY <2>1 DEF Init, BitmapFacts, pbm_check
<1>3. CountFacts
      BY FS_EmptySet DEF Init, CountFacts
<1>4. VerdictFacts
      BY DEF Init, VerdictFacts, StrayRejected, Unjudged
<1> QED BY <1>1, <1>2, <1>3, <1>4 DEF ResponseInv

\* The send threads touch nothing of the receiver's.
LEMMA SenderKeeps ==
  ASSUME ResponseInv, NEW i \in Sender, SenderGenerate(i) \/ SenderEncrypt(i)
  PROVE  ResponseInv'
<1> USE ResponseAssumption
<1>1. UNCHANGED <<confVars, recvVars>>
      BY DEF SenderGenerate, SenderEncrypt
<1>2. TypeOK'
  <2>1. CASE SenderGenerate(i)
    <3>1. PICK h \in IF stream[i] = 0 THEN todo ELSE {curr[i]} :
            /\ aes_input' = h
            /\ curr' = [curr EXCEPT ![i] = h]
            /\ todo' = todo \ {h}
          BY <2>1 DEF SenderGenerate
    <3>2. h \in Target
          BY <3>1, 0 \in Nat DEF ResponseInv, TypeOK
    <3>3. /\ spc' = [spc EXCEPT ![i] = "enc"]
          /\ UNCHANGED <<stream, sent>>
          BY <2>1 DEF SenderGenerate
    <3> QED BY <1>1, <3>1, <3>2, <3>3 DEF ResponseInv, TypeOK, confVars, recvVars
  <2>2. CASE SenderEncrypt(i)
    <3>1. curr[i] \in Target /\ stream[i] \in 0 .. Streams - 1 /\ aes_input \in Host
          BY <2>2 DEF SenderEncrypt, ResponseInv, TypeOK
    <3>2. get_src_port(stream[i], aes_input) \in 0 .. NumPorts - 1
          BY <3>1, PortInRange DEF ResponseInv, TypeOK
    <3>3. sent' \subseteq Probe
          BY <2>2, <3>1, <3>2 DEF SenderEncrypt, make_packet, ResponseInv, TypeOK, Probe
    <3>4. (stream[i] + 1) % Streams \in 0 .. Streams - 1
      <4>1. stream[i] + 1 \in Nat /\ Streams \in Nat \ {0}
            BY <3>1
      <4> QED BY <4>1, DivMod
    <3>5. /\ stream' = [stream EXCEPT ![i] = (stream[i] + 1) % Streams]
          /\ spc' = [spc EXCEPT ![i] = "gen"]
          /\ UNCHANGED <<aes_input, todo, curr>>
          BY <2>2 DEF SenderEncrypt
    <3>6. /\ stream' \in [Sender -> 0 .. Streams - 1]
          /\ spc' \in [Sender -> {"gen", "enc"}]
          BY <3>4, <3>5 DEF ResponseInv, TypeOK
    <3>7. \A j \in Sender : (spc'[j] = "enc" \/ stream'[j] > 0) => curr'[j] \in Target
      <4> SUFFICES ASSUME NEW j \in Sender, spc'[j] = "enc" \/ stream'[j] > 0
                   PROVE  curr'[j] \in Target
          OBVIOUS
      <4>1. CASE j = i  BY <3>1, <3>5, <4>1
      <4>2. CASE j # i  BY <3>5, <4>2 DEF ResponseInv, TypeOK
      <4> QED BY <4>1, <4>2
    <3> QED BY <1>1, <3>3, <3>5, <3>6, <3>7 DEF ResponseInv, TypeOK, confVars, recvVars
  <2> QED BY <2>1, <2>2
<1>3. BitmapFacts'
      BY <1>1 DEF ResponseInv, BitmapFacts, pbm_check, recvVars
<1>4. CountFacts'
      BY <1>1 DEF ResponseInv, CountFacts, recvVars
<1>5. VerdictFacts'
      BY <1>1 DEF ResponseInv, VerdictFacts, StrayRejected, recvVars, confVars
<1> QED BY <1>2, <1>3, <1>4, <1>5 DEF ResponseInv

\* Accepting a packet: a new success is marked and counted, nothing else is.
LEMMA AcceptKeeps ==
  ASSUME ResponseInv, rpc # "dispatch", rpc' = "dispatch",
         UNCHANGED <<confVars, aes_input, sendVars, packet, captured>>,
         validate_packet(packet, aes_input), Accept(aes_input)
  PROVE  ResponseInv'
<1> USE ResponseAssumption
<1> DEFINE v == packet.src
           repeat == pbm_check(seen, v)
           fresh == success(packet) /\ ~repeat
<1>1. v \in Host /\ (repeat <=> v \in succeeded)
      BY DEF ResponseInv, TypeOK, BitmapFacts
<1>2. /\ verdict' = [valid |-> TRUE, with |-> aes_input, repeat |-> repeat,
                     success |-> success(packet)]
      /\ seen' = IF fresh THEN pbm_set(seen, v) ELSE seen
      /\ zrecv' = [success_total  |-> zrecv.success_total + IF success(packet) THEN 1 ELSE 0,
                   success_unique |-> zrecv.success_unique + IF fresh THEN 1 ELSE 0,
                   failure_total  |-> zrecv.failure_total + IF success(packet) THEN 0 ELSE 1]
      /\ rows' = rows + IF \/ ~success(packet) /\ FilterUnsuccessful
                           \/ repeat /\ FilterDuplicates THEN 0 ELSE 1
      /\ succeeded' = IF success(packet) THEN succeeded \cup {v} ELSE succeeded
      /\ answered' = answered \cup {v}
      BY DEF Accept
<1>3. repeat \in BOOLEAN /\ success(packet) \in BOOLEAN
      BY DEF pbm_check, success, synscan_success, icmp_echo_success, udp_success
<1>4. aes_input \in Host
      BY DEF ResponseInv, TypeOK
<1>5. /\ zrecv.success_total \in Nat /\ zrecv.success_unique \in Nat
      /\ zrecv.failure_total \in Nat /\ rows \in Nat
      BY DEF ResponseInv, TypeOK
<1>6. succeeded' \subseteq answered' /\ answered' \subseteq Host /\ IsFiniteSet(succeeded)
  <2>1. succeeded \subseteq answered /\ answered \subseteq Host
        BY DEF ResponseInv, TypeOK
  <2>2. IsFiniteSet(succeeded)
        BY <2>1, FS_Subset
  <2> QED BY <1>1, <1>2, <2>1, <2>2
<1>7. /\ DOMAIN seen' = Pages
      /\ \A p \in Pages : seen'[p] = NoPage \/ seen'[p] \subseteq 0 .. PageSize - 1
      /\ \A h \in Host : pbm_check(seen', h) <=> pbm_check(seen, h) \/ (fresh /\ h = v)
  <2>1. /\ DOMAIN seen = Pages
        /\ \A p \in Pages : seen[p] = NoPage \/ seen[p] \subseteq 0 .. PageSize - 1
        BY DEF ResponseInv, TypeOK
  <2>2. CASE fresh  BY <1>1, <1>2, <2>1, <2>2, SetMarksOne
  <2>3. CASE ~fresh  BY <1>2, <2>1, <2>3
  <2> QED BY <2>2, <2>3
<1>8. Cardinality(succeeded') = Cardinality(succeeded) + IF fresh THEN 1 ELSE 0
  <2>1. CASE fresh
        BY <1>1, <1>2, <1>6, <2>1, FS_AddElement
  <2>2. CASE ~fresh
    <3>1. succeeded' = succeeded  BY <1>1, <1>2, <2>2
    <3>2. Cardinality(succeeded) \in Nat  BY <1>6, FS_CardinalityType
    <3> QED BY <2>2, <3>1, <3>2
  <2> QED BY <2>1, <2>2
<1>9. verdict' \in [valid : BOOLEAN, with : Token, repeat : BOOLEAN, success : BOOLEAN]
      BY <1>2, <1>3, <1>4 DEF Token
<1> HIDE DEF repeat, fresh, v
<1>10. /\ zrecv' \in [success_total : Nat, success_unique : Nat, failure_total : Nat]
       /\ rows' \in Nat
       BY <1>2, <1>5
<1>11. TypeOK'
       BY <1>6, <1>7, <1>9, <1>10 DEF ResponseInv, TypeOK, confVars, sendVars
<1>12. BitmapFacts'
       BY <1>1, <1>2, <1>7 DEF ResponseInv, BitmapFacts, fresh, pbm_check
<1>13. CountFacts'
  <2>1. zrecv'.success_unique = zrecv.success_unique + IF fresh THEN 1 ELSE 0
        BY <1>2
  <2>2. zrecv'.success_total = zrecv.success_total + IF success(packet) THEN 1 ELSE 0
        BY <1>2
  <2>3. fresh => success(packet)
        BY DEF fresh
  <2>4. FilterDuplicates /\ FilterUnsuccessful => rows' = rows + IF fresh THEN 1 ELSE 0
        BY <1>2, <1>3, <1>5 DEF fresh
  <2>5. Cardinality(succeeded) \in Nat
        BY <1>6, FS_CardinalityType
  <2> QED BY <1>5, <1>8, <2>1, <2>2, <2>3, <2>4, <2>5 DEF ResponseInv, CountFacts
<1>14. VerdictFacts'
  <2>1. module # "udp" => packet.val = aes_input
        BY DEF validate_packet, synscan_validate_packet, icmp_validate_packet,
               ResponseInv, TypeOK
  <2>2. NoToken # aes_input
        BY <1>4 DEF NoToken
  <2> QED BY <2>1, <2>2 DEF VerdictFacts, StrayRejected, confVars
<1> QED BY <1>11, <1>12, <1>13, <1>14 DEF ResponseInv

\* Rejecting it changes nothing but the verdict.
LEMMA RejectKeeps ==
  ASSUME ResponseInv, rpc # "dispatch", rpc' = "dispatch",
         UNCHANGED <<confVars, aes_input, sendVars, packet, captured>>,
         Reject(aes_input)
  PROVE  ResponseInv'
<1> USE ResponseAssumption
<1>1. /\ verdict' = [valid |-> FALSE, with |-> aes_input, repeat |-> FALSE, success |-> FALSE]
      /\ UNCHANGED <<seen, zrecv, rows, succeeded, answered>>
      BY DEF Reject, Unjudged
<1>2. verdict' \in [valid : BOOLEAN, with : Token, repeat : BOOLEAN, success : BOOLEAN]
      BY <1>1 DEF Token, ResponseInv, TypeOK
<1>3. TypeOK'
      BY <1>1, <1>2 DEF ResponseInv, TypeOK, confVars, sendVars
<1>4. BitmapFacts'
      BY <1>1 DEF ResponseInv, BitmapFacts, pbm_check
<1>5. CountFacts'
      BY <1>1 DEF ResponseInv, CountFacts
<1>6. VerdictFacts'
      BY <1>1 DEF VerdictFacts, StrayRejected
<1> QED BY <1>3, <1>4, <1>5, <1>6 DEF ResponseInv

LEMMA ReceiverKeeps == ResponseInv /\ Receiver => ResponseInv'
<1> SUFFICES ASSUME ResponseInv, Receiver PROVE ResponseInv'
    OBVIOUS
<1> USE ResponseAssumption
<1>1. CASE Discard
  <2>1. TypeOK'
        BY <1>1 DEF Discard, ResponseInv, TypeOK, confVars, sendVars
  <2>2. BitmapFacts'
        BY <1>1 DEF Discard, ResponseInv, BitmapFacts, pbm_check
  <2>3. CountFacts' /\ VerdictFacts'
        BY <1>1 DEF Discard, ResponseInv, CountFacts, VerdictFacts, StrayRejected, confVars
  <2> QED BY <2>1, <2>2, <2>3 DEF ResponseInv
<1>2. CASE ReceiveGenerate
  <2>1. /\ packet' \in [kind : Kinds[module] \cup {"none"}, src : Host,
                        val : Token, port : Port, target : BOOLEAN]
        /\ packet'.src \in Host
    <3>1. CASE packet' \in Strays
          BY <3>1 DEF Strays, Token, Port, Outside
    <3>2. CASE packet' \in Answers
      <4>1. PICK pr \in sent :
              packet' \in [kind : Kinds[module] \ {"error", "other", "unreach"},
                           src : Host \ {Blank}, val : {pr.val}, port : {pr.port},
                           target : {TRUE}]
            BY <3>2 DEF Answers
      <4>2. pr.val \in Token /\ pr.port \in Port
            BY DEF ResponseInv, TypeOK, Probe, Token, Port, Outside
      <4> QED BY <4>1, <4>2
    <3> QED BY <1>2, <3>1, <3>2 DEF ReceiveGenerate
  <2>2. Unjudged \in [valid : BOOLEAN, with : Token, repeat : BOOLEAN, success : BOOLEAN]
        BY DEF Unjudged, Token
  <2>3. TypeOK'
        BY <1>2, <2>1, <2>2 DEF ReceiveGenerate, ResponseInv, TypeOK, confVars, sendVars
  <2>4. BitmapFacts'
        BY <1>2 DEF ReceiveGenerate, ResponseInv, BitmapFacts, pbm_check
  <2>5. CountFacts'
        BY <1>2 DEF ReceiveGenerate, ResponseInv, CountFacts, Enough, TypeOK
  <2>6. VerdictFacts'
        BY <1>2 DEF ReceiveGenerate, VerdictFacts, StrayRejected, Unjudged
  <2> QED BY <2>3, <2>4, <2>5, <2>6 DEF ResponseInv
<1>3. CASE RegenerateInner
  <2>1. TypeOK'
    <3>1. packet' \in [kind : Kinds[module] \cup {"none"}, src : Host,
                        val : Token, port : Port, target : BOOLEAN]
          BY <1>3 DEF RegenerateInner, ResponseInv, TypeOK, Blank
    <3>2. packet'.src \in Host /\ aes_input' \in Host
          BY <1>3, <3>1 DEF RegenerateInner, Blank
    <3> QED BY <1>3, <3>1, <3>2
            DEF RegenerateInner, ResponseInv, TypeOK, confVars, sendVars
  <2>2. BitmapFacts'
        BY <1>3 DEF RegenerateInner, ResponseInv, BitmapFacts, pbm_check
  <2>3. CountFacts' /\ VerdictFacts'
        BY <1>3 DEF RegenerateInner, ResponseInv, CountFacts, VerdictFacts, StrayRejected, confVars
  <2> QED BY <2>1, <2>2, <2>3 DEF ResponseInv
<1>4. CASE ReceiveValidate
      BY <1>4, AcceptKeeps, RejectKeeps DEF ReceiveValidate
<1>5. CASE ValidateInner
      BY <1>5, AcceptKeeps, RejectKeeps DEF ValidateInner
<1> QED BY <1>1, <1>2, <1>3, <1>4, <1>5 DEF Receiver

LEMMA InvStep == ResponseInv /\ [Next]_vars => ResponseInv'
<1> SUFFICES ASSUME ResponseInv, [Next]_vars PROVE ResponseInv'
    OBVIOUS
<1>1. CASE Receiver  BY <1>1, ReceiverKeeps
<1>2. CASE \E i \in Sender : SenderGenerate(i) \/ SenderEncrypt(i)
      BY <1>2, SenderKeeps
<1>3. CASE UNCHANGED vars
  <2>1. TypeOK'
        BY <1>3 DEF vars, confVars, sendVars, recvVars, ResponseInv, TypeOK
  <2>2. BitmapFacts'
        BY <1>3 DEF vars, recvVars, ResponseInv, BitmapFacts, pbm_check
  <2>3. CountFacts' /\ VerdictFacts'
        BY <1>3 DEF vars, confVars, recvVars, ResponseInv, CountFacts, VerdictFacts, StrayRejected
  <2> QED BY <2>1, <2>2, <2>3 DEF ResponseInv
<1> QED BY <1>1, <1>2, <1>3 DEF Next

\* The invariant holds of every run of Response.
THEOREM ResponseInvariant == Spec => []ResponseInv
BY InvInit, InvStep, PTL DEF Spec

\* Every variable keeps its type: packet_cb and send_run never leave the
\* bounds of the port range, the pages and the counters.
THEOREM ResponseTypes == Spec => []TypeOK
<1>1. ResponseInv => TypeOK  BY DEF ResponseInv
<1> QED BY <1>1, ResponseInvariant, PTL

\* The bitmap, the counter and the set of hosts that succeeded agree, within
\* max_results (packet_cb and pbm.c).
THEOREM UniqueCorrect == Spec => []UniqueExact
<1>1. ResponseInv => UniqueExact
      BY DEF ResponseInv, TypeOK, BitmapFacts, CountFacts, UniqueExact
<1> QED BY <1>1, ResponseInvariant, PTL

\* With both filters on, process_ip gets one record for each such host.
THEOREM OneRowCorrect == Spec => []OneRowPerHost
<1>1. ResponseInv => OneRowPerHost
      BY DEF ResponseInv, CountFacts, OneRowPerHost
<1> QED BY <1>1, ResponseInvariant, PTL

\* A packet without a probe's validation is never valid for the TCP and ICMP
\* modules, however the threads disturb each other's encryptions.
THEOREM StrayNeverValid == Spec => []StrayRejected
<1>1. ResponseInv => StrayRejected
      BY DEF ResponseInv, VerdictFacts
<1> QED BY <1>1, ResponseInvariant, PTL

\* A repeat has been answered by its host before, and a host that succeeded
\* before only repeats itself (packet_cb).
THEOREM RepeatCorrect == Spec => RepeatSound
<1> DEFINE Told == verdict'.valid /\ ~verdict.valid
                     => /\ verdict'.repeat => packet.src \in answered
                        /\ packet.src \in succeeded => verdict'.repeat
<1>1. ResponseInv /\ [Next]_vars => [Told]_vars
  <2> SUFFICES ASSUME ResponseInv, Next, verdict'.valid, ~verdict.valid
               PROVE  /\ verdict'.repeat => packet.src \in answered
                      /\ packet.src \in succeeded => verdict'.repeat
      OBVIOUS
  <2>1. CASE Accept(aes_input) /\ rpc # "dispatch"
    <3>1. packet.src \in Host /\ succeeded \subseteq answered
          BY <2>1 DEF ResponseInv, TypeOK
    <3>2. verdict'.repeat = pbm_check(seen, packet.src)
          BY <2>1 DEF Accept
    <3> QED BY <3>1, <3>2 DEF ResponseInv, BitmapFacts
  <2>2. CASE UNCHANGED verdict  BY <2>2
  <2>3. CASE Reject(aes_input)  BY <2>3 DEF Reject, Unjudged
  <2>4. CASE verdict' = Unjudged  BY <2>4 DEF Unjudged
  <2> QED BY <2>1, <2>2, <2>3, <2>4 DEF Next, Receiver, Discard, ReceiveGenerate,
            RegenerateInner, ReceiveValidate, ValidateInner, SenderGenerate,
            SenderEncrypt, recvVars
<1> QED BY <1>1, ResponseInvariant, PTL DEF Spec, RepeatSound

-----------------------------------------------------------------------------
(* The answers to probes *)

\* The remainder is unique.
LEMMA RemainderUnique ==
  ASSUME NEW a \in Nat, NEW q \in Int, NEW r \in Int, NEW t \in Nat \ {0},
         0 <= r, r < t, a = t * q + r
  PROVE  a % t = r
BY SMT

\* What the remainder of a sum is when nothing is carried.
LEMMA NoCarry ==
  ASSUME NEW w \in Nat, NEW k \in Nat, NEW t \in Nat \ {0}, (w % t) + k < t
  PROVE  (w + k) % t = (w % t) + k
<1>1. w = t * (w \div t) + (w % t) /\ w \div t \in Nat /\ w % t \in 0 .. t - 1
      BY DivMod
<1> DEFINE r == (w % t) + k
           q == w \div t
<1>2. w + k \in Nat /\ q \in Int /\ r \in Int /\ 0 <= r /\ r < t /\ w + k = t * q + r
      BY <1>1
<1> HIDE DEF r, q
<1>3. (w + k) % t = r
      BY <1>2, RemainderUnique
<1> QED BY <1>3 DEF r

LEMMA Small ==
  ASSUME NEW a \in Nat, NEW t \in Nat \ {0}, a < t
  PROVE  a % t = a
<1>1. a = t * 0 + a
      OBVIOUS
<1> QED BY <1>1, RemainderUnique

\* check_dst_port takes every port that get_src_port gives an address, if the
\* window of its ports does not wrap round.
LEMMA WindowAccepted ==
  ASSUME NEW a \in Host, word \in Words, InOrderWindow(a),
         NEW k \in 0 .. Streams - 1
  PROVE  check_dst_port(get_src_port(k, a), a)
<1> DEFINE w == word[a]
           min == w % NumPorts
<1>1. /\ Width \in Nat \ {0} /\ NumPorts \in Nat \ {0} /\ Streams \in Nat \ {0}
      /\ w \in Nat
      BY ResponseAssumption
<1>2. min \in 0 .. NumPorts - 1 /\ min + Streams <= NumPorts /\ w + Streams <= Width
      BY <1>1, DivMod DEF InOrderWindow, WindowMin
<1>3. ASSUME NEW j \in 0 .. Streams - 1
      PROVE  ((w + j) % Width) % NumPorts = min + j
  <2>1. j \in Nat /\ w + j \in Nat /\ w + j < Width /\ min + j < NumPorts
        BY <1>1, <1>2
  <2> HIDE DEF w
  <2>2. (w + j) % Width = w + j
        BY <1>1, <2>1, Small
  <2>3. (w + j) % NumPorts = min + j
        BY <1>1, <2>1, NoCarry
  <2> QED BY <2>2, <2>3
<1> HIDE DEF w, min
<1>4. get_src_port(k, a) = min + k
      BY <1>3 DEF get_src_port, w
<1>5. WindowMax(a) = min + (Streams - 1)
  <2>1. Streams - 1 \in 0 .. Streams - 1 /\ w + Streams - 1 = w + (Streams - 1)
        BY <1>1
  <2> QED BY <1>3, <2>1 DEF WindowMax, w
<1>6. WindowMin(a) = min
      BY DEF WindowMin, w, min
<1>7. ASSUME NEW j \in 0 .. Streams - 1
      PROVE  CRem(min + j - min, NumPorts) = j
  <2>1. min + j - min = j /\ j \in Nat /\ j < NumPorts
        BY <1>1, <1>2
  <2> QED BY <1>1, <2>1, Small DEF CRem
<1>8. Streams - 1 \in 0 .. Streams - 1 /\ Streams - 1 >= k
      BY <1>1
<1>9. CRem(min + (Streams - 1) - min, NumPorts) >= CRem(min + k - min, NumPorts)
      BY <1>7, <1>8
<1> QED BY <1>1, <1>2, <1>4, <1>5, <1>6, <1>9 DEF check_dst_port

\* A probe has a port of the window of the address it was encrypted for; an
\* answer is not an ICMP error; and the verdict on an answer is the module's.
AnswerFacts ==
  /\ \A pr \in sent : \E k \in 0 .. Streams - 1 : pr.port = get_src_port(k, pr.val)
  /\ packet.val # NoToken => packet.kind # "error"
  /\ rpc # "dispatch" => verdict.with = NoToken
  /\ Judged /\ packet.val # NoToken
       => (verdict.valid <=> validate_packet(packet, verdict.with))

LEMMA AnswerInit == Init => AnswerFacts
BY DEF Init, AnswerFacts, Judged, Unjudged, NoPacket

LEMMA AnswerStep == ResponseInv /\ AnswerFacts /\ [Next]_vars => AnswerFacts'
<1> SUFFICES ASSUME ResponseInv, AnswerFacts, [Next]_vars PROVE AnswerFacts'
    OBVIOUS
<1> DEFINE Ports == \A pr \in sent : \E k \in 0 .. Streams - 1 :
                      pr.port = get_src_port(k, pr.val)
           Rest == /\ packet.val # NoToken => packet.kind # "error"
                   /\ rpc # "dispatch" => verdict.with = NoToken
                   /\ Judged /\ packet.val # NoToken
                        => (verdict.valid <=> validate_packet(packet, verdict.with))
<1>1. Ports /\ Rest
      BY DEF AnswerFacts
<1>2. UNCHANGED confVars
      BY DEF Next, Receiver, Discard, ReceiveGenerate, RegenerateInner,
             ReceiveValidate, ValidateInner, SenderGenerate, SenderEncrypt, vars
<1>3. Ports'
  <2>1. CASE UNCHANGED sent  BY <1>1, <1>2, <2>1 DEF get_src_port, confVars
  <2>2. ASSUME NEW i \in Sender, SenderEncrypt(i) PROVE Ports'
    <3>1. stream[i] \in 0 .. Streams - 1
          BY DEF ResponseInv, TypeOK
    <3>2. sent' = sent \cup {[dst |-> curr[i], val |-> aes_input,
                              port |-> get_src_port(stream[i], aes_input)]}
          BY <2>2 DEF SenderEncrypt, make_packet
    <3> QED BY <1>1, <1>2, <3>1, <3>2 DEF get_src_port, confVars
  <2> QED BY <2>1, <2>2 DEF Next, Receiver, Discard, ReceiveGenerate, RegenerateInner,
             ReceiveValidate, ValidateInner, SenderGenerate, vars, sendVars
<1>4. Rest'
  <2>1. CASE UNCHANGED <<rpc, packet, verdict>>
    <3>1. validate_packet(packet, verdict.with)' <=> validate_packet(packet, verdict.with)
          BY <1>2, <2>1 DEF validate_packet, synscan_validate_packet,
                 icmp_validate_packet, udp_validate_packet, check_dst_port, WindowMin, WindowMax, confVars
    <3> QED BY <1>1, <2>1, <3>1 DEF Judged
  <2>2. CASE ReceiveGenerate
    <3>1. verdict' = Unjudged /\ rpc' = "validate" /\ packet' \in Answers \cup Strays
          BY <2>2 DEF ReceiveGenerate
    <3>2. packet'.val # NoToken => packet'.kind # "error"
      <4>1. CASE packet' \in Strays
            BY <4>1 DEF Strays
      <4>2. CASE packet' \in Answers
        <5>1. PICK pr \in sent :
                packet' \in [kind : Kinds[module] \ {"error", "other", "unreach"},
                             src : Host \ {Blank}, val : {pr.val}, port : {pr.port},
                             target : {TRUE}]
              BY <4>2 DEF Answers
        <5> QED BY <5>1
      <4> QED BY <3>1, <4>1, <4>2
    <3> QED BY <3>1, <3>2 DEF Unjudged, Judged
  <2>3. CASE RegenerateInner
        BY <1>1, <2>3 DEF RegenerateInner, Judged
  <2>4. CASE ReceiveValidate \/ ValidateInner
    <3>1. /\ rpc' = "dispatch" /\ UNCHANGED <<packet, aes_input>>
          /\ rpc # "dispatch"
          BY <2>4 DEF ReceiveValidate, ValidateInner
    <3>2. \/ validate_packet(packet, aes_input) /\ Accept(aes_input)
          \/ /\ packet.kind = "error" \/ ~validate_packet(packet, aes_input)
             /\ Reject(aes_input)
          BY <2>4 DEF ReceiveValidate, ValidateInner
    <3>3. validate_packet(packet, aes_input)' <=> validate_packet(packet, aes_input)
          BY <1>2, <3>1 DEF validate_packet, synscan_validate_packet,
                 icmp_validate_packet, udp_validate_packet, check_dst_port, WindowMin, WindowMax, confVars
    <3>4. CASE validate_packet(packet, aes_input) /\ Accept(aes_input)
      <4>1. verdict'.valid = TRUE /\ verdict'.with = aes_input
            BY <3>4 DEF Accept
      <4> QED BY <1>1, <3>1, <3>3, <3>4, <4>1 DEF Judged
    <3>5. CASE (packet.kind = "error" \/ ~validate_packet(packet, aes_input))
                 /\ Reject(aes_input)
      <4>1. verdict'.valid = FALSE /\ verdict'.with = aes_input
            BY <3>5 DEF Reject, Unjudged
      <4> QED BY <1>1, <3>1, <3>3, <3>5, <4>1 DEF Judged
    <3> QED BY <3>2, <3>4, <3>5
  <2> QED BY <2>1, <2>2, <2>3, <2>4 DEF Next, Receiver, Discard, SenderGenerate,
             SenderEncrypt, vars, recvVars
<1> QED BY <1>3, <1>4 DEF AnswerFacts

\* An undisturbed answer to an undisturbed probe is valid.
LEMMA AnswerEnough == ResponseInv /\ AnswerFacts => GenuineAccepted
<1> SUFFICES ASSUME ResponseInv, AnswerFacts, Judged, NEW pr \in sent,
                    AnswerTo(packet, pr), pr.val = pr.dst, verdict.with = packet.src,
                    module = "icmp_echoscan" \/ InOrderWindow(pr.dst)
             PROVE  verdict.valid
    BY DEF GenuineAccepted
<1> USE ResponseAssumption
<1>1. pr.val \in Host /\ word \in Words /\ module \in Modules
      BY DEF ResponseInv, TypeOK, Probe
<1>2. packet.val = pr.val /\ packet.src = pr.val /\ packet.port = pr.port /\ packet.target
      BY DEF AnswerTo
<1>3. PICK k \in 0 .. Streams - 1 : pr.port = get_src_port(k, pr.val)
      BY DEF AnswerFacts
<1>4. module = "icmp_echoscan" \/ check_dst_port(packet.port, pr.val)
  <2>1. CASE module = "icmp_echoscan"  BY <2>1
  <2>2. CASE InOrderWindow(pr.dst)
    <3>1. InOrderWindow(pr.val)
          BY <2>2
    <3>2. check_dst_port(get_src_port(k, pr.val), pr.val)
          BY <1>1, <3>1, WindowAccepted
    <3> QED BY <1>2, <1>3, <3>2
  <2> QED BY <2>1, <2>2
<1>5. validate_packet(packet, verdict.with)
      BY <1>1, <1>2, <1>4 DEF validate_packet, synscan_validate_packet,
                              icmp_validate_packet, udp_validate_packet
<1> QED BY <1>1, <1>2, <1>5 DEF AnswerFacts, NoToken

\* An answer is overlooked only if an encryption was disturbed or the window
\* of ports wraps round: for any port range, number of streams and threads.
THEOREM GenuineCorrect == Spec => []GenuineAccepted
BY ResponseInvariant, AnswerInit, AnswerStep, AnswerEnough, PTL DEF Spec

-----------------------------------------------------------------------------
(* Sequences put together *)

\* The pieces up to i, joined.
Joins(h, seqs, n) == h[0] = <<>> /\ \A i \in 1 .. n : h[i] = h[i - 1] \o seqs[i]

LEMMA JoinExists ==
  ASSUME NEW M, NEW n \in Nat, NEW seqs \in [1 .. n -> Seq(M)]
  PROVE  \E h \in [0 .. n -> Seq(M)] : Joins(h, seqs, n)
<1> DEFINE f == [x \in Nat \X Seq(M) |-> IF x[1] \in 1 .. n THEN x[2] \o seqs[x[1]]
                                        ELSE x[2]]
<1>1. f \in [Nat \X Seq(M) -> Seq(M)] OBVIOUS
<1>2. <<>> \in Seq(M) OBVIOUS
<1>3. PICK h \in [0 .. n -> Seq(M)] : Iterates(h, <<>>, f, n)
  <2> HIDE DEF f
  <2> QED BY <1>1, <1>2, NumberRecursion
<1>4. ASSUME NEW i \in 1 .. n PROVE h[i] = h[i - 1] \o seqs[i]
  <2>1. h[i] = f[<<i, h[i - 1]>>] BY <1>3 DEF Iterates
  <2>2. i - 1 \in 0 .. n /\ h[i - 1] \in Seq(M) /\ i \in Nat OBVIOUS
  <2> QED BY <2>1, <2>2
<1>5. h[0] = <<>> BY <1>3 DEF Iterates
<1> HIDE DEF f
<1> QED BY <1>4, <1>5 DEF Joins

\* Whatever fits the equation is what FlattenSeq computes.
LEMMA FlattenIsJoin ==
  ASSUME NEW M, NEW n \in Nat, NEW seqs \in [1 .. n -> Seq(M)],
         NEW h \in [0 .. n -> Seq(M)], Joins(h, seqs, n)
  PROVE  FlattenSeq(seqs) = h[n]
<1> DEFINE D(g) == [i \in 1 .. n |-> IF i = 1 THEN seqs[i] ELSE g[i - 1] \o seqs[i]]
           flatten == CHOOSE g : g = D(g)
<1>1. Len(seqs) = n /\ seqs \in Seq(Seq(M)) OBVIOUS
<1>2. CASE n = 0
  <2>1. FlattenSeq(seqs) = seqs BY <1>1, <1>2 DEF FlattenSeq
  <2>2. seqs = <<>> BY <1>1, <1>2
  <2> QED BY <1>2, <2>1, <2>2 DEF Joins
<1>3. CASE n # 0
  <2>1. FlattenSeq(seqs) = flatten[n] BY <1>1, <1>3 DEF FlattenSeq
  <2> DEFINE g == [i \in 1 .. n |-> h[i]]
  <2>2. ASSUME NEW i \in 1 .. n PROVE g[i] = D(g)[i]
    <3>1. h[i] = h[i - 1] \o seqs[i] /\ h[0] = <<>> BY DEF Joins
    <3>2. CASE i = 1
      <4>1. seqs[i] \in Seq(M) OBVIOUS
      <4>2. <<>> \o seqs[i] = seqs[i] BY <4>1
      <4>3. i - 1 = 0 BY <3>2
      <4>4. h[i] = seqs[i] BY <3>1, <4>2, <4>3
      <4> QED BY <3>2, <4>4
    <3>3. CASE i # 1
      <4>1. i - 1 \in 1 .. n BY <3>3
      <4> QED BY <3>1, <3>3, <4>1
    <3> QED BY <3>2, <3>3
  <2>3. g = D(g)
    <3> HIDE DEF g, D
    <3>1. g = [i \in 1 .. n |-> g[i]] BY DEF g
    <3>2. D(g) = [i \in 1 .. n |-> D(g)[i]] BY DEF D
    <3> QED BY <2>2, <3>1, <3>2
  <2>4. flatten = D(flatten)
    <3> HIDE DEF D, g
    <3> QED BY <2>3
  <2> HIDE DEF flatten
  <2> DEFINE G == {k \in Nat : k + 1 \in 1 .. n => flatten[k + 1] = h[k + 1]}
  <2>5. 0 \in G
    <3>1. 1 \in 1 .. n /\ 0 + 1 = 1 BY <1>3
    <3>2. D(flatten)[1] = seqs[1] BY <3>1
    <3>3. g[1] = D(g)[1] BY <2>2, <3>1
    <3>4. D(g)[1] = seqs[1] BY <3>1
    <3>5. flatten[1] = D(flatten)[1]
      <4> HIDE DEF D
      <4> QED BY <2>4
    <3> QED BY <3>1, <3>2, <3>3, <3>4, <3>5
  <2>6. ASSUME NEW k \in Nat, k \in G PROVE k + 1 \in G
    <3> SUFFICES ASSUME k + 2 \in 1 .. n PROVE flatten[k + 2] = h[k + 2]
      <4>1. (k + 1) + 1 = k + 2 /\ k + 1 \in Nat OBVIOUS
      <4> QED BY <4>1
    <3>1. k + 1 \in 1 .. n /\ k + 2 # 1 /\ (k + 2) - 1 = k + 1 OBVIOUS
    <3>2. flatten[k + 1] = h[k + 1] BY <2>6, <3>1
    <3>3. D(flatten)[k + 2] = flatten[k + 1] \o seqs[k + 2] BY <3>1
    <3>4. flatten[k + 2] = D(flatten)[k + 2]
      <4> HIDE DEF D
      <4> QED BY <2>4
    <3>5. h[k + 2] = h[k + 1] \o seqs[k + 2] BY <3>1 DEF Joins
    <3> QED BY <3>2, <3>3, <3>4, <3>5
  <2> HIDE DEF G
  <2>7. Nat \subseteq G BY <2>5, <2>6, Induction
  <2>8. n - 1 \in Nat /\ (n - 1) + 1 = n /\ n \in 1 .. n BY <1>3
  <2>9. n - 1 \in G BY <2>7, <2>8
  <2>10. flatten[n] = h[n] BY <2>8, <2>9 DEF G
  <2> QED BY <2>1, <2>10
<1> QED BY <1>2, <1>3

LEMMA FlattenType ==
  ASSUME NEW M, NEW n \in Nat, NEW seqs \in [1 .. n -> Seq(M)]
  PROVE  FlattenSeq(seqs) \in Seq(M)
<1>1. PICK h \in [0 .. n -> Seq(M)] : Joins(h, seqs, n) BY JoinExists
<1>2. FlattenSeq(seqs) = h[n] BY <1>1, FlattenIsJoin
<1> QED BY <1>2

\* Pieces of at most one element each are together no longer than there are pieces.
LEMMA FlattenShort ==
  ASSUME NEW M, NEW n \in Nat, NEW seqs \in [1 .. n -> Seq(M)],
         \A i \in 1 .. n : Len(seqs[i]) <= 1
  PROVE  Len(FlattenSeq(seqs)) <= n
<1>1. PICK h \in [0 .. n -> Seq(M)] : Joins(h, seqs, n) BY JoinExists
<1>2. FlattenSeq(seqs) = h[n] BY <1>1, FlattenIsJoin
<1> DEFINE G == {k \in Nat : k <= n => Len(h[k]) <= k}
<1>3. 0 \in G BY <1>1 DEF Joins
<1>4. ASSUME NEW k \in Nat, k \in G PROVE k + 1 \in G
  <2> SUFFICES ASSUME k + 1 <= n PROVE Len(h[k + 1]) <= k + 1 OBVIOUS
  <2>1. Len(h[k]) <= k BY <1>4
  <2>2. k + 1 \in 1 .. n /\ (k + 1) - 1 = k /\ k \in 0 .. n OBVIOUS
  <2>3. h[k + 1] = h[k] \o seqs[k + 1] BY <1>1, <2>2 DEF Joins
  <2>4. h[k] \in Seq(M) /\ seqs[k + 1] \in Seq(M) BY <2>2
  <2>5. Len(h[k + 1]) = Len(h[k]) + Len(seqs[k + 1]) BY <2>3, <2>4
  <2>6. Len(seqs[k + 1]) <= 1 BY <2>2
  <2>7. Len(h[k]) \in Nat /\ Len(seqs[k + 1]) \in Nat BY <2>4
  <2> DEFINE a == Len(h[k])
             b == Len(seqs[k + 1])
             c == Len(h[k + 1])
  <2>8. a <= k /\ c = a + b /\ b <= 1 /\ a \in Nat /\ b \in Nat
        BY <2>1, <2>5, <2>6, <2>7
  <2> HIDE DEF a, b, c
  <2>9. c <= k + 1 BY <2>8
  <2> QED BY <2>9 DEF c
<1> HIDE DEF G
<1>5. Nat \subseteq G BY <1>3, <1>4, Induction
<1>6. n \in G BY <1>5
<1> QED BY <1>2, <1>6 DEF G

\* One piece more at the end.
LEMMA FlattenOneMore ==
  ASSUME NEW M, NEW n \in Nat, NEW seqs \in [1 .. n -> Seq(M)],
         NEW more \in [1 .. n + 1 -> Seq(M)], \A i \in 1 .. n : more[i] = seqs[i]
  PROVE  FlattenSeq(more) = FlattenSeq(seqs) \o more[n + 1]
<1>1. PICK h \in [0 .. n + 1 -> Seq(M)] : Joins(h, more, n + 1)
  <2>1. n + 1 \in Nat OBVIOUS
  <2> QED BY <2>1, JoinExists
<1> DEFINE g == [i \in 0 .. n |-> h[i]]
<1>2. g \in [0 .. n -> Seq(M)] OBVIOUS
<1>3. Joins(g, seqs, n)
  <2>1. ASSUME NEW i \in 1 .. n PROVE g[i] = g[i - 1] \o seqs[i]
    <3>1. i \in 1 .. n + 1 /\ i \in 0 .. n /\ i - 1 \in 0 .. n OBVIOUS
    <3>2. h[i] = h[i - 1] \o more[i] BY <1>1, <3>1 DEF Joins
    <3> QED BY <3>1, <3>2
  <2>2. g[0] = <<>> BY <1>1 DEF Joins
  <2> HIDE DEF g
  <2> QED BY <2>1, <2>2 DEF Joins
<1>4. FlattenSeq(seqs) = h[n]
  <2>1. g[n] = h[n] OBVIOUS
  <2> HIDE DEF g
  <2> QED BY <1>2, <1>3, <2>1, FlattenIsJoin
<1>5. FlattenSeq(more) = h[n + 1]
  <2>1. n + 1 \in Nat OBVIOUS
  <2> QED BY <1>1, <2>1, FlattenIsJoin
<1>6. h[n + 1] = h[n] \o more[n + 1]
  <2>1. n + 1 \in 1 .. n + 1 /\ (n + 1) - 1 = n OBVIOUS
  <2> QED BY <1>1, <2>1 DEF Joins
<1> QED BY <1>4, <1>5, <1>6

-----------------------------------------------------------------------------
(* A record and the definitions *)

IsSequence(s) == \E M : s \in Seq(M)

IsField(x) == x = [name |-> x.name, type |-> x.type, val |-> x.val]

\* What a field x of the record of p is, given its definition d.
IsOf(x, d, p) ==
  /\ IsField(x)
  /\ x.name = d.name /\ x.type \in {d.type, "null"}
  /\ d.type = "string" /\ T_FIELD(d.name) => x.type = "string"
  /\ d.type = "int" => x.val \in Nat
  /\ d.name = "success" => x.val \in {0, 1}
  /\ d.name = "repeat" => x.val = p.repeat

Aligned(fs, ds, p) ==
  /\ IsSequence(fs) /\ IsSequence(ds) /\ Len(fs) = Len(ds)
  /\ \A i \in 1 .. Len(ds) : IsOf(fs[i], ds[i], p)

LEMMA Together ==
  ASSUME NEW s, NEW t, IsSequence(s), IsSequence(t)
  PROVE  /\ IsSequence(s \o t) /\ Len(s) \in Nat /\ Len(t) \in Nat
         /\ DOMAIN s = 1 .. Len(s) /\ DOMAIN t = 1 .. Len(t)
         /\ Len(s \o t) = Len(s) + Len(t)
         /\ \A i \in 1 .. Len(s) : (s \o t)[i] = s[i]
         /\ \A i \in 1 .. Len(t) : (s \o t)[Len(s) + i] = t[i]
<1>1. PICK M : s \in Seq(M) BY DEF IsSequence
<1>2. PICK N : t \in Seq(N) BY DEF IsSequence
<1> DEFINE U == M \cup N
<1>3. s \in Seq(U) /\ t \in Seq(U) BY <1>1, <1>2
<1> HIDE DEF U
<1>4. s \o t \in Seq(U) BY <1>3
<1> QED BY <1>3, <1>4 DEF IsSequence

LEMMA AlignedTogether ==
  ASSUME NEW p, NEW f1, NEW d1, NEW f2, NEW d2, Aligned(f1, d1, p), Aligned(f2, d2, p)
  PROVE  Aligned(f1 \o f2, d1 \o d2, p)
<1>1. IsSequence(f1) /\ IsSequence(f2) /\ IsSequence(d1) /\ IsSequence(d2)
      BY DEF Aligned
<1>2. Len(f1) = Len(d1) /\ Len(f2) = Len(d2) BY DEF Aligned
<1> DEFINE f == f1 \o f2
           d == d1 \o d2
           m == Len(d1)
           n == Len(d2)
<1>3. /\ IsSequence(f) /\ Len(f) = m + n
      /\ \A i \in 1 .. m : f[i] = f1[i]
      /\ \A i \in 1 .. n : f[m + i] = f2[i]
      BY <1>1, <1>2, Together
<1>4. /\ IsSequence(d) /\ Len(d) = m + n /\ m \in Nat /\ n \in Nat
      /\ \A i \in 1 .. m : d[i] = d1[i]
      /\ \A i \in 1 .. n : d[m + i] = d2[i]
      BY <1>1, Together
<1>5. \A i \in 1 .. m : IsOf(f1[i], d1[i], p) BY DEF Aligned
<1>6. \A i \in 1 .. n : IsOf(f2[i], d2[i], p) BY DEF Aligned
<1> HIDE DEF f, d, m, n
<1>7. ASSUME NEW i \in 1 .. m + n PROVE IsOf(f[i], d[i], p)
  <2>1. CASE i \in 1 .. m BY <1>3, <1>4, <1>5, <2>1
  <2>2. CASE i \notin 1 .. m
    <3>1. PICK k \in 1 .. n : i = m + k
      <4>1. i - m \in 1 .. n /\ i = m + (i - m) BY <1>4, <2>2
      <4> QED BY <4>1
    <3>2. f[i] = f2[k] /\ d[i] = d2[k] BY <1>3, <1>4, <3>1
    <3> QED BY <1>6, <3>2
  <2> QED BY <2>1, <2>2
<1>8. Aligned(f, d, p) BY <1>3, <1>4, <1>7 DEF Aligned
<1> QED BY <1>8 DEF f, d

\* The four ways to add a field, each for the definitions it fits.
LEMMA AddedFits ==
  ASSUME NEW p, NEW n, NEW t, NEW v
  PROVE  /\ v \in Nat /\ (n = "success" => v \in {0, 1}) /\ (n = "repeat" => v = p.repeat)
              => IsOf(fs_add_uint64(n, v), Def(n, "int"), p)
         /\ n \notin {"success", "repeat"}
              => /\ IsOf(fs_add_string(n, v), Def(n, "string"), p)
                 /\ IsOf(fs_add_binary(n, v), Def(n, "binary"), p)
                 /\ (t = "string" => ~T_FIELD(n)) => IsOf(fs_add_null(n), Def(n, t), p)
<1>1. ASSUME v \in Nat, n = "success" => v \in {0, 1}, n = "repeat" => v = p.repeat
      PROVE  IsOf(fs_add_uint64(n, v), Def(n, "int"), p)
      BY <1>1 DEF IsOf, IsField, fs_add_uint64, Def
<1>2. ASSUME n \notin {"success", "repeat"}
      PROVE  IsOf(fs_add_string(n, v), Def(n, "string"), p)
      BY <1>2 DEF IsOf, IsField, fs_add_string, Def
<1>3. ASSUME n \notin {"success", "repeat"}
      PROVE  IsOf(fs_add_binary(n, v), Def(n, "binary"), p)
      BY <1>3 DEF IsOf, IsField, fs_add_binary, Def
<1>4. ASSUME n \notin {"success", "repeat"}, t = "string" => ~T_FIELD(n)
      PROVE  IsOf(fs_add_null(n), Def(n, t), p)
      BY <1>4 DEF IsOf, IsField, fs_add_null, Def
<1> QED BY <1>1, <1>2, <1>3, <1>4

LEMMA FieldFacts ==
  ASSUME NEW x, NEW d, NEW p, IsOf(x, d, p)
  PROVE  /\ IsField(x) /\ x.name = d.name /\ x.type \in {d.type, "null"}
         /\ d.type = "string" /\ T_FIELD(d.name) => x.type = "string"
         /\ d.type = "int" => x.val \in Nat
         /\ d.name = "success" => x.val \in {0, 1}
         /\ d.name = "repeat" => x.val = p.repeat
BY DEF IsOf

\* What is known of a packet.
LEMMA PacketFacts ==
  ASSUME NEW p \in Packets
  PROVE  /\ p.src \in Source /\ p.num \in Nat
         /\ p.repeat \in {0, 1} /\ p.cooldown \in {0, 1} /\ RawOf[p.src] \in Nat
<1>1. p.src \in Source /\ p.num \in Nat BY DEF Packets
<1>2. p.repeat \in {0, 1} /\ p.cooldown \in {0, 1} BY DEF Packets
<1>3. RawOf[p.src] \in 0 .. IntMod - 1 /\ IntMod \in Nat BY <1>1, RecordAssumption
<1> QED BY <1>1, <1>2, <1>3

\* A field for each definition.
LEMMA AlignedFive ==
  ASSUME NEW p, NEW x1, NEW x2, NEW x3, NEW x4, NEW x5, NEW d1, NEW d2, NEW d3,
         NEW d4, NEW d5,
         IsOf(x1, d1, p), IsOf(x2, d2, p), IsOf(x3, d3, p), IsOf(x4, d4, p),
         IsOf(x5, d5, p)
  PROVE  Aligned(<<x1, x2, x3, x4, x5>>, <<d1, d2, d3, d4, d5>>, p)
<1>1. /\ <<x1, x2, x3, x4, x5>> \in Seq({x1, x2, x3, x4, x5})
      /\ <<d1, d2, d3, d4, d5>> \in Seq({d1, d2, d3, d4, d5}) OBVIOUS
<1>2. Len(<<x1, x2, x3, x4, x5>>) = 5 /\ Len(<<d1, d2, d3, d4, d5>>) = 5 OBVIOUS
<1>3. \A i \in 1 .. 5 : IsOf(<<x1, x2, x3, x4, x5>>[i], <<d1, d2, d3, d4, d5>>[i], p) OBVIOUS
<1>4. IsSequence(<<x1, x2, x3, x4, x5>>) /\ IsSequence(<<d1, d2, d3, d4, d5>>) BY <1>1 DEF IsSequence
<1> QED BY <1>2, <1>3, <1>4 DEF Aligned

LEMMA AlignedSix ==
  ASSUME NEW p, NEW x1, NEW x2, NEW x3, NEW x4, NEW x5, NEW x6, NEW d1, NEW d2,
         NEW d3, NEW d4, NEW d5, NEW d6,
         IsOf(x1, d1, p), IsOf(x2, d2, p), IsOf(x3, d3, p), IsOf(x4, d4, p),
         IsOf(x5, d5, p), IsOf(x6, d6, p)
  PROVE  Aligned(<<x1, x2, x3, x4, x5, x6>>, <<d1, d2, d3, d4, d5, d6>>, p)
<1>1. /\ <<x1, x2, x3, x4, x5, x6>> \in Seq({x1, x2, x3, x4, x5, x6})
      /\ <<d1, d2, d3, d4, d5, d6>> \in Seq({d1, d2, d3, d4, d5, d6}) OBVIOUS
<1>2. Len(<<x1, x2, x3, x4, x5, x6>>) = 6 /\ Len(<<d1, d2, d3, d4, d5, d6>>) = 6 OBVIOUS
<1>3. \A i \in 1 .. 6 : IsOf(<<x1, x2, x3, x4, x5, x6>>[i], <<d1, d2, d3, d4, d5, d6>>[i], p) OBVIOUS
<1>4. IsSequence(<<x1, x2, x3, x4, x5, x6>>) /\ IsSequence(<<d1, d2, d3, d4, d5, d6>>) BY <1>1 DEF IsSequence
<1> QED BY <1>2, <1>3, <1>4 DEF Aligned

LEMMA AlignedSeven ==
  ASSUME NEW p, NEW x1, NEW x2, NEW x3, NEW x4, NEW x5, NEW x6, NEW x7, NEW d1,
         NEW d2, NEW d3, NEW d4, NEW d5, NEW d6, NEW d7,
         IsOf(x1, d1, p), IsOf(x2, d2, p), IsOf(x3, d3, p), IsOf(x4, d4, p),
         IsOf(x5, d5, p), IsOf(x6, d6, p), IsOf(x7, d7, p)
  PROVE  Aligned(<<x1, x2, x3, x4, x5, x6, x7>>, <<d1, d2, d3, d4, d5, d6, d7>>, p)
<1>1. /\ <<x1, x2, x3, x4, x5, x6, x7>> \in Seq({x1, x2, x3, x4, x5, x6, x7})
      /\ <<d1, d2, d3, d4, d5, d6, d7>> \in Seq({d1, d2, d3, d4, d5, d6, d7}) OBVIOUS
<1>2. Len(<<x1, x2, x3, x4, x5, x6, x7>>) = 7 /\ Len(<<d1, d2, d3, d4, d5, d6, d7>>) = 7 OBVIOUS
<1>3. \A i \in 1 .. 7 : IsOf(<<x1, x2, x3, x4, x5, x6, x7>>[i], <<d1, d2, d3, d4, d5, d6, d7>>[i], p) OBVIOUS
<1>4. IsSequence(<<x1, x2, x3, x4, x5, x6, x7>>) /\ IsSequence(<<d1, d2, d3, d4, d5, d6, d7>>) BY <1>1 DEF IsSequence
<1> QED BY <1>2, <1>3, <1>4 DEF Aligned

LEMMA AlignedTen ==
  ASSUME NEW p, NEW x1, NEW x2, NEW x3, NEW x4, NEW x5, NEW x6, NEW x7, NEW x8,
         NEW x9, NEW x10, NEW d1, NEW d2, NEW d3, NEW d4, NEW d5, NEW d6, NEW d7,
         NEW d8, NEW d9, NEW d10,
         IsOf(x1, d1, p), IsOf(x2, d2, p), IsOf(x3, d3, p), IsOf(x4, d4, p),
         IsOf(x5, d5, p), IsOf(x6, d6, p), IsOf(x7, d7, p), IsOf(x8, d8, p),
         IsOf(x9, d9, p), IsOf(x10, d10, p)
  PROVE  Aligned(<<x1, x2, x3, x4, x5, x6, x7, x8, x9, x10>>, <<d1, d2, d3, d4, d5, d6, d7, d8, d9, d10>>, p)
<1>1. /\ <<x1, x2, x3, x4, x5, x6, x7, x8, x9, x10>> \in Seq({x1, x2, x3, x4, x5, x6, x7, x8, x9, x10})
      /\ <<d1, d2, d3, d4, d5, d6, d7, d8, d9, d10>> \in Seq({d1, d2, d3, d4, d5, d6, d7, d8, d9, d10}) OBVIOUS
<1>2. Len(<<x1, x2, x3, x4, x5, x6, x7, x8, x9, x10>>) = 10 /\ Len(<<d1, d2, d3, d4, d5, d6, d7, d8, d9, d10>>) = 10 OBVIOUS
<1>3. \A i \in 1 .. 10 : IsOf(<<x1, x2, x3, x4, x5, x6, x7, x8, x9, x10>>[i], <<d1, d2, d3, d4, d5, d6, d7, d8, d9, d10>>[i], p) OBVIOUS
<1>4. IsSequence(<<x1, x2, x3, x4, x5, x6, x7, x8, x9, x10>>) /\ IsSequence(<<d1, d2, d3, d4, d5, d6, d7, d8, d9, d10>>) BY <1>1 DEF IsSequence
<1> QED BY <1>2, <1>3, <1>4 DEF Aligned

\* What each module adds is what it declares.
LEMMA IpAligned ==
  ASSUME NEW p \in Packets
  PROVE  Aligned(fs_add_ip_fields(p), ip_fields, p)
<1> DEFINE x1 == fs_add_string("saddr", p.src)
           x2 == fs_add_uint64("saddr-raw", RawOf[p.src])
           x3 == fs_add_string("daddr", "me")
           x4 == fs_add_uint64("daddr-raw", 0)
           x5 == fs_add_uint64("ipid", p.num)
           x6 == fs_add_uint64("ttl", p.num)
           d1 == Def("saddr", "string")
           d2 == Def("saddr-raw", "int")
           d3 == Def("daddr", "string")
           d4 == Def("daddr-raw", "int")
           d5 == Def("ipid", "int")
           d6 == Def("ttl", "int")
<1>1. /\ IsOf(x1, d1, p) /\ IsOf(x2, d2, p) /\ IsOf(x3, d3, p)
      /\ IsOf(x4, d4, p) /\ IsOf(x5, d5, p) /\ IsOf(x6, d6, p)
      BY PacketFacts, AddedFits DEF T_FIELD
<1>2. fs_add_ip_fields(p) = <<x1, x2, x3, x4, x5, x6>> BY DEF fs_add_ip_fields
<1>3. ip_fields = <<d1, d2, d3, d4, d5, d6>> BY DEF ip_fields
<1> HIDE DEF x1, x2, x3, x4, x5, x6, d1, d2, d3, d4, d5, d6
<1>4. Aligned(<<x1, x2, x3, x4, x5, x6>>, <<d1, d2, d3, d4, d5, d6>>, p)
      BY <1>1, AlignedSix
<1> QED BY <1>2, <1>3, <1>4

LEMMA SystemAligned ==
  ASSUME NEW p \in Packets
  PROVE  Aligned(fs_add_system_fields(p), sys_fields, p)
<1> DEFINE x1 == fs_add_uint64("repeat", p.repeat)
           x2 == fs_add_uint64("cooldown", p.cooldown)
           x3 == fs_add_string("timestamp-str", "now")
           x4 == fs_add_uint64("timestamp-ts", p.num)
           x5 == fs_add_uint64("timestamp-us", p.num)
           d1 == Def("repeat", "int")
           d2 == Def("cooldown", "int")
           d3 == Def("timestamp-str", "string")
           d4 == Def("timestamp-ts", "int")
           d5 == Def("timestamp-us", "int")
<1>1. /\ IsOf(x1, d1, p) /\ IsOf(x2, d2, p) /\ IsOf(x3, d3, p)
      /\ IsOf(x4, d4, p) /\ IsOf(x5, d5, p)
      BY PacketFacts, AddedFits DEF T_FIELD
<1>2. fs_add_system_fields(p) = <<x1, x2, x3, x4, x5>> BY DEF fs_add_system_fields
<1>3. sys_fields = <<d1, d2, d3, d4, d5>> BY DEF sys_fields
<1> HIDE DEF x1, x2, x3, x4, x5, d1, d2, d3, d4, d5
<1>4. Aligned(<<x1, x2, x3, x4, x5>>, <<d1, d2, d3, d4, d5>>, p)
      BY <1>1, AlignedFive
<1> QED BY <1>2, <1>3, <1>4

LEMMA SynscanAligned ==
  ASSUME NEW p \in Packets, NEW fs, Aligned(fs, ip_fields, p)
  PROVE  Aligned(synscan_process_packet(fs, p), ip_fields \o tcp_fields, p)
<1> DEFINE x1 == fs_add_uint64("sport", p.num)
           x2 == fs_add_uint64("dport", p.num)
           x3 == fs_add_uint64("seqnum", p.num)
           x4 == fs_add_uint64("acknum", p.num)
           x5 == fs_add_uint64("window", p.num)
           x6 == fs_add_string("classification", p.kind)
           x7 == fs_add_uint64("success", IF p.kind = "rst" THEN 0 ELSE 1)
           d1 == Def("sport", "int")
           d2 == Def("dport", "int")
           d3 == Def("seqnum", "int")
           d4 == Def("acknum", "int")
           d5 == Def("window", "int")
           d6 == Def("classification", "string")
           d7 == Def("success", "int")
<1>1. /\ IsOf(x1, d1, p) /\ IsOf(x2, d2, p) /\ IsOf(x3, d3, p)
      /\ IsOf(x4, d4, p) /\ IsOf(x5, d5, p) /\ IsOf(x6, d6, p)
      /\ IsOf(x7, d7, p)
      BY PacketFacts, AddedFits DEF T_FIELD
<1>2. synscan_process_packet(fs, p) = fs \o <<x1, x2, x3, x4, x5, x6, x7>>
      BY DEF synscan_process_packet
<1>3. tcp_fields = <<d1, d2, d3, d4, d5, d6, d7>> BY DEF tcp_fields
<1> HIDE DEF x1, x2, x3, x4, x5, x6, x7,
             d1, d2, d3, d4, d5, d6, d7
<1>4. Aligned(<<x1, x2, x3, x4, x5, x6, x7>>,
              <<d1, d2, d3, d4, d5, d6, d7>>, p)
      BY <1>1, AlignedSeven
<1> QED BY <1>2, <1>3, <1>4, AlignedTogether

LEMMA IcmpAligned ==
  ASSUME NEW p \in Packets, NEW fs, Aligned(fs, ip_fields, p)
  PROVE  Aligned(icmp_echo_process_packet(fs, p), ip_fields \o icmp_fields, p)
<1> DEFINE x1 == fs_add_uint64("type", p.num)
           x2 == fs_add_uint64("code", p.num)
           x3 == fs_add_uint64("icmp-id", p.num)
           x4 == fs_add_uint64("seq", p.num)
           x5 == fs_add_string("classification", p.kind)
           x6 == fs_add_uint64("success", IF p.kind = "echoreply" THEN 1 ELSE 0)
           d1 == Def("type", "int")
           d2 == Def("code", "int")
           d3 == Def("icmp-id", "int")
           d4 == Def("seq", "int")
           d5 == Def("classification", "string")
           d6 == Def("success", "int")
<1>1. /\ IsOf(x1, d1, p) /\ IsOf(x2, d2, p) /\ IsOf(x3, d3, p)
      /\ IsOf(x4, d4, p) /\ IsOf(x5, d5, p) /\ IsOf(x6, d6, p)
      BY PacketFacts, AddedFits DEF T_FIELD
<1>2. icmp_echo_process_packet(fs, p) = fs \o <<x1, x2, x3, x4, x5, x6>>
      BY DEF icmp_echo_process_packet
<1>3. icmp_fields = <<d1, d2, d3, d4, d5, d6>> BY DEF icmp_fields
<1> HIDE DEF x1, x2, x3, x4, x5, x6,
             d1, d2, d3, d4, d5, d6
<1>4. Aligned(<<x1, x2, x3, x4, x5, x6>>,
              <<d1, d2, d3, d4, d5, d6>>, p)
      BY <1>1, AlignedSix
<1> QED BY <1>2, <1>3, <1>4, AlignedTogether

LEMMA UdpAnswerAligned ==
  ASSUME NEW p \in Packets, NEW fs, Aligned(fs, ip_fields, p)
  PROVE  Aligned(UdpAnswer(fs, p), ip_fields \o udp_fields, p)
<1> DEFINE x1 == fs_add_string("classification", "udp")
           x2 == fs_add_uint64("success", 1)
           x3 == fs_add_uint64("sport", p.num)
           x4 == fs_add_uint64("dport", p.num)
           x5 == fs_add_null("icmp_responder")
           x6 == fs_add_null("icmp_type")
           x7 == fs_add_null("icmp_code")
           x8 == fs_add_null("icmp_unreach_str")
           x9 == fs_add_uint64("udp_pkt_size", p.num)
           x10 == IF p.kind = "empty" THEN fs_add_null("data")
                  ELSE fs_add_binary("data", p.num)
           d1 == Def("classification", "string")
           d2 == Def("success", "int")
           d3 == Def("sport", "int")
           d4 == Def("dport", "int")
           d5 == Def("icmp_responder", "string")
           d6 == Def("icmp_type", "int")
           d7 == Def("icmp_code", "int")
           d8 == Def("icmp_unreach_str", "string")
           d9 == Def("udp_pkt_size", "int")
           d10 == Def("data", "binary")
<1>1. /\ IsOf(x1, d1, p) /\ IsOf(x2, d2, p) /\ IsOf(x3, d3, p)
      /\ IsOf(x4, d4, p) /\ IsOf(x5, d5, p) /\ IsOf(x6, d6, p)
      /\ IsOf(x7, d7, p) /\ IsOf(x8, d8, p) /\ IsOf(x9, d9, p)
      /\ IsOf(x10, d10, p)
      BY PacketFacts, AddedFits DEF T_FIELD
<1>2. UdpAnswer(fs, p) = fs \o <<x1, x2, x3, x4, x5, x6, x7, x8, x9, x10>>
      BY DEF UdpAnswer
<1>3. udp_fields = <<d1, d2, d3, d4, d5, d6, d7, d8, d9, d10>> BY DEF udp_fields
<1> HIDE DEF x1, x2, x3, x4, x5, x6, x7, x8, x9, x10,
             d1, d2, d3, d4, d5, d6, d7, d8, d9, d10
<1>4. Aligned(<<x1, x2, x3, x4, x5, x6, x7, x8, x9, x10>>,
              <<d1, d2, d3, d4, d5, d6, d7, d8, d9, d10>>, p)
      BY <1>1, AlignedTen
<1> QED BY <1>2, <1>3, <1>4, AlignedTogether

\* The responder of an ICMP error gives way to the address that the error quotes.
LEMMA ModifyAligned ==
  ASSUME NEW p \in Packets, NEW fs, Aligned(fs, ip_fields, p)
  PROVE  Aligned(fs_modify_string(fs, "saddr", p.quoted), ip_fields, p)
<1> DEFINE x == fs_add_string("saddr", p.quoted)
           at == {i \in DOMAIN fs : fs[i].name = "saddr"}
           first == CHOOSE i \in at : \A j \in at : i <= j
<1>1. /\ ip_fields[1] = Def("saddr", "string") /\ Len(ip_fields) = 6 BY DEF ip_fields
<1>2. PICK M : fs \in Seq(M) BY DEF Aligned, IsSequence
<1>3. Len(fs) = 6 /\ DOMAIN fs = 1 .. 6 BY <1>1, <1>2 DEF Aligned
<1>4. \A i \in 1 .. 6 : IsOf(fs[i], ip_fields[i], p) BY <1>1 DEF Aligned
<1>5. 1 \in at
  <2>1. fs[1].name = "saddr"
    <3>1. IsOf(fs[1], Def("saddr", "string"), p) BY <1>1, <1>4
    <3>2. fs[1].name = Def("saddr", "string").name BY <3>1, FieldFacts
    <3> QED BY <3>2 DEF Def
  <2> QED BY <1>3, <2>1
<1>6. first = 1
  <2>1. \A j \in at : 1 <= j BY <1>3
  <2>2. \A j \in at : j \in Int BY <1>3
  <2> HIDE DEF at
  <2> QED BY <1>5, <2>1, <2>2
<1>7. fs_modify_string(fs, "saddr", p.quoted) = [fs EXCEPT ![1] = x]
  <2>1. fs_modify_string(fs, "saddr", p.quoted) = [fs EXCEPT ![first] = x]
        BY <1>5 DEF fs_modify_string
  <2> HIDE DEF first, x
  <2> QED BY <1>6, <2>1
<1>8. IsOf(x, ip_fields[1], p) BY <1>1, AddedFits
<1> HIDE DEF x
<1> DEFINE gs == [fs EXCEPT ![1] = x]
<1>9. gs \in Seq(M \cup {x}) /\ Len(gs) = 6 BY <1>2, <1>3
<1>10. ASSUME NEW i \in 1 .. 6 PROVE IsOf(gs[i], ip_fields[i], p)
  <2>1. CASE i = 1
    <3>1. gs[i] = x BY <1>3, <2>1
    <3> QED BY <1>8, <2>1, <3>1
  <2>2. CASE i # 1
    <3>1. gs[i] = fs[i] BY <1>3, <2>2
    <3> QED BY <1>4, <3>1
  <2> QED BY <2>1, <2>2
<1> HIDE DEF gs
<1>11. Aligned(gs, ip_fields, p)
  <2>1. IsSequence(ip_fields) BY DEF Aligned
  <2>2. IsSequence(gs) BY <1>9 DEF IsSequence
  <2> QED BY <1>1, <1>9, <1>10, <2>1, <2>2 DEF Aligned
<1> QED BY <1>7, <1>11 DEF gs

LEMMA UdpErrorAligned ==
  ASSUME NEW p \in Packets, NEW fs, Aligned(fs, ip_fields, p)
  PROVE  Aligned(UdpError(fs, p), ip_fields \o udp_fields, p)
<1> DEFINE x1 == fs_add_string("classification", "icmp-unreach")
           x2 == fs_add_uint64("success", 0)
           x3 == fs_add_null("sport")
           x4 == fs_add_null("dport")
           x5 == fs_add_string("icmp_responder", p.src)
           x6 == fs_add_uint64("icmp_type", p.num)
           x7 == fs_add_uint64("icmp_code", p.num)
           x8 == fs_add_string("icmp_unreach_str", "unreachable")
           x9 == fs_add_null("udp_pkt_size")
           x10 == fs_add_null("data")
           d1 == Def("classification", "string")
           d2 == Def("success", "int")
           d3 == Def("sport", "int")
           d4 == Def("dport", "int")
           d5 == Def("icmp_responder", "string")
           d6 == Def("icmp_type", "int")
           d7 == Def("icmp_code", "int")
           d8 == Def("icmp_unreach_str", "string")
           d9 == Def("udp_pkt_size", "int")
           d10 == Def("data", "binary")
<1>1. /\ IsOf(x1, d1, p) /\ IsOf(x2, d2, p) /\ IsOf(x3, d3, p)
      /\ IsOf(x4, d4, p) /\ IsOf(x5, d5, p) /\ IsOf(x6, d6, p)
      /\ IsOf(x7, d7, p) /\ IsOf(x8, d8, p) /\ IsOf(x9, d9, p)
      /\ IsOf(x10, d10, p)
      BY PacketFacts, AddedFits DEF T_FIELD
<1>2. UdpError(fs, p) = fs_modify_string(fs, "saddr", p.quoted) \o <<x1, x2, x3, x4, x5, x6, x7, x8, x9, x10>>
      BY DEF UdpError
<1>3. udp_fields = <<d1, d2, d3, d4, d5, d6, d7, d8, d9, d10>> BY DEF udp_fields
<1> HIDE DEF x1, x2, x3, x4, x5, x6, x7, x8, x9, x10,
             d1, d2, d3, d4, d5, d6, d7, d8, d9, d10
<1>4. Aligned(<<x1, x2, x3, x4, x5, x6, x7, x8, x9, x10>>,
              <<d1, d2, d3, d4, d5, d6, d7, d8, d9, d10>>, p)
      BY <1>1, AlignedTen
<1>5. Aligned(fs_modify_string(fs, "saddr", p.quoted), ip_fields, p) BY ModifyAligned
<1> QED BY <1>2, <1>3, <1>4, <1>5, AlignedTogether

\* Whichever way a packet goes, its record is as declared.
LEMMA RecordAligned ==
  ASSUME NEW pr \in {"tcp_synscan", "icmp_echoscan", "udp"}, NEW p \in Packets
  PROVE  Aligned(RecordOf(pr, p), DefsOf(pr), p)
<1> DEFINE ip == fs_add_ip_fields(p)
           own == CASE pr = "tcp_synscan"   -> synscan_process_packet(ip, p)
                    [] pr = "icmp_echoscan" -> icmp_echo_process_packet(ip, p)
                    [] pr = "udp"           -> udp_process_packet(ip, p)
           fields == CASE pr = "tcp_synscan"   -> tcp_fields
                       [] pr = "icmp_echoscan" -> icmp_fields
                       [] pr = "udp"           -> udp_fields
<1>1. Aligned(ip, ip_fields, p) BY IpAligned
<1> HIDE DEF ip
<1>2. Aligned(own, ip_fields \o fields, p)
  <2>1. CASE pr = "tcp_synscan" BY <1>1, <2>1, SynscanAligned
  <2>2. CASE pr = "icmp_echoscan" BY <1>1, <2>2, IcmpAligned
  <2>3. CASE pr = "udp" BY <1>1, <2>3, UdpAnswerAligned, UdpErrorAligned DEF udp_process_packet
  <2> QED BY <2>1, <2>2, <2>3
<1>3. RecordOf(pr, p) = own \o fs_add_system_fields(p) BY DEF RecordOf, ip
<1>4. DefsOf(pr) = ip_fields \o fields \o sys_fields BY DEF DefsOf
<1> HIDE DEF own, fields
<1>5. Aligned(own \o fs_add_system_fields(p), (ip_fields \o fields) \o sys_fields, p)
      BY <1>2, SystemAligned, AlignedTogether
<1> QED BY <1>3, <1>4, <1>5

-----------------------------------------------------------------------------
(* Names *)

Distinct(ds) == /\ IsSequence(ds)
                /\ \A i, j \in 1 .. Len(ds) : ds[i].name = ds[j].name => i = j
Disjoint(c, d) == \A i \in 1 .. Len(c), j \in 1 .. Len(d) : c[i].name # d[j].name

LEMMA DistinctTogether ==
  ASSUME NEW c, NEW d, Distinct(c), Distinct(d), Disjoint(c, d)
  PROVE  Distinct(c \o d)
<1> DEFINE e == c \o d
           m == Len(c)
           n == Len(d)
<1>1. /\ IsSequence(e) /\ Len(e) = m + n /\ m \in Nat /\ n \in Nat
      /\ \A i \in 1 .. m : e[i] = c[i]
      /\ \A i \in 1 .. n : e[m + i] = d[i]
      BY Together DEF Distinct
<1>2. /\ \A i, j \in 1 .. m : c[i].name = c[j].name => i = j
      /\ \A i, j \in 1 .. n : d[i].name = d[j].name => i = j
      /\ \A i \in 1 .. m, j \in 1 .. n : c[i].name # d[j].name
      BY DEF Distinct, Disjoint
<1> HIDE DEF e, m, n
<1>3. ASSUME NEW i \in 1 .. m + n
      PROVE  (i \in 1 .. m /\ e[i] = c[i])
                \/ (i - m \in 1 .. n /\ e[i] = d[i - m])
  <2>1. CASE i \in 1 .. m BY <1>1, <2>1
  <2>2. CASE i \notin 1 .. m
    <3>1. i - m \in 1 .. n /\ m + (i - m) = i BY <1>1, <2>2
    <3>2. e[m + (i - m)] = d[i - m] BY <1>1, <3>1
    <3> QED BY <3>1, <3>2
  <2> QED BY <2>1, <2>2
<1>4. ASSUME NEW i \in 1 .. m + n, NEW j \in 1 .. m + n, e[i].name = e[j].name
      PROVE  i = j
  <2>1. CASE i \in 1 .. m /\ e[i] = c[i] /\ j \in 1 .. m /\ e[j] = c[j]
        BY <1>2, <1>4, <2>1
  <2>2. CASE i - m \in 1 .. n /\ e[i] = d[i - m] /\ j - m \in 1 .. n /\ e[j] = d[j - m]
    <3>1. i - m = j - m BY <1>2, <1>4, <2>2
    <3> QED BY <1>1, <3>1
  <2>3. CASE i \in 1 .. m /\ e[i] = c[i] /\ j - m \in 1 .. n /\ e[j] = d[j - m]
        BY <1>2, <1>4, <2>3
  <2>4. CASE i - m \in 1 .. n /\ e[i] = d[i - m] /\ j \in 1 .. m /\ e[j] = c[j]
        BY <1>2, <1>4, <2>4
  <2> QED BY <1>3, <2>1, <2>2, <2>3, <2>4
<1>5. Distinct(e) BY <1>1, <1>4 DEF Distinct
<1> QED BY <1>5 DEF e

LEMMA DisjointTogether ==
  ASSUME NEW c, NEW d, NEW e, IsSequence(c), IsSequence(d), Disjoint(c, e), Disjoint(d, e)
  PROVE  Disjoint(c \o d, e)
<1> DEFINE b == c \o d
           m == Len(c)
           n == Len(d)
<1>1. /\ Len(b) = m + n /\ m \in Nat /\ n \in Nat
      /\ \A i \in 1 .. m : b[i] = c[i]
      /\ \A i \in 1 .. n : b[m + i] = d[i]
      BY Together
<1>2. /\ \A i \in 1 .. m, j \in 1 .. Len(e) : c[i].name # e[j].name
      /\ \A i \in 1 .. n, j \in 1 .. Len(e) : d[i].name # e[j].name
      BY DEF Disjoint
<1> HIDE DEF b, m, n
<1>3. ASSUME NEW i \in 1 .. m + n, NEW j \in 1 .. Len(e) PROVE b[i].name # e[j].name
  <2>1. CASE i \in 1 .. m BY <1>1, <1>2, <2>1
  <2>2. CASE i \notin 1 .. m
    <3>1. i - m \in 1 .. n /\ m + (i - m) = i BY <1>1, <2>2
    <3>2. b[m + (i - m)] = d[i - m] BY <1>1, <3>1
    <3> QED BY <1>2, <3>1, <3>2
  <2> QED BY <2>1, <2>2
<1>4. Disjoint(b, e) BY <1>1, <1>3 DEF Disjoint
<1> QED BY <1>4 DEF b

LEMMA DeclaredSequences ==
  /\ IsSequence(ip_fields) /\ IsSequence(tcp_fields) /\ IsSequence(icmp_fields)
  /\ IsSequence(udp_fields) /\ IsSequence(sys_fields)
<1>1. /\ ip_fields \in Seq({ip_fields[i] : i \in 1 .. 6})
      /\ tcp_fields \in Seq({tcp_fields[i] : i \in 1 .. 7})
      /\ icmp_fields \in Seq({icmp_fields[i] : i \in 1 .. 6})
      /\ udp_fields \in Seq({udp_fields[i] : i \in 1 .. 10})
      /\ sys_fields \in Seq({sys_fields[i] : i \in 1 .. 5})
      BY DEF ip_fields, tcp_fields, icmp_fields, udp_fields, sys_fields
<1> QED BY <1>1 DEF IsSequence

\* No name is declared twice, in a module or by a module and the common fields.
LEMMA DefsDistinct ==
  ASSUME NEW pr \in {"tcp_synscan", "icmp_echoscan", "udp"} PROVE Distinct(DefsOf(pr))
<1> DEFINE fields == CASE pr = "tcp_synscan"   -> tcp_fields
                       [] pr = "icmp_echoscan" -> icmp_fields
                       [] pr = "udp"           -> udp_fields
<1>1. /\ Len(ip_fields) = 6 /\ Len(tcp_fields) = 7 /\ Len(icmp_fields) = 6
      /\ Len(udp_fields) = 10 /\ Len(sys_fields) = 5
      BY DEF ip_fields, tcp_fields, icmp_fields, udp_fields, sys_fields
<1>2. /\ IsSequence(ip_fields) /\ IsSequence(tcp_fields) /\ IsSequence(icmp_fields)
      /\ IsSequence(udp_fields) /\ IsSequence(sys_fields)
      BY DeclaredSequences
<1>3. Distinct(ip_fields)
  <2>1. \A i, j \in 1 .. 6 : ip_fields[i].name = ip_fields[j].name => i = j
        BY DEF ip_fields, Def
  <2> QED BY <1>1, <1>2, <2>1 DEF Distinct
<1>4. Distinct(tcp_fields)
  <2>1. \A i, j \in 1 .. 7 : tcp_fields[i].name = tcp_fields[j].name => i = j
        BY DEF tcp_fields, Def
  <2> QED BY <1>1, <1>2, <2>1 DEF Distinct
<1>5. Distinct(icmp_fields)
  <2>1. \A i, j \in 1 .. 6 : icmp_fields[i].name = icmp_fields[j].name => i = j
        BY DEF icmp_fields, Def
  <2> QED BY <1>1, <1>2, <2>1 DEF Distinct
<1>6. Distinct(udp_fields)
  <2>1. \A i, j \in 1 .. 10 : udp_fields[i].name = udp_fields[j].name => i = j
        BY DEF udp_fields, Def
  <2> QED BY <1>1, <1>2, <2>1 DEF Distinct
<1>7. Distinct(sys_fields)
  <2>1. \A i, j \in 1 .. 5 : sys_fields[i].name = sys_fields[j].name => i = j
        BY DEF sys_fields, Def
  <2> QED BY <1>1, <1>2, <2>1 DEF Distinct
<1>8. Disjoint(ip_fields, tcp_fields) /\ Disjoint(tcp_fields, sys_fields)
  <2>1. \A i \in 1 .. 6, j \in 1 .. 7 : ip_fields[i].name # tcp_fields[j].name
        BY DEF ip_fields, tcp_fields, Def
  <2>2. \A i \in 1 .. 7, j \in 1 .. 5 : tcp_fields[i].name # sys_fields[j].name
        BY DEF sys_fields, tcp_fields, Def
  <2> QED BY <1>1, <2>1, <2>2 DEF Disjoint
<1>9. Disjoint(ip_fields, icmp_fields) /\ Disjoint(icmp_fields, sys_fields)
  <2>1. \A i \in 1 .. 6, j \in 1 .. 6 : ip_fields[i].name # icmp_fields[j].name
        BY DEF ip_fields, icmp_fields, Def
  <2>2. \A i \in 1 .. 6, j \in 1 .. 5 : icmp_fields[i].name # sys_fields[j].name
        BY DEF sys_fields, icmp_fields, Def
  <2> QED BY <1>1, <2>1, <2>2 DEF Disjoint
<1>10. Disjoint(ip_fields, udp_fields) /\ Disjoint(udp_fields, sys_fields)
  <2>1. \A i \in 1 .. 6, j \in 1 .. 10 : ip_fields[i].name # udp_fields[j].name
        BY DEF ip_fields, udp_fields, Def
  <2>2. \A i \in 1 .. 10, j \in 1 .. 5 : udp_fields[i].name # sys_fields[j].name
        BY DEF sys_fields, udp_fields, Def
  <2> QED BY <1>1, <2>1, <2>2 DEF Disjoint
<1>11. Disjoint(ip_fields, sys_fields)
  <2>1. \A i \in 1 .. 6, j \in 1 .. 5 : ip_fields[i].name # sys_fields[j].name
        BY DEF ip_fields, sys_fields, Def
  <2> QED BY <1>1, <2>1 DEF Disjoint
<1>12. /\ IsSequence(fields) /\ Distinct(fields)
       /\ Disjoint(ip_fields, fields) /\ Disjoint(fields, sys_fields)
  <2>1. CASE pr = "tcp_synscan" BY <1>2, <1>4, <1>8, <2>1
  <2>2. CASE pr = "icmp_echoscan" BY <1>2, <1>5, <1>9, <2>2
  <2>3. CASE pr = "udp" BY <1>2, <1>6, <1>10, <2>3
  <2> QED BY <2>1, <2>2, <2>3
<1>13. DefsOf(pr) = (ip_fields \o fields) \o sys_fields BY DEF DefsOf
<1> HIDE DEF fields
<1>14. Distinct(ip_fields \o fields) BY <1>3, <1>12, DistinctTogether
<1>15. Disjoint(ip_fields \o fields, sys_fields) BY <1>2, <1>11, <1>12, DisjointTogether
<1> QED BY <1>7, <1>13, <1>14, <1>15, DistinctTogether

\* A name is found where it is declared, or nowhere.
LEMMA IndexFound ==
  ASSUME NEW ds, IsSequence(ds), NEW n, NEW k, k = fds_get_index_by_name(ds, n)
  PROVE  \/ k = NoIndex /\ \A i \in 1 .. Len(ds) : ds[i].name # n
         \/ k # NoIndex /\ k \in 1 .. Len(ds) /\ ds[k].name = n
<1> DEFINE at == {i \in DOMAIN ds : ds[i].name = n}
<1>1. DOMAIN ds = 1 .. Len(ds) /\ Len(ds) \in Nat BY Together
<1>2. CASE at = {} BY <1>1, <1>2 DEF fds_get_index_by_name
<1>3. CASE at # {}
  <2>1. k = CHOOSE i \in at : \A j \in at : i <= j BY <1>3 DEF fds_get_index_by_name
  <2>2. at \subseteq Nat BY <1>1
  <2>3. \E i \in at : \A j \in at : i <= j
    <3> HIDE DEF at
    <3> QED BY <1>3, <2>2, LeastNumber
  <2>4. k \in at
    <3> HIDE DEF at
    <3> QED BY <2>1, <2>3
  <2> QED BY <1>1, <2>4 DEF NoIndex
<1> QED BY <1>2, <1>3

\* In a record as declared, the field of a name is the one at its position.
LEMMA NamedAt ==
  ASSUME NEW fs, NEW ds, NEW p, Aligned(fs, ds, p), Distinct(ds), NEW i \in 1 .. Len(ds)
  PROVE  Named(fs, ds[i].name) = fs[i]
<1>1. Len(fs) = Len(ds) /\ DOMAIN fs = 1 .. Len(ds) BY Together DEF Aligned
<1>2. \A j \in 1 .. Len(ds) : fs[j].name = ds[j].name
  <2>1. \A j \in 1 .. Len(ds) : IsOf(fs[j], ds[j], p) BY DEF Aligned
  <2> QED BY <2>1, FieldFacts
<1>3. Range(fs) = {fs[j] : j \in 1 .. Len(ds)} BY <1>1 DEF Range
<1>4. fs[i] \in Range(fs) /\ fs[i].name = ds[i].name BY <1>2, <1>3
<1>5. \A x \in Range(fs) : x.name = ds[i].name => x = fs[i] BY <1>2, <1>3 DEF Distinct
<1> QED BY <1>4, <1>5 DEF Named

-----------------------------------------------------------------------------
(* The tree of the filter *)

\* Within the comparisons from a to b, of which those in T hold, some stretch
\* joined by && does.
On(T, con, a, b) ==
  \E c, d \in a .. b :
     /\ c <= d /\ \A i \in c .. d : i \in T
     /\ \A i \in c .. d - 1 : con[i] = "AND"
     /\ c > a => con[c - 1] = "OR"
     /\ d < b => con[d] = "OR"

LEMMA OnBoolean ==
  ASSUME NEW T, NEW con, NEW a, NEW b PROVE On(T, con, a, b) \in BOOLEAN
BY DEF On

LEMMA OnOne ==
  ASSUME NEW T, NEW con, NEW a \in Int PROVE On(T, con, a, a) <=> a \in T
BY DEF On

\* A || splits a stretch in two ...
LEMMA OnOr ==
  ASSUME NEW T, NEW con, NEW a \in Int, NEW b \in Int, NEW i \in a .. b - 1, con[i] = "OR"
  PROVE  On(T, con, a, b) <=> On(T, con, a, i) \/ On(T, con, i + 1, b)
<1>0. i \in Int /\ a <= i /\ i < b OBVIOUS
<1>1. ASSUME On(T, con, a, i) PROVE On(T, con, a, b)
  <2>1. PICK c \in a .. i, d \in a .. i :
             /\ c <= d /\ \A k \in c .. d : k \in T
             /\ \A k \in c .. d - 1 : con[k] = "AND"
             /\ c > a => con[c - 1] = "OR"
             /\ d < i => con[d] = "OR"
        BY <1>1 DEF On
  <2>2. c \in a .. b /\ d \in a .. b BY <1>0
  <2>3. d < b => con[d] = "OR"
    <3>1. d < i \/ d = i BY <1>0
    <3> QED BY <2>1, <3>1
  <2> QED BY <2>1, <2>2, <2>3 DEF On
<1>2. ASSUME On(T, con, i + 1, b) PROVE On(T, con, a, b)
  <2>1. PICK c \in i + 1 .. b, d \in i + 1 .. b :
             /\ c <= d /\ \A k \in c .. d : k \in T
             /\ \A k \in c .. d - 1 : con[k] = "AND"
             /\ c > i + 1 => con[c - 1] = "OR"
             /\ d < b => con[d] = "OR"
        BY <1>2 DEF On
  <2>2. c \in a .. b /\ d \in a .. b BY <1>0
  <2>3. con[c - 1] = "OR"
    <3>1. c > i + 1 \/ c - 1 = i BY <1>0
    <3> QED BY <2>1, <3>1
  <2> QED BY <2>1, <2>2, <2>3 DEF On
<1>3. ASSUME On(T, con, a, b) PROVE On(T, con, a, i) \/ On(T, con, i + 1, b)
  <2>1. PICK c \in a .. b, d \in a .. b :
             /\ c <= d /\ \A k \in c .. d : k \in T
             /\ \A k \in c .. d - 1 : con[k] = "AND"
             /\ c > a => con[c - 1] = "OR"
             /\ d < b => con[d] = "OR"
        BY <1>3 DEF On
  <2>2. CASE d <= i
    <3>1. c \in a .. i /\ d \in a .. i BY <1>0, <2>1, <2>2
    <3>2. d < i => con[d] = "OR" BY <1>0, <2>1
    <3>3. On(T, con, a, i) BY <2>1, <3>1, <3>2 DEF On
    <3> QED BY <3>3
  <2>3. CASE c > i
    <3>1. c \in i + 1 .. b /\ d \in i + 1 .. b BY <1>0, <2>1, <2>3
    <3>2. c > i + 1 => con[c - 1] = "OR" BY <1>0, <2>1
    <3>3. On(T, con, i + 1, b) BY <2>1, <3>1, <3>2 DEF On
    <3> QED BY <3>3
  <2>4. CASE c <= i /\ i < d
    <3>1. i \in c .. d - 1 BY <1>0, <2>4
    <3>2. con[i] = "AND" BY <2>1, <3>1
    <3> QED BY <3>2
  <2> QED BY <1>0, <2>2, <2>3, <2>4
<1> QED BY <1>1, <1>2, <1>3

\* ... and where there are only &&, all must hold.
LEMMA OnAnd ==
  ASSUME NEW T, NEW con, NEW a \in Int, NEW b \in Int, a <= b,
         \A i \in a .. b - 1 : con[i] = "AND"
  PROVE  On(T, con, a, b) <=> \A i \in a .. b : i \in T
<1>1. ASSUME On(T, con, a, b) PROVE \A i \in a .. b : i \in T
  <2>1. PICK c \in a .. b, d \in a .. b :
             /\ c <= d /\ \A k \in c .. d : k \in T
             /\ c > a => con[c - 1] = "OR"
             /\ d < b => con[d] = "OR"
        BY <1>1 DEF On
  <2>2. c = a
    <3>1. ASSUME c > a PROVE FALSE
      <4>1. c - 1 \in a .. b - 1 BY <3>1
      <4>2. con[c - 1] = "AND" /\ con[c - 1] = "OR" BY <2>1, <3>1, <4>1
      <4> QED BY <4>2
    <3> QED BY <3>1
  <2>3. d = b
    <3>1. ASSUME d < b PROVE FALSE
      <4>1. d \in a .. b - 1 BY <3>1
      <4>2. con[d] = "AND" /\ con[d] = "OR" BY <2>1, <3>1, <4>1
      <4> QED BY <4>2
    <3> QED BY <3>1
  <2> QED BY <2>1, <2>2, <2>3
<1>2. ASSUME \A i \in a .. b : i \in T PROVE On(T, con, a, b)
  <2>1. a \in a .. b /\ b \in a .. b OBVIOUS
  <2> QED BY <1>2, <2>1 DEF On
<1> QED BY <1>1, <1>2

LEMMA GreatestNumber ==
  ASSUME NEW a \in Int, NEW b \in Int, NEW B, B \subseteq a .. b, B # {}
  PROVE  \E i \in B : \A j \in B : j <= i
<1> DEFINE C == {b - i : i \in B}
<1>1. C \subseteq Nat /\ C # {}
  <2>1. \A i \in B : i \in a .. b /\ b - i \in Nat OBVIOUS
  <2>2. C # {} OBVIOUS
  <2> QED BY <2>1, <2>2
<1>2. PICK k \in C : \A l \in C : k <= l
  <2> HIDE DEF C
  <2> QED BY <1>1, LeastNumber
<1>3. PICK i \in B : k = b - i OBVIOUS
<1>4. ASSUME NEW j \in B PROVE j <= i
  <2>1. b - j \in C OBVIOUS
  <2>2. k <= b - j BY <1>2, <2>1
  <2>3. i \in Int /\ j \in Int OBVIOUS
  <2> QED BY <1>3, <2>2, <2>3
<1> QED BY <1>4

\* The last operator is a ||, if there is one in the stretch.
LEMMA LastIsIn ==
  ASSUME NEW con, NEW a \in Int, NEW b \in Int, a < b,
         NEW k, k = LastOperator(con, a, b)
  PROVE  /\ k \in a .. b - 1
         /\ con[k] = "OR" \/ \A i \in a .. b - 1 : con[i] # "OR"
<1> DEFINE ors == {i \in a .. b - 1 : con[i] = "OR"}
           among == IF ors = {} THEN a .. b - 1 ELSE ors
<1>1. k = CHOOSE i \in among : \A j \in among : j <= i BY DEF LastOperator
<1>2. among \subseteq a .. b - 1 /\ among # {} OBVIOUS
<1>3. ors = {} \/ among = ors OBVIOUS
<1>4. k \in among
  <2> HIDE DEF among
  <2>1. b - 1 \in Int OBVIOUS
  <2>2. \E i \in among : \A j \in among : j <= i BY <1>2, <2>1, GreatestNumber
  <2> QED BY <1>1, <2>2
<1> QED BY <1>2, <1>3, <1>4

\* The nodes of a filter, T being the comparisons that hold.
TreeOf(nodes, f, T, fs) ==
  /\ DOMAIN nodes = Stretches(f)
  /\ \A s \in Stretches(f) :
       IF s[1] = s[2]
       THEN /\ nodes[s].op \notin {"AND", "OR"}
            /\ eval_node(nodes[s], fs) = (s[1] \in T)
       ELSE LET i == LastOperator(f.con, s[1], s[2])
            IN nodes[s] = make_op_node(f.con[i], <<s[1], i>>, <<i + 1, s[2]>>)

LEMMA FilterFacts ==
  ASSUME NEW f \in Filters
  PROVE  /\ f.cmp \in Seq(Comparisons) /\ f.con \in Seq({"AND", "OR"})
         /\ DOMAIN f.cmp = 1 .. Len(f.cmp) /\ Len(f.cmp) \in Nat
         /\ \A i \in 1 .. Len(f.cmp) : f.cmp[i] \in Comparisons
         /\ \A i \in 1 .. Len(f.cmp) - 1 : f.con[i] \in {"AND", "OR"}
<1>1. f.cmp \in Seq(Comparisons) /\ f.con \in Seq({"AND", "OR"}) BY DEF Filters
<1>2. Len(f.con) = IF f.cmp = <<>> THEN 0 ELSE Len(f.cmp) - 1 BY DEF Filters
<1> DEFINE cmp == f.cmp
           con == f.con
<1> HIDE DEF cmp, con
<1>3. /\ DOMAIN cmp = 1 .. Len(cmp) /\ Len(cmp) \in Nat
      /\ \A i \in 1 .. Len(cmp) : cmp[i] \in Comparisons
      BY <1>1 DEF cmp
<1>4. \A i \in 1 .. Len(cmp) - 1 : con[i] \in {"AND", "OR"}
  <2>1. con \in Seq({"AND", "OR"}) BY <1>1 DEF con
  <2>2. \A i \in 1 .. Len(con) : con[i] \in {"AND", "OR"} BY <2>1
  <2>3. cmp # <<>> => Len(con) = Len(cmp) - 1 BY <1>2 DEF cmp, con
  <2>4. cmp = <<>> => Len(cmp) = 0 OBVIOUS
  <2> QED BY <2>2, <2>3, <2>4
<1> QED BY <1>1, <1>3, <1>4 DEF cmp, con

\* Below a junction, two shorter stretches; together they mean what it means.
LEMMA JunctionMeans ==
  ASSUME NEW f \in Filters, NEW T, NEW s \in Stretches(f), s[1] < s[2],
         NEW i, i = LastOperator(f.con, s[1], s[2])
  PROVE  /\ i \in s[1] .. s[2] - 1 /\ f.con[i] \in {"AND", "OR"}
         /\ <<s[1], i>> \in Stretches(f) /\ <<i + 1, s[2]>> \in Stretches(f)
         /\ f.con[i] = "AND" => (On(T, f.con, s[1], s[2])
                                   <=> On(T, f.con, s[1], i) /\ On(T, f.con, i + 1, s[2]))
         /\ f.con[i] = "OR"  => (On(T, f.con, s[1], s[2])
                                   <=> On(T, f.con, s[1], i) \/ On(T, f.con, i + 1, s[2]))
<1> DEFINE a == s[1]
           b == s[2]
           con == f.con
           n == Len(f.cmp)
<1>1. n \in Nat /\ s \in (1 .. n) \X (1 .. n)
  <2>1. DOMAIN f.cmp = 1 .. n /\ n \in Nat BY FilterFacts
  <2> QED BY <2>1 DEF Stretches
<1>2. a \in 1 .. n /\ b \in 1 .. n /\ a < b BY <1>1
<1>3. \A k \in 1 .. n - 1 : con[k] \in {"AND", "OR"} BY FilterFacts
<1>4. i = LastOperator(con, a, b) OBVIOUS
<1>5. <<a, i>> \in Stretches(f) <=> a \in 1 .. n /\ i \in 1 .. n /\ a <= i
  <2>1. DOMAIN f.cmp = 1 .. n BY FilterFacts
  <2> QED BY <2>1 DEF Stretches
<1>6. <<i + 1, b>> \in Stretches(f) <=> i + 1 \in 1 .. n /\ b \in 1 .. n /\ i + 1 <= b
  <2>1. DOMAIN f.cmp = 1 .. n BY FilterFacts
  <2> QED BY <2>1 DEF Stretches
<1> HIDE DEF a, b, con, n
<1>7. a \in Int /\ b \in Int /\ n \in Nat BY <1>1, <1>2
<1>8. /\ i \in a .. b - 1
      /\ con[i] = "OR" \/ \A k \in a .. b - 1 : con[k] # "OR"
      BY <1>2, <1>4, <1>7, LastIsIn
<1>9. i \in 1 .. n - 1 /\ i \in Int BY <1>2, <1>7, <1>8
<1>10. con[i] \in {"AND", "OR"} BY <1>3, <1>9
<1>11. ASSUME con[i] = "OR"
       PROVE  On(T, con, a, b) <=> On(T, con, a, i) \/ On(T, con, i + 1, b)
       BY <1>7, <1>8, <1>11, OnOr
<1>12. ASSUME con[i] = "AND"
       PROVE  On(T, con, a, b) <=> On(T, con, a, i) /\ On(T, con, i + 1, b)
  <2>1. \A k \in a .. b - 1 : con[k] = "AND"
    <3>1. \A k \in a .. b - 1 : k \in 1 .. n - 1 BY <1>2, <1>7
    <3>2. \A k \in a .. b - 1 : con[k] # "OR" BY <1>8, <1>12
    <3> QED BY <1>3, <3>1, <3>2
  <2>2. On(T, con, a, b) <=> \A k \in a .. b : k \in T BY <1>2, <1>7, <2>1, OnAnd
  <2>3. On(T, con, a, i) <=> \A k \in a .. i : k \in T
    <3>1. \A k \in a .. i - 1 : con[k] = "AND" BY <1>7, <1>8, <2>1
    <3>2. a <= i BY <1>7, <1>8
    <3> QED BY <1>7, <1>9, <3>1, <3>2, OnAnd
  <2>4. On(T, con, i + 1, b) <=> \A k \in i + 1 .. b : k \in T
    <3>1. \A k \in i + 1 .. b - 1 : con[k] = "AND" BY <1>7, <1>8, <2>1
    <3>2. i + 1 <= b /\ i + 1 \in Int BY <1>7, <1>8
    <3> QED BY <1>7, <3>1, <3>2, OnAnd
  <2>5. (\A k \in a .. b : k \in T)
           <=> (\A k \in a .. i : k \in T) /\ (\A k \in i + 1 .. b : k \in T)
        BY <1>7, <1>8
  <2> QED BY <2>2, <2>3, <2>4, <2>5
<1>13. <<a, i>> \in Stretches(f) /\ <<i + 1, b>> \in Stretches(f)
       BY <1>2, <1>5, <1>6, <1>7, <1>8
<1> QED BY <1>8, <1>10, <1>11, <1>12, <1>13 DEF a, b, con

\* The tree is evaluated to what the filter means.
LEMMA EvaluateIs ==
  ASSUME NEW f \in Filters, NEW nodes, NEW T, NEW fs, TreeOf(nodes, f, T, fs),
         NEW root \in Stretches(f)
  PROVE  evaluate_expression(nodes, root, fs) <=> On(T, f.con, root[1], root[2])
<1> DEFINE D(g) == [s \in DOMAIN nodes |->
                      IF nodes[s].op = "AND"
                      THEN g[nodes[s].left_child] /\ g[nodes[s].right_child]
                      ELSE IF nodes[s].op = "OR"
                      THEN g[nodes[s].left_child] \/ g[nodes[s].right_child]
                      ELSE eval_node(nodes[s], fs)]
           value == CHOOSE g : g = D(g)
           is == [s \in DOMAIN nodes |-> On(T, f.con, s[1], s[2])]
<1>1. evaluate_expression(nodes, root, fs) = value[root] BY DEF evaluate_expression
<1>2. DOMAIN nodes = Stretches(f) BY DEF TreeOf
<1>3. ASSUME NEW s \in Stretches(f)
      PROVE  s[1] \in Int /\ s[2] \in Int /\ s[1] <= s[2] /\ s = <<s[1], s[2]>>
  <2>1. DOMAIN f.cmp = 1 .. Len(f.cmp) /\ Len(f.cmp) \in Nat BY FilterFacts
  <2> QED BY <2>1 DEF Stretches
\* what the equation says at a leaf, and at a junction
<1>4. ASSUME NEW s \in Stretches(f), s[1] = s[2], NEW g
      PROVE  D(g)[s] = On(T, f.con, s[1], s[2])
  <2>1. nodes[s].op \notin {"AND", "OR"} /\ eval_node(nodes[s], fs) = (s[1] \in T)
        BY <1>4 DEF TreeOf
  <2>2. D(g)[s] = eval_node(nodes[s], fs) BY <1>2, <2>1
  <2>3. On(T, f.con, s[1], s[2]) = (s[1] \in T)
    <3>1. On(T, f.con, s[1], s[2]) <=> s[1] \in T BY <1>3, <1>4, OnOne
    <3>2. On(T, f.con, s[1], s[2]) \in BOOLEAN BY OnBoolean
    <3> QED BY <3>1, <3>2
  <2> QED BY <2>1, <2>2, <2>3
<1>5. ASSUME NEW s \in Stretches(f), s[1] < s[2], NEW g,
             NEW i, i = LastOperator(f.con, s[1], s[2])
      PROVE  /\ f.con[i] = "AND" => D(g)[s] = (g[<<s[1], i>>] /\ g[<<i + 1, s[2]>>])
             /\ f.con[i] = "OR"  => D(g)[s] = (g[<<s[1], i>>] \/ g[<<i + 1, s[2]>>])
  <2>1. nodes[s] = make_op_node(f.con[i], <<s[1], i>>, <<i + 1, s[2]>>)
        BY <1>3, <1>5 DEF TreeOf
  <2>2. /\ nodes[s].op = f.con[i] /\ nodes[s].left_child = <<s[1], i>>
        /\ nodes[s].right_child = <<i + 1, s[2]>>
        BY <2>1 DEF make_op_node
  <2> QED BY <1>2, <2>2
<1>6. is = D(is)
  <2>1. ASSUME NEW s \in Stretches(f) PROVE is[s] = D(is)[s]
    <3>1. is[s] = On(T, f.con, s[1], s[2]) BY <1>2
    <3>2. CASE s[1] = s[2]
      <4> HIDE DEF is, D
      <4> QED BY <1>4, <3>1, <3>2
    <3>3. CASE s[1] < s[2]
      <4> DEFINE i == LastOperator(f.con, s[1], s[2])
                 l == <<s[1], i>>
                 r == <<i + 1, s[2]>>
      <4>1. /\ f.con[i] \in {"AND", "OR"} /\ l \in Stretches(f) /\ r \in Stretches(f)
            /\ f.con[i] = "AND" => (On(T, f.con, s[1], s[2])
                                       <=> On(T, f.con, s[1], i) /\ On(T, f.con, i + 1, s[2]))
            /\ f.con[i] = "OR"  => (On(T, f.con, s[1], s[2])
                                       <=> On(T, f.con, s[1], i) \/ On(T, f.con, i + 1, s[2]))
        <5> HIDE DEF i
        <5>1. i = LastOperator(f.con, s[1], s[2]) BY DEF i
        <5> QED BY <3>3, <5>1, JunctionMeans
      <4>2. is[l] = On(T, f.con, s[1], i) /\ is[r] = On(T, f.con, i + 1, s[2])
        <5> HIDE DEF i
        <5> QED BY <1>2, <4>1
      <4>3. /\ f.con[i] = "AND" => D(is)[s] = (is[l] /\ is[r])
            /\ f.con[i] = "OR"  => D(is)[s] = (is[l] \/ is[r])
        <5> HIDE DEF i, is, D
        <5>1. i = LastOperator(f.con, s[1], s[2]) BY DEF i
        <5> QED BY <1>5, <3>3, <5>1
      <4>5. /\ On(T, f.con, s[1], s[2]) \in BOOLEAN /\ On(T, f.con, s[1], i) \in BOOLEAN
            /\ On(T, f.con, i + 1, s[2]) \in BOOLEAN
            BY OnBoolean
      <4> HIDE DEF i, l, r, is, D
      <4> QED BY <3>1, <4>1, <4>2, <4>3, <4>5
    <3> QED BY <1>3, <3>2, <3>3
  <2>2. is = [s \in Stretches(f) |-> is[s]] BY <1>2
  <2>3. D(is) = [s \in Stretches(f) |-> D(is)[s]] BY <1>2
  <2> HIDE DEF is, D
  <2> QED BY <2>1, <2>2, <2>3
<1>7. value = D(value)
  <2> HIDE DEF is, D
  <2> QED BY <1>6
<1> HIDE DEF value, is
<1> DEFINE G == {k \in Nat : \A s \in Stretches(f) :
                   s[2] - s[1] <= k => value[s] = On(T, f.con, s[1], s[2])}
<1>8. 0 \in G
  <2>1. ASSUME NEW s \in Stretches(f), s[2] - s[1] <= 0
        PROVE  value[s] = On(T, f.con, s[1], s[2])
    <3>1. s[1] = s[2] BY <1>3, <2>1
    <3>2. value[s] = D(value)[s]
      <4> HIDE DEF D
      <4> QED BY <1>7
    <3> HIDE DEF D
    <3> QED BY <1>4, <3>1, <3>2
  <2> QED BY <2>1
<1>9. ASSUME NEW k \in Nat, k \in G PROVE k + 1 \in G
  <2>1. ASSUME NEW s \in Stretches(f), s[2] - s[1] <= k + 1
        PROVE  value[s] = On(T, f.con, s[1], s[2])
    <3>1. value[s] = D(value)[s]
      <4> HIDE DEF D
      <4> QED BY <1>7
    <3>2. CASE s[1] = s[2]
      <4> HIDE DEF D
      <4> QED BY <1>4, <3>1, <3>2
    <3>3. CASE s[1] < s[2]
      <4> DEFINE i == LastOperator(f.con, s[1], s[2])
                 l == <<s[1], i>>
                 r == <<i + 1, s[2]>>
      <4>1. /\ i \in s[1] .. s[2] - 1
            /\ f.con[i] \in {"AND", "OR"} /\ l \in Stretches(f) /\ r \in Stretches(f)
            /\ f.con[i] = "AND" => (On(T, f.con, s[1], s[2])
                                       <=> On(T, f.con, s[1], i) /\ On(T, f.con, i + 1, s[2]))
            /\ f.con[i] = "OR"  => (On(T, f.con, s[1], s[2])
                                       <=> On(T, f.con, s[1], i) \/ On(T, f.con, i + 1, s[2]))
        <5> HIDE DEF i
        <5>1. i = LastOperator(f.con, s[1], s[2]) BY DEF i
        <5> QED BY <3>3, <5>1, JunctionMeans
      <4>2. l[2] - l[1] <= k /\ r[2] - r[1] <= k
        <5> HIDE DEF i
        <5> QED BY <1>3, <2>1, <4>1
      <4>3. value[l] = On(T, f.con, s[1], i) /\ value[r] = On(T, f.con, i + 1, s[2])
        <5>1. l[1] = s[1] /\ l[2] = i /\ r[1] = i + 1 /\ r[2] = s[2] OBVIOUS
        <5> HIDE DEF i, l, r
        <5> QED BY <1>9, <4>1, <4>2, <5>1
      <4>4. /\ f.con[i] = "AND" => D(value)[s] = (value[l] /\ value[r])
            /\ f.con[i] = "OR"  => D(value)[s] = (value[l] \/ value[r])
        <5> HIDE DEF i, D
        <5>1. i = LastOperator(f.con, s[1], s[2]) BY DEF i
        <5> QED BY <1>5, <3>3, <5>1
      <4>5. /\ On(T, f.con, s[1], s[2]) \in BOOLEAN /\ On(T, f.con, s[1], i) \in BOOLEAN
            /\ On(T, f.con, i + 1, s[2]) \in BOOLEAN
            BY OnBoolean
      <4> HIDE DEF i, l, r, D
      <4> QED BY <3>1, <4>1, <4>3, <4>4, <4>5
    <3> QED BY <1>3, <3>2, <3>3
  <2>2. k + 1 \in Nat OBVIOUS
  <2> QED BY <2>1, <2>2
<1> HIDE DEF G
<1>10. Nat \subseteq G BY <1>8, <1>9, Induction
<1>11. root[2] - root[1] \in Nat BY <1>3
<1>12. value[root] = On(T, f.con, root[1], root[2]) BY <1>10, <1>11 DEF G
<1> QED BY <1>1, <1>12

LEMMA SmallRemainder ==
  ASSUME NEW v \in Nat, NEW m \in Nat, v < m
  PROVE  v % m = v
BY SMT

\* A number that fits an int is not changed by the conversions.
LEMMA NumberKept ==
  ASSUME NEW v \in Nat, v < IntMod \div 2
  PROVE  T_NUMBER(v) = v /\ make_int_node(v) = v
<1>1. IntMod \in Nat \ {0} /\ WordMod \in Nat /\ WordMod > IntMod BY RecordAssumption
<1>2. v < IntMod /\ v < WordMod BY <1>1
<1>3. v % IntMod = v /\ v % WordMod = v BY <1>1, <1>2, SmallRemainder
<1>4. T_NUMBER(v) = v BY <1>3 DEF T_NUMBER
<1> QED BY <1>3, <1>4 DEF make_int_node

\* What a comparison that the filter's check lets through can read.
LEMMA LeafReads ==
  ASSUME NEW c \in Comparisons, NEW fs, NEW ds, NEW p, Aligned(fs, ds, p), Distinct(ds),
         NEW k, k = fds_get_index_by_name(ds, c.field), k # NoIndex,
         ds[k].type = (IF c.lit.type = "INT" THEN "int" ELSE "string"),
         T_FIELD(c.field)
  PROVE  /\ Named(fs, c.field) = fs[k]
         /\ c.lit.type = "INT" => fs[k].val \in Nat /\ c.lit.val \in Nat
         /\ c.lit.type = "STRING" => fs[k].type = "string"
         /\ c.lit.type \in {"INT", "STRING"}
<1>1. k \in 1 .. Len(ds) /\ ds[k].name = c.field
  <2>1. IsSequence(ds) BY DEF Distinct
  <2> QED BY <2>1, IndexFound
<1>2. Named(fs, c.field) = fs[k] BY <1>1, NamedAt
<1>3. IsOf(fs[k], ds[k], p) BY <1>1 DEF Aligned
<1>4. /\ ds[k].type = "string" /\ T_FIELD(ds[k].name) => fs[k].type = "string"
      /\ ds[k].type = "int" => fs[k].val \in Nat
      BY <1>3, FieldFacts
<1>5. c.lit \in Literals BY DEF Comparisons
<1>6. c.lit.type \in {"INT", "STRING"} /\ (c.lit.type = "INT" => c.lit.val \in Nat)
  <2>1. CASE c.lit \in [type : {"INT"}, val : Nat] BY <2>1
  <2>2. CASE c.lit \in [type : {"STRING"}, val : STRING] BY <2>2
  <2> QED BY <1>5, <2>1, <2>2 DEF Literals
<1> QED BY <1>1, <1>2, <1>4, <1>6

\* ... and what its node holds once its name is resolved.
Leaf(c, k) == [ParseComparison(c) EXCEPT !.index = k]

LEMMA LeafNode ==
  ASSUME NEW c \in Comparisons, NEW k,
         c.lit.type = "INT" => c.lit.val < IntMod \div 2
  PROVE  Leaf(c, k).op = c.op /\ Leaf(c, k).index = k /\ Leaf(c, k).lit = c.lit
<1>1. c.lit \in Literals BY DEF Comparisons
<1> DEFINE lit == IF c.lit.type = "INT"
                  THEN [c.lit EXCEPT !.val = make_int_node(@)] ELSE c.lit
<1>2. lit = c.lit
  <2>1. CASE c.lit \in [type : {"INT"}, val : Nat]
    <3>1. c.lit.val \in Nat /\ c.lit.type = "INT" BY <2>1
    <3>2. make_int_node(c.lit.val) = c.lit.val BY <3>1, NumberKept
    <3>3. [c.lit EXCEPT !.val = c.lit.val] = c.lit BY <2>1
    <3> QED BY <3>1, <3>2, <3>3
  <2>2. CASE c.lit \in [type : {"STRING"}, val : STRING]
    <3>1. c.lit.type = "STRING" BY <2>2
    <3> QED BY <3>1
  <2> QED BY <1>1, <2>1, <2>2 DEF Literals
<1>3. ParseComparison(c) = [op |-> c.op, field |-> c.field, index |-> NoIndex, lit |-> lit]
      BY DEF ParseComparison
<1> HIDE DEF lit
<1> QED BY <1>2, <1>3 DEF Leaf

LEMMA LeafMeans ==
  ASSUME NEW c \in Comparisons, NEW fs, NEW node, NEW k,
         node.op = c.op, node.index = k, node.lit = c.lit,
         Named(fs, c.field) = fs[k],
         c.lit.type = "INT" => fs[k].val \in Nat /\ c.lit.val \in Nat,
         c.lit.type \in {"INT", "STRING"},
         c.lit.type = "STRING" => c.op \in {"EQ", "NEQ"}
  PROVE  eval_node(node, fs) = Holds(c, fs)
<1>1. c.op \in {"GT", "LT", "EQ", "NEQ", "LT_EQ", "GT_EQ"} BY DEF Comparisons
<1> DEFINE v == fs[k].val
           l == c.lit.val
<1>2. /\ eval_gt_node(node, fs) = (v > l) /\ eval_lt_node(node, fs) = (v < l)
      /\ eval_eq_node(node, fs) = Equal(fs[k], c.lit)
      BY DEF eval_gt_node, eval_lt_node, eval_eq_node
<1>3. Equal(fs[k], c.lit) \in BOOLEAN BY DEF Equal
<1>4. Named(fs, c.field).val = v OBVIOUS
<1>5. c.op \in {"EQ", "NEQ"} \/ (v \in Nat /\ l \in Nat) OBVIOUS
<1> HIDE DEF v, l
<1>6. CASE c.op = "GT" BY <1>2, <1>4, <1>6 DEF eval_node, Holds, l
<1>7. CASE c.op = "LT" BY <1>2, <1>4, <1>7 DEF eval_node, Holds, l
<1>8. CASE c.op = "EQ" BY <1>2, <1>8 DEF eval_node, Holds
<1>9. CASE c.op = "NEQ" BY <1>2, <1>9 DEF eval_node, Holds
<1>10. CASE c.op = "LT_EQ"
  <2>1. eval_node(node, fs) = ~(v > l) BY <1>2, <1>10 DEF eval_node
  <2>2. Holds(c, fs) = (v <= l) BY <1>4, <1>10 DEF Holds, l
  <2>3. ~(v > l) = (v <= l) BY <1>5, <1>10
  <2> QED BY <2>1, <2>2, <2>3
<1>11. CASE c.op = "GT_EQ"
  <2>1. eval_node(node, fs) = ~(v < l) BY <1>2, <1>11 DEF eval_node
  <2>2. Holds(c, fs) = (v >= l) BY <1>4, <1>11 DEF Holds, l
  <2>3. ~(v < l) = (v >= l) BY <1>5, <1>11
  <2> QED BY <2>1, <2>2, <2>3
<1> QED BY <1>1, <1>6, <1>7, <1>8, <1>9, <1>10, <1>11

LEMMA HoldsBoolean ==
  ASSUME NEW c \in Comparisons, NEW fs PROVE Holds(c, fs) \in BOOLEAN
<1>1. c.op \in {"GT", "LT", "EQ", "NEQ", "LT_EQ", "GT_EQ"} BY DEF Comparisons
<1>2. CASE c.op = "GT" BY <1>2 DEF Holds
<1>3. CASE c.op = "LT" BY <1>3 DEF Holds
<1>4. CASE c.op = "EQ" BY <1>4 DEF Holds, Equal
<1>5. CASE c.op = "NEQ" BY <1>5 DEF Holds
<1>6. CASE c.op = "LT_EQ" BY <1>6 DEF Holds
<1>7. CASE c.op = "GT_EQ" BY <1>7 DEF Holds
<1> QED BY <1>1, <1>2, <1>3, <1>4, <1>5, <1>6, <1>7

\* The field of a comparison that main lets through is declared with a type that
\* the literal can be compared with.
LEMMA CheckedField ==
  ASSUME NEW f \in Filters, Parses(f), NEW ds, validate_filter(filter_expr(f), ds),
         NEW i \in 1 .. Len(f.cmp), NEW c, c = f.cmp[i],
         NEW k, k = fds_get_index_by_name(ds, c.field)
  PROVE  /\ c \in Comparisons /\ T_FIELD(c.field) /\ k # NoIndex
         /\ ds[k].type = (IF c.lit.type = "INT" THEN "int" ELSE "string")
<1> DEFINE nodes == filter_expr(f)
           s == <<i, i>>
<1>1. c \in Comparisons /\ i \in DOMAIN f.cmp /\ Len(f.cmp) \in Nat BY FilterFacts
<1>2. s \in Stretches(f) /\ s[1] = i /\ s[2] = i BY <1>1 DEF Stretches
<1>3. DOMAIN nodes = Stretches(f) /\ nodes[s] = ParseComparison(c)
      BY <1>2 DEF filter_expr
<1>4. T_FIELD(c.field) BY <1>1 DEF Parses
<1>5. c.op \notin {"AND", "OR"} BY <1>1 DEF Comparisons
<1> DEFINE l == IF c.lit.type = "INT" THEN [c.lit EXCEPT !.val = make_int_node(@)] ELSE c.lit
<1>6. nodes[s] = [op |-> c.op, field |-> c.field, index |-> NoIndex, lit |-> l]
      BY <1>3 DEF ParseComparison
<1>7. (l.type = "INT") <=> (c.lit.type = "INT")
  <2>1. c.lit \in Literals BY <1>1 DEF Comparisons
  <2>2. CASE c.lit \in [type : {"INT"}, val : Nat] BY <2>2
  <2>3. CASE c.lit \in [type : {"STRING"}, val : STRING] BY <2>3
  <2> QED BY <2>1, <2>2, <2>3 DEF Literals
<1>8. validate_filter(nodes, ds) OBVIOUS
<1> HIDE DEF nodes, s, l
<1>9. ~IsJunction(nodes[s]) BY <1>5, <1>6 DEF IsJunction
<1>10. LET j == fds_get_index_by_name(ds, nodes[s].field)
       IN /\ j # NoIndex
          /\ ds[j].type = (IF nodes[s].lit.type = "INT" THEN "int" ELSE "string")
       BY <1>2, <1>3, <1>8, <1>9 DEF validate_filter
<1>11. nodes[s].field = c.field /\ nodes[s].lit = l BY <1>6
<1> QED BY <1>1, <1>4, <1>7, <1>10, <1>11

\* A filter that main lets through has the tree of its meaning.
LEMMA FilterTree ==
  ASSUME NEW f \in Filters, Fits(f), Parses(f), NEW fs, NEW ds, NEW p,
         Aligned(fs, ds, p), Distinct(ds), validate_filter(filter_expr(f), ds),
         NEW T, T = {i \in 1 .. Len(f.cmp) : Holds(f.cmp[i], fs)}
  PROVE  TreeOf(Resolve(filter_expr(f), ds), f, T, fs)
<1> DEFINE parsed == filter_expr(f)
           nodes == Resolve(parsed, ds)
           n == Len(f.cmp)
<1>1. DOMAIN parsed = Stretches(f) /\ DOMAIN nodes = Stretches(f)
      BY DEF filter_expr, Resolve
<1>2. ASSUME NEW s \in Stretches(f) PROVE s[1] \in 1 .. n /\ s[2] \in 1 .. n /\ s[1] <= s[2]
  <2>1. DOMAIN f.cmp = 1 .. n BY FilterFacts
  <2> QED BY <2>1 DEF Stretches
<1>3. n \in Nat BY FilterFacts
<1>4. ASSUME NEW s \in Stretches(f), s[1] # s[2], NEW i, i = LastOperator(f.con, s[1], s[2])
      PROVE  nodes[s] = make_op_node(f.con[i], <<s[1], i>>, <<i + 1, s[2]>>)
  <2>1. parsed[s] = make_op_node(f.con[i], <<s[1], i>>, <<i + 1, s[2]>>)
        BY <1>4 DEF filter_expr
  <2>2. s[1] < s[2] BY <1>2, <1>3, <1>4
  <2>3. f.con[i] \in {"AND", "OR"} BY <1>4, <2>2, JunctionMeans
  <2>4. IsJunction(parsed[s])
    <3> HIDE DEF parsed
    <3> QED BY <2>1, <2>3 DEF IsJunction, make_op_node
  <2>5. nodes[s] = parsed[s]
    <3> HIDE DEF parsed
    <3> QED BY <1>1, <2>4 DEF Resolve
  <2> HIDE DEF parsed, nodes
  <2> QED BY <2>1, <2>5
<1>5. ASSUME NEW s \in Stretches(f), s[1] = s[2]
      PROVE  /\ nodes[s].op \notin {"AND", "OR"}
             /\ eval_node(nodes[s], fs) = (s[1] \in T)
  <2> DEFINE c == f.cmp[s[1]]
             k == fds_get_index_by_name(ds, c.field)
  <2>1. c \in Comparisons BY <1>2, FilterFacts
  <2>2. parsed[s] = ParseComparison(c) BY <1>5 DEF filter_expr
  <2>3. c.op \in {"GT", "LT", "EQ", "NEQ", "LT_EQ", "GT_EQ"}
    <3> HIDE DEF c
    <3> QED BY <2>1 DEF Comparisons
  <2>4. /\ ParseComparison(c).op = c.op /\ ParseComparison(c).field = c.field
        /\ c.lit.type = "INT" => ParseComparison(c).lit.type = "INT"
        /\ c.lit.type # "INT" => ParseComparison(c).lit.type = c.lit.type
    <3> HIDE DEF c
    <3>1. c.lit \in Literals BY <2>1 DEF Comparisons
    <3>2. c.lit.type = "INT" => [c.lit EXCEPT !.val = make_int_node(@)].type = "INT"
      <4>1. CASE c.lit \in [type : {"INT"}, val : Nat] BY <4>1
      <4>2. CASE c.lit \in [type : {"STRING"}, val : STRING] BY <4>2
      <4> QED BY <3>1, <4>1, <4>2 DEF Literals
    <3> DEFINE l == IF c.lit.type = "INT"
                    THEN [c.lit EXCEPT !.val = make_int_node(@)] ELSE c.lit
    <3>3. ParseComparison(c) = [op |-> c.op, field |-> c.field, index |-> NoIndex, lit |-> l]
          BY DEF ParseComparison
    <3>4. /\ c.lit.type = "INT" => l.type = "INT"
          /\ c.lit.type # "INT" => l.type = c.lit.type
          BY <3>2
    <3> HIDE DEF l
    <3> QED BY <3>3, <3>4
  <2>5. ~IsJunction(parsed[s])
    <3> HIDE DEF parsed, c
    <3> QED BY <2>2, <2>3, <2>4 DEF IsJunction
  <2>6. /\ k # NoIndex
        /\ ds[k].type = (IF c.lit.type = "INT" THEN "int" ELSE "string")
    <3>1. s[1] \in 1 .. Len(f.cmp) BY <1>2
    <3> HIDE DEF c, k
    <3>2. c = f.cmp[s[1]] /\ k = fds_get_index_by_name(ds, c.field) BY DEF c, k
    <3> QED BY <3>1, <3>2, CheckedField
  <2>7. nodes[s] = [ParseComparison(c) EXCEPT !.index = k]
    <3> HIDE DEF parsed, c
    <3>1. nodes[s] = [parsed[s] EXCEPT !.index = fds_get_index_by_name(ds, parsed[s].field)]
          BY <1>1, <2>5 DEF Resolve
    <3> HIDE DEF nodes
    <3> QED BY <2>2, <2>4, <3>1
  <2>8. s[1] \in 1 .. n /\ s[1] \in DOMAIN f.cmp BY <1>2, FilterFacts
  <2>9. /\ T_FIELD(c.field) /\ (c.lit.type = "STRING" => c.op \in {"EQ", "NEQ"})
        /\ c.lit.type = "INT" => c.lit.val < IntMod \div 2
        BY <2>8 DEF Parses, Fits
  <2>10. (s[1] \in T) = Holds(c, fs)
    <3>1. Holds(c, fs) \in BOOLEAN
      <4> HIDE DEF c
      <4> QED BY <2>1, HoldsBoolean
    <3> QED BY <2>8, <3>1
  <2> DEFINE node == nodes[s]
  <2> HIDE DEF c, k, parsed, nodes, n
  <2>11. node.op = c.op /\ node.index = k /\ node.lit = c.lit
    <3>1. node = Leaf(c, k) BY <2>7 DEF Leaf
    <3>2. c.lit.type = "INT" => c.lit.val < IntMod \div 2 BY <2>9
    <3> HIDE DEF node
    <3> QED BY <2>1, <3>1, <3>2, LeafNode
  <2>12. /\ Named(fs, c.field) = fs[k]
         /\ c.lit.type = "INT" => fs[k].val \in Nat /\ c.lit.val \in Nat
         /\ c.lit.type \in {"INT", "STRING"}
    <3>1. k = fds_get_index_by_name(ds, c.field) BY DEF k
    <3> QED BY <2>1, <2>6, <2>9, <3>1, LeafReads
  <2>13. eval_node(node, fs) = Holds(c, fs)
    <3> HIDE DEF node
    <3> QED BY <2>1, <2>9, <2>11, <2>12, LeafMeans
  <2> QED BY <2>3, <2>10, <2>11, <2>13
<1> HIDE DEF parsed, nodes
<1>6. TreeOf(nodes, f, T, fs)
  <2>1. ASSUME NEW s \in Stretches(f)
        PROVE  IF s[1] = s[2]
               THEN /\ nodes[s].op \notin {"AND", "OR"}
                    /\ eval_node(nodes[s], fs) = (s[1] \in T)
               ELSE LET i == LastOperator(f.con, s[1], s[2])
                    IN nodes[s] = make_op_node(f.con[i], <<s[1], i>>, <<i + 1, s[2]>>)
        BY <1>4, <1>5
  <2> QED BY <1>1, <2>1 DEF TreeOf
<1> QED BY <1>6 DEF parsed, nodes

\* So it is evaluated to what it means.
LEMMA FilterMeans ==
  ASSUME NEW f \in Filters, f.cmp # <<>>, Fits(f), Parses(f), NEW fs, NEW ds, NEW p,
         Aligned(fs, ds, p), Distinct(ds), validate_filter(filter_expr(f), ds)
  PROVE  evaluate_expression(Resolve(filter_expr(f), ds), Root(f), fs) <=> Meaning(f, fs)
<1> DEFINE n == Len(f.cmp)
           T == {i \in 1 .. n : Holds(f.cmp[i], fs)}
           nodes == Resolve(filter_expr(f), ds)
<1>1. n \in Nat /\ DOMAIN f.cmp = 1 .. n BY FilterFacts
<1>2. n # 0
  <2>1. f.cmp \in Seq(Comparisons) BY FilterFacts
  <2> QED BY <2>1
<1>3. Root(f) \in Stretches(f) /\ Root(f)[1] = 1 /\ Root(f)[2] = n
      BY <1>1, <1>2 DEF Stretches, Root
<1>4. TreeOf(nodes, f, T, fs) BY FilterTree
<1>5. evaluate_expression(nodes, Root(f), fs) <=> On(T, f.con, 1, n)
  <2> HIDE DEF T, nodes, n
  <2> QED BY <1>3, <1>4, EvaluateIs
<1>6. On(T, f.con, 1, n) <=> Meaning(f, fs)
  <2>1. \A c, d \in 1 .. n : (\A i \in c .. d : i \in T)
                                <=> (\A i \in c .. d : Holds(f.cmp[i], fs))
    <3>1. \A c, d \in 1 .. n : \A i \in c .. d : i \in 1 .. n BY <1>1
    <3> QED BY <3>1
  <2> HIDE DEF T
  <2> QED BY <1>1, <2>1 DEF On, Meaning
<1> QED BY <1>5, <1>6

-----------------------------------------------------------------------------
(* What every probe module declares *)

Declares(ds, n) == \E i \in 1 .. Len(ds) : ds[i].name = n

LEMMA DeclaresTogether ==
  ASSUME NEW c, NEW d, IsSequence(c), IsSequence(d), NEW n, Declares(c, n) \/ Declares(d, n)
  PROVE  Declares(c \o d, n)
<1> DEFINE e == c \o d
<1>1. /\ Len(e) = Len(c) + Len(d) /\ Len(c) \in Nat /\ Len(d) \in Nat
      /\ \A i \in 1 .. Len(c) : e[i] = c[i]
      /\ \A i \in 1 .. Len(d) : e[Len(c) + i] = d[i]
      BY Together
<1> HIDE DEF e
<1>2. CASE Declares(c, n)
  <2>1. PICK i \in 1 .. Len(c) : c[i].name = n BY <1>2 DEF Declares
  <2>2. i \in 1 .. Len(e) /\ e[i] = c[i] BY <1>1
  <2>3. Declares(e, n) BY <2>1, <2>2 DEF Declares
  <2> QED BY <2>3 DEF e
<1>3. CASE Declares(d, n)
  <2>1. PICK i \in 1 .. Len(d) : d[i].name = n BY <1>3 DEF Declares
  <2>2. Len(c) + i \in 1 .. Len(e) /\ e[Len(c) + i] = d[i] BY <1>1
  <2>3. Declares(e, n) BY <2>1, <2>2 DEF Declares
  <2> QED BY <2>3 DEF e
<1> QED BY <1>2, <1>3

LEMMA DefsDeclare ==
  ASSUME NEW pr \in {"tcp_synscan", "icmp_echoscan", "udp"}
  PROVE  /\ Declares(DefsOf(pr), "saddr-raw") /\ Declares(DefsOf(pr), "success")
         /\ Declares(DefsOf(pr), "repeat")
<1> DEFINE fields == CASE pr = "tcp_synscan"   -> tcp_fields
                       [] pr = "icmp_echoscan" -> icmp_fields
                       [] pr = "udp"           -> udp_fields
<1>1. Declares(ip_fields, "saddr-raw")
  <2>1. 2 \in 1 .. Len(ip_fields) /\ ip_fields[2].name = "saddr-raw" BY DEF ip_fields, Def
  <2> QED BY <2>1 DEF Declares
<1>2. Declares(sys_fields, "repeat")
  <2>1. 1 \in 1 .. Len(sys_fields) /\ sys_fields[1].name = "repeat" BY DEF sys_fields, Def
  <2> QED BY <2>1 DEF Declares
<1>3. Declares(fields, "success")
  <2>1. CASE pr = "tcp_synscan"
    <3>1. 7 \in 1 .. Len(tcp_fields) /\ tcp_fields[7].name = "success" BY DEF tcp_fields, Def
    <3>2. Declares(tcp_fields, "success") BY <3>1 DEF Declares
    <3> QED BY <2>1, <3>2
  <2>2. CASE pr = "icmp_echoscan"
    <3>1. 6 \in 1 .. Len(icmp_fields) /\ icmp_fields[6].name = "success"
          BY DEF icmp_fields, Def
    <3>2. Declares(icmp_fields, "success") BY <3>1 DEF Declares
    <3> QED BY <2>2, <3>2
  <2>3. CASE pr = "udp"
    <3>1. 2 \in 1 .. Len(udp_fields) /\ udp_fields[2].name = "success" BY DEF udp_fields, Def
    <3>2. Declares(udp_fields, "success") BY <3>1 DEF Declares
    <3> QED BY <2>3, <3>2
  <2> QED BY <2>1, <2>2, <2>3
<1>4. IsSequence(ip_fields) /\ IsSequence(fields) /\ IsSequence(sys_fields)
  <2>1. /\ IsSequence(ip_fields) /\ IsSequence(tcp_fields) /\ IsSequence(icmp_fields)
        /\ IsSequence(udp_fields) /\ IsSequence(sys_fields)
        BY DeclaredSequences
  <2> QED BY <2>1
<1>5. DefsOf(pr) = (ip_fields \o fields) \o sys_fields BY DEF DefsOf
<1> HIDE DEF fields
<1>6. IsSequence(ip_fields \o fields) BY <1>4, Together
<1>7. Declares(ip_fields \o fields, "saddr-raw") /\ Declares(ip_fields \o fields, "success")
      BY <1>1, <1>3, <1>4, DeclaresTogether
<1> QED BY <1>2, <1>4, <1>5, <1>6, <1>7, DeclaresTogether

\* In a record, what the program finds by position is what the name says.
LEMMA FoundByName ==
  ASSUME NEW fs, NEW ds, NEW p, Aligned(fs, ds, p), Distinct(ds), NEW n, Declares(ds, n)
  PROVE  LET k == fds_get_index_by_name(ds, n)
         IN /\ k \in 1 .. Len(ds) /\ ds[k].name = n
            /\ Named(fs, n) = fs[k] /\ IsOf(fs[k], ds[k], p)
<1> DEFINE k == fds_get_index_by_name(ds, n)
<1>1. IsSequence(ds) BY DEF Distinct
<1>2. k \in 1 .. Len(ds) /\ ds[k].name = n
  <2> HIDE DEF k
  <2>1. k = fds_get_index_by_name(ds, n) BY DEF k
  <2> QED BY <1>1, <2>1, IndexFound DEF Declares
<1> HIDE DEF k
<1>3. Named(fs, n) = fs[k] BY <1>2, NamedAt
<1>4. IsOf(fs[k], ds[k], p) BY <1>2 DEF Aligned
<1> QED BY <1>2, <1>3, <1>4 DEF k

-----------------------------------------------------------------------------
(* Picking from a sequence *)

\* The values in F of the elements of s that are in C, in order.
Picked(s, C, F) == FlattenSeq([i \in DOMAIN s |-> IF s[i] \in C THEN <<F[s[i]]>> ELSE <<>>])

LEMMA PickedGrows ==
  ASSUME NEW S, NEW s \in Seq(S), NEW x \in S, NEW C, NEW F
  PROVE  Picked(Append(s, x), C, F)
           = Picked(s, C, F) \o (IF x \in C THEN <<F[x]>> ELSE <<>>)
<1> DEFINE n == Len(s)
           t == Append(s, x)
           M == {F[y] : y \in S}
           piece(y) == IF y \in C THEN <<F[y]>> ELSE <<>>
           seqs == [i \in 1 .. n |-> piece(s[i])]
           more == [i \in 1 .. n + 1 |-> piece(t[i])]
<1>1. n \in Nat /\ DOMAIN s = 1 .. n /\ DOMAIN t = 1 .. n + 1 OBVIOUS
<1>2. \A i \in 1 .. n : s[i] \in S /\ t[i] = s[i] OBVIOUS
<1>3. t[n + 1] = x OBVIOUS
<1>4. \A y \in S : piece(y) \in Seq(M)
  <2>1. ASSUME NEW y \in S PROVE piece(y) \in Seq(M)
    <3>1. F[y] \in M OBVIOUS
    <3> HIDE DEF M
    <3>2. <<F[y]>> \in Seq(M) /\ <<>> \in Seq(M) BY <3>1
    <3> QED BY <3>2
  <2> QED BY <2>1
<1> HIDE DEF n, t, M
<1>5. seqs \in [1 .. n -> Seq(M)] BY <1>2, <1>4
<1>6. more \in [1 .. n + 1 -> Seq(M)]
  <2>1. ASSUME NEW i \in 1 .. n + 1 PROVE t[i] \in S
    <3>1. i \in 1 .. n \/ i = n + 1 BY <1>1
    <3> QED BY <1>2, <1>3, <3>1
  <2> QED BY <1>4, <2>1
<1>7. \A i \in 1 .. n : more[i] = seqs[i] BY <1>1, <1>2
<1>8. more[n + 1] = piece(x) BY <1>1, <1>3
<1>9. FlattenSeq(more) = FlattenSeq(seqs) \o more[n + 1]
  <2> HIDE DEF seqs, more
  <2> QED BY <1>1, <1>5, <1>6, <1>7, FlattenOneMore
<1>10. Picked(s, C, F) = FlattenSeq(seqs) BY <1>1 DEF Picked
<1>11. Picked(t, C, F) = FlattenSeq(more) BY <1>1 DEF Picked
<1> HIDE DEF seqs, more
<1> QED BY <1>8, <1>9, <1>10, <1>11 DEF t

LEMMA PickedType ==
  ASSUME NEW S, NEW s \in Seq(S), NEW C, NEW F, NEW M, \A y \in S : F[y] \in M
  PROVE  Picked(s, C, F) \in Seq(M) /\ Len(Picked(s, C, F)) <= Len(s)
<1> DEFINE n == Len(s)
           seqs == [i \in 1 .. n |-> IF s[i] \in C THEN <<F[s[i]]>> ELSE <<>>]
<1>1. n \in Nat /\ DOMAIN s = 1 .. n OBVIOUS
<1>2. ASSUME NEW i \in 1 .. n PROVE seqs[i] \in Seq(M) /\ Len(seqs[i]) <= 1
  <2>1. F[s[i]] \in M OBVIOUS
  <2>2. <<F[s[i]]>> \in Seq(M) /\ Len(<<F[s[i]]>>) = 1 /\ <<>> \in Seq(M) /\ Len(<<>>) = 0
        BY <2>1
  <2> QED BY <2>2
<1>3. Picked(s, C, F) = FlattenSeq(seqs) BY <1>1 DEF Picked
<1>4. seqs = [i \in 1 .. n |-> seqs[i]] OBVIOUS
<1> HIDE DEF seqs, n
<1>5. seqs \in [1 .. n -> Seq(M)] BY <1>2, <1>4
<1>6. FlattenSeq(seqs) \in Seq(M) BY <1>1, <1>5, FlattenType
<1>7. Len(FlattenSeq(seqs)) <= n BY <1>1, <1>2, <1>5, FlattenShort
<1> QED BY <1>3, <1>6, <1>7 DEF n

LEMMA PickedNone == ASSUME NEW C, NEW F PROVE Picked(<<>>, C, F) = <<>>
<1>1. [i \in DOMAIN <<>> |-> IF <<>>[i] \in C THEN <<F[<<>>[i]]>> ELSE <<>>] = <<>> OBVIOUS
<1> QED BY <1>1 DEF Picked, FlattenSeq

-----------------------------------------------------------------------------
(* The state of Output *)

\* What main has chosen does not change, and what it derived from that is known.
ConfFacts ==
  /\ conf.probe \in Probes /\ conf.output \in Outputs /\ conf.fields \in Requests
  /\ conf.filter \in FiltersOf[conf.probe] /\ conf.both \in BOOLEAN
  /\ defs = DefsOf(conf.probe)
  /\ success_index = fds_get_index_by_name(defs, "success")

Started ==
  /\ ~BadField /\ ~BadFilter /\ ~BadModule
  /\ translation = IF Everything THEN fs_generate_full_fieldset_translation(defs)
                   ELSE fs_generate_fieldset_translation(defs, conf.fields)
  /\ expression = IF Filtered THEN Resolve(filter_expr(conf.filter), defs) ELSE NoNode

Idle == translation = <<>> /\ file = <<>> /\ buffer = <<>> /\ pushed = <<>> /\ got = <<>>

StartFacts == /\ pc \in {"init", "run", "closed", "fatal"}
              /\ pc \in {"run", "closed"} => Started
              /\ pc = "init" => Idle
              /\ Started \/ Idle

\* Every record is one of a packet that the module could be given.
Records == {RecordOf(conf.probe, p) : p \in PacketsOf[conf.probe]}
GotFacts == got \in Seq(Records) /\ Len(got) <= MaxResponses

\* The buffer is full only when the program has been given up.
RoomFacts ==
  /\ IsSequence(file) /\ \A i \in 1 .. Len(file) : Len(file[i]) <= Len(translation)
  /\ IsSequence(buffer) /\ IsSequence(pushed)
  /\ Len(buffer) <= BUFFER_SIZE
  /\ pc \in {"init", "run"} => Len(buffer) < BUFFER_SIZE

OutputInv == ConfFacts /\ StartFacts /\ GotFacts /\ RoomFacts /\ RowsExact /\ PushedExact

Kept     == {r \in Records : Chosen(r)}
AskedOf  == [r \in Records |-> Asked(r)]
SentOnes == {r \in Records : Sent(r)}
Raw      == [r \in Records |-> SaddrRaw(r)]

LEMMA ExpectedIs == GotFacts => Expected = Picked(got, Kept, AskedOf)
<1> SUFFICES ASSUME GotFacts PROVE Expected = Picked(got, Kept, AskedOf) OBVIOUS
<1>1. \A i \in DOMAIN got : got[i] \in Records BY DEF GotFacts
<1>2. ASSUME NEW i \in DOMAIN got
      PROVE  (IF Chosen(got[i]) THEN <<Asked(got[i])>> ELSE <<>>)
               = (IF got[i] \in Kept THEN <<AskedOf[got[i]]>> ELSE <<>>)
      BY <1>1 DEF Kept, AskedOf
<1>3. [i \in DOMAIN got |-> IF Chosen(got[i]) THEN <<Asked(got[i])>> ELSE <<>>]
        = [i \in DOMAIN got |-> IF got[i] \in Kept THEN <<AskedOf[got[i]]>> ELSE <<>>]
      BY <1>2
<1> QED BY <1>3 DEF Expected, Picked

LEMMA ExpectedPushesIs == GotFacts => ExpectedPushes = Picked(got, SentOnes, Raw)
<1> SUFFICES ASSUME GotFacts PROVE ExpectedPushes = Picked(got, SentOnes, Raw) OBVIOUS
<1>1. \A i \in DOMAIN got : got[i] \in Records BY DEF GotFacts
<1>2. ASSUME NEW i \in DOMAIN got
      PROVE  (IF Sent(got[i]) THEN <<SaddrRaw(got[i])>> ELSE <<>>)
               = (IF got[i] \in SentOnes THEN <<Raw[got[i]]>> ELSE <<>>)
      BY <1>1 DEF SentOnes, Raw
<1>3. [i \in DOMAIN got |-> IF Sent(got[i]) THEN <<SaddrRaw(got[i])>> ELSE <<>>]
        = [i \in DOMAIN got |-> IF got[i] \in SentOnes THEN <<Raw[got[i]]>> ELSE <<>>]
      BY <1>2
<1> QED BY <1>3 DEF ExpectedPushes, Picked

\* What is chosen depends on the configuration alone.
LEMMA SameChoice ==
  ASSUME conf' = conf, defs' = defs
  PROVE  Records' = Records /\ Kept' = Kept /\ AskedOf' = AskedOf /\ SentOnes' = SentOnes /\ Raw' = Raw
<1>1. Records' = Records BY DEF Records
<1>2. Names' = Names BY DEF Names, Everything
<1>3. \A r : Chosen(r)' <=> Chosen(r) BY DEF Chosen, Filtered
<1>4. \A r : Asked(r)' = Asked(r) BY <1>2 DEF Asked
<1>5. \A r : Sent(r)' <=> Sent(r) BY <1>3 DEF Sent, Uses
<1>6. \A r : SaddrRaw(r)' = SaddrRaw(r) BY DEF SaddrRaw
<1> QED BY <1>1, <1>3, <1>4, <1>5, <1>6 DEF Kept, AskedOf, SentOnes, Raw

LEMMA ConfKnown ==
  ASSUME ConfFacts
  PROVE  /\ conf.probe \in {"tcp_synscan", "icmp_echoscan", "udp"}
         /\ conf.output \in {"csvredis", "redis-packed", "json", "node-json"}
         /\ PacketsOf[conf.probe] \subseteq Packets /\ conf.filter \in Filters
         /\ IsSequence(conf.fields) /\ IsSequence(defs) /\ Distinct(defs)
         /\ DOMAIN defs = 1 .. Len(defs) /\ Len(defs) \in Nat
         /\ Declares(defs, "saddr-raw") /\ Declares(defs, "success")
         /\ Declares(defs, "repeat")
<1>1. /\ conf.probe \in {"tcp_synscan", "icmp_echoscan", "udp"}
      /\ conf.output \in {"csvredis", "redis-packed", "json", "node-json"}
      /\ PacketsOf[conf.probe] \subseteq Packets /\ conf.filter \in Filters
      BY OutputAssumption DEF ConfFacts
<1>2. conf.fields \in Seq(STRING) BY OutputAssumption DEF ConfFacts
<1>3. IsSequence(conf.fields) BY <1>2 DEF IsSequence
<1>4. defs = DefsOf(conf.probe) BY DEF ConfFacts
<1>5. Distinct(defs) BY <1>1, <1>4, DefsDistinct
<1>6. /\ Declares(defs, "saddr-raw") /\ Declares(defs, "success")
      /\ Declares(defs, "repeat")
      BY <1>1, <1>4, DefsDeclare
<1>7. IsSequence(defs) BY <1>5 DEF Distinct
<1>8. DOMAIN defs = 1 .. Len(defs) /\ Len(defs) \in Nat BY <1>7, Together
<1> QED BY <1>1, <1>3, <1>5, <1>6, <1>7, <1>8

LEMMA RecordKnown ==
  ASSUME ConfFacts, NEW p \in PacketsOf[conf.probe]
  PROVE  Aligned(RecordOf(conf.probe, p), defs, p) /\ RecordOf(conf.probe, p) \in Records
<1>1. conf.probe \in {"tcp_synscan", "icmp_echoscan", "udp"} /\ p \in Packets BY ConfKnown
<1>2. defs = DefsOf(conf.probe) BY DEF ConfFacts
<1>3. Aligned(RecordOf(conf.probe, p), DefsOf(conf.probe), p) BY <1>1, RecordAligned
<1> QED BY <1>2, <1>3 DEF Records

\* The translation gives, for each name asked for, where it is declared.
LEMMA NamesFound ==
  ASSUME ConfFacts, Started
  PROVE  /\ DOMAIN Names = 1 .. Len(translation) /\ DOMAIN translation = 1 .. Len(translation)
         /\ Len(translation) \in Nat
         /\ \A j \in 1 .. Len(translation) :
               translation[j] \in 1 .. Len(defs) /\ defs[translation[j]].name = Names[j]
<1>1. IsSequence(defs) /\ DOMAIN defs = 1 .. Len(defs) /\ Len(defs) \in Nat BY ConfKnown
<1>2. CASE Everything
  <2>1. Names = [i \in 1 .. Len(defs) |-> defs[i].name] BY <1>1, <1>2 DEF Names
  <2>2. translation = [i \in 1 .. Len(defs) |-> i]
        BY <1>1, <1>2 DEF Started, fs_generate_full_fieldset_translation
  <2>3. Len(translation) = Len(defs) BY <1>1, <2>2
  <2> QED BY <1>1, <2>1, <2>2, <2>3
<1>3. CASE ~Everything
  <2> DEFINE asked == conf.fields
  <2>1. IsSequence(asked) BY ConfKnown
  <2>2. DOMAIN asked = 1 .. Len(asked) /\ Len(asked) \in Nat BY <2>1, Together
  <2>3. Names = asked BY <1>3 DEF Names
  <2>4. translation = [i \in 1 .. Len(asked) |-> fds_get_index_by_name(defs, asked[i])]
        BY <1>3, <2>2 DEF Started, fs_generate_fieldset_translation
  <2>5. \A i \in 1 .. Len(asked) : fds_get_index_by_name(defs, asked[i]) # NoIndex
        BY <1>3, <2>2 DEF Started, BadField
  <2> HIDE DEF asked
  <2>6. Len(translation) = Len(asked) BY <2>2, <2>4
  <2>7. ASSUME NEW j \in 1 .. Len(asked)
        PROVE  translation[j] \in 1 .. Len(defs) /\ defs[translation[j]].name = asked[j]
    <3> DEFINE k == translation[j]
    <3>1. k = fds_get_index_by_name(defs, asked[j]) /\ k # NoIndex BY <2>4, <2>5
    <3> HIDE DEF k
    <3>2. k \in 1 .. Len(defs) /\ defs[k].name = asked[j] BY <1>1, <3>1, IndexFound
    <3> QED BY <3>2 DEF k
  <2> QED BY <2>2, <2>3, <2>4, <2>6, <2>7
<1> QED BY <1>2, <1>3


-----------------------------------------------------------------------------
(* A row *)

\* What the translation picks is what was asked for by name.
LEMMA RowIsAsked ==
  ASSUME ConfFacts, Started, NEW p, NEW r, Aligned(r, defs, p)
  PROVE  /\ translate_fieldset(r, translation) = Asked(r)
         /\ Asked(r) \in Seq(Range(Asked(r))) /\ Len(Asked(r)) = Len(translation)
         /\ DOMAIN Asked(r) = 1 .. Len(translation)
         /\ \A j \in 1 .. Len(translation) :
              LET x == Asked(r)[j]
              IN /\ x = Named(r, Names[j]) /\ x.name = Names[j]
                 /\ IsField(x) /\ (x.type = "int" => x.val \in Nat)
<1> DEFINE n == Len(translation)
           a == Asked(r)
<1>1. /\ DOMAIN Names = 1 .. n /\ DOMAIN translation = 1 .. n /\ n \in Nat
      /\ \A j \in 1 .. n : translation[j] \in 1 .. Len(defs) /\ defs[translation[j]].name = Names[j]
      BY NamesFound
<1>2. Distinct(defs) BY ConfKnown
<1>3. a = [j \in 1 .. n |-> Named(r, Names[j])] BY <1>1 DEF Asked
<1>4. ASSUME NEW j \in 1 .. n
      PROVE  /\ Named(r, Names[j]) = r[translation[j]] /\ Named(r, Names[j]).name = Names[j]
             /\ IsField(Named(r, Names[j]))
             /\ Named(r, Names[j]).type = "int" => Named(r, Names[j]).val \in Nat
  <2> DEFINE k == translation[j]
             m == Names[j]
  <2>1. k \in 1 .. Len(defs) /\ defs[k].name = m BY <1>1
  <2> HIDE DEF k, m
  <2>2. Named(r, m) = r[k] BY <1>2, <2>1, NamedAt
  <2>3. IsOf(r[k], defs[k], p) BY <2>1 DEF Aligned
  <2>4. /\ IsField(r[k]) /\ r[k].name = defs[k].name /\ r[k].type \in {defs[k].type, "null"}
        /\ defs[k].type = "int" => r[k].val \in Nat
        BY <2>3, FieldFacts
  <2> QED BY <2>1, <2>2, <2>4 DEF k, m
<1>5. translate_fieldset(r, translation) = [j \in 1 .. n |-> r[translation[j]]]
      BY <1>1 DEF translate_fieldset
<1>6. translate_fieldset(r, translation) = a BY <1>3, <1>4, <1>5
<1>7. \A j \in 1 .. n : a[j] = Named(r, Names[j]) BY <1>3
<1>8. DOMAIN a = 1 .. n /\ a \in Seq(Range(a)) /\ Len(a) = n
  <2>1. a = [j \in 1 .. n |-> a[j]] BY <1>3
  <2>2. \A j \in 1 .. n : a[j] \in Range(a) BY <2>1 DEF Range
  <2> HIDE DEF a
  <2> QED BY <1>1, <2>1, <2>2
<1> HIDE DEF a
<1>9. \A j \in 1 .. n : /\ a[j].name = Names[j]
                       /\ IsField(a[j]) /\ (a[j].type = "int" => a[j].val \in Nat)
      BY <1>4, <1>7
<1> QED BY <1>6, <1>7, <1>8, <1>9 DEF a

\* A field that was asked for is found in the row as in the record.
LEMMA NamedAsked ==
  ASSUME ConfFacts, Started, NEW p, NEW r, Aligned(r, defs, p), NEW n, Has(n)
  PROVE  Named(Asked(r), n) = Named(r, n)
<1> DEFINE a == Asked(r)
           m == Len(translation)
<1>1. /\ DOMAIN a = 1 .. m
      /\ \A j \in 1 .. m : a[j] = Named(r, Names[j]) /\ a[j].name = Names[j]
      BY RowIsAsked
<1>2. PICK j \in 1 .. m : Names[j] = n
  <2>1. DOMAIN Names = 1 .. m BY NamesFound
  <2> QED BY <2>1 DEF Has, Range
<1>3. Named(r, n) \in Range(a) /\ Named(r, n).name = n
  <2> HIDE DEF a
  <2> QED BY <1>1, <1>2 DEF Range
<1>4. ASSUME NEW x \in Range(a), x.name = n PROVE x = Named(r, n)
  <2> HIDE DEF a
  <2>1. PICK i \in 1 .. m : x = a[i] BY <1>1, <1>4 DEF Range
  <2> QED BY <1>1, <1>4, <2>1
<1> HIDE DEF a
<1>5. Named(a, n) = Named(r, n) BY <1>3, <1>4 DEF Named
<1> QED BY <1>5 DEF a

\* The options and the filter let through what they mean.
LEMMA PassesIsChosen ==
  ASSUME ConfFacts, Started, Fits(conf.filter),
         NEW p \in PacketsOf[conf.probe], NEW r, r = RecordOf(conf.probe, p)
  PROVE  Passes(r, p) <=> Chosen(r)
<1>1. Aligned(r, defs, p) BY RecordKnown
<1>2. Distinct(defs) /\ Declares(defs, "success") /\ Declares(defs, "repeat") BY ConfKnown
<1>3. Named(r, "success") = r[success_index] /\ Named(r, "success").val \in {0, 1}
  <2> DEFINE k == fds_get_index_by_name(defs, "success")
  <2>1. k \in 1 .. Len(defs) /\ defs[k].name = "success" /\ Named(r, "success") = r[k]
        /\ IsOf(r[k], defs[k], p)
        BY <1>1, <1>2, FoundByName
  <2>2. success_index = k BY DEF ConfFacts
  <2> HIDE DEF k
  <2>3. r[k].val \in {0, 1} BY <2>1, FieldFacts
  <2> QED BY <2>1, <2>2, <2>3
<1>4. Named(r, "repeat").val = p.repeat
  <2> DEFINE k == fds_get_index_by_name(defs, "repeat")
  <2>1. k \in 1 .. Len(defs) /\ defs[k].name = "repeat" /\ Named(r, "repeat") = r[k]
        /\ IsOf(r[k], defs[k], p)
        BY <1>1, <1>2, FoundByName
  <2> HIDE DEF k
  <2>2. r[k].val = p.repeat BY <2>1, FieldFacts
  <2> QED BY <2>1, <2>2
<1>5. (~conf.both \/ (r[success_index].val # 0 /\ p.repeat = 0))
        <=> (conf.both => Named(r, "success").val = 1 /\ Named(r, "repeat").val = 0)
  <2>1. conf.both \in BOOLEAN BY DEF ConfFacts
  <2> QED BY <1>3, <1>4, <2>1
<1>6. (expression = NoNode \/ evaluate_expression(expression, Root(conf.filter), r))
        <=> (Filtered => Meaning(conf.filter, r))
  <2>1. CASE ~Filtered
    <3>1. expression = NoNode BY <2>1 DEF Started
    <3> QED BY <2>1, <3>1
  <2>2. CASE Filtered
    <3> DEFINE f == conf.filter
               nodes == Resolve(filter_expr(f), defs)
    <3>1. expression = nodes BY <2>2 DEF Started
    <3>2. f \in Filters BY ConfKnown
    <3>3. f.cmp # <<>> /\ Parses(f) /\ validate_filter(filter_expr(f), defs)
          BY <2>2 DEF Started, BadFilter, Filtered
    <3>4. evaluate_expression(nodes, Root(f), r) <=> Meaning(f, r)
      <4> HIDE DEF f
      <4>1. Fits(f) BY DEF f
      <4> QED BY <1>1, <1>2, <3>2, <3>3, <4>1, FilterMeans
    <3>5. nodes # NoNode
      <4>1. DOMAIN nodes = Stretches(f) BY DEF Resolve, filter_expr
      <4>2. Root(f) \in Stretches(f)
        <5> HIDE DEF f
        <5>1. DOMAIN f.cmp = 1 .. Len(f.cmp) /\ Len(f.cmp) \in Nat /\ f.cmp \in Seq(Comparisons)
              BY <3>2, FilterFacts
        <5>2. Len(f.cmp) # 0 BY <3>3, <5>1
        <5> QED BY <5>1, <5>2 DEF Root, Stretches
      <4> HIDE DEF nodes, f
      <4>3. DOMAIN NoNode = {} BY DEF NoNode
      <4> QED BY <4>1, <4>2, <4>3
    <3> QED BY <2>2, <3>1, <3>4, <3>5
  <2> QED BY <2>1, <2>2
<1> QED BY <1>5, <1>6 DEF Passes, Chosen

\* What Redis is sent of a row is what it should get of the record.
LEMMA WantedIsSent ==
  ASSUME ConfFacts, Started, Uses(Redis),
         NEW p \in PacketsOf[conf.probe], NEW r, r = RecordOf(conf.probe, p)
  PROVE  /\ Chosen(r) => (Wanted(Asked(r)) <=> Sent(r))
         /\ SaddrRaw(Asked(r)) = SaddrRaw(r)
<1>1. Aligned(r, defs, p) BY RecordKnown
<1>2. Has("saddr-raw") /\ (Uses({"csvredis"}) => Has("success") /\ Has("repeat"))
      BY DEF Started, BadModule
<1>3. Uses({"redis-packed"}) \/ Uses({"csvredis"}) BY DEF Uses, Redis
<1>4. ~(Uses({"redis-packed"}) /\ Uses({"csvredis"})) BY DEF Uses
<1>5. Named(Asked(r), "saddr-raw") = Named(r, "saddr-raw") BY <1>1, <1>2, NamedAsked
<1>6. CASE Uses({"redis-packed"}) BY <1>4, <1>5, <1>6 DEF Wanted, Sent, SaddrRaw
<1>7. CASE Uses({"csvredis"})
  <2>1. /\ Named(Asked(r), "success") = Named(r, "success")
        /\ Named(Asked(r), "repeat") = Named(r, "repeat")
        BY <1>1, <1>2, <1>7, NamedAsked
  <2>2. Named(r, "success").val \in {0, 1}
    <3> DEFINE k == fds_get_index_by_name(defs, "success")
    <3>1. Distinct(defs) /\ Declares(defs, "success") BY ConfKnown
    <3>2. k \in 1 .. Len(defs) /\ defs[k].name = "success" /\ Named(r, "success") = r[k]
          /\ IsOf(r[k], defs[k], p)
          BY <1>1, <3>1, FoundByName
    <3> HIDE DEF k
    <3>3. r[k].val \in {0, 1} BY <3>2, FieldFacts
    <3> QED BY <3>2, <3>3
  <2>3. Wanted(Asked(r)) <=> Named(r, "success").val # 0 /\ Named(r, "repeat").val = 0
        BY <1>4, <1>7, <2>1 DEF Wanted
  <2>4. Chosen(r) => (Sent(r) <=> Named(r, "success").val = 1 /\ Named(r, "repeat").val = 0)
        BY <1>7 DEF Sent
  <2> QED BY <1>5, <2>2, <2>3, <2>4 DEF SaddrRaw
<1> QED BY <1>3, <1>6, <1>7

\* Leaving out the nulls leaves fields of the row.
LEMMA NotNullsType ==
  ASSUME NEW S, NEW row \in Seq(S)
  PROVE  NotNulls(row) \in Seq(S) /\ Len(NotNulls(row)) <= Len(row)
<1> DEFINE C == {x \in S : x.type # "null"}
           F == [x \in S |-> x]
<1>1. ASSUME NEW i \in DOMAIN row
      PROVE  (IF row[i].type # "null" THEN <<row[i]>> ELSE <<>>)
               = (IF row[i] \in C THEN <<F[row[i]]>> ELSE <<>>)
      OBVIOUS
<1>2. NotNulls(row) = Picked(row, C, F) BY <1>1 DEF NotNulls, Picked
<1>3. \A x \in S : F[x] \in S OBVIOUS
<1> HIDE DEF C, F
<1> QED BY <1>2, <1>3, PickedType

\* A row in the file shows the record it is of.
LEMMA RowShows ==
  ASSUME ConfFacts, Started, NEW p, NEW r, Aligned(r, defs, p), NEW row, row = Asked(r)
  PROVE  /\ Uses({"json"}) => /\ RowFor(json_output_file_ip(row), row)
                              /\ Len(json_output_file_ip(row)) <= Len(translation)
         /\ ~Uses({"json"}) => RowFor(row, row)
         /\ Len(row) = Len(translation)
<1> DEFINE n == Len(translation)
           S == {x \in Range(row) : IsField(x) /\ (x.type = "int" => x.val \in Nat)}
           kept == NotNulls(row)
           json == json_output_file_ip(row)
<1>1. row \in Seq(Range(row)) /\ Len(row) = n /\ DOMAIN row = 1 .. n BY RowIsAsked
<1>2. \A j \in 1 .. n : IsField(row[j]) /\ (row[j].type = "int" => row[j].val \in Nat)
      BY RowIsAsked
<1>3. row \in Seq(S)
  <2>1. \A j \in 1 .. Len(row) : row[j] \in S BY <1>1, <1>2
  <2> HIDE DEF S
  <2> QED BY <1>1, <2>1
<1>4. kept \in Seq(S) /\ Len(kept) <= n
  <2> HIDE DEF S
  <2> QED BY <1>1, <1>3, NotNullsType
<1>5. json = [i \in 1 .. Len(kept) |-> IF kept[i].type = "int"
                THEN [kept[i] EXCEPT !.val = T_NUMBER(@)] ELSE kept[i]]
  <2> HIDE DEF S, kept
  <2>1. DOMAIN kept = 1 .. Len(kept) BY <1>4
  <2> QED BY <2>1 DEF json_output_file_ip, kept
<1>6. ASSUME NEW i \in 1 .. Len(kept) PROVE SameField(json[i], kept[i])
  <2> DEFINE y == kept[i]
             x == IF y.type = "int" THEN [y EXCEPT !.val = T_NUMBER(@)] ELSE y
  <2>1. y \in S
    <3> HIDE DEF S, kept
    <3> QED BY <1>4
  <2>2. IsField(y) /\ (y.type = "int" => y.val \in Nat) BY <2>1
  <2>3. json[i] = x
    <3> HIDE DEF kept, json
    <3> QED BY <1>5
  <2> HIDE DEF S, kept, json, y
  <2>4. y = [name |-> y.name, type |-> y.type, val |-> y.val] BY <2>2 DEF IsField
  <2>5. CASE y.type # "int" BY <2>3, <2>5 DEF SameField, y
  <2>6. CASE y.type = "int"
    <3>1. x = [y EXCEPT !.val = T_NUMBER(@)] BY <2>6
    <3>2. x = [name |-> y.name, type |-> y.type, val |-> T_NUMBER(y.val)] BY <2>4, <3>1
    <3>3. x.name = y.name /\ x.type = y.type BY <3>2
    <3>4. y.val \in Nat BY <2>2, <2>6
    <3>5. ASSUME y.val < IntMod \div 2 PROVE x = y
      <4>1. T_NUMBER(y.val) = y.val BY <3>4, <3>5, NumberKept
      <4> QED BY <2>4, <3>2, <4>1
    <3>6. y.val < IntMod \div 2 \/ y.val >= IntMod \div 2 BY <3>4, RecordAssumption
    <3> HIDE DEF x
    <3> QED BY <2>3, <2>6, <3>3, <3>5, <3>6 DEF SameField, y
  <2> QED BY <2>5, <2>6
<1>7. DOMAIN json = 1 .. Len(kept) /\ Len(json) = Len(kept)
  <2> HIDE DEF S, kept, json
  <2>1. Len(kept) \in Nat BY <1>4
  <2> QED BY <1>5, <2>1
<1> HIDE DEF S, kept, json
<1>8. ASSUME Uses({"json"}) PROVE RowFor(json, row) /\ Len(json) <= n
      BY <1>4, <1>6, <1>7, <1>8 DEF RowFor, kept
<1>9. ASSUME ~Uses({"json"}) PROVE RowFor(row, row) BY <1>9 DEF RowFor, SameField
<1> QED BY <1>1, <1>8, <1>9 DEF json

-----------------------------------------------------------------------------
(* The steps of Output *)

LEMMA AppendAfter ==
  ASSUME NEW s, NEW t, IsSequence(s), IsSequence(t), NEW x
  PROVE  /\ IsSequence(Append(t, x)) /\ Len(Append(t, x)) = Len(t) + 1
         /\ IsSequence(s \o t) /\ s \o <<>> = s
         /\ s \o Append(t, x) = (s \o t) \o <<x>>
         /\ s \o <<x>> = Append(s, x)
<1>1. PICK M : s \in Seq(M) BY DEF IsSequence
<1>2. PICK N : t \in Seq(N) BY DEF IsSequence
<1> DEFINE U == M \cup N \cup {x}
<1>3. s \in Seq(U) /\ t \in Seq(U) /\ x \in U BY <1>1, <1>2
<1> HIDE DEF U
<1>4. Append(t, x) \in Seq(U) /\ s \o t \in Seq(U) /\ <<x>> \in Seq(U) BY <1>3
<1>5. s \o Append(t, x) = (s \o t) \o <<x>> /\ s \o <<x>> = Append(s, x) /\ s \o <<>> = s
      BY <1>3, <1>4
<1> QED BY <1>3, <1>4, <1>5 DEF IsSequence

\* The file with a row more is that of the rows expected with one more.
LEMMA MatchGrows ==
  ASSUME NEW fl, NEW ex, IsSequence(fl), IsSequence(ex), Len(fl) = Len(ex),
         \A i \in DOMAIN fl : RowFor(fl[i], ex[i]), NEW x, NEW y, RowFor(x, y)
  PROVE  /\ Len(Append(fl, x)) = Len(ex \o <<y>>)
         /\ \A i \in DOMAIN Append(fl, x) : RowFor(Append(fl, x)[i], (ex \o <<y>>)[i])
<1> DEFINE n == Len(fl)
           g == Append(fl, x)
           e == ex \o <<y>>
<1>1. n \in Nat /\ DOMAIN fl = 1 .. n /\ DOMAIN g = 1 .. n + 1 /\ Len(g) = n + 1
      /\ (\A i \in 1 .. n : g[i] = fl[i]) /\ g[n + 1] = x
      BY DEF IsSequence
<1>2. Len(e) = n + 1 /\ (\A i \in 1 .. n : e[i] = ex[i]) /\ e[n + 1] = y
      BY DEF IsSequence
<1> HIDE DEF n, g, e
<1>3. ASSUME NEW i \in 1 .. n + 1 PROVE RowFor(g[i], e[i])
  <2>1. CASE i = n + 1 BY <1>1, <1>2, <2>1
  <2>2. CASE i # n + 1
    <3>1. i \in 1 .. n BY <1>1, <2>2
    <3> QED BY <1>1, <1>2, <3>1
  <2> QED BY <2>1, <2>2
<1> QED BY <1>1, <1>2, <1>3 DEF g, e

\* A flush sends everything, or some of it before the program ends.
LEMMA FlushFacts ==
  ASSUME NEW b, IsSequence(b), IsSequence(pushed), NEW next, redismodule_flush(b, next)
  PROVE  /\ IsSequence(pushed') /\ IsSequence(buffer')
         /\ \/ pc' = next /\ buffer' = <<>> /\ pushed' = pushed \o b
            \/ pc' = "fatal" /\ buffer' = b
<1>1. CASE pushed' = pushed \o b /\ buffer' = <<>> /\ pc' = next
  <2>1. IsSequence(pushed \o b) BY Together
  <2>2. IsSequence(<<>>) BY DEF IsSequence
  <2> QED BY <1>1, <2>1, <2>2
<1>2. CASE /\ buffer' = b /\ pc' = "fatal"
           /\ \E done \in SUBSET DOMAIN b :
                pushed' = pushed \o FlattenSeq([i \in DOMAIN b |->
                                                IF i \in done THEN <<b[i]>> ELSE <<>>])
  <2>1. PICK done \in SUBSET DOMAIN b :
                pushed' = pushed \o FlattenSeq([i \in DOMAIN b |->
                                                IF i \in done THEN <<b[i]>> ELSE <<>>])
        BY <1>2
  <2> DEFINE n == Len(b)
             seqs == [i \in 1 .. n |-> IF i \in done THEN <<b[i]>> ELSE <<>>]
  <2>2. PICK M : b \in Seq(M) BY DEF IsSequence
  <2>3. DOMAIN b = 1 .. n /\ n \in Nat BY <2>2
  <2>4. pushed' = pushed \o FlattenSeq(seqs) BY <2>1, <2>3
  <2>5. seqs \in [1 .. n -> Seq(M)]
    <3>1. \A i \in 1 .. n : <<b[i]>> \in Seq(M) /\ <<>> \in Seq(M) BY <2>2
    <3> QED BY <3>1
  <2> HIDE DEF seqs, n
  <2>6. FlattenSeq(seqs) \in Seq(M) BY <2>3, <2>5, FlattenType
  <2>7. IsSequence(FlattenSeq(seqs)) BY <2>6 DEF IsSequence
  <2>8. IsSequence(pushed \o FlattenSeq(seqs)) BY <2>7, Together
  <2> QED BY <1>2, <2>4, <2>8
<1> QED BY <1>1, <1>2 DEF redismodule_flush

\* One record more, and what is expected of it.
LEMMA GotGrows ==
  ASSUME ConfFacts, GotFacts, NEW p \in PacketsOf[conf.probe], packet_cb(p),
         NEW r, r = RecordOf(conf.probe, p)
  PROVE  /\ GotFacts' /\ IsSequence(Expected) /\ IsSequence(ExpectedPushes)
         /\ Expected' = Expected \o (IF Chosen(r) THEN <<Asked(r)>> ELSE <<>>)
         /\ ExpectedPushes' = ExpectedPushes \o (IF Sent(r) THEN <<SaddrRaw(r)>> ELSE <<>>)
<1>1. got' = Append(got, r) /\ Len(got) < MaxResponses /\ conf' = conf /\ defs' = defs
      BY DEF packet_cb
<1>2. r \in Records BY RecordKnown
<1>3. Records' = Records /\ Kept' = Kept /\ AskedOf' = AskedOf /\ SentOnes' = SentOnes
      /\ Raw' = Raw
      BY <1>1, SameChoice
<1>4. got \in Seq(Records) /\ Len(got) \in Nat BY DEF GotFacts
<1>5. got' \in Seq(Records) /\ Len(got') = Len(got) + 1 BY <1>1, <1>2, <1>4
<1>6. GotFacts'
  <2>1. Len(got') <= MaxResponses BY <1>1, <1>4, <1>5, OutputAssumption
  <2> QED BY <1>3, <1>5, <2>1 DEF GotFacts
<1>7. Expected = Picked(got, Kept, AskedOf) BY ExpectedIs
<1>8. Expected' = Picked(got', Kept, AskedOf)
  <2>1. (GotFacts => Expected = Picked(got, Kept, AskedOf))' BY ExpectedIs, PTL
  <2> QED BY <1>3, <1>6, <2>1
<1>9. ExpectedPushes = Picked(got, SentOnes, Raw) BY ExpectedPushesIs
<1>10. ExpectedPushes' = Picked(got', SentOnes, Raw)
  <2>1. (GotFacts => ExpectedPushes = Picked(got, SentOnes, Raw))'
        BY ExpectedPushesIs, PTL
  <2> QED BY <1>3, <1>6, <2>1
<1>11. Picked(got', Kept, AskedOf)
         = Picked(got, Kept, AskedOf) \o (IF r \in Kept THEN <<AskedOf[r]>> ELSE <<>>)
       BY <1>1, <1>2, <1>4, PickedGrows
<1>12. Picked(got', SentOnes, Raw)
         = Picked(got, SentOnes, Raw) \o (IF r \in SentOnes THEN <<Raw[r]>> ELSE <<>>)
       BY <1>1, <1>2, <1>4, PickedGrows
<1>13. (r \in Kept <=> Chosen(r)) /\ AskedOf[r] = Asked(r) BY <1>2 DEF Kept, AskedOf
<1>14. (r \in SentOnes <=> Sent(r)) /\ Raw[r] = SaddrRaw(r) BY <1>2 DEF SentOnes, Raw
<1>15. IsSequence(Expected)
  <2> DEFINE M == {AskedOf[y] : y \in Records}
  <2>1. \A y \in Records : AskedOf[y] \in M OBVIOUS
  <2> HIDE DEF M
  <2>2. Picked(got, Kept, AskedOf) \in Seq(M) BY <1>4, <2>1, PickedType
  <2> QED BY <1>7, <2>2 DEF IsSequence
<1>16. IsSequence(ExpectedPushes)
  <2> DEFINE M == {Raw[y] : y \in Records}
  <2>1. \A y \in Records : Raw[y] \in M OBVIOUS
  <2> HIDE DEF M
  <2>2. Picked(got, SentOnes, Raw) \in Seq(M) BY <1>4, <2>1, PickedType
  <2> QED BY <1>9, <2>2 DEF IsSequence
<1> QED BY <1>6, <1>7, <1>8, <1>9, <1>10, <1>11, <1>12, <1>13, <1>14, <1>15, <1>16

\* What is known of the configuration stays known.
LEMMA SameStart ==
  ASSUME conf' = conf, defs' = defs, translation' = translation,
         expression' = expression, success_index' = success_index
  PROVE  /\ ConfFacts' <=> ConfFacts
         /\ Started' <=> Started
         /\ \A x, y : RowFor(x, y)' <=> RowFor(x, y)
<1>1. ConfFacts' <=> ConfFacts BY DEF ConfFacts
<1>2. Names' = Names /\ (Everything' <=> Everything) BY DEF Names, Everything
<1>3. (BadField' <=> BadField) /\ (BadFilter' <=> BadFilter) /\ (Filtered' <=> Filtered)
      BY <1>2 DEF BadField, BadFilter, Filtered
<1>4. BadModule' <=> BadModule BY <1>2 DEF BadModule, Has, Uses
<1>5. Started' <=> Started BY <1>2, <1>3, <1>4 DEF Started
<1>6. \A x, y : RowFor(x, y)' <=> RowFor(x, y) BY DEF RowFor, Uses
<1> QED BY <1>1, <1>5, <1>6

\* A row more in the buffer, which is flushed when it is full.
LEMMA PushStep ==
  ASSUME RoomFacts, pc = "run", NEW row, redismodule_process(row)
  PROVE  /\ IsSequence(pushed') /\ IsSequence(buffer') /\ Len(buffer') <= BUFFER_SIZE
         /\ \/ pc' = "fatal"
            \/ /\ pc' = "run" /\ Len(buffer') < BUFFER_SIZE
               /\ pushed' \o buffer' = (pushed \o buffer) \o <<SaddrRaw(row)>>
<1> DEFINE x == SaddrRaw(row)
           b == Append(buffer, x)
<1>1. /\ IsSequence(buffer) /\ IsSequence(pushed) /\ Len(buffer) < BUFFER_SIZE
      /\ BUFFER_SIZE \in Nat \ {0}
      BY OutputAssumption DEF RoomFacts
<1>2. /\ IsSequence(b) /\ Len(b) = Len(buffer) + 1 /\ Len(buffer) \in Nat
      /\ pushed \o b = (pushed \o buffer) \o <<x>>
  <2> HIDE DEF x
  <2> QED BY <1>1, AppendAfter, Together
<1>3. IF Len(b) = BUFFER_SIZE THEN redismodule_flush(b, "run")
      ELSE buffer' = b /\ UNCHANGED <<pushed, pc>>
      BY DEF redismodule_process
<1> HIDE DEF b, x
<1>4. CASE Len(b) = BUFFER_SIZE
  <2>1. redismodule_flush(b, "run") BY <1>3, <1>4
  <2>2. /\ IsSequence(pushed') /\ IsSequence(buffer')
        /\ \/ pc' = "run" /\ buffer' = <<>> /\ pushed' = pushed \o b
           \/ pc' = "fatal" /\ buffer' = b
        BY <1>1, <1>2, <2>1, FlushFacts
  <2>3. CASE pc' = "run" /\ buffer' = <<>> /\ pushed' = pushed \o b
    <3>1. pushed' \o <<>> = pushed' BY <2>2, AppendAfter
    <3>2. Len(<<>>) = 0 OBVIOUS
    <3> QED BY <1>1, <1>2, <2>2, <2>3, <3>1, <3>2 DEF x
  <2>4. CASE pc' = "fatal" /\ buffer' = b BY <1>1, <1>4, <2>2, <2>4
  <2> QED BY <2>2, <2>3, <2>4
<1>5. CASE Len(b) # BUFFER_SIZE
  <2>1. buffer' = b /\ pushed' = pushed /\ pc' = pc BY <1>3, <1>5
  <2>2. Len(b) < BUFFER_SIZE BY <1>1, <1>2, <1>5
  <2> QED BY <1>1, <1>2, <2>1, <2>2 DEF x
<1> QED BY <1>4, <1>5

\* A row more in the file of the modules that have one.
LEMMA RowStep ==
  ASSUME ConfFacts, Started, RoomFacts, NEW p, NEW r, Aligned(r, defs, p),
         process_ip(Asked(r))
  PROVE  /\ IsSequence(file') /\ \A i \in 1 .. Len(file') : Len(file'[i]) <= Len(translation)
         /\ Uses(Files) => \E x : RowFor(x, Asked(r)) /\ file' = Append(file, x)
<1> DEFINE row == Asked(r)
           json == json_output_file_ip(row)
<1>1. file' = CASE Uses({"json"})      -> Append(file, json)
                [] Uses({"csvredis"})  -> Append(file, row)
                [] Uses({"redis-packed", "node-json"}) -> file
      BY DEF process_ip
<1>2. /\ Uses({"json"}) => RowFor(json, row) /\ Len(json) <= Len(translation)
      /\ ~Uses({"json"}) => RowFor(row, row)
      /\ Len(row) = Len(translation) /\ Len(translation) \in Nat
  <2>1. row = Asked(r) OBVIOUS
  <2> HIDE DEF row
  <2> QED BY <2>1, RowShows, NamesFound
<1>3. /\ IsSequence(file)
      /\ \A i \in 1 .. Len(file) : Len(file[i]) <= Len(translation)
      BY DEF RoomFacts
<1> HIDE DEF row, json
<1>4. ASSUME NEW x, Len(x) <= Len(translation)
      PROVE  /\ IsSequence(Append(file, x))
             /\ \A i \in 1 .. Len(Append(file, x)) : Len(Append(file, x)[i]) <= Len(translation)
  <2>1. IsSequence(Append(file, x)) /\ Len(Append(file, x)) = Len(file) + 1
        BY <1>3, AppendAfter
  <2>2. PICK M : file \in Seq(M) BY <1>3 DEF IsSequence
  <2>3. ASSUME NEW i \in 1 .. Len(file) + 1 PROVE Len(Append(file, x)[i]) <= Len(translation)
    <3>1. CASE i = Len(file) + 1
      <4>1. Append(file, x)[i] = x BY <2>2, <3>1
      <4> QED BY <1>4, <4>1
    <3>2. CASE i # Len(file) + 1
      <4>1. i \in 1 .. Len(file) BY <2>2, <3>2
      <4>2. Append(file, x)[i] = file[i] BY <2>2, <4>1
      <4> QED BY <1>3, <4>1, <4>2
    <3> QED BY <3>1, <3>2
  <2> QED BY <2>1, <2>3
<1>5. Uses({"json"}) \/ Uses({"csvredis"}) \/ Uses({"redis-packed", "node-json"})
      BY ConfKnown DEF Uses
<1>6. CASE Uses({"json"})
  <2>1. ~Uses({"csvredis"}) /\ ~Uses({"redis-packed", "node-json"}) BY <1>6 DEF Uses
  <2>2. file' = Append(file, json) BY <1>1, <1>6, <2>1
  <2>3. RowFor(json, row) /\ Len(json) <= Len(translation) BY <1>2, <1>6
  <2> QED BY <1>4, <2>2, <2>3 DEF row
<1>7. CASE Uses({"csvredis"})
  <2>1. ~Uses({"json"}) /\ ~Uses({"redis-packed", "node-json"}) BY <1>7 DEF Uses
  <2>2. file' = Append(file, row) BY <1>1, <1>7, <2>1
  <2>3. RowFor(row, row) /\ Len(row) <= Len(translation) BY <1>2, <2>1
  <2> QED BY <1>4, <2>2, <2>3 DEF row
<1>8. CASE Uses({"redis-packed", "node-json"})
  <2>1. ~Uses({"json"}) /\ ~Uses({"csvredis"}) /\ ~Uses(Files) BY <1>8 DEF Uses, Files
  <2>2. file' = file BY <1>1, <1>8, <2>1
  <2> QED BY <1>3, <2>1, <2>2
<1> QED BY <1>5, <1>6, <1>7, <1>8

\* Without a new record, nothing else is expected.
LEMMA GotStays ==
  ASSUME GotFacts, got' = got, conf' = conf, defs' = defs
  PROVE  GotFacts' /\ Expected' = Expected /\ ExpectedPushes' = ExpectedPushes
<1>1. /\ Records' = Records /\ Kept' = Kept /\ AskedOf' = AskedOf /\ SentOnes' = SentOnes
      /\ Raw' = Raw
      BY SameChoice
<1>2. GotFacts' BY <1>1 DEF GotFacts
<1>3. Expected' = Expected
  <2>1. (GotFacts => Expected = Picked(got, Kept, AskedOf))' BY ExpectedIs, PTL
  <2>2. Expected = Picked(got, Kept, AskedOf) BY ExpectedIs
  <2> QED BY <1>1, <1>2, <2>1, <2>2
<1>4. ExpectedPushes' = ExpectedPushes
  <2>1. (GotFacts => ExpectedPushes = Picked(got, SentOnes, Raw))' BY ExpectedPushesIs, PTL
  <2>2. ExpectedPushes = Picked(got, SentOnes, Raw) BY ExpectedPushesIs
  <2> QED BY <1>1, <1>2, <2>1, <2>2
<1> QED BY <1>2, <1>3, <1>4

\* A record is handed on, or not.
LEMMA ReceiveKeeps ==
  ASSUME OutputInv, NEW p \in PacketsOf[conf.probe], packet_cb(p)
  PROVE  OutputInv'
<1> DEFINE r == RecordOf(conf.probe, p)
<1>1. /\ pc = "run" /\ got' = Append(got, r)
      /\ conf' = conf /\ defs' = defs /\ translation' = translation
      /\ expression' = expression /\ success_index' = success_index
      BY DEF packet_cb
<1>2. /\ ConfFacts /\ StartFacts /\ GotFacts /\ RoomFacts /\ RowsExact /\ PushedExact
      BY DEF OutputInv
<1>3. Started BY <1>1, <1>2 DEF StartFacts
<1>4. Aligned(r, defs, p) BY <1>2, RecordKnown
<1>5. /\ GotFacts' /\ IsSequence(Expected) /\ IsSequence(ExpectedPushes)
      /\ Expected' = Expected \o (IF Chosen(r) THEN <<Asked(r)>> ELSE <<>>)
      /\ ExpectedPushes' = ExpectedPushes \o (IF Sent(r) THEN <<SaddrRaw(r)>> ELSE <<>>)
      BY <1>2, GotGrows
<1>6. IF Passes(r, p) THEN process_ip(Asked(r))
      ELSE UNCHANGED <<pc, file, buffer, pushed>>
  <2>1. translate_fieldset(r, translation) = Asked(r) BY <1>2, <1>3, <1>4, RowIsAsked
  <2>2. IF Passes(r, p) THEN process_ip(translate_fieldset(r, translation))
        ELSE UNCHANGED <<pc, file, buffer, pushed>>
        BY DEF packet_cb
  <2> HIDE DEF r
  <2> QED BY <2>1, <2>2
<1>7. Fits(conf.filter) => (Passes(r, p) <=> Chosen(r)) BY <1>2, <1>3, PassesIsChosen
<1>8. Uses(Redis) => /\ Chosen(r) => (Wanted(Asked(r)) <=> Sent(r))
                     /\ SaddrRaw(Asked(r)) = SaddrRaw(r)
      BY <1>2, <1>3, WantedIsSent
<1>9. Wanted(Asked(r)) => Uses(Redis) BY DEF Wanted, Uses, Redis
<1>10. Sent(r) => Chosen(r) BY DEF Sent
<1> HIDE DEF r
<1>11. ConfFacts' /\ Started' /\ (\A x, y : RowFor(x, y)' <=> RowFor(x, y))
       BY <1>1, <1>2, <1>3, SameStart
<1>12. Expected \o <<>> = Expected /\ ExpectedPushes \o <<>> = ExpectedPushes
       BY <1>5, AppendAfter
<1>13. /\ (Uses(Files)' <=> Uses(Files)) /\ (Uses(Redis)' <=> Uses(Redis))
       /\ Fits(conf.filter)' <=> Fits(conf.filter)
       BY <1>1 DEF Uses, Redis, Files
\* the file
<1>14. /\ IsSequence(file') /\ \A i \in 1 .. Len(file') : Len(file'[i]) <= Len(translation)
       /\ RowsExact'
  <2>1. CASE ~Passes(r, p)
    <3>1. file' = file /\ pc' = pc BY <1>6, <2>1
    <3>2. Fits(conf.filter) => Expected' = Expected BY <1>5, <1>7, <1>12, <2>1
    <3>3. RowsExact' BY <1>2, <1>11, <1>13, <3>1, <3>2 DEF RowsExact
    <3> QED BY <1>2, <3>1, <3>3 DEF RoomFacts
  <2>2. CASE Passes(r, p)
    <3>1. process_ip(Asked(r)) BY <1>6, <2>2
    <3>2. /\ IsSequence(file')
          /\ \A i \in 1 .. Len(file') : Len(file'[i]) <= Len(translation)
          /\ Uses(Files) => \E x : RowFor(x, Asked(r)) /\ file' = Append(file, x)
          BY <1>2, <1>3, <1>4, <3>1, RowStep
    <3>3. ASSUME Uses(Files), Fits(conf.filter)
          PROVE  Len(file') = Len(Expected') /\ \A i \in DOMAIN file' : RowFor(file'[i], Expected'[i])
      <4>1. PICK x : RowFor(x, Asked(r)) /\ file' = Append(file, x) BY <3>2, <3>3
      <4>2. Expected' = Expected \o <<Asked(r)>> BY <1>5, <1>7, <2>2, <3>3
      <4>3. Len(file) = Len(Expected) /\ \A i \in DOMAIN file : RowFor(file[i], Expected[i])
            BY <1>1, <1>2, <3>3 DEF RowsExact
      <4>4. IsSequence(file) BY <1>2 DEF RoomFacts
      <4>5. /\ Len(Append(file, x)) = Len(Expected \o <<Asked(r)>>)
            /\ \A i \in DOMAIN Append(file, x) :
                  RowFor(Append(file, x)[i], (Expected \o <<Asked(r)>>)[i])
            BY <1>5, <4>1, <4>3, <4>4, MatchGrows
      <4> QED BY <4>1, <4>2, <4>5
    <3>4. RowsExact' BY <1>11, <1>13, <3>3 DEF RowsExact
    <3> QED BY <3>2, <3>4
  <2> QED BY <2>1, <2>2
\* the list and the buffer
<1>15. /\ IsSequence(pushed') /\ IsSequence(buffer') /\ Len(buffer') <= BUFFER_SIZE
       /\ pc' \in {"run", "fatal"} /\ (pc' = "run" => Len(buffer') < BUFFER_SIZE)
       /\ PushedExact'
  <2>0. /\ IsSequence(pushed) /\ IsSequence(buffer) /\ Len(buffer) <= BUFFER_SIZE
        /\ Len(buffer) < BUFFER_SIZE
        BY <1>1, <1>2 DEF RoomFacts
  <2>1. CASE ~(Passes(r, p) /\ Wanted(Asked(r)))
    <3>1. pushed' = pushed /\ buffer' = buffer /\ pc' = pc
          BY <1>6, <2>1 DEF process_ip
    <3>2. Uses(Redis) /\ Fits(conf.filter) => ExpectedPushes' = ExpectedPushes
          BY <1>5, <1>7, <1>8, <1>10, <1>12, <2>1
    <3>3. PushedExact' BY <1>1, <1>2, <1>13, <3>1, <3>2 DEF PushedExact
    <3> QED BY <1>1, <2>0, <3>1, <3>3
  <2>2. CASE Passes(r, p) /\ Wanted(Asked(r))
    <3>1. redismodule_process(Asked(r)) BY <1>6, <2>2 DEF process_ip
    <3>2. /\ IsSequence(pushed') /\ IsSequence(buffer') /\ Len(buffer') <= BUFFER_SIZE
          /\ \/ pc' = "fatal"
             \/ /\ pc' = "run" /\ Len(buffer') < BUFFER_SIZE
                /\ pushed' \o buffer' = (pushed \o buffer) \o <<SaddrRaw(Asked(r))>>
          BY <1>1, <1>2, <3>1, PushStep
    <3>3. Uses(Redis) BY <1>9, <2>2
    <3>4. Fits(conf.filter) => ExpectedPushes' = ExpectedPushes \o <<SaddrRaw(r)>>
          BY <1>5, <1>7, <1>8, <2>2, <3>3
    <3>5. Fits(conf.filter) => pushed \o buffer = ExpectedPushes
          BY <1>1, <1>2, <3>3 DEF PushedExact
    <3>6. SaddrRaw(Asked(r)) = SaddrRaw(r) BY <1>8, <3>3
    <3>7. PushedExact' BY <1>13, <3>2, <3>4, <3>5, <3>6 DEF PushedExact
    <3> QED BY <3>2, <3>7
  <2> QED BY <2>1, <2>2
<1>16. StartFacts' BY <1>11, <1>15 DEF StartFacts
<1>17. RoomFacts' BY <1>1, <1>14, <1>15 DEF RoomFacts
<1> QED BY <1>5, <1>11, <1>14, <1>15, <1>16, <1>17 DEF OutputInv

\* The end of the run empties the buffer, or fails to.
LEMMA CloseKeeps == ASSUME OutputInv, CloseModule PROVE OutputInv'
<1>1. /\ pc = "run" /\ got' = got /\ file' = file
      /\ conf' = conf /\ defs' = defs /\ translation' = translation
      /\ expression' = expression /\ success_index' = success_index
      BY DEF CloseModule
<1>2. /\ ConfFacts /\ StartFacts /\ GotFacts /\ RoomFacts /\ RowsExact /\ PushedExact
      BY DEF OutputInv
<1>3. Started BY <1>1, <1>2 DEF StartFacts
<1>4. ConfFacts' /\ Started' /\ (\A x, y : RowFor(x, y)' <=> RowFor(x, y))
      BY <1>1, <1>2, <1>3, SameStart
<1>5. GotFacts' /\ Expected' = Expected /\ ExpectedPushes' = ExpectedPushes
      BY <1>1, <1>2, GotStays
<1>6. /\ IsSequence(pushed) /\ IsSequence(buffer)
      /\ Len(buffer) <= BUFFER_SIZE /\ Len(buffer) < BUFFER_SIZE
      /\ BUFFER_SIZE \in Nat \ {0}
      BY <1>1, <1>2, OutputAssumption DEF RoomFacts
<1>7. /\ (Uses(Files)' <=> Uses(Files)) /\ (Uses(Redis)' <=> Uses(Redis))
      /\ Fits(conf.filter)' <=> Fits(conf.filter)
      BY <1>1 DEF Uses, Redis, Files
<1>8. /\ IsSequence(pushed') /\ IsSequence(buffer') /\ Len(buffer') <= BUFFER_SIZE
      /\ pc' \in {"closed", "fatal"} /\ PushedExact'
  <2>1. CASE Uses(Redis)
    <3>1. redismodule_flush(buffer, "closed") BY <2>1 DEF CloseModule
    <3>2. /\ IsSequence(pushed') /\ IsSequence(buffer')
          /\ \/ pc' = "closed" /\ buffer' = <<>> /\ pushed' = pushed \o buffer
             \/ pc' = "fatal" /\ buffer' = buffer
          BY <1>6, <3>1, FlushFacts
    <3>3. CASE pc' = "closed" /\ buffer' = <<>> /\ pushed' = pushed \o buffer
      <4>1. pushed' \o <<>> = pushed' BY <3>2, AppendAfter
      <4>2. Len(<<>>) = 0 OBVIOUS
      <4>3. Fits(conf.filter) => pushed \o buffer = ExpectedPushes
            BY <1>1, <1>2, <2>1 DEF PushedExact
      <4>4. PushedExact' BY <1>5, <1>6, <1>7, <3>3, <4>1, <4>2, <4>3 DEF PushedExact
      <4> QED BY <1>6, <3>2, <3>3, <4>2, <4>4
    <3>4. CASE pc' = "fatal" /\ buffer' = buffer
      <4>1. PushedExact' BY <3>4 DEF PushedExact
      <4> QED BY <1>6, <3>2, <3>4, <4>1
    <3> QED BY <3>2, <3>3, <3>4
  <2>2. CASE ~Uses(Redis)
    <3>1. pc' = "closed" /\ buffer' = buffer /\ pushed' = pushed BY <2>2 DEF CloseModule
    <3>2. PushedExact' BY <1>7, <2>2 DEF PushedExact
    <3> QED BY <1>6, <3>1, <3>2
  <2> QED BY <2>1, <2>2
<1>9. RowsExact' BY <1>1, <1>2, <1>4, <1>5, <1>7 DEF RowsExact
<1>10. StartFacts' BY <1>4, <1>8 DEF StartFacts
<1>11. RoomFacts' BY <1>1, <1>2, <1>8 DEF RoomFacts
<1> QED BY <1>4, <1>5, <1>8, <1>9, <1>10, <1>11 DEF OutputInv

LEMMA StartKeeps == ASSUME OutputInv, Start PROVE OutputInv'
<1>1. /\ pc = "init" /\ pc' = "run" /\ got' = got /\ file' = file
      /\ conf' = conf /\ defs' = defs /\ success_index' = success_index
      /\ buffer' = buffer /\ pushed' = pushed
      BY DEF Start
<1>2. ConfFacts /\ StartFacts /\ GotFacts /\ RoomFacts BY DEF OutputInv
<1>3. file = <<>> /\ buffer = <<>> /\ pushed = <<>> /\ got = <<>>
      BY <1>1, <1>2 DEF StartFacts, Idle
<1>4. ConfFacts' BY <1>1, <1>2 DEF ConfFacts
<1>5. Started'
  <2>1. Names' = Names /\ (Everything' <=> Everything) BY <1>1 DEF Names, Everything
  <2>2. (BadField' <=> BadField) /\ (BadFilter' <=> BadFilter) /\ (Filtered' <=> Filtered)
        BY <1>1, <2>1 DEF BadField, BadFilter, Filtered
  <2>3. BadModule' <=> BadModule BY <1>1, <2>1 DEF BadModule, Has, Uses
  <2> QED BY <1>1, <2>1, <2>2, <2>3 DEF Start, Started
<1>6. GotFacts' /\ Expected' = Expected /\ ExpectedPushes' = ExpectedPushes
      BY <1>1, <1>2, GotStays
<1>7. Expected = <<>> /\ ExpectedPushes = <<>>
      BY <1>2, <1>3, ExpectedIs, ExpectedPushesIs, PickedNone
<1>8. Len(<<>>) = 0 /\ DOMAIN <<>> = {} /\ <<>> \o <<>> = <<>> OBVIOUS
<1>9. RowsExact' BY <1>1, <1>3, <1>6, <1>7, <1>8 DEF RowsExact
<1>10. PushedExact' BY <1>1, <1>3, <1>6, <1>7, <1>8, OutputAssumption DEF PushedExact
<1>11. StartFacts' BY <1>1, <1>5 DEF StartFacts
<1>12. RoomFacts'
  <2>1. 1 .. Len(file') = {} BY <1>1, <1>3, <1>8
  <2>2. Len(buffer') = 0 BY <1>1, <1>3, <1>8
  <2>3. IsSequence(<<>>) BY DEF IsSequence
  <2> QED BY <1>1, <1>3, <2>1, <2>2, <2>3, OutputAssumption DEF RoomFacts
<1> QED BY <1>4, <1>6, <1>9, <1>10, <1>11, <1>12 DEF OutputInv

LEMMA RefuseKeeps == ASSUME OutputInv, Refuse PROVE OutputInv'
<1>1. /\ pc = "init" /\ pc' = "fatal" /\ got' = got /\ file' = file
      /\ conf' = conf /\ defs' = defs /\ success_index' = success_index
      /\ translation' = translation /\ buffer' = buffer /\ pushed' = pushed
      BY DEF Refuse
<1>2. ConfFacts /\ StartFacts /\ GotFacts /\ RoomFacts BY DEF OutputInv
<1>3. ConfFacts' BY <1>1, <1>2 DEF ConfFacts
<1>4. GotFacts' BY <1>1, <1>2, GotStays
<1>5. StartFacts' BY <1>1, <1>2 DEF StartFacts, Idle
<1>6. RoomFacts' BY <1>1, <1>2 DEF RoomFacts
<1>7. RowsExact' /\ PushedExact' BY <1>1 DEF RowsExact, PushedExact
<1> QED BY <1>3, <1>4, <1>5, <1>6, <1>7 DEF OutputInv

LEMMA StutterKeeps == ASSUME OutputInv, UNCHANGED outputVars PROVE OutputInv'
<1>1. /\ pc' = pc /\ got' = got /\ file' = file /\ conf' = conf /\ defs' = defs
      /\ success_index' = success_index /\ expression' = expression
      /\ translation' = translation /\ buffer' = buffer /\ pushed' = pushed
      BY DEF outputVars
<1>2. ConfFacts /\ StartFacts /\ GotFacts /\ RoomFacts /\ RowsExact /\ PushedExact
      BY DEF OutputInv
<1>3. /\ ConfFacts' /\ (Started' <=> Started) /\ (\A x, y : RowFor(x, y)' <=> RowFor(x, y))
      BY <1>1, <1>2, SameStart
<1>4. GotFacts' /\ Expected' = Expected /\ ExpectedPushes' = ExpectedPushes
      BY <1>1, <1>2, GotStays
<1>5. /\ (Uses(Files)' <=> Uses(Files)) /\ (Uses(Redis)' <=> Uses(Redis))
      /\ Fits(conf.filter)' <=> Fits(conf.filter)
      BY <1>1 DEF Uses, Redis, Files
<1>6. StartFacts' BY <1>1, <1>2, <1>3 DEF StartFacts, Idle
<1>7. RoomFacts' BY <1>1, <1>2 DEF RoomFacts
<1>8. RowsExact' BY <1>1, <1>2, <1>3, <1>4, <1>5 DEF RowsExact
<1>9. PushedExact' BY <1>1, <1>2, <1>4, <1>5 DEF PushedExact
<1> QED BY <1>3, <1>4, <1>6, <1>7, <1>8, <1>9 DEF OutputInv

LEMMA OutputInitInv == OutputInit => OutputInv
<1> SUFFICES ASSUME OutputInit PROVE OutputInv OBVIOUS
<1>0. PICK pr \in Probes, out \in Outputs, req \in Requests, both \in BOOLEAN, args \in Args :
        \E f \in FiltersOf[pr] :
           conf = [probe |-> pr, output |-> out, fields |-> req, filter |-> f,
                   both |-> both, args |-> args]
      BY DEF OutputInit
<1>1. PICK f \in FiltersOf[pr] :
        conf = [probe |-> pr, output |-> out, fields |-> req, filter |-> f,
                both |-> both, args |-> args]
      BY <1>0
<1>2. /\ pc = "init" /\ translation = <<>> /\ file = <<>> /\ buffer = <<>> /\ pushed = <<>>
      /\ got = <<>> /\ defs = DefsOf(conf.probe)
      /\ success_index = fds_get_index_by_name(defs, "success")
      BY DEF OutputInit
<1>3. ConfFacts BY <1>1, <1>2 DEF ConfFacts
<1>4. StartFacts BY <1>2 DEF StartFacts, Idle
<1>5. GotFacts
  <2>1. Len(<<>>) = 0 OBVIOUS
  <2>2. <<>> \in Seq(Records) OBVIOUS
  <2> QED BY <1>2, <2>1, <2>2, OutputAssumption DEF GotFacts
<1>6. RoomFacts
  <2>1. Len(<<>>) = 0 /\ 1 .. 0 = {} OBVIOUS
  <2>2. IsSequence(<<>>) BY DEF IsSequence
  <2> QED BY <1>2, <2>1, <2>2, OutputAssumption DEF RoomFacts
<1>7. RowsExact /\ PushedExact BY <1>2 DEF RowsExact, PushedExact
<1> QED BY <1>3, <1>4, <1>5, <1>6, <1>7 DEF OutputInv

\* OutputInv holds in every state.
LEMMA OutputInvHolds == OutputSpec => []OutputInv
<1>1. OutputInit => OutputInv BY OutputInitInv
<1>2. OutputInv /\ [OutputNext]_outputVars => OutputInv'
  <2> SUFFICES ASSUME OutputInv, [OutputNext]_outputVars PROVE OutputInv' OBVIOUS
  <2>1. CASE Refuse BY <2>1, RefuseKeeps
  <2>2. CASE Start BY <2>2, StartKeeps
  <2>3. CASE Receive BY <2>3, ReceiveKeeps DEF Receive
  <2>4. CASE CloseModule BY <2>4, CloseKeeps
  <2>5. CASE UNCHANGED outputVars BY <2>5, StutterKeeps
  <2> QED BY <2>1, <2>2, <2>3, <2>4, <2>5 DEF OutputNext
<1> QED BY <1>1, <1>2, PTL DEF OutputSpec

LEMMA OutputTyped == OutputInv => OutputTypeOK
<1> SUFFICES ASSUME OutputInv PROVE OutputTypeOK OBVIOUS
<1>1. ConfFacts /\ StartFacts /\ GotFacts /\ RoomFacts BY DEF OutputInv
<1>2. DOMAIN defs = 1 .. Len(defs) /\ IsSequence(defs) /\ Declares(defs, "success")
      BY <1>1, ConfKnown
<1>3. success_index \in DOMAIN defs
  <2>1. success_index = fds_get_index_by_name(defs, "success") BY <1>1 DEF ConfFacts
  <2> QED BY <1>2, <2>1, IndexFound DEF Declares
<1>4. Range(translation) \subseteq DOMAIN defs
  <2>1. CASE Started
    <3>1. /\ DOMAIN translation = 1 .. Len(translation)
          /\ \A j \in 1 .. Len(translation) : translation[j] \in 1 .. Len(defs)
          BY <1>1, <2>1, NamesFound
    <3> QED BY <1>2, <3>1 DEF Range
  <2>2. CASE Idle
    <3>1. DOMAIN translation = {} BY <2>2 DEF Idle
    <3> QED BY <3>1 DEF Range
  <2> QED BY <1>1, <2>1, <2>2 DEF StartFacts
<1>5. \A fs \in Range(file) : Len(fs) <= Len(translation)
  <2>1. IsSequence(file) /\ \A i \in 1 .. Len(file) : Len(file[i]) <= Len(translation)
        BY <1>1 DEF RoomFacts
  <2>2. DOMAIN file = 1 .. Len(file) BY <2>1 DEF IsSequence
  <2> QED BY <2>1, <2>2 DEF Range
<1> QED BY <1>1, <1>3, <1>4, <1>5 DEF OutputTypeOK, StartFacts, RoomFacts, GotFacts

LEMMA RecordsRead == OutputInv => FieldsAligned /\ NeverComparesNull
<1> SUFFICES ASSUME OutputInv PROVE FieldsAligned /\ NeverComparesNull OBVIOUS
<1>1. ConfFacts /\ StartFacts /\ GotFacts BY DEF OutputInv
<1>2. Distinct(defs) /\ DOMAIN defs = 1 .. Len(defs) /\ conf.filter \in Filters
      BY <1>1, ConfKnown
<1>3. ASSUME NEW fs \in Range(got)
      PROVE  \E p \in PacketsOf[conf.probe] : Aligned(fs, defs, p)
  <2>1. fs \in Records BY <1>1 DEF GotFacts, Range
  <2>2. PICK p \in PacketsOf[conf.probe] : fs = RecordOf(conf.probe, p) BY <2>1 DEF Records
  <2> QED BY <1>1, <2>2, RecordKnown
<1>4. FieldsAligned
  <2>1. ASSUME NEW fs \in Range(got)
        PROVE  /\ Len(fs) = Len(defs)
               /\ \A i \in DOMAIN defs : /\ fs[i].name = defs[i].name
                                         /\ fs[i].type \in {defs[i].type, "null"}
    <3>1. PICK p \in PacketsOf[conf.probe] : Aligned(fs, defs, p) BY <1>3
    <3> QED BY <1>2, <3>1 DEF Aligned, IsOf
  <2> QED BY <2>1 DEF FieldsAligned
<1>5. ASSUME Filtered, pc = "run", NEW i \in DOMAIN conf.filter.cmp, NEW fs \in Range(got),
             conf.filter.cmp[i].lit.type = "STRING"
      PROVE  Named(fs, conf.filter.cmp[i].field).type = "string"
  <2> DEFINE f == conf.filter
             c == f.cmp[i]
             k == fds_get_index_by_name(defs, c.field)
  <2>1. Parses(f) /\ validate_filter(filter_expr(f), defs)
        BY <1>1, <1>5 DEF StartFacts, Started, BadFilter
  <2>2. PICK p \in PacketsOf[conf.probe] : Aligned(fs, defs, p) BY <1>3
  <2>3. c.lit.type = "STRING" /\ f \in Filters BY <1>2, <1>5
  <2>4. i \in 1 .. Len(f.cmp) BY <2>3, FilterFacts
  <2> HIDE DEF f, c, k
  <2>5. c = f.cmp[i] /\ k = fds_get_index_by_name(defs, c.field) BY DEF c, k
  <2>6. /\ c \in Comparisons /\ T_FIELD(c.field) /\ k # NoIndex
        /\ defs[k].type = (IF c.lit.type = "INT" THEN "int" ELSE "string")
        BY <2>1, <2>3, <2>4, <2>5, CheckedField
  <2>7. Named(fs, c.field) = fs[k] /\ fs[k].type = "string"
        BY <1>2, <2>2, <2>3, <2>5, <2>6, LeafReads
  <2> QED BY <2>5, <2>7 DEF f
<1>6. NeverComparesNull BY <1>5 DEF NeverComparesNull
<1> QED BY <1>4, <1>6

\* Every record that packet_cb makes has the fields that its probe module
\* declares, in that order, whichever way process_packet goes: what filter.c,
\* output_csv and the Redis modules read by position is the field they mean, and
\* strcmp is never given the pointer of a null.
THEOREM RecordsAreSound == OutputSpec => []RecordsSound
<1>1. OutputInv => RecordsSound BY OutputTyped, RecordsRead DEF RecordsSound
<1> QED BY <1>1, OutputInvHolds, PTL

\* The rows of the file are the records that the options and the filter let
\* through, the filter taken by its meaning without a tree, in the order in which
\* they came, each with the fields asked for.
THEOREM RowsAreExact == OutputSpec => []RowsExact
<1>1. OutputInv => RowsExact BY DEF OutputInv
<1> QED BY <1>1, OutputInvHolds, PTL

\* Unless a push fails, the list in Redis and the buffer of the module together
\* are the addresses that should be there, once and in order; none is left in the
\* buffer when the module is closed.
THEOREM PushesAreExact == OutputSpec => []PushedExact
<1>1. OutputInv => PushedExact BY DEF OutputInv
<1> QED BY <1>1, OutputInvHolds, PTL
=============================================================================
