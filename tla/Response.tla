------------------------------ MODULE Response ------------------------------
(***************************************************************************)
(* How a scan tells the answers to its own probes from other packets.  A   *)
(* send thread encrypts the pair of addresses of a probe and puts bits of  *)
(* the result in its header; the receiver encrypts the addresses of every  *)
(* packet it captures, and a probe module compares.  validate_gen keeps    *)
(* its input in a static array, so that all threads share it: writing it   *)
(* and encrypting it are two steps here.                                   *)
(*                                                                         *)
(* There is one source address, so an input is named by the other one; a   *)
(* `validation' is named by the address it was computed for.  Validations  *)
(* of different addresses are different.  Ports are counted from           *)
(* zconf.source_port_first, and NumPorts stands for those out of range.    *)
(***************************************************************************)
EXTENDS Integers, FiniteSets

CONSTANTS
  Host,               (* addresses, as pbm.c sees them: numbers               *)
  Target,             (* those of them that are scanned                       *)
  Sender,             (* the send threads                                     *)
  Modules,            (* bound: the probe modules considered                  *)
  Words,              (* bound: validation[1] of each address, as considered  *)
  Width,              (* number of values of a uint32_t, made small           *)
  NumPorts,           (* num_ports, the size of the range of source ports     *)
  Streams,            (* zconf.packet_streams                                 *)
  PageSize,           (* PAGE_SIZE_IN_BITS                                    *)
  MaxResults,         (* zconf.max_results, 0 for no limit                    *)
  FilterDuplicates,   (* zconf.filter_duplicates                              *)
  FilterUnsuccessful, (* zconf.filter_unsuccessful                            *)
  MaxPackets          (* bound: packets captured                              *)

ASSUME ResponseAssumption ==
  /\ Host \subseteq Nat /\ IsFiniteSet(Host) /\ 0 \in Host
  /\ Target \subseteq Host \ {0}
  /\ Modules \subseteq {"tcp_synscan", "icmp_echoscan", "udp"}
  /\ Width \in Nat \ {0} /\ Words \subseteq [Host -> 0 .. Width - 1]
  /\ NumPorts \in Nat \ {0} /\ Streams \in Nat \ {0} /\ PageSize \in Nat \ {0}
  /\ MaxResults \in Nat /\ MaxPackets \in Nat
  /\ FilterDuplicates \in BOOLEAN /\ FilterUnsuccessful \in BOOLEAN

VARIABLES
  module, word,           \* zconf.probe_module; validation[1] by address
  aes_input,              \* the static array of validate.c
  todo,                   \* addresses no send thread has taken yet
  spc, curr, stream,      \* send threads: send_run's curr and i
  sent,                   \* the network: every probe that was made
  rpc, packet, captured,  \* receiver: the packet in packet_cb
  seen,                   \* paged bitmap of the hosts that succeeded
  zrecv, rows,            \* counters; records handed to process_ip
  verdict,                \* history: how the last packet was judged
  succeeded,              \* history: hosts a success was counted for
  answered                \* history: hosts a valid response was taken from

confVars == <<module, word>>
sendVars == <<todo, spc, curr, stream, sent>>
recvVars == <<rpc, packet, captured, seen, zrecv, rows, verdict,
              succeeded, answered>>
vars == <<confVars, aes_input, sendVars, recvVars>>

Blank == 0                      \* the address 0.0.0.0, which is never scanned
NoToken == -1                   \* no address's validation
Outside == NumPorts
Port == 0 .. Outside
Token == Host \cup {NoToken}
Probe == [dst : Target, val : Host, port : 0 .. NumPorts - 1]
Kinds == [tcp_synscan   |-> {"synack", "rst"},
          icmp_echoscan |-> {"echoreply", "error", "other"},
          udp           |-> {"udp", "unreach"}]

-----------------------------------------------------------------------------
(* The paged bitmap: a page is allocated when its first bit is set. *)

Page(v) == v \div PageSize

Offset(v) == v % PageSize
Pages == {Page(h) : h \in Host}
NoPage == {-1}                  \* NULL: not a set of offsets

\* Mutant: a page with any bit set answers for all its addresses.
pbm_check_page(b, v) == b[Page(v)] # NoPage

pbm_check(b, v) == b[Page(v)] # NoPage /\ Offset(v) \in b[Page(v)]

\* Mutant: a page is cleared whenever one of its bits is set.
pbm_set_clear(b, v) == [b EXCEPT ![Page(v)] = {Offset(v)}]

pbm_set(b, v) ==
  [b EXCEPT ![Page(v)] = (IF @ = NoPage THEN {} ELSE @) \cup {Offset(v)}]

(* The window of source ports *)

\* Mutant: probes are numbered from one.
get_src_port_late(k, a) == ((word[a] + k + 1) % Width) % NumPorts

\* the port of the k-th packet to an address, offset from the first
get_src_port(k, a) == ((word[a] + k) % Width) % NumPorts

\* C's remainder has the sign of the dividend
CRem(x, n) == IF x >= 0 THEN x % n ELSE -((-x) % n)

WindowMin(a) == word[a] % NumPorts
WindowMax(a) == ((word[a] + Streams - 1) % Width) % NumPorts

\* Mutant: the last port of the window is left out.
check_dst_port_short(port, a) ==
  \/ port = Outside
  \/ CRem(WindowMax(a) - WindowMin(a), NumPorts) > CRem(port - WindowMin(a), NumPorts)

\* -1 for a port out of range, which is as true as 1
check_dst_port(port, a) ==
  \/ port = Outside
  \/ CRem(WindowMax(a) - WindowMin(a), NumPorts) >= CRem(port - WindowMin(a), NumPorts)

-----------------------------------------------------------------------------
(* The probe modules' answer to a packet, with the validation they are given *)

\* Mutant: the acknowledgement number is not compared.
synscan_validate_lax(p, a) == p.target /\ check_dst_port(p.port, a)

\* target port, window of ports, acknowledgement of the probe's number
synscan_validate_packet(p, a) ==
  p.target /\ check_dst_port(p.port, a) /\ p.val = a

\* the identifier alone
icmp_validate_packet(p, a) == p.val = a

\* the ports alone, of the datagram or of what is taken for the quoted one
udp_validate_packet(p, a) == p.target /\ check_dst_port(p.port, a)

validate_packet(p, a) ==
  \/ module = "tcp_synscan" /\ synscan_validate_packet(p, a)
  \/ module = "icmp_echoscan" /\ icmp_validate_packet(p, a)
  \/ module = "udp" /\ udp_validate_packet(p, a)

\* The field `success' that each module's process_packet adds.
synscan_success(p)   == p.kind = "synack"
icmp_echo_success(p) == p.kind = "echoreply"
udp_success(p)       == p.kind = "udp"

success(p) == \/ module = "tcp_synscan" /\ synscan_success(p)
              \/ module = "icmp_echoscan" /\ icmp_echo_success(p)
              \/ module = "udp" /\ udp_success(p)

-----------------------------------------------------------------------------

Unjudged == [valid |-> FALSE, with |-> NoToken, repeat |-> FALSE, success |-> FALSE]
NoPacket == [kind |-> "none", src |-> Blank, val |-> NoToken,
             port |-> Outside, target |-> FALSE]

Init ==
  /\ module \in Modules /\ word \in Words
  /\ aes_input = Blank
  /\ todo = Target
  /\ spc = [i \in Sender |-> "gen"] /\ curr = [i \in Sender |-> Blank]
  /\ stream = [i \in Sender |-> 0]
  /\ sent = {}
  /\ rpc = "dispatch" /\ packet = NoPacket /\ captured = 0
  /\ seen = [p \in Pages |-> NoPage]
  /\ zrecv = [success_total |-> 0, success_unique |-> 0, failure_total |-> 0]
  /\ rows = 0
  /\ verdict = Unjudged /\ succeeded = {} /\ answered = {}

-----------------------------------------------------------------------------
(* Send threads: validate_gen in two steps, then make_packet and sendto.    *)
(* A packet that sendto loses is one nobody answers.                        *)

make_packet(h, k, a) == [dst |-> h, val |-> a, port |-> get_src_port(k, a)]

SenderGenerate(i) ==
  /\ spc[i] = "gen" /\ spc' = [spc EXCEPT ![i] = "enc"]
  /\ \E h \in IF stream[i] = 0 THEN todo ELSE {curr[i]} :
       /\ aes_input' = h
       /\ curr' = [curr EXCEPT ![i] = h]
       /\ todo' = todo \ {h}
  /\ UNCHANGED <<confVars, stream, sent, recvVars>>

SenderEncrypt(i) ==
  /\ spc[i] = "enc" /\ spc' = [spc EXCEPT ![i] = "gen"]
  /\ sent' = sent \cup {make_packet(curr[i], stream[i], aes_input)}
  /\ stream' = [stream EXCEPT ![i] = (@ + 1) % Streams]
  /\ UNCHANGED <<confVars, aes_input, todo, curr, recvVars>>

-----------------------------------------------------------------------------
(* Receiver: packet_cb *)

\* An answer to a probe, as often as the network likes, and perhaps from
\* another address of the host.
Answers == UNION {[kind : Kinds[module] \ {"error", "other", "unreach"},
                   src : Host \ {Blank}, val : {pr.val}, port : {pr.port},
                   target : {TRUE}] : pr \in sent}

\* Any other packet the capture filter lets through.  ICMP errors are here:
\* what the modules take for the quoted header is 20 bytes too far on, so
\* that the ports and the id they read have nothing to do with the probe.
\* One port in range stands for all when the packet is not from the target
\* port, and when there are no ports.
Strays == {p \in [kind : Kinds[module], src : Host \ {Blank}, val : {NoToken},
                  port : {0, Outside}, target : BOOLEAN] :
             (~p.target \/ module = "icmp_echoscan") => p.port = 0}

Enough == MaxResults > 0 /\ zrecv.success_unique >= MaxResults

\* too many results already, or too little of the packet captured
Discard ==
  /\ rpc = "dispatch" /\ captured < MaxPackets
  /\ captured' = captured + 1
  /\ UNCHANGED <<confVars, aes_input, sendVars, rpc, packet, seen, zrecv, rows,
                 verdict, succeeded, answered>>

ReceiveGenerate ==
  /\ rpc = "dispatch" /\ rpc' = "validate"
  /\ captured < MaxPackets /\ captured' = captured + 1
  /\ ~Enough
  /\ packet' \in Answers \cup Strays
  /\ aes_input' = packet'.src
  /\ verdict' = Unjudged
  /\ UNCHANGED <<confVars, sendVars, seen, zrecv, rows, succeeded, answered>>

\* an ICMP error, long enough: src_ip becomes the address read as the quoted
\* one, which is of the zeroes that pad the probe, and validate_gen is called
\* again for it
RegenerateInner ==
  /\ rpc = "validate" /\ packet.kind = "error"
  /\ rpc' = "inner"
  /\ packet' = [packet EXCEPT !.src = Blank] /\ aes_input' = Blank
  /\ UNCHANGED <<confVars, sendVars, captured, seen, zrecv, rows,
                 verdict, succeeded, answered>>

Reject(a) ==
  /\ verdict' = [Unjudged EXCEPT !.with = a]
  /\ UNCHANGED <<seen, zrecv, rows, succeeded, answered>>

\* Mutant: failures are marked as seen, too.
AcceptMarkAll(a) ==
  LET repeat == pbm_check(seen, packet.src)
      fresh  == success(packet) /\ ~repeat
  IN /\ verdict' = [valid |-> TRUE, with |-> a, repeat |-> repeat,
                    success |-> success(packet)]
     /\ seen' = pbm_set(seen, packet.src)
     /\ zrecv' = [success_total  |-> zrecv.success_total + IF success(packet) THEN 1 ELSE 0,
                  success_unique |-> zrecv.success_unique + IF fresh THEN 1 ELSE 0,
                  failure_total  |-> zrecv.failure_total + IF success(packet) THEN 0 ELSE 1]
     /\ rows' = rows + IF \/ ~success(packet) /\ FilterUnsuccessful
                          \/ repeat /\ FilterDuplicates THEN 0 ELSE 1
     /\ succeeded' = IF success(packet) THEN succeeded \cup {packet.src} ELSE succeeded
     /\ answered' = answered \cup {packet.src}

\* is_repeat, the counters, the bitmap, the two filters
Accept(a) ==
  LET repeat == pbm_check(seen, packet.src)
      fresh  == success(packet) /\ ~repeat
  IN /\ verdict' = [valid |-> TRUE, with |-> a, repeat |-> repeat,
                    success |-> success(packet)]
     /\ seen' = IF fresh THEN pbm_set(seen, packet.src) ELSE seen
     /\ zrecv' = [success_total  |-> zrecv.success_total + IF success(packet) THEN 1 ELSE 0,
                  success_unique |-> zrecv.success_unique + IF fresh THEN 1 ELSE 0,
                  failure_total  |-> zrecv.failure_total + IF success(packet) THEN 0 ELSE 1]
     /\ rows' = rows + IF \/ ~success(packet) /\ FilterUnsuccessful
                          \/ repeat /\ FilterDuplicates THEN 0 ELSE 1
     /\ succeeded' = IF success(packet) THEN succeeded \cup {packet.src} ELSE succeeded
     /\ answered' = answered \cup {packet.src}

\* the encryption and the rest of packet_cb; an error that is too short to
\* quote a header is rejected here
ReceiveValidate ==
  /\ rpc = "validate" /\ rpc' = "dispatch"
  /\ IF packet.kind # "error" /\ validate_packet(packet, aes_input)
     THEN Accept(aes_input) ELSE Reject(aes_input)
  /\ UNCHANGED <<confVars, aes_input, sendVars, packet, captured>>

ValidateInner ==
  /\ rpc = "inner" /\ rpc' = "dispatch"
  /\ IF validate_packet(packet, aes_input)
     THEN Accept(aes_input) ELSE Reject(aes_input)
  /\ UNCHANGED <<confVars, aes_input, sendVars, packet, captured>>

Receiver == \/ Discard \/ ReceiveGenerate \/ RegenerateInner
            \/ ReceiveValidate \/ ValidateInner

Next == Receiver \/ \E i \in Sender : SenderGenerate(i) \/ SenderEncrypt(i)

Spec == Init /\ [][Next]_vars

-----------------------------------------------------------------------------
(* Properties *)

\* Every variable has its type.
TypeOK ==
  /\ module \in Modules /\ word \in Words
  /\ aes_input \in Host
  /\ todo \subseteq Target
  /\ spc \in [Sender -> {"gen", "enc"}]
  /\ curr \in [Sender -> Target \cup {Blank}]
  /\ \A i \in Sender : (spc[i] = "enc" \/ stream[i] > 0) => curr[i] \in Target
  /\ stream \in [Sender -> 0 .. Streams - 1]
  /\ sent \subseteq Probe
  /\ rpc \in {"dispatch", "validate", "inner"}
  /\ packet \in [kind : Kinds[module] \cup {"none"}, src : Host,
                 val : Token, port : Port, target : BOOLEAN]
  /\ rpc # "dispatch" => packet.src \in Host
  /\ captured \in 0 .. MaxPackets
  /\ DOMAIN seen = Pages
  /\ \A p \in Pages : seen[p] = NoPage \/ seen[p] \subseteq 0 .. PageSize - 1
  /\ zrecv \in [success_total : Nat, success_unique : Nat, failure_total : Nat]
  /\ rows \in Nat
  /\ verdict \in [valid : BOOLEAN, with : Token, repeat : BOOLEAN,
                  success : BOOLEAN]
  /\ succeeded \subseteq answered /\ answered \subseteq Host

\* The paged bitmap holds the hosts that have succeeded, each counted once in
\* success_unique, whatever pages they share and however often they answer;
\* and max_results is a limit on them (packet_cb, pbm.c).
UniqueExact ==
  /\ {h \in Host : pbm_check(seen, h)} = succeeded
  /\ zrecv.success_unique = Cardinality(succeeded)
  /\ zrecv.success_total >= zrecv.success_unique
  /\ MaxResults > 0 => zrecv.success_unique <= MaxResults

\* With both filters on, a host has one row exactly when it has succeeded: no
\* failure of it, before or after, takes the row away or adds another.
OneRowPerHost ==
  FilterDuplicates /\ FilterUnsuccessful => rows = Cardinality(succeeded)

\* A response is called a repeat only if a valid one came from its host before,
\* and always if a success of the host has been counted (packet_cb, pbm.c).
\* Between the two, after failures only, the code says that it is none.
RepeatSound ==
  [][verdict'.valid /\ ~verdict.valid
       => /\ verdict'.repeat => packet.src \in answered
          /\ packet.src \in succeeded => verdict'.repeat]_vars

\* The ports of the probes to a do not pass the end of the range, nor does
\* the word they are computed from.
InOrderWindow(a) == /\ WindowMin(a) + Streams <= NumPorts
                    /\ word[a] + Streams <= Width

\* Is p an answer to the probe pr, from the address it was sent to?
AnswerTo(p, pr) == p.src = pr.dst /\ p.val = pr.val /\ p.port = pr.port /\ p.target

Judged == rpc = "dispatch" /\ verdict.with # NoToken

\* The answer to a probe is valid if the encryptions behind the probe and the
\* check were not disturbed and the window of ports does not wrap round:
\* nothing but these two makes the scan overlook a host that answers.
GenuineAccepted ==
  Judged => \A pr \in sent :
    /\ AnswerTo(packet, pr)
    /\ pr.val = pr.dst /\ verdict.with = packet.src
    /\ module = "icmp_echoscan" \/ InOrderWindow(pr.dst)
    => verdict.valid

\* A packet that carries no probe's validation is never valid for the modules
\* that look for one, not even with encryptions disturbed (validate_packet).
StrayRejected == module # "udp" /\ verdict.valid => packet.val # NoToken

\* "A SYN-ACK packet is considered a success" (module_tcp_synscan.c:159-161).
SynAckSucceeds ==
  Judged /\ packet.kind = "synack" /\ (\E pr \in sent : AnswerTo(packet, pr))
    => verdict.success
=============================================================================
