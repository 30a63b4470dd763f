------------------------------- MODULE Gateway -------------------------------
(***************************************************************************)
(* What a scan takes from the host: the default gateway and its hardware   *)
(* address, read from the kernel over netlink (get_gateway.c, for Linux),  *)
(* and the source addresses that send.c takes in turn from a range.        *)
(*                                                                         *)
(* An answer of the kernel is the sequence of the datagrams that recv      *)
(* returns: an error, the end of a dump, or some messages.  A route has an *)
(* interface and perhaps a gateway; a neighbour has an address and perhaps *)
(* a hardware address, which may have an unusual length.                   *)
(***************************************************************************)
EXTENDS Integers, Sequences, SequencesExt

CONSTANTS
  NULL, Junk,     (* no value; what uninitialised memory holds               *)
  Room,           (* the datagrams that fit in the 8192 bytes of buf         *)
  Byte            (* 2^8; an address has two bytes here                      *)

ASSUME GatewayAssumption == Room \in Nat /\ Byte \in Nat \ {0}

-----------------------------------------------------------------------------
(* Reading an answer *)

\* some datagrams, some of which have some messages
IsAnswer(answer) ==
  /\ answer \in Seq(Range(answer))
  /\ \A d \in Range(answer) :
       d.type = "messages" => d.messages \in Seq(Range(d.messages))

\* the datagram that read_nl_sock stops at: recv fails when there is no room
LastRead(answer) ==
  SelectInSeq(answer \o <<[type |-> "error"]>>,
              LAMBDA d : d.type # "messages" \/ ~d.multi)

\* The messages in buf, and whether read_nl_sock returned -1.
read_nl_sock(answer) ==
  LET stop == LastRead(answer)
      part(k) == IF answer[k].type = "messages" THEN answer[k].messages ELSE <<>>
      fits == IF stop > Room THEN Room ELSE stop
  IN [failed   |-> stop > Room \/ stop > Len(answer) \/ answer[stop].type = "error",
      messages |-> FlattenSeq([k \in 1 .. fits |->
                                 IF k > Len(answer) THEN <<>> ELSE part(k)])]

\* Both callers keep the length unsigned: a -1 is not found out, and what
\* follows the messages read is whatever the stack held.
Parsed(read, result) ==
  IF result.ret # "more" THEN {result}
  ELSE {[result EXCEPT !.ret = "none"]}
         \cup (IF read.failed THEN {[result EXCEPT !.ret = "found", !.val = Junk]}
               ELSE {})

\* Every message sets iface to the interface of its route; the first with a
\* gateway ends the search, and so does one of another family or table.
get_default_gw(answer, iface) ==
  LET read == read_nl_sock(answer)
      next(r, m) ==
        IF r.ret # "more" THEN r
        ELSE IF ~m.main THEN [r EXCEPT !.ret = "none"]
        ELSE [ret   |-> IF m.gateway = NULL THEN "more" ELSE "found",
              val   |-> m.gateway,
              iface |-> IF m.oif = NULL THEN r.iface ELSE m.oif]
  IN Parsed(read, FoldLeft(next, [ret |-> "more", val |-> Junk, iface |-> iface],
                           read.messages))

\* Mutant: the first neighbour is taken, whatever its address.
HwAddrOfAny(answer, gw) ==
  LET read == read_nl_sock(answer)
      next(r, m) ==
        IF r.ret # "more" THEN r
        ELSE IF ~m.inet THEN [r EXCEPT !.ret = "none"]
        ELSE IF m.lladdr = "long" THEN [r EXCEPT !.ret = "fatal"]
        ELSE [ret |-> "found", val |-> IF m.lladdr = NULL THEN r.val ELSE m.lladdr]
  IN Parsed(read, FoldLeft(next, [ret |-> "more", val |-> Junk], read.messages))

\* The array mac keeps its bytes from one message to the next: a neighbour
\* without a hardware address has that of the one before.
get_hw_addr(answer, gw) ==
  LET read == read_nl_sock(answer)
      next(r, m) ==
        IF r.ret # "more" THEN r
        ELSE IF ~m.inet THEN [r EXCEPT !.ret = "none"]
        ELSE IF m.lladdr = "long" THEN [r EXCEPT !.ret = "fatal"]
        ELSE [ret |-> IF m.dst = gw THEN "found" ELSE "more",
              val |-> IF m.lladdr = NULL THEN r.val ELSE m.lladdr]
  IN Parsed(read, FoldLeft(next, [ret |-> "more", val |-> Junk], read.messages))

-----------------------------------------------------------------------------
(* Source addresses, as the numbers that a little-endian host takes them for *)

Address == 0 .. Byte * Byte - 1

\* htonl, and ntohl
Swap(a) == ((a % Byte) * Byte) + (a \div Byte)

srcip_offset(first, last, word) ==
  IF first = last THEN 0 ELSE word % ((last - first) % (Byte * Byte))

num_src_addrs(first, last) == Swap(last) - Swap(first) + 1

\* Mutant: the address is one past the range when the sum comes full circle.
SrcIpOver(first, last, offset, dst, stream) ==
  IF first = last THEN first
  ELSE LET turn == (Swap(dst) + offset + stream) % (Byte * Byte)
       IN (Swap(turn % (num_src_addrs(first, last) + 1)) + first) % (Byte * Byte)

get_src_ip(first, last, offset, dst, stream) ==
  IF first = last THEN first
  ELSE LET turn == (Swap(dst) + offset + stream) % (Byte * Byte)
       IN (Swap(turn % num_src_addrs(first, last)) + first) % (Byte * Byte)
=============================================================================
