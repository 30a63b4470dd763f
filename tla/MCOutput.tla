------------------------------ MODULE MCOutput ------------------------------
(* Instances of Output for TLC: filters over fields that exist and that do  *)
(* not, that may be written and that may not, with numbers that fit an int  *)
(* and one that does not, joined by both operators in every order.          *)
EXTENDS Output

Number(v) == [type |-> "INT", val |-> v]
Text(v)   == [type |-> "STRING", val |-> v]
Compare(n, op, lit) == [field |-> n, op |-> op, lit |-> lit]

NoFilter == [cmp |-> <<>>, con |-> <<>>]
One(c)   == [cmp |-> <<c>>, con |-> <<>>]
Bad == {Compare("icmp_unreach_str", "EQ", Text("unreachable")),
        Compare("saddr", "EQ", Number(1)), Compare("ttl", "EQ", Text("h1")),
        Compare("nothing", "GT", Number(1)), Compare("data", "NEQ", Text("h1"))}

Terms == {Compare("ttl", "GT", Number(1)), Compare("saddr", "NEQ", Text("h1")),
          Compare("success", "EQ", Number(1))}
Joined == {[cmp |-> c, con |-> o] : c \in [1 .. 3 -> Terms],
                                    o \in [1 .. 2 -> {"AND", "OR"}]}
Single == {Compare("ttl", op, Number(v)) :
             op \in {"GT", "LT", "EQ", "NEQ", "GT_EQ", "LT_EQ"}, v \in {1, 2, 5}}

MCFilters == [p \in {"tcp_synscan", "icmp_echoscan", "udp"} |->
                {NoFilter} \cup {One(c) : c \in Bad}
                  \cup (IF p = "tcp_synscan" THEN {One(c) : c \in Single} ELSE {})
                  \cup (IF p = "udp" THEN Joined \cup
                          {One(Compare("sport", "EQ", Number(0)))} ELSE {})]

Packet(h, k, n, r) == [src |-> h, quoted |-> "h2", kind |-> k, num |-> n,
                       repeat |-> r, cooldown |-> r]
MCPackets ==
  [tcp_synscan   |-> {Packet("h1", "synack", 1, 0), Packet("h1", "synack", 2, 1),
                      Packet("h2", "rst", 2, 0), Packet("h2", "rst", 5, 1)},
   icmp_echoscan |-> {Packet("h1", "echoreply", 1, 0),
                      Packet("h1", "echoreply", 1, 1), Packet("h2", "unreach", 2, 0)},
   udp           |-> {Packet("h1", "udp", 1, 0), Packet("h2", "empty", 2, 0),
                      Packet("h1", "icmp-unreach", 2, 0), Packet("h2", "udp", 1, 1)}]

MCRequests == {<<"*">>, <<"saddr-raw">>, <<"daddr", "saddr">>, <<"saddr", "none">>}
MCArgs == {[type |-> "none"], [type |-> "malformed"],
           [type |-> "local", path |-> <<"tmp", "redis.sock", "results">>]}

MCRawOf == [h1 |-> 1, h2 |-> 2]
=============================================================================
