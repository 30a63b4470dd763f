------------------------------- MODULE Record -------------------------------
(***************************************************************************)
(* The record of a response: the fields that packet_cb of recv.c has added *)
(* to it (fieldset.c, the probe modules), the definitions the probe modules*)
(* declare for them, and the output filter over them (lexer.l, parser.y,   *)
(* filter.c, expression.c).  A field is declared in one place, added in    *)
(* another, and found by its position alone.                               *)
(***************************************************************************)
EXTENDS Integers, Sequences, SequencesExt

CONSTANTS
  Source,      \* source addresses of responses, as strings
  RawOf,       \* the number each of them is
  IntMod,      \* 2^32: an int is 32 bits wide
  WordMod      \* 2^64: a uint64_t is 64 bits wide

ASSUME RecordAssumption == /\ IntMod \in Nat \ {0} /\ IntMod % 2 = 0
                           /\ WordMod \in Nat /\ WordMod > IntMod
                           /\ Source \subseteq STRING
                           /\ RawOf \in [Source -> 0 .. IntMod - 1]

-----------------------------------------------------------------------------
(* Adding fields.  A null has the value 0, whatever it is read as.          *)

fs_add_uint64(n, v) == [name |-> n, type |-> "int", val |-> v]
fs_add_string(n, v) == [name |-> n, type |-> "string", val |-> v]
fs_add_binary(n, v) == [name |-> n, type |-> "binary", val |-> v]
fs_add_null(n)      == [name |-> n, type |-> "null", val |-> 0]

\* the first field of the name, if there is one, or a new one
fs_modify_string(fs, n, v) ==
  LET at == {i \in DOMAIN fs : fs[i].name = n}
  IN IF at = {} THEN Append(fs, fs_add_string(n, v))
     ELSE [fs EXCEPT ![CHOOSE i \in at : \A j \in at : i <= j] =
             fs_add_string(n, v)]

\* A packet is a record of its source, the address its ICMP error quotes, the
\* kind that process_packet tells apart, and one number for its other fields.
Packets == [src : Source, quoted : Source, kind : STRING, num : Nat,
            repeat : {0, 1}, cooldown : {0, 1}]

fs_add_ip_fields(p) ==
  <<fs_add_string("saddr", p.src), fs_add_uint64("saddr-raw", RawOf[p.src]),
    fs_add_string("daddr", "me"), fs_add_uint64("daddr-raw", 0),
    fs_add_uint64("ipid", p.num), fs_add_uint64("ttl", p.num)>>

synscan_process_packet(fs, p) ==
  fs \o <<fs_add_uint64("sport", p.num), fs_add_uint64("dport", p.num),
          fs_add_uint64("seqnum", p.num), fs_add_uint64("acknum", p.num),
          fs_add_uint64("window", p.num),
          fs_add_string("classification", p.kind),
          fs_add_uint64("success", IF p.kind = "rst" THEN 0 ELSE 1)>>

icmp_echo_process_packet(fs, p) ==
  fs \o <<fs_add_uint64("type", p.num), fs_add_uint64("code", p.num),
          fs_add_uint64("icmp-id", p.num), fs_add_uint64("seq", p.num),
          fs_add_string("classification", p.kind),
          fs_add_uint64("success", IF p.kind = "echoreply" THEN 1 ELSE 0)>>

UdpAnswer(fs, p) ==
  fs \o <<fs_add_string("classification", "udp"), fs_add_uint64("success", 1),
          fs_add_uint64("sport", p.num), fs_add_uint64("dport", p.num),
          fs_add_null("icmp_responder"), fs_add_null("icmp_type"),
          fs_add_null("icmp_code"), fs_add_null("icmp_unreach_str"),
          fs_add_uint64("udp_pkt_size", p.num),
          IF p.kind = "empty" THEN fs_add_null("data")
                              ELSE fs_add_binary("data", p.num)>>

\* Mutant: the two ports come before `success' in the record of an error.
UdpErrorSwapped(fs, p) ==
  fs_modify_string(fs, "saddr", p.quoted) \o
    <<fs_add_string("classification", "icmp-unreach"),
      fs_add_null("sport"), fs_add_null("dport"), fs_add_uint64("success", 0),
      fs_add_string("icmp_responder", p.src), fs_add_uint64("icmp_type", p.num),
      fs_add_uint64("icmp_code", p.num),
      fs_add_string("icmp_unreach_str", "unreachable"),
      fs_add_null("udp_pkt_size"), fs_add_null("data")>>

UdpError(fs, p) ==
  fs_modify_string(fs, "saddr", p.quoted) \o
    <<fs_add_string("classification", "icmp-unreach"),
      fs_add_uint64("success", 0), fs_add_null("sport"), fs_add_null("dport"),
      fs_add_string("icmp_responder", p.src), fs_add_uint64("icmp_type", p.num),
      fs_add_uint64("icmp_code", p.num),
      fs_add_string("icmp_unreach_str", "unreachable"),
      fs_add_null("udp_pkt_size"), fs_add_null("data")>>

\* (udp_validate_packet lets no third protocol through)
udp_process_packet(fs, p) ==
  IF p.kind = "icmp-unreach" THEN UdpError(fs, p) ELSE UdpAnswer(fs, p)

fs_add_system_fields(p) ==
  <<fs_add_uint64("repeat", p.repeat), fs_add_uint64("cooldown", p.cooldown),
    fs_add_string("timestamp-str", "now"),
    fs_add_uint64("timestamp-ts", p.num), fs_add_uint64("timestamp-us", p.num)>>

\* what packet_cb makes of a packet
RecordOf(probe, p) ==
  LET ip == fs_add_ip_fields(p)
  IN (CASE probe = "tcp_synscan"   -> synscan_process_packet(ip, p)
        [] probe = "icmp_echoscan" -> icmp_echo_process_packet(ip, p)
        [] probe = "udp"           -> udp_process_packet(ip, p))
     \o fs_add_system_fields(p)

-----------------------------------------------------------------------------
(* Definitions *)

Def(n, t) == [name |-> n, type |-> t]

ip_fields == <<Def("saddr", "string"), Def("saddr-raw", "int"),
               Def("daddr", "string"), Def("daddr-raw", "int"),
               Def("ipid", "int"), Def("ttl", "int")>>
tcp_fields == <<Def("sport", "int"), Def("dport", "int"), Def("seqnum", "int"),
                Def("acknum", "int"), Def("window", "int"),
                Def("classification", "string"), Def("success", "int")>>
icmp_fields == <<Def("type", "int"), Def("code", "int"), Def("icmp-id", "int"),
                 Def("seq", "int"), Def("classification", "string"),
                 Def("success", "int")>>
udp_fields == <<Def("classification", "string"), Def("success", "int"),
                Def("sport", "int"), Def("dport", "int"),
                Def("icmp_responder", "string"), Def("icmp_type", "int"),
                Def("icmp_code", "int"), Def("icmp_unreach_str", "string"),
                Def("udp_pkt_size", "int"), Def("data", "binary")>>
sys_fields == <<Def("repeat", "int"), Def("cooldown", "int"),
                Def("timestamp-str", "string"), Def("timestamp-ts", "int"),
                Def("timestamp-us", "int")>>

\* gen_fielddef_set, three times
DefsOf(probe) ==
  ip_fields \o (CASE probe = "tcp_synscan"   -> tcp_fields
                  [] probe = "icmp_echoscan" -> icmp_fields
                  [] probe = "udp"           -> udp_fields) \o sys_fields

NoIndex == 0    \* -1 in the code, whose indices begin at 0
fds_get_index_by_name(defs, n) ==
  LET at == {i \in DOMAIN defs : defs[i].name = n}
  IN IF at = {} THEN NoIndex ELSE CHOOSE i \in at : \A j \in at : i <= j

fs_generate_fieldset_translation(defs, names) ==
  [i \in DOMAIN names |-> fds_get_index_by_name(defs, names[i])]
fs_generate_full_fieldset_translation(defs) == [i \in DOMAIN defs |-> i]
translate_fieldset(fs, t) == [i \in DOMAIN t |-> fs[t[i]]]

-----------------------------------------------------------------------------
(* The filter.  Its text is a sequence of comparisons and the words between *)
(* them, [cmp, con] with Len(con) + 1 = Len(cmp), without parentheses; a    *)
(* comparison is [field, op, lit], a literal [type, val].                   *)

Literals == [type : {"INT"}, val : Nat] \cup [type : {"STRING"}, val : STRING]
Comparisons == [field : STRING, op : {"GT", "LT", "EQ", "NEQ", "LT_EQ", "GT_EQ"},
                lit : Literals]
Filters == {f \in [cmp : Seq(Comparisons), con : Seq({"AND", "OR"})] :
              Len(f.con) = IF f.cmp = <<>> THEN 0 ELSE Len(f.cmp) - 1}

\* T_FIELD is letters and digits: the other names cannot be written
T_FIELD(n) == n \notin {"saddr-raw", "daddr-raw", "icmp-id", "timestamp-str",
                        "timestamp-ts", "timestamp-us", "icmp_responder",
                        "icmp_type", "icmp_code", "icmp_unreach_str",
                        "udp_pkt_size", "icmp-unreach"}

\* atoll into an int; an int into a uint64_t
T_NUMBER(v) == IF v % IntMod < IntMod \div 2 THEN v % IntMod
                                             ELSE (v % IntMod) - IntMod
make_int_node(v) == T_NUMBER(v) % WordMod

\* The nodes of the tree.  One is named by the stretch of comparisons that it
\* stands for, <<first, last>>, and holds the names of its children.
ParseComparison(c) ==
  [op |-> c.op, field |-> c.field, index |-> NoIndex,
   lit |-> IF c.lit.type = "INT"
           THEN [c.lit EXCEPT !.val = make_int_node(@)] ELSE c.lit]

make_op_node(op, l, r) == [op |-> op, left_child |-> l, right_child |-> r]

\* Mutant: the two operators have one precedence.
LastOperatorFlat(con, a, b) == b - 1

\* %left T_OR, then %left T_AND: the last || is applied last, or the last &&
LastOperator(con, a, b) ==
  LET ors == {i \in a .. b - 1 : con[i] = "OR"}
      among == IF ors = {} THEN a .. b - 1 ELSE ors
  IN CHOOSE i \in among : \A j \in among : j <= i

Stretches(f) == {s \in (DOMAIN f.cmp) \X (DOMAIN f.cmp) : s[1] <= s[2]}

filter_expr(f) ==
  [s \in Stretches(f) |->
     IF s[1] = s[2] THEN ParseComparison(f.cmp[s[1]])
     ELSE LET i == LastOperator(f.con, s[1], s[2])
          IN make_op_node(f.con[i], <<s[1], i>>, <<i + 1, s[2]>>)]

Root(f) == <<1, Len(f.cmp)>>

Parses(f) == \A i \in DOMAIN f.cmp :
               /\ T_FIELD(f.cmp[i].field)
               /\ f.cmp[i].lit.type = "STRING"
                    => T_FIELD(f.cmp[i].lit.val) /\ f.cmp[i].op \in {"EQ", "NEQ"}

IsJunction(node) == node.op \in {"AND", "OR"}

\* validate_node for each node: every comparison is a leaf of the tree
validate_filter(nodes, defs) ==
  \A s \in DOMAIN nodes :
    \/ IsJunction(nodes[s])
    \/ LET i == fds_get_index_by_name(defs, nodes[s].field)
       IN /\ i # NoIndex
          /\ defs[i].type = (IF nodes[s].lit.type = "INT" THEN "int" ELSE "string")

\* ... which also resolves the name
Resolve(nodes, defs) ==
  [s \in DOMAIN nodes |->
     IF IsJunction(nodes[s]) THEN nodes[s]
     ELSE [nodes[s] EXCEPT !.index = fds_get_index_by_name(defs, nodes[s].field)]]

eval_gt_node(node, fs) == fs[node.index].val > node.lit.val
eval_lt_node(node, fs) == fs[node.index].val < node.lit.val
\* strcmp needs a string (NeverComparesNull)
Equal(field, lit) == /\ lit.type = "STRING" => field.type = "string"
                     /\ field.val = lit.val
eval_eq_node(node, fs) == Equal(fs[node.index], node.lit)

eval_node(node, fs) ==
  CASE node.op = "GT"    -> eval_gt_node(node, fs)
    [] node.op = "LT"    -> eval_lt_node(node, fs)
    [] node.op = "EQ"    -> eval_eq_node(node, fs)
    [] node.op = "NEQ"   -> ~eval_eq_node(node, fs)
    [] node.op = "LT_EQ" -> ~eval_gt_node(node, fs)
    [] node.op = "GT_EQ" -> ~eval_lt_node(node, fs)

evaluate_expression(nodes, root, fs) ==
  LET value[s \in DOMAIN nodes] ==
        LET node == nodes[s]
        IN IF node.op = "AND" THEN value[node.left_child] /\ value[node.right_child]
           ELSE IF node.op = "OR" THEN value[node.left_child] \/ value[node.right_child]
           ELSE eval_node(node, fs)
  IN value[root]

-----------------------------------------------------------------------------
(* What the filter means, without a tree and without positions *)

Named(fs, n) == CHOOSE x \in Range(fs) : x.name = n

Holds(c, fs) ==
  LET v == Named(fs, c.field).val
      eq == Equal(Named(fs, c.field), c.lit)
  IN CASE c.op = "GT" -> v > c.lit.val      [] c.op = "LT" -> v < c.lit.val
       [] c.op = "EQ" -> eq               [] c.op = "NEQ" -> ~eq
       [] c.op = "LT_EQ" -> v <= c.lit.val  [] c.op = "GT_EQ" -> v >= c.lit.val

\* some stretch of comparisons joined by && holds as a whole
Meaning(f, fs) ==
  \E a, b \in DOMAIN f.cmp :
     /\ a <= b /\ \A i \in a .. b : Holds(f.cmp[i], fs)
     /\ \A i \in a .. b - 1 : f.con[i] = "AND"
     /\ a > 1 => f.con[a - 1] = "OR"
     /\ b < Len(f.cmp) => f.con[b] = "OR"

\* the numbers of the filter fit into an int
Fits(f) == \A i \in DOMAIN f.cmp :
             f.cmp[i].lit.type = "INT" => f.cmp[i].lit.val < IntMod \div 2
=============================================================================
