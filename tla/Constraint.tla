------------------------------ MODULE Constraint ------------------------------
(***************************************************************************)
(* lib/constraint.c: a value for every address, set by prefixes of which   *)
(* the last one shows, kept as a binary tree; and the counts and the radix *)
(* array that make the nth address of a value quick to find.               *)
(*                                                                         *)
(* A node is its prefix, <<length, bits>>.  The tree is the function leaf  *)
(* from the prefixes of its leaves to their values; the internal nodes are *)
(* the prefixes above the leaves.                                          *)
(***************************************************************************)
EXTENDS Integers, Sequences, FiniteSets, FiniteSetsExt, Functions

CONSTANTS
  Bits,           (* the length of an address, 32 in the code               *)
  RadixLength,    (* RADIX_LENGTH, 20 in the code                            *)
  Values          (* value_t                                                 *)

ASSUME ConstraintAssumption ==
  Bits \in Nat /\ RadixLength \in 0 .. Bits /\ Values # {}

VARIABLES
  leaf,           \* con->root: the leaves and their values
  radix,          \* con->radix, radix_len entries of it
  count,          \* node->count, for the nodes of the last painting
  painted, paint_value,
  colour          \* history: for every address the value last set

tree == <<leaf, colour>>
paint == <<radix, count, painted, paint_value>>

-----------------------------------------------------------------------------
(* Prefixes *)

Address == 0 .. 2^Bits - 1
Prefix  == UNION {{len} \X (0 .. 2^len - 1) : len \in 0 .. Bits}
Root    == <<0, 0>>

Size(p)      == 2^(Bits - p[1])
Cover(p)     == p[2] * Size(p) .. (p[2] + 1) * Size(p) - 1
Cut(p, len)  == <<len, p[2] \div 2^(p[1] - len)>>
Within(p, q) == p[1] >= q[1] /\ Cut(p, q[1]) = q
Left(p)      == <<p[1] + 1, 2 * p[2]>>
Right(p)     == <<p[1] + 1, 2 * p[2] + 1>>
Sibling(p)   == <<p[1], IF p[2] % 2 = 0 THEN p[2] + 1 ELSE p[2] - 1>>
\* the nodes passed on the way from q down to p, q excluded
Path(p, q)   == {Cut(p, len) : len \in q[1] + 1 .. p[1]}

Nodes(t) == UNION {{Cut(q, len) : len \in 0 .. q[1]} : q \in DOMAIN t}

-----------------------------------------------------------------------------
(* Setting a prefix *)

\* the leaf that the way down to p ends in before p, if there is one
Over(t, p) == {q \in DOMAIN t : Within(p, q) /\ q # p}

\* Mutant: the other halves of a leaf that is split get the new value.
PutSpilling(t, p, value) ==
  LET kept  == {q \in DOMAIN t : ~Within(q, p) /\ ~Within(p, q)}
      split == {Sibling(m) : m \in UNION {Path(p, q) : q \in Over(t, p)}}
  IN [q \in kept \cup split \cup {p} |-> IF q \in kept THEN t[q] ELSE value]

\* p becomes a leaf: what is under it goes, a leaf above it is split
Put(t, p, value) ==
  LET kept  == {q \in DOMAIN t : ~Within(q, p) /\ ~Within(p, q)}
      split == {Sibling(m) : m \in UNION {Path(p, q) : q \in Over(t, p)}}
  IN [q \in kept \cup split \cup {p} |->
        IF q = p THEN value
        ELSE IF q \in kept THEN t[q] ELSE t[CHOOSE o \in Over(t, p) : TRUE]]

\* on the way back up, two leaves with the same value become one
Merge(t, p, value) ==
  LET merges(m) == Sibling(m) \in DOMAIN t /\ t[Sibling(m)] = value
      top == Cut(p, Min({len \in 0 .. p[1] :
                           \A m \in Path(p, Cut(p, len)) : merges(m)}))
  IN [q \in {r \in DOMAIN t : ~Within(r, top)} \cup {top} |->
        IF q = top THEN value ELSE t[q]]

set_recurse(t, p, value) ==
  IF \E q \in Over(t, p) : t[q] = value
  THEN Merge(t, CHOOSE q \in Over(t, p) : TRUE, value)
  ELSE Merge(Put(t, p, value), p, value)

lookup_ip(address) == leaf[CHOOSE q \in DOMAIN leaf : address \in Cover(q)]

-----------------------------------------------------------------------------
(* Counting and indexing *)

Block == 2^(Bits - RadixLength)

\* Mutant: a leaf of the size of one radix entry is counted in both places.
CountTwice(p, value, exclude_radix) ==
  MapThenSumSet(Size, {q \in DOMAIN leaf : /\ Within(q, p) /\ leaf[q] = value
                                           /\ exclude_radix => Size(q) <= Block})

count_ips(p, value, exclude_radix) ==
  MapThenSumSet(Size, {q \in DOMAIN leaf : /\ Within(q, p) /\ leaf[q] = value
                                           /\ exclude_radix => Size(q) < Block})

\* lookup_node found a leaf with the value, of the prefix or one above it
InRadix(i, value) ==
  \E q \in DOMAIN leaf : Within(<<RadixLength, i>>, q) /\ leaf[q] = value

Radix(value) ==
  LET fill[i \in 0 .. 2^RadixLength] ==
        IF i = 0 THEN <<>>
        ELSE IF InRadix(i - 1, value) THEN Append(fill[i - 1], i - 1)
        ELSE fill[i - 1]
  IN fill[2^RadixLength]

\* the nth address in the tree: left while n is less than the left count
lookup_index(n) ==
  LET walk[d \in 0 .. Bits] ==
        IF d = 0 THEN <<Root, n>>
        ELSE LET node == walk[d - 1][1]
                 rest == walk[d - 1][2]
             IN IF node \in DOMAIN leaf THEN walk[d - 1]
                ELSE IF rest < count[Left(node)] THEN <<Left(node), rest>>
                ELSE <<Right(node), rest - count[Left(node)]>>
  IN walk[Bits][1][2] * Size(walk[Bits][1]) + walk[Bits][2]

constraint_lookup_index(index) ==
  IF index \div Block < Len(radix)
  THEN radix[index \div Block + 1] * Block + (index % Block)
  ELSE lookup_index(index - Len(radix) * Block)

constraint_count_ips(value) ==
  IF painted /\ paint_value = value THEN count[Root] + Len(radix) * Block
  ELSE count_ips(Root, value, FALSE)

-----------------------------------------------------------------------------
(* The operations *)

constraint_init(value) ==
  /\ leaf = [p \in {Root} |-> value]
  /\ radix = <<>> /\ count = [p \in {Root} |-> 0]
  /\ painted = FALSE /\ paint_value \in Values
  /\ colour = [a \in Address |-> value]

\* Mutant: the counts are taken for good after the tree has changed.
SetStale(p, value) ==
  /\ leaf' = set_recurse(leaf, p, value)
  /\ colour' = [a \in Address |-> IF a \in Cover(p) THEN value ELSE colour[a]]
  /\ UNCHANGED paint

constraint_set(p, value) ==
  /\ leaf' = set_recurse(leaf, p, value)
  /\ painted' = FALSE
  /\ colour' = [a \in Address |-> IF a \in Cover(p) THEN value ELSE colour[a]]
  /\ UNCHANGED <<radix, count, paint_value>>

constraint_paint_value(value) ==
  /\ count' = [p \in Nodes(leaf) |-> count_ips(p, value, TRUE)]
  /\ radix' = Radix(value)
  /\ painted' = TRUE /\ paint_value' = value
  /\ UNCHANGED tree

\* constraint_lookup_index, for another value or after the tree has changed
PaintFor(value) ==
  ~(painted /\ paint_value = value) /\ constraint_paint_value(value)

\* A constraint on its own: prefixes are set in any order, and indices looked up
\* for any value in between.
ConstraintInit == \E value \in Values : constraint_init(value)

ConstraintNext ==
  \/ \E p \in Prefix, value \in Values : constraint_set(p, value)
  \/ \E value \in Values : PaintFor(value)

ConstraintSpec == ConstraintInit /\ [][ConstraintNext]_<<tree, paint>>

-----------------------------------------------------------------------------
(* Properties *)

\* The leaves are disjoint prefixes that cover the address space.
Partition ==
  \A a \in Address : Cardinality({q \in DOMAIN leaf : a \in Cover(q)}) = 1

ConstraintTypeOK ==
  /\ DOMAIN leaf \subseteq Prefix /\ leaf \in [DOMAIN leaf -> Values]
  /\ painted \in BOOLEAN /\ paint_value \in Values
  /\ radix \in Seq(0 .. 2^RadixLength - 1)
  /\ DOMAIN count \subseteq Prefix /\ count \in [DOMAIN count -> 0 .. 2^Bits]
  /\ colour \in [Address -> Values]
  /\ Partition

\* Every address has the value of the last prefix set that covers it.
LastPaintWins == \A a \in Address : lookup_ip(a) = colour[a]

\* No two leaves that could be one are left: the tree is as small as it can
\* be, whatever the order of the prefixes set.
Compact ==
  \A q \in DOMAIN leaf \ {Root} :
    Sibling(q) \in DOMAIN leaf => leaf[Sibling(q)] # leaf[q]

\* The tree is one, gives every address the value it was last set to, and has
\* no node too many, whichever leaves were split, painted over and merged.
TreeSound == ConstraintTypeOK /\ LastPaintWins /\ Compact

\* The number of addresses of a value is right, with the counts of the last
\* painting or without.
CountExact ==
  \A v \in Values :
    constraint_count_ips(v) = Cardinality({a \in Address : colour[a] = v})

\* The indices below the count are, one to one, the addresses of the value.
IndexExact ==
  painted => LET indices == 0 .. constraint_count_ips(paint_value) - 1
                 ip == [i \in indices |-> constraint_lookup_index(i)]
             IN /\ IsInjective(ip)
                /\ Range(ip) = {a \in Address : colour[a] = paint_value}
=============================================================================
