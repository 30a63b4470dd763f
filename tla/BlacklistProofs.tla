--------------------------- MODULE BlacklistProofs ---------------------------
(***************************************************************************)
(* For every length of an address and of a radix entry: the tree of        *)
(* constraint.c stands for the values set, whatever the prefixes and their *)
(* order; the counts and the indices made from it are right; and           *)
(* blacklist_init allows what its three sources say.                       *)
(***************************************************************************)
EXTENDS Blacklist, Counting

-----------------------------------------------------------------------------
(* Prefixes: p covers an address when it is the first p[1] bits of it. *)

\* the prefix of length len that covers a
At(a, len) == <<len, a \div 2^(Bits - len)>>

LEMMA PrefixFacts ==
  /\ Bits \in Nat
  /\ \A p \in Prefix : /\ p[1] \in 0 .. Bits /\ p[2] \in 0 .. 2^p[1] - 1
                       /\ p = <<p[1], p[2]>>
  /\ \A len \in 0 .. Bits : \A b \in 0 .. 2^len - 1 : <<len, b>> \in Prefix
BY ConstraintAssumption DEF Prefix

LEMMA SizeFacts ==
  ASSUME NEW len \in 0 .. Bits
  PROVE  /\ 2^len \in Nat \ {0} /\ 2^(Bits - len) \in Nat \ {0}
         /\ 2^len * 2^(Bits - len) = 2^Bits
<1>1. Bits - len \in Nat /\ len \in Nat /\ len + (Bits - len) = Bits
      BY PrefixFacts
<1>2. 2^len \in Nat \ {0} /\ 2^(Bits - len) \in Nat \ {0} BY <1>1, PowerType
<1>3. 2^(len + (Bits - len)) = 2^len * 2^(Bits - len) BY <1>1, PowerSum
<1> QED BY <1>1, <1>2, <1>3

LEMMA DivFacts ==
  ASSUME NEW a \in Nat, NEW b \in Nat \ {0}
  PROVE  /\ (a \div b) \in Nat /\ (a \div b) * b <= a /\ a < (a \div b) * b + b
         /\ \A q \in Nat : q * b <= a /\ a < q * b + b => q = a \div b
<1>1. (a \div b) \in Nat /\ (a \div b) * b <= a /\ a < (a \div b) * b + b
      OBVIOUS
<1>2. ASSUME NEW q \in Nat, q * b <= a, a < q * b + b PROVE q = a \div b
      BY <1>2
<1> QED BY <1>1, <1>2

LEMMA DivBelow ==
  ASSUME NEW a \in Nat, NEW b \in Nat \ {0}, NEW c \in Nat, a < c * b
  PROVE  a \div b < c
<1>1. (a \div b) \in Nat /\ (a \div b) * b <= a BY DivFacts
<1>2. ASSUME c <= a \div b PROVE FALSE
  <2>1. c * b <= (a \div b) * b BY <1>1, <1>2
  <2>2. c * b \in Nat /\ (a \div b) * b \in Nat BY <1>1
  <2> QED BY <1>1, <2>1, <2>2
<1> QED BY <1>1, <1>2

LEMMA DivDiv ==
  ASSUME NEW a \in Nat, NEW b \in Nat \ {0}, NEW c \in Nat \ {0}
  PROVE  (a \div b) \div c = a \div (c * b)
<1> DEFINE x == a \div b
           y == x \div c
<1>1. x \in Nat /\ x * b <= a /\ a < x * b + b BY DivFacts
<1>2. y \in Nat /\ y * c <= x /\ x < y * c + c BY <1>1, DivFacts
<1> HIDE DEF x, y
<1>3. y * (c * b) <= a
  <2>1. (y * c) * b <= x * b BY <1>1, <1>2
  <2>2. (y * c) * b = y * (c * b) BY <1>2
  <2>3. x * b \in Nat /\ y * (c * b) \in Nat BY <1>1, <1>2
  <2> QED BY <1>1, <2>1, <2>2, <2>3
<1>4. a < y * (c * b) + c * b
  <2>1. x + 1 <= y * c + c BY <1>1, <1>2
  <2>2. (x + 1) * b <= (y * c + c) * b BY <1>1, <1>2, <2>1
  <2>3. (x + 1) * b = x * b + b BY <1>1
  <2>4. (y * c + c) * b = y * (c * b) + c * b BY <1>2
  <2>5. x * b \in Nat /\ y * (c * b) \in Nat /\ c * b \in Nat BY <1>1, <1>2
  <2> QED BY <1>1, <2>2, <2>3, <2>4, <2>5
<1>5. c * b \in Nat \ {0} OBVIOUS
<1>6. y = a \div (c * b) BY <1>2, <1>3, <1>4, <1>5, DivFacts
<1> QED BY <1>6 DEF x, y

\* (P1) There is one prefix of each length for an address.
LEMMA AtPrefix ==
  ASSUME NEW a \in Address, NEW len \in 0 .. Bits
  PROVE  At(a, len) \in Prefix /\ At(a, len)[1] = len
<1>1. a \in Nat /\ a < 2^Bits
  <2>1. Bits \in 0 .. Bits BY PrefixFacts
  <2> QED BY <2>1, SizeFacts DEF Address
<1>2. a < 2^len * 2^(Bits - len) BY <1>1, SizeFacts
<1>3. a \div 2^(Bits - len) \in Nat /\ a \div 2^(Bits - len) < 2^len
      BY <1>1, <1>2, SizeFacts, DivBelow, DivFacts
<1>4. a \div 2^(Bits - len) \in 0 .. 2^len - 1 BY <1>3, SizeFacts
<1> QED BY <1>4, PrefixFacts DEF At

\* (P2) It is the one that covers the address.
LEMMA CoverAt ==
  ASSUME NEW p \in Prefix, NEW a \in Address
  PROVE  a \in Cover(p) <=> At(a, p[1]) = p
<1>1. /\ p[1] \in 0 .. Bits /\ p[2] \in Nat /\ p = <<p[1], p[2]>>
      /\ a \in Nat /\ Size(p) \in Nat \ {0}
      BY PrefixFacts, SizeFacts DEF Address, Size
<1> DEFINE s == Size(p)
           n == p[2]
<1>2. a \in Cover(p) <=> n * s <= a /\ a < n * s + s
  <2>1. /\ n * s \in Nat /\ (n + 1) * s = n * s + s
        /\ n \in Nat /\ s \in Nat /\ a \in Nat
        BY <1>1
  <2>2. a \in Cover(p) <=> a \in n * s .. (n + 1) * s - 1 BY DEF Cover
  <2> HIDE DEF n, s
  <2> QED BY <2>1, <2>2
<1>3. n * s <= a /\ a < n * s + s <=> n = a \div s
  <2> HIDE DEF n
  <2>1. n \in Nat BY <1>1 DEF n
  <2> QED BY <1>1, <2>1, DivFacts
<1>4. At(a, p[1]) = <<p[1], a \div s>> BY DEF At, Size
<1> QED BY <1>1, <1>2, <1>3, <1>4

LEMMA CoverInside ==
  ASSUME NEW p \in Prefix
  PROVE  /\ Cover(p) \subseteq Address /\ p[2] * Size(p) \in Cover(p)
         /\ IsFiniteSet(Cover(p)) /\ Cardinality(Cover(p)) = Size(p)
         /\ Size(p) \in Nat \ {0}
<1>1. /\ p[1] \in 0 .. Bits /\ p[2] \in Nat /\ p[2] + 1 <= 2^p[1]
      /\ 2^p[1] \in Nat \ {0} /\ Size(p) \in Nat \ {0} /\ 2^Bits \in Nat
      /\ 2^p[1] * Size(p) = 2^Bits
  <2>1. p[1] \in 0 .. Bits /\ p[2] \in 0 .. 2^p[1] - 1 BY PrefixFacts
  <2>2. 2^p[1] \in Nat \ {0} /\ Size(p) \in Nat \ {0} /\ 2^p[1] * Size(p) = 2^Bits
        BY <2>1, SizeFacts DEF Size
  <2>3. 2^Bits \in Nat BY <2>2
  <2> QED BY <2>1, <2>2, <2>3
<1> DEFINE s == Size(p)
           n == p[2]
           m == 2^p[1]
           all == 2^Bits
<1>2. Cover(p) = n * s .. (n + 1) * s - 1 BY DEF Cover
<1>3. Address = 0 .. all - 1 BY DEF Address
<1>4. n \in Nat /\ n + 1 <= m /\ m \in Nat /\ s \in Nat \ {0} /\ all \in Nat /\ m * s = all
      BY <1>1
<1> HIDE DEF s, n, m, all
<1>5. n * s \in Nat /\ (n + 1) * s = n * s + s BY <1>4
<1>6. (n + 1) * s <= m * s BY <1>4
<1>7. Cover(p) \subseteq Address /\ n * s \in Cover(p)
      BY <1>2, <1>3, <1>4, <1>5, <1>6
<1>8. IsFiniteSet(Cover(p)) /\ Cardinality(Cover(p)) = s
  <2>1. n * s <= (n + 1) * s - 1 /\ ((n + 1) * s - 1) - n * s + 1 = s
        /\ (n + 1) * s - 1 \in Int
        BY <1>4, <1>5
  <2> QED BY <1>2, <1>5, <2>1, FS_Interval
<1> QED BY <1>4, <1>7, <1>8 DEF s, n

\* (P3) A shorter prefix of the prefix is that of the address.
LEMMA CutAt ==
  ASSUME NEW a \in Address, NEW len \in 0 .. Bits, NEW k \in 0 .. len
  PROVE  Cut(At(a, len), k) = At(a, k)
<1>1. /\ a \in Nat /\ len \in Nat /\ k \in Nat /\ Bits - len \in Nat
      /\ len - k \in Nat /\ (len - k) + (Bits - len) = Bits - k
      BY PrefixFacts DEF Address
<1>2. 2^(len - k) \in Nat \ {0} /\ 2^(Bits - len) \in Nat \ {0} BY <1>1, PowerType
<1>3. 2^((len - k) + (Bits - len)) = 2^(len - k) * 2^(Bits - len) BY <1>1, PowerSum
<1>4. (a \div 2^(Bits - len)) \div 2^(len - k) = a \div (2^(len - k) * 2^(Bits - len))
      BY <1>1, <1>2, DivDiv
<1>5. (a \div 2^(Bits - len)) \div 2^(len - k) = a \div 2^(Bits - k)
      BY <1>1, <1>3, <1>4
<1> QED BY <1>5 DEF At, Cut

\* How two prefixes lie: apart, or one within the other.
LEMMA WithinCover ==
  ASSUME NEW p \in Prefix, NEW q \in Prefix, NEW a \in Cover(p)
  PROVE  Within(p, q) <=> q[1] <= p[1] /\ a \in Cover(q)
<1>1. /\ p[1] \in 0 .. Bits /\ q[1] \in 0 .. Bits /\ a \in Address /\ At(a, p[1]) = p
      BY PrefixFacts, CoverInside, CoverAt
<1>2. CASE q[1] <= p[1]
  <2>1. q[1] \in 0 .. p[1] BY <1>1, <1>2
  <2>2. Cut(At(a, p[1]), q[1]) = At(a, q[1]) BY <1>1, <2>1, CutAt
  <2>3. Cut(p, q[1]) = At(a, q[1]) BY <1>1, <2>2
  <2> QED BY <1>1, <1>2, <2>3, CoverAt DEF Within
<1>3. CASE ~(q[1] <= p[1])
      BY <1>1, <1>3 DEF Within
<1> QED BY <1>2, <1>3

LEMMA Laminar ==
  ASSUME NEW p \in Prefix, NEW q \in Prefix
  PROVE  /\ Within(p, p)
         /\ Within(p, q) => Cover(p) \subseteq Cover(q) /\ q[1] <= p[1]
         /\ Within(p, q) /\ q[1] = p[1] => p = q
         /\ Within(p, q) /\ Within(q, p) => p = q
         /\ \A a \in Cover(p) \cap Cover(q) : Within(p, q) \/ Within(q, p)
<1>1. PICK a : a \in Cover(p) BY CoverInside
<1>2. p[1] \in 0 .. Bits /\ q[1] \in 0 .. Bits BY PrefixFacts
<1>3. Within(p, p) BY <1>1, <1>2, WithinCover
<1>4. Within(p, q) => Cover(p) \subseteq Cover(q) /\ q[1] <= p[1]
      BY <1>1, WithinCover
<1>5. ASSUME Within(p, q), q[1] = p[1] PROVE p = q
  <2>1. a \in Cover(q) /\ a \in Address BY <1>1, <1>4, <1>5, CoverInside
  <2>2. At(a, p[1]) = p /\ At(a, q[1]) = q BY <1>1, <2>1, CoverAt
  <2> QED BY <1>5, <2>2
<1>6. ASSUME Within(p, q), Within(q, p) PROVE p = q
  <2>1. q[1] <= p[1] /\ p[1] <= q[1] BY <1>6 DEF Within
  <2>2. p[1] = q[1] BY <1>2, <2>1
  <2> QED BY <1>5, <1>6, <2>2
<1>7. ASSUME NEW b \in Cover(p) \cap Cover(q) PROVE Within(p, q) \/ Within(q, p)
  <2>1. q[1] <= p[1] \/ p[1] <= q[1] BY <1>2
  <2>2. b \in Cover(p) /\ b \in Cover(q) BY <1>7
  <2> QED BY <2>1, <2>2, WithinCover
<1> QED BY <1>3, <1>4, <1>5, <1>6, <1>7

LEMMA WithinTransitive ==
  ASSUME NEW p \in Prefix, NEW q \in Prefix, NEW r \in Prefix, Within(p, q), Within(q, r)
  PROVE  Within(p, r)
<1>1. PICK a : a \in Cover(p) BY CoverInside
<1>2. a \in Cover(q) /\ q[1] <= p[1] BY <1>1, WithinCover
<1>3. a \in Cover(r) /\ r[1] <= q[1] BY <1>2, WithinCover
<1>4. r[1] <= p[1] BY <1>2, <1>3, PrefixFacts
<1> QED BY <1>1, <1>3, <1>4, WithinCover

LEMMA CutFacts ==
  ASSUME NEW p \in Prefix, NEW len \in 0 .. p[1]
  PROVE  /\ Cut(p, len) \in Prefix /\ Cut(p, len)[1] = len
         /\ Within(p, Cut(p, len))
         /\ \A a \in Cover(p) : Cut(p, len) = At(a, len)
         /\ \A k \in 0 .. len : Cut(Cut(p, len), k) = Cut(p, k)
<1>1. p[1] \in 0 .. Bits /\ len \in 0 .. Bits BY PrefixFacts
<1>2. ASSUME NEW a \in Cover(p), NEW k \in 0 .. p[1] PROVE Cut(p, k) = At(a, k)
  <2>1. a \in Address /\ At(a, p[1]) = p BY CoverInside, CoverAt
  <2>2. Cut(At(a, p[1]), k) = At(a, k) BY <1>1, <2>1, CutAt
  <2> QED BY <2>1, <2>2
<1>3. PICK a : a \in Cover(p) BY CoverInside
<1>4. a \in Address BY <1>3, CoverInside
<1>5. Cut(p, len) \in Prefix /\ Cut(p, len)[1] = len
      BY <1>1, <1>2, <1>3, <1>4, AtPrefix
<1>6. Within(p, Cut(p, len)) BY <1>1, <1>5 DEF Within
<1>7. ASSUME NEW k \in 0 .. len PROVE Cut(Cut(p, len), k) = Cut(p, k)
  <2>1. k \in 0 .. p[1] BY <1>1
  <2>2. Cut(p, len) = At(a, len) /\ Cut(p, k) = At(a, k) BY <1>2, <1>3, <2>1
  <2>3. Cut(At(a, len), k) = At(a, k) BY <1>1, <1>4, CutAt
  <2> QED BY <2>2, <2>3
<1> QED BY <1>2, <1>5, <1>6, <1>7

\* Addresses with the first k bits in common have fewer in common, too.
LEMMA AtShorter ==
  ASSUME NEW a \in Address, NEW b \in Address, NEW len \in 0 .. Bits, NEW k \in 0 .. len,
         At(a, len) = At(b, len)
  PROVE  At(a, k) = At(b, k)
<1>1. Cut(At(a, len), k) = At(a, k) BY CutAt
<1>2. Cut(At(b, len), k) = At(b, k) BY CutAt
<1> QED BY <1>1, <1>2

\* A prefix but the root is one half of a shorter one, its sibling is the other.
LEMMA HalfFacts ==
  ASSUME NEW m \in Prefix, m # Root
  PROVE  /\ m[1] - 1 \in 0 .. Bits /\ m[1] \in 1 .. Bits
         /\ Cut(m, m[1] - 1) = <<m[1] - 1, m[2] \div 2>>
<1>1. m[1] \in 0 .. Bits /\ m[2] \in 0 .. 2^m[1] - 1 /\ m = <<m[1], m[2]>>
      BY PrefixFacts
<1>2. m[1] # 0
  <2>1. ASSUME m[1] = 0 PROVE FALSE
    <3>1. m[2] \in 0 .. 2^0 - 1 BY <1>1, <2>1
    <3>2. m[2] = 0 BY <3>1, PowerZero
    <3> QED BY <1>1, <2>1, <3>2 DEF Root
  <2> QED BY <2>1
<1>3. m[1] - (m[1] - 1) = 0 + 1 BY <1>1
<1>4. 2^(0 + 1) = 2 BY PowerNext, PowerZero
<1>5. 2^(m[1] - (m[1] - 1)) = 2 BY <1>3, <1>4
<1> QED BY <1>1, <1>2, <1>5, PrefixFacts DEF Cut

LEMMA SiblingFacts ==
  ASSUME NEW m \in Prefix, m # Root
  PROVE  /\ Sibling(m) \in Prefix /\ Sibling(m)[1] = m[1] /\ Sibling(m) # Root
         /\ Sibling(m) # m /\ Sibling(Sibling(m)) = m
         /\ Cut(Sibling(m), m[1] - 1) = Cut(m, m[1] - 1)
         /\ \A x \in Prefix : x[1] = m[1] /\ Cut(x, m[1] - 1) = Cut(m, m[1] - 1)
                                => x = m \/ x = Sibling(m)
<1>1. m[1] \in 1 .. Bits /\ m[2] \in 0 .. 2^m[1] - 1 /\ m = <<m[1], m[2]>>
      BY PrefixFacts, HalfFacts
<1>2. PICK h \in Nat : 2^m[1] = 2 * h
  <2>1. m[1] - 1 \in Nat /\ m[1] = (m[1] - 1) + 1 BY <1>1
  <2>2. 2^((m[1] - 1) + 1) = 2 * 2^(m[1] - 1) BY <2>1, PowerNext
  <2>3. 2^(m[1] - 1) \in Nat BY <2>1, PowerType
  <2> QED BY <2>1, <2>2, <2>3
<1> DEFINE n == m[2]
           s == IF n % 2 = 0 THEN n + 1 ELSE n - 1
<1>3. Sibling(m) = <<m[1], s>> BY DEF Sibling
<1>4. n \in 0 .. 2 * h - 1 BY <1>1, <1>2
<1> HIDE DEF n
<1>5. s \in 0 .. 2 * h - 1 /\ s # n /\ s \div 2 = n \div 2
      /\ n = IF s % 2 = 0 THEN s + 1 ELSE s - 1
      BY <1>4
<1>6. ASSUME NEW y \in Nat, y \div 2 = n \div 2 PROVE y = n \/ y = s
      BY <1>4, <1>6
<1> HIDE DEF s
<1>7. Sibling(m) \in Prefix BY <1>1, <1>2, <1>3, <1>5, PrefixFacts
<1>8. Sibling(m)[1] = m[1] /\ Sibling(m)[2] = s BY <1>3
<1>9. Sibling(m) # Root
  <2>1. m[1] # 0 BY <1>1
  <2> QED BY <1>8, <2>1 DEF Root
<1>10. Sibling(m) # m BY <1>5, <1>8 DEF n
<1>11. Sibling(Sibling(m)) = m BY <1>1, <1>5, <1>8 DEF n, Sibling
<1>12. Cut(m, m[1] - 1) = <<m[1] - 1, n \div 2>> BY HalfFacts DEF n
<1>13. Cut(Sibling(m), m[1] - 1) = <<m[1] - 1, s \div 2>>
       BY <1>7, <1>8, <1>9, HalfFacts
<1>14. ASSUME NEW x \in Prefix, x[1] = m[1], Cut(x, m[1] - 1) = Cut(m, m[1] - 1)
       PROVE  x = m \/ x = Sibling(m)
  <2>1. x # Root
    <3>1. m[1] # 0 BY <1>1
    <3> QED BY <1>14, <3>1 DEF Root
  <2>2. Cut(x, m[1] - 1) = <<m[1] - 1, x[2] \div 2>> BY <1>14, <2>1, HalfFacts
  <2>3. x[2] \in Nat /\ x = <<x[1], x[2]>>
    <3>1. x[1] \in 0 .. Bits /\ x[2] \in 0 .. 2^x[1] - 1 /\ x = <<x[1], x[2]>>
          BY PrefixFacts
    <3> QED BY <3>1
  <2>4. x[2] \div 2 = n \div 2 BY <1>12, <1>14, <2>2
  <2>5. x[2] = n \/ x[2] = s BY <1>6, <2>3, <2>4
  <2> QED BY <1>1, <1>3, <1>14, <2>3, <2>5 DEF n
<1> QED BY <1>5, <1>7, <1>8, <1>9, <1>10, <1>11, <1>12, <1>13, <1>14

\* An address of the shorter prefix is in one of the halves.
LEMMA HalvesCover ==
  ASSUME NEW m \in Prefix, m # Root, NEW a \in Address,
         At(a, m[1] - 1) = Cut(m, m[1] - 1)
  PROVE  a \in Cover(m) \/ a \in Cover(Sibling(m))
<1>1. m[1] \in 1 .. Bits BY HalfFacts
<1>2. m[1] - 1 \in 0 .. m[1] /\ m[1] \in 0 .. Bits BY <1>1
<1>3. At(a, m[1]) \in Prefix /\ At(a, m[1])[1] = m[1] BY <1>2, AtPrefix
<1>4. Cut(At(a, m[1]), m[1] - 1) = At(a, m[1] - 1) BY <1>2, CutAt
<1>5. At(a, m[1]) = m \/ At(a, m[1]) = Sibling(m) BY <1>3, <1>4, SiblingFacts
<1> QED BY <1>5, CoverAt, SiblingFacts

-----------------------------------------------------------------------------
(* Setting a prefix *)

\* The leaves lie apart and leave no address out.
IsTree(t) ==
  /\ DOMAIN t \subseteq Prefix /\ t \in [DOMAIN t -> Values]
  /\ \A a \in Address : \E q \in DOMAIN t : a \in Cover(q)
  /\ \A q, r \in DOMAIN t : Within(q, r) => q = r

ValueAt(t, a) == t[CHOOSE q \in DOMAIN t : a \in Cover(q)]

LEMMA LeafUnique ==
  ASSUME NEW t, IsTree(t), NEW q \in DOMAIN t, NEW r \in DOMAIN t,
         NEW a, a \in Cover(q), a \in Cover(r)
  PROVE  q = r
<1>1. q \in Prefix /\ r \in Prefix BY DEF IsTree
<1>2. Within(q, r) \/ Within(r, q) BY <1>1, Laminar
<1> QED BY <1>2 DEF IsTree

LEMMA LeafValue ==
  ASSUME NEW t, IsTree(t), NEW q \in DOMAIN t, NEW a \in Cover(q)
  PROVE  ValueAt(t, a) = t[q]
<1> DEFINE r == CHOOSE x \in DOMAIN t : a \in Cover(x)
<1>1. r \in DOMAIN t /\ a \in Cover(r) OBVIOUS
<1>2. r = q BY <1>1, LeafUnique
<1> QED BY <1>2 DEF ValueAt

\* The nodes on the way down, and what hangs beside them.
LEMMA PathFacts ==
  ASSUME NEW p \in Prefix, NEW o \in Prefix, Within(p, o), NEW m \in Path(p, o)
  PROVE  /\ m \in Prefix /\ m # Root /\ Within(p, m)
         /\ m[1] \in o[1] + 1 .. p[1] /\ m = Cut(p, m[1])
<1>1. p[1] \in 0 .. Bits /\ o[1] \in 0 .. Bits /\ o[1] <= p[1]
      BY PrefixFacts DEF Within
<1>2. PICK len \in o[1] + 1 .. p[1] : m = Cut(p, len) BY DEF Path
<1>3. len \in 0 .. p[1] /\ len # 0 BY <1>1, <1>2
<1>4. m \in Prefix /\ m[1] = len /\ Within(p, m) BY <1>2, <1>3, CutFacts
<1>5. m # Root BY <1>3, <1>4 DEF Root
<1> QED BY <1>2, <1>4, <1>5

LEMMA BesideFacts ==
  ASSUME NEW p \in Prefix, NEW o \in Prefix, Within(p, o), NEW m \in Path(p, o)
  PROVE  /\ Sibling(m) \in Prefix /\ Sibling(m)[1] = m[1]
         /\ \A k \in 0 .. m[1] - 1 : Cut(Sibling(m), k) = Cut(p, k)
         /\ Within(Sibling(m), o) /\ Sibling(m) # o
         /\ ~Within(Sibling(m), p) /\ ~Within(p, Sibling(m))
<1>1. /\ p[1] \in 0 .. Bits /\ o[1] \in 0 .. Bits /\ Cut(p, o[1]) = o
      /\ p = <<p[1], p[2]>>
      BY PrefixFacts DEF Within
<1>2. /\ m \in Prefix /\ m # Root /\ m[1] \in o[1] + 1 .. p[1] /\ m = Cut(p, m[1])
      BY PathFacts
<1> DEFINE s == Sibling(m)
<1>3. /\ s \in Prefix /\ s[1] = m[1] /\ s # m /\ Cut(s, m[1] - 1) = Cut(m, m[1] - 1)
      BY <1>2, SiblingFacts
<1> HIDE DEF s
<1>4. m[1] - 1 \in 0 .. m[1] /\ m[1] \in 0 .. p[1] BY <1>1, <1>2
<1>5. ASSUME NEW k \in 0 .. m[1] - 1 PROVE Cut(s, k) = Cut(p, k)
  <2>1. k \in 0 .. m[1] BY <1>4
  <2>2. Cut(Cut(s, m[1] - 1), k) = Cut(s, k) BY <1>3, <1>4, CutFacts
  <2>3. Cut(Cut(m, m[1] - 1), k) = Cut(m, k) BY <1>2, <1>4, CutFacts
  <2>4. Cut(Cut(p, m[1]), k) = Cut(p, k) BY <1>4, <2>1, CutFacts
  <2> QED BY <1>2, <1>3, <2>2, <2>3, <2>4
<1>6. Within(s, o) /\ s # o
  <2>1. o[1] \in 0 .. m[1] - 1 /\ o[1] <= s[1] /\ o[1] # s[1] BY <1>1, <1>2, <1>3
  <2>2. Cut(s, o[1]) = o BY <1>1, <1>5, <2>1
  <2> QED BY <2>1, <2>2 DEF Within
<1>7. ~Within(p, s)
  <2>1. Cut(p, s[1]) = m BY <1>2, <1>3
  <2> QED BY <1>3, <2>1 DEF Within
<1>8. ~Within(s, p)
  <2>1. ASSUME Within(s, p) PROVE FALSE
    <3>1. p[1] <= s[1] BY <2>1 DEF Within
    <3>2. p[1] = s[1] BY <1>1, <1>2, <1>3, <3>1
    <3>3. s = p BY <1>3, <2>1, <3>2, Laminar
    <3>4. Within(p, p) BY Laminar
    <3> QED BY <1>7, <3>3, <3>4
  <2> QED BY <2>1
<1> QED BY <1>3, <1>5, <1>6, <1>7, <1>8 DEF s

LEMMA BesideApart ==
  ASSUME NEW p \in Prefix, NEW o \in Prefix, Within(p, o),
         NEW m \in Path(p, o), NEW n \in Path(p, o), Within(Sibling(m), Sibling(n))
  PROVE  m = n
<1>1. /\ m[1] \in 0 .. Bits /\ n[1] \in 0 .. Bits /\ m = Cut(p, m[1]) /\ n = Cut(p, n[1])
      /\ n # Root /\ n \in Prefix /\ n[1] # 0
  <2>1. o[1] \in 0 .. Bits /\ p[1] \in 0 .. Bits BY PrefixFacts
  <2> QED BY <2>1, PathFacts, PrefixFacts
<1>2. /\ Sibling(m)[1] = m[1] /\ Sibling(n)[1] = n[1]
      /\ \A k \in 0 .. m[1] - 1 : Cut(Sibling(m), k) = Cut(p, k)
      BY BesideFacts
<1>3. n[1] <= m[1] /\ Cut(Sibling(m), n[1]) = Sibling(n) BY <1>2 DEF Within
<1>4. ASSUME n[1] # m[1] PROVE FALSE
  <2>1. n[1] \in 0 .. m[1] - 1 BY <1>1, <1>3, <1>4
  <2>2. Sibling(n) = n BY <1>1, <1>2, <1>3, <2>1
  <2> QED BY <1>1, <2>2, SiblingFacts
<1> QED BY <1>1, <1>4

\* What is in o is in p, or beside the first node whose bits it has not.
LEMMA BesideCover ==
  ASSUME NEW p \in Prefix, NEW o \in Prefix, Within(p, o), NEW a \in Cover(o),
         a \notin Cover(p)
  PROVE  \E m \in Path(p, o) : a \in Cover(Sibling(m))
<1>1. /\ p[1] \in 0 .. Bits /\ o[1] \in 0 .. Bits /\ o[1] <= p[1] /\ a \in Address
      BY PrefixFacts, CoverInside DEF Within
<1>2. PICK b : b \in Cover(p) BY CoverInside
<1>3. b \in Address /\ b \in Cover(o) BY <1>2, CoverInside, Laminar
<1> DEFINE L == {len \in 0 .. p[1] : At(a, len) # At(b, len)}
<1>4. p[1] \in L
  <2>1. At(b, p[1]) = p /\ At(a, p[1]) # p BY <1>1, <1>2, <1>3, CoverAt
  <2> QED BY <1>1, <2>1
<1>5. PICK len \in L : \A k \in L : len <= k
  <2>1. L \subseteq Nat /\ L # {} BY <1>1, <1>4
  <2> HIDE DEF L
  <2> QED BY <2>1, LeastNumber
<1>6. o[1] < len
  <2>1. ASSUME ~(o[1] < len) PROVE FALSE
    <3>1. len \in 0 .. o[1] BY <1>1, <2>1
    <3>2. At(a, o[1]) = o /\ At(b, o[1]) = o BY <1>1, <1>3, CoverAt
    <3>3. At(a, len) = At(b, len) BY <1>1, <1>3, <3>1, <3>2, AtShorter
    <3> QED BY <3>3
  <2> QED BY <2>1, <1>1
<1> DEFINE m == Cut(p, len)
<1>7. /\ len \in 1 .. p[1] /\ len \in o[1] + 1 .. p[1] /\ len - 1 \in 0 .. p[1]
      /\ len - 1 \notin L
      BY <1>1, <1>5, <1>6
<1>8. m \in Path(p, o) BY <1>7 DEF Path
<1>9. m \in Prefix /\ m # Root /\ m[1] = len /\ m = At(b, len)
      /\ Cut(m, len - 1) = At(b, len - 1)
  <2>1. m = At(b, len) /\ Cut(p, len - 1) = At(b, len - 1)
        BY <1>2, <1>7, CutFacts
  <2>2. len - 1 \in 0 .. len /\ len \in 0 .. p[1] BY <1>7
  <2>3. Cut(m, len - 1) = Cut(p, len - 1) BY <2>2, CutFacts
  <2>4. m[1] = len BY <2>2, CutFacts
  <2> QED BY <1>8, <2>1, <2>3, <2>4, PathFacts
<1>10. At(a, len - 1) = At(b, len - 1) BY <1>7
<1>11. At(a, len) # At(b, len) OBVIOUS
<1> HIDE DEF m, L
<1>12. a \in Cover(m) \/ a \in Cover(Sibling(m)) BY <1>1, <1>9, <1>10, HalvesCover
<1>13. a \notin Cover(m) BY <1>1, <1>9, <1>11, CoverAt
<1> QED BY <1>8, <1>12, <1>13

\* No two leaves could be one; or only p and its sibling could.
IsCompact(t) ==
  \A q \in DOMAIN t \ {Root} : Sibling(q) \in DOMAIN t => t[Sibling(q)] # t[q]
CompactBut(t, p) ==
  \A q \in DOMAIN t \ {Root} :
    Sibling(q) \in DOMAIN t /\ t[Sibling(q)] = t[q] => q = p \/ Sibling(q) = p

LEMMA OverOne ==
  ASSUME NEW t, IsTree(t), NEW p \in Prefix, NEW o \in Over(t, p), NEW q \in DOMAIN t,
         Within(q, p) \/ Within(p, q)
  PROVE  q = o
<1>1. o \in DOMAIN t /\ o \in Prefix /\ q \in Prefix /\ Within(p, o)
      BY DEF Over, IsTree
<1>2. CASE Within(q, p)
  <2>1. Within(q, o) BY <1>1, <1>2, WithinTransitive
  <2> QED BY <1>1, <2>1 DEF IsTree
<1>3. CASE Within(p, q)
  <2>1. PICK a : a \in Cover(p) BY CoverInside
  <2>2. a \in Cover(o) /\ a \in Cover(q) BY <1>1, <1>3, <2>1, Laminar
  <2> QED BY <1>1, <2>2, LeafUnique
<1> QED BY <1>2, <1>3

LEMMA PutFacts ==
  ASSUME NEW t, IsTree(t), IsCompact(t), NEW p \in Prefix, NEW v \in Values
  PROVE  /\ IsTree(Put(t, p, v)) /\ CompactBut(Put(t, p, v), p)
         /\ p \in DOMAIN Put(t, p, v) /\ Put(t, p, v)[p] = v
         /\ \A a \in Address : ValueAt(Put(t, p, v), a)
                                 = IF a \in Cover(p) THEN v ELSE ValueAt(t, a)
<1> DEFINE u == Put(t, p, v)
           kept == {q \in DOMAIN t : ~Within(q, p) /\ ~Within(p, q)}
           split == {Sibling(m) : m \in UNION {Path(p, q) : q \in Over(t, p)}}
           other == t[CHOOSE o \in Over(t, p) : TRUE]
<1>1. /\ DOMAIN u = kept \cup split \cup {p}
      /\ \A q \in DOMAIN u : u[q] = IF q = p THEN v ELSE IF q \in kept THEN t[q] ELSE other
      BY DEF Put
<1>2. ASSUME NEW s \in split
      PROVE  \E o \in Over(t, p) : \E m \in Path(p, o) :
               /\ s = Sibling(m) /\ m \in Prefix /\ m # Root /\ Within(p, m)
               /\ s \in Prefix /\ Within(s, o) /\ ~Within(s, p) /\ ~Within(p, s)
               /\ o \in DOMAIN t /\ o \in Prefix /\ Within(p, o)
               /\ s \notin kept /\ s # p /\ Sibling(s) = m
  <2>0. PICK o \in Over(t, p) : \E m \in Path(p, o) : s = Sibling(m) OBVIOUS
  <2>1. PICK m \in Path(p, o) : s = Sibling(m) BY <2>0
  <2>2. o \in DOMAIN t /\ o \in Prefix /\ Within(p, o) BY DEF Over, IsTree
  <2>3. m \in Prefix /\ m # Root /\ Within(p, m) BY <2>2, PathFacts
  <2>4. s \in Prefix /\ Within(s, o) /\ s # o /\ ~Within(s, p) /\ ~Within(p, s)
        BY <2>1, <2>2, BesideFacts
  <2>5. s \notin DOMAIN t BY <2>2, <2>4 DEF IsTree
  <2>6. s # p BY <2>4, Laminar
  <2>7. Sibling(s) = m BY <2>1, <2>3, SiblingFacts
  <2> QED BY <2>1, <2>2, <2>3, <2>4, <2>5, <2>6, <2>7
<1>3. \A q \in kept : q \in DOMAIN t /\ q \in Prefix /\ ~Within(q, p) /\ ~Within(p, q)
                      /\ q # p
  <2>1. Within(p, p) BY Laminar
  <2> QED BY <2>1 DEF IsTree
<1>4. \A o \in Over(t, p) : /\ \A q \in Over(t, p) : q = o
                            /\ o \in DOMAIN t /\ o \in Prefix /\ other = t[o]
  <2>1. \A o, q \in Over(t, p) : q = o BY OverOne DEF Over
  <2>2. \A o \in Over(t, p) : o = CHOOSE x \in Over(t, p) : TRUE BY <2>1
  <2> QED BY <2>1, <2>2 DEF Over, IsTree
<1> HIDE DEF u, kept, split, other
<1>5. DOMAIN u \subseteq Prefix BY <1>1, <1>2, <1>3
<1>6. ASSUME NEW q \in DOMAIN u PROVE u[q] \in Values
  <2>1. \A r \in DOMAIN t : t[r] \in Values BY DEF IsTree
  <2>2. CASE q \in split
    <3>1. PICK o \in Over(t, p) : TRUE BY <1>2, <2>2
    <3>2. other \in Values BY <1>4, <2>1, <3>1
    <3> QED BY <1>1, <1>2, <2>2, <3>2
  <2>3. CASE q \in kept BY <1>1, <1>3, <2>1, <2>3
  <2>4. CASE q = p BY <1>1, <2>4
  <2> QED BY <1>1, <2>2, <2>3, <2>4
<1>7. u \in [DOMAIN u -> Values]
  <2>1. u = [q \in DOMAIN u |-> u[q]]
    <3>1. u = [q \in kept \cup split \cup {p} |->
                 IF q = p THEN v ELSE IF q \in kept THEN t[q] ELSE other]
          BY DEF Put, u, kept, split, other
    <3> QED BY <3>1
  <2> QED BY <1>6, <2>1
\* the leaves before and after that an address is in
<1>8. ASSUME NEW a \in Address
      PROVE  \E q \in DOMAIN u :
               /\ a \in Cover(q)
               /\ u[q] = IF a \in Cover(p) THEN v ELSE ValueAt(t, a)
  <2>1. PICK r \in DOMAIN t : a \in Cover(r) BY DEF IsTree
  <2>2. r \in Prefix /\ ValueAt(t, a) = t[r] BY <2>1, LeafValue DEF IsTree
  <2>3. CASE a \in Cover(p) BY <1>1, <2>3
  <2>4. CASE a \notin Cover(p) /\ r \in kept
        BY <1>1, <1>3, <2>1, <2>2, <2>4
  <2>5. CASE a \notin Cover(p) /\ r \notin kept
    <3>1. Within(r, p) \/ Within(p, r) BY <2>5 DEF kept
    <3>2. ~Within(r, p) BY <2>1, <2>2, <2>5, Laminar
    <3>3. Within(p, r) /\ r # p BY <3>1, <3>2
    <3>4. r \in Over(t, p) BY <3>3 DEF Over
    <3>5. PICK m \in Path(p, r) : a \in Cover(Sibling(m))
          BY <2>1, <2>2, <2>5, <3>3, BesideCover
    <3>6. Sibling(m) \in split BY <3>4 DEF split
    <3>7. Sibling(m) \notin kept /\ Sibling(m) # p BY <1>2, <3>6
    <3>8. u[Sibling(m)] = t[r] BY <1>1, <1>4, <3>4, <3>6, <3>7
    <3> QED BY <1>1, <2>2, <2>5, <3>5, <3>6, <3>8
  <2> QED BY <2>3, <2>4, <2>5
<1>9. ASSUME NEW q \in DOMAIN u, NEW r \in DOMAIN u, Within(q, r) PROVE q = r
  <2>1. CASE q = p
    <3>1. r \notin kept /\ r \notin split BY <1>2, <1>3, <1>9, <2>1
    <3> QED BY <1>1, <2>1, <3>1
  <2>2. CASE r = p
    <3>1. q \notin kept /\ q \notin split BY <1>2, <1>3, <1>9, <2>2
    <3> QED BY <1>1, <2>2, <3>1
  <2>3. CASE q \in kept /\ r \in kept BY <1>3, <1>9, <2>3 DEF IsTree
  <2>4. CASE q \in split /\ r \in split
    <3>1. PICK o \in Over(t, p) : /\ \E m \in Path(p, o) : q = Sibling(m)
                                 /\ Within(p, o) /\ o \in Prefix
          BY <1>2, <2>4
    <3>2. PICK m \in Path(p, o) : q = Sibling(m) BY <3>1
    <3>3. \E n \in Path(p, o) : r = Sibling(n) BY <1>2, <1>4, <2>4
    <3>4. PICK n \in Path(p, o) : r = Sibling(n) BY <3>3
    <3>5. m = n BY <1>9, <3>1, <3>2, <3>4, BesideApart
    <3> QED BY <3>2, <3>4, <3>5
  <2>5. CASE q \in kept /\ r \in split
    <3>1. PICK o \in Over(t, p) : Within(r, o) /\ o \in DOMAIN t /\ o \in Prefix /\ Within(p, o)
                                 /\ r \in Prefix
          BY <1>2, <2>5
    <3>2. q \in Prefix /\ q \in DOMAIN t BY <1>3, <2>5
    <3>3. Within(q, o) BY <1>9, <3>1, <3>2, WithinTransitive
    <3>4. q = o BY <3>1, <3>2, <3>3 DEF IsTree
    <3> QED BY <1>3, <2>5, <3>1, <3>4
  <2>6. CASE q \in split /\ r \in kept
    <3>1. PICK o \in Over(t, p) : Within(q, o) /\ o \in DOMAIN t /\ o \in Prefix /\ Within(p, o)
                                 /\ q \in Prefix
          BY <1>2, <2>6
    <3>2. r \in Prefix /\ r \in DOMAIN t BY <1>3, <2>6
    <3>3. PICK a : a \in Cover(q) BY <3>1, CoverInside
    <3>4. a \in Cover(r) /\ a \in Cover(o) BY <1>9, <3>1, <3>2, <3>3, Laminar
    <3>5. r = o BY <3>1, <3>2, <3>4, LeafUnique
    <3> QED BY <1>3, <2>6, <3>1, <3>5
  <2> QED BY <1>1, <2>1, <2>2, <2>3, <2>4, <2>5, <2>6
<1>10. IsTree(u) BY <1>5, <1>7, <1>8, <1>9 DEF IsTree
<1>11. ASSUME NEW a \in Address
       PROVE  ValueAt(u, a) = IF a \in Cover(p) THEN v ELSE ValueAt(t, a)
  <2>1. PICK q \in DOMAIN u : a \in Cover(q)
                              /\ u[q] = IF a \in Cover(p) THEN v ELSE ValueAt(t, a)
        BY <1>8
  <2>2. ValueAt(u, a) = u[q] BY <1>10, <2>1, LeafValue
  <2> QED BY <2>1, <2>2
<1>12. CompactBut(u, p)
  <2> SUFFICES ASSUME NEW q \in DOMAIN u \ {Root}, Sibling(q) \in DOMAIN u,
                      u[Sibling(q)] = u[q], q # p, Sibling(q) # p
               PROVE  FALSE
      BY DEF CompactBut
  <2>0. q \in Prefix BY <1>5
  <2>1. Sibling(q) \in Prefix /\ Sibling(Sibling(q)) = q BY <2>0, SiblingFacts
  <2>2. p \in DOMAIN u BY <1>1
  <2>3. CASE q \in kept /\ Sibling(q) \in kept
    <3>1. t[q] = u[q] /\ t[Sibling(q)] = u[Sibling(q)] BY <1>1, <2>3
    <3>2. q \in DOMAIN t \ {Root} /\ Sibling(q) \in DOMAIN t BY <1>3, <2>3
    <3> QED BY <3>1, <3>2 DEF IsCompact
  <2>4. CASE q \in split
    <3>1. Within(p, Sibling(q)) BY <1>2, <2>4
    <3> QED BY <1>9, <2>2, <3>1
  <2>5. CASE Sibling(q) \in split
    <3>1. Within(p, q) BY <1>2, <2>1, <2>5
    <3> QED BY <1>9, <2>2, <3>1
  <2> QED BY <1>1, <2>3, <2>4, <2>5
<1> QED BY <1>1, <1>10, <1>11, <1>12 DEF u

LEMMA MergeFacts ==
  ASSUME NEW t, IsTree(t), NEW p \in DOMAIN t, NEW v \in Values, t[p] = v,
         CompactBut(t, p)
  PROVE  /\ IsTree(Merge(t, p, v)) /\ IsCompact(Merge(t, p, v))
         /\ \A a \in Address : ValueAt(Merge(t, p, v), a) = ValueAt(t, a)
<1> DEFINE merges(m) == Sibling(m) \in DOMAIN t /\ t[Sibling(m)] = v
           L == {len \in 0 .. p[1] : \A m \in Path(p, Cut(p, len)) : merges(m)}
           k == Min(L)
           top == Cut(p, k)
           u == Merge(t, p, v)
           kept == {r \in DOMAIN t : ~Within(r, top)}
<1>1. /\ DOMAIN u = kept \cup {top}
      /\ \A q \in DOMAIN u : u[q] = IF q = top THEN v ELSE t[q]
      /\ u = [q \in kept \cup {top} |-> IF q = top THEN v ELSE t[q]]
      BY DEF Merge
<1>2. p \in Prefix /\ p[1] \in 0 .. Bits BY PrefixFacts DEF IsTree
<1>3. k \in L /\ \A len \in L : k <= len
  <2>1. p[1] \in L
    <3>1. p[1] \in 0 .. p[1] BY <1>2
    <3>2. Cut(p, p[1])[1] = p[1] BY <1>2, <3>1, CutFacts
    <3>3. Path(p, Cut(p, p[1])) = {} BY <1>2, <3>2 DEF Path
    <3> QED BY <3>1, <3>3
  <2>2. L \subseteq Nat BY <1>2
  <2> HIDE DEF L
  <2>3. \E x \in L : \A y \in L : x <= y BY <2>1, <2>2, LeastNumber
  <2> QED BY <2>3 DEF Min
<1>4. k \in 0 .. p[1] /\ \A m \in Path(p, top) : merges(m) BY <1>3
<1> HIDE DEF k, u, kept
<1>5. top \in Prefix /\ top[1] = k /\ Within(p, top) BY <1>2, <1>4, CutFacts
<1>6. ASSUME k # 0, merges(top) PROVE FALSE
  <2>1. k - 1 \in 0 .. p[1] /\ ~(k <= k - 1) BY <1>2, <1>4, <1>6
  <2>2. Cut(p, k - 1)[1] = k - 1 BY <1>2, <2>1, CutFacts
  <2>3. ASSUME NEW m \in Path(p, Cut(p, k - 1)) PROVE merges(m)
    <3>1. PICK len \in k - 1 + 1 .. p[1] : m = Cut(p, len) BY <2>2 DEF Path
    <3>2. CASE len = k BY <1>6, <3>1, <3>2
    <3>3. CASE len # k
      <4>1. len \in k + 1 .. p[1] BY <1>2, <1>4, <3>1, <3>3
      <4>2. m \in Path(p, top) BY <1>5, <3>1, <4>1 DEF Path
      <4> QED BY <1>4, <4>2
    <3> QED BY <3>2, <3>3
  <2>4. k - 1 \in L BY <2>1, <2>3
  <2> QED BY <1>3, <2>1, <2>4
<1> HIDE DEF L, top
\* what lies under top has the value
<1>7. ASSUME NEW r \in DOMAIN t, Within(r, top) PROVE t[r] = v
  <2>1. r \in Prefix BY DEF IsTree
  <2>2. PICK a : a \in Cover(r) BY <2>1, CoverInside
  <2>3. a \in Cover(top) BY <1>5, <1>7, <2>1, <2>2, Laminar
  <2>4. CASE a \in Cover(p) BY <2>2, <2>4, LeafUnique
  <2>5. CASE a \notin Cover(p)
    <3>1. PICK m \in Path(p, top) : a \in Cover(Sibling(m))
          BY <1>2, <1>5, <2>3, <2>5, BesideCover
    <3>2. Sibling(m) \in DOMAIN t /\ t[Sibling(m)] = v BY <1>4, <3>1
    <3>3. r = Sibling(m) BY <2>2, <3>1, <3>2, LeafUnique
    <3> QED BY <3>2, <3>3
  <2> QED BY <2>4, <2>5
<1>8. ASSUME NEW r \in DOMAIN t, Within(top, r) PROVE Within(r, top)
  <2>1. r \in Prefix BY DEF IsTree
  <2>2. Within(p, r) BY <1>2, <1>5, <1>8, <2>1, WithinTransitive
  <2>3. r = p BY <2>2 DEF IsTree
  <2> QED BY <1>5, <2>3
<1>9. \A r \in kept : r \in DOMAIN t /\ r \in Prefix /\ ~Within(r, top) /\ ~Within(top, r)
                      /\ r # top
  <2>1. Within(top, top) BY <1>5, Laminar
  <2> QED BY <1>8, <2>1 DEF kept, IsTree
<1>10. DOMAIN u \subseteq Prefix /\ u \in [DOMAIN u -> Values]
  <2>1. \A q \in DOMAIN u : u[q] \in Values BY <1>1, <1>9 DEF IsTree
  <2> QED BY <1>1, <1>5, <1>9, <2>1
<1>11. ASSUME NEW a \in Address
       PROVE  \E q \in DOMAIN u : a \in Cover(q) /\ u[q] = ValueAt(t, a)
  <2>1. PICK r \in DOMAIN t : a \in Cover(r) BY DEF IsTree
  <2>2. r \in Prefix /\ ValueAt(t, a) = t[r] BY <2>1, LeafValue DEF IsTree
  <2>3. CASE r \in kept BY <1>1, <1>9, <2>1, <2>2, <2>3
  <2>4. CASE r \notin kept
    <3>1. Within(r, top) BY <2>4 DEF kept
    <3>2. a \in Cover(top) BY <1>5, <2>1, <2>2, <3>1, Laminar
    <3>3. t[r] = v BY <1>7, <3>1
    <3> QED BY <1>1, <2>2, <3>2, <3>3
  <2> QED BY <2>3, <2>4
<1>12. ASSUME NEW q \in DOMAIN u, NEW r \in DOMAIN u, Within(q, r) PROVE q = r
  <2>1. CASE q \in kept /\ r \in kept BY <1>9, <1>12, <2>1 DEF IsTree
  <2>2. CASE q = top \/ r = top BY <1>1, <1>9, <1>12, <2>2
  <2> QED BY <1>1, <2>1, <2>2
<1>13. IsTree(u) BY <1>10, <1>11, <1>12 DEF IsTree
<1>14. ASSUME NEW a \in Address PROVE ValueAt(u, a) = ValueAt(t, a)
  <2>1. PICK q \in DOMAIN u : a \in Cover(q) /\ u[q] = ValueAt(t, a) BY <1>11
  <2> QED BY <1>13, <2>1, LeafValue
<1>15. IsCompact(u)
  <2> SUFFICES ASSUME NEW q \in DOMAIN u \ {Root}, Sibling(q) \in DOMAIN u,
                      u[Sibling(q)] = u[q]
               PROVE  FALSE
      BY DEF IsCompact
  <2>0. q \in Prefix BY <1>10
  <2>1. Sibling(q) \in Prefix /\ Sibling(Sibling(q)) = q /\ Sibling(q) # q
        /\ Sibling(q) # Root
        BY <2>0, SiblingFacts
  <2>2. top # Root => k # 0
    <3>1. ASSUME top[1] = 0 PROVE top = Root
          BY <3>1, <1>5, HalfFacts
    <3> QED BY <1>5, <3>1
  <2>3. CASE q = top
    <3>1. Sibling(top) \in kept BY <1>1, <2>1, <2>3
    <3>2. t[Sibling(top)] = v BY <1>1, <1>9, <2>3, <3>1
    <3> QED BY <1>6, <1>9, <2>2, <2>3, <3>1, <3>2
  <2>4. CASE Sibling(q) = top
    <3>1. q = Sibling(top) /\ q \in kept BY <1>1, <2>1, <2>4
    <3>2. t[q] = v BY <1>1, <1>9, <2>4, <3>1
    <3> QED BY <1>6, <1>9, <2>1, <2>2, <2>4, <3>1, <3>2
  <2>5. CASE q # top /\ Sibling(q) # top
    <3>1. q \in kept /\ Sibling(q) \in kept BY <1>1, <2>5
    <3>2. t[q] = u[q] /\ t[Sibling(q)] = u[Sibling(q)] BY <1>1, <2>5
    <3>3. q = p \/ Sibling(q) = p BY <1>9, <3>1, <3>2 DEF CompactBut
    <3> QED BY <1>5, <1>9, <3>1, <3>3
  <2> QED BY <2>3, <2>4, <2>5
<1> QED BY <1>13, <1>14, <1>15 DEF u

\* Setting a prefix gives a tree as small as it was, that differs in the
\* addresses of the prefix.
LEMMA SetFacts ==
  ASSUME NEW t, IsTree(t), IsCompact(t), NEW p \in Prefix, NEW v \in Values
  PROVE  /\ IsTree(set_recurse(t, p, v)) /\ IsCompact(set_recurse(t, p, v))
         /\ \A a \in Address : ValueAt(set_recurse(t, p, v), a)
                                 = IF a \in Cover(p) THEN v ELSE ValueAt(t, a)
<1>1. CASE \E q \in Over(t, p) : t[q] = v
  <2> DEFINE o == CHOOSE q \in Over(t, p) : TRUE
  <2>1. set_recurse(t, p, v) = Merge(t, o, v) BY <1>1 DEF set_recurse
  <2>2. o \in Over(t, p) BY <1>1
  <2>3. \A q \in Over(t, p) : q = o BY <2>2, OverOne DEF Over
  <2>4. o \in DOMAIN t /\ o \in Prefix /\ Within(p, o) /\ t[o] = v
        BY <1>1, <2>2, <2>3 DEF Over, IsTree
  <2>5. CompactBut(t, o) BY DEF IsCompact, CompactBut
  <2> HIDE DEF o
  <2>6. /\ IsTree(Merge(t, o, v)) /\ IsCompact(Merge(t, o, v))
        /\ \A a \in Address : ValueAt(Merge(t, o, v), a) = ValueAt(t, a)
        BY <2>4, <2>5, MergeFacts
  <2>7. \A a \in Cover(p) : ValueAt(t, a) = v
    <3>1. Cover(p) \subseteq Cover(o) BY <2>4, Laminar
    <3> QED BY <2>4, <3>1, LeafValue
  <2> QED BY <2>1, <2>6, <2>7
<1>2. CASE ~\E q \in Over(t, p) : t[q] = v
  <2>1. set_recurse(t, p, v) = Merge(Put(t, p, v), p, v) BY <1>2 DEF set_recurse
  <2> DEFINE u == Put(t, p, v)
  <2>2. /\ IsTree(u) /\ CompactBut(u, p) /\ p \in DOMAIN u /\ u[p] = v
        /\ \A a \in Address : ValueAt(u, a) = IF a \in Cover(p) THEN v ELSE ValueAt(t, a)
        BY PutFacts
  <2> HIDE DEF u
  <2>3. /\ IsTree(Merge(u, p, v)) /\ IsCompact(Merge(u, p, v))
        /\ \A a \in Address : ValueAt(Merge(u, p, v), a) = ValueAt(u, a)
        BY <2>2, MergeFacts
  <2>4. set_recurse(t, p, v) = Merge(u, p, v) BY <2>1 DEF u
  <2> QED BY <2>2, <2>3, <2>4
<1> QED BY <1>1, <1>2

-----------------------------------------------------------------------------
(* Counting: as many addresses as the sizes of the leaves add up to. *)

LEMMA FiniteAddresses ==
  IsFiniteSet(Address) /\ IsFiniteSet(Prefix) /\ 2^Bits \in Nat \ {0}
  /\ Cardinality(Address) = 2^Bits
<1>1. Bits \in 0 .. Bits BY PrefixFacts
<1>2. 2^Bits \in Nat \ {0} BY <1>1, SizeFacts
<1>3. IsFiniteSet(Address) /\ Cardinality(Address) = 2^Bits
  <2> DEFINE all == 2^Bits
  <2>1. all \in Nat \ {0} /\ Address = 0 .. all - 1 BY <1>2 DEF Address
  <2> HIDE DEF all
  <2>2. IsFiniteSet(0 .. all - 1) /\ Cardinality(0 .. all - 1) = all
        BY <2>1, FS_Interval
  <2> QED BY <2>1, <2>2 DEF all
<1>4. IsFiniteSet((0 .. Bits) \X Address)
  <2>0. 0 \in Int /\ Bits \in Int BY PrefixFacts
  <2>1. IsFiniteSet(0 .. Bits) BY <2>0, FS_Interval
  <2> QED BY <1>3, <2>1, FS_Product
<1>5. Prefix \subseteq (0 .. Bits) \X Address
  <2> SUFFICES ASSUME NEW p \in Prefix PROVE p \in (0 .. Bits) \X Address
      OBVIOUS
  <2>1. p[1] \in 0 .. Bits /\ p[2] \in 0 .. 2^p[1] - 1 /\ p = <<p[1], p[2]>>
        BY PrefixFacts
  <2>2. /\ 2^p[1] \in Nat \ {0} /\ 2^(Bits - p[1]) \in Nat \ {0}
        /\ 2^p[1] * 2^(Bits - p[1]) = 2^Bits
        BY <2>1, SizeFacts
  <2>3. \A x, y \in Nat \ {0} : x <= x * y OBVIOUS
  <2>4. 2^p[1] <= 2^Bits BY <2>2, <2>3
  <2>5. p[2] \in Address BY <1>2, <2>1, <2>2, <2>4 DEF Address
  <2> QED BY <2>1, <2>5
<1> QED BY <1>2, <1>3, <1>4, <1>5, FS_Subset

LEMMA CoveredFinite ==
  ASSUME NEW S \in SUBSET Prefix
  PROVE  /\ Covered(S) \subseteq Address /\ IsFiniteSet(Covered(S))
         /\ Cardinality(Covered(S)) \in Nat
<1>1. Covered(S) \subseteq Address BY CoverInside DEF Covered
<1> QED BY <1>1, FiniteAddresses, FS_Subset, FS_CardinalityType

LEMMA CoveredOneMore ==
  ASSUME NEW S \in SUBSET Prefix, \A q, r \in S : Within(q, r) => q = r, NEW x \in S
  PROVE  Cardinality(Covered(S)) = Size(x) + Cardinality(Covered(S \ {x}))
<1> DEFINE A == Cover(x)
           B == Covered(S \ {x})
<1>1. Covered(S) = A \cup B BY DEF Covered
<1>2. A \cap B = {}
  <2>1. ASSUME NEW a \in A, a \in B PROVE FALSE
    <3>1. PICK y \in S \ {x} : a \in Cover(y) BY <2>1 DEF Covered
    <3>2. Within(x, y) \/ Within(y, x) BY <3>1, Laminar
    <3> QED BY <3>1, <3>2
  <2> QED BY <2>1
<1>3. IsFiniteSet(A) /\ Cardinality(A) = Size(x) /\ Size(x) \in Nat BY CoverInside
<1>4. IsFiniteSet(B) /\ Cardinality(B) \in Nat BY CoveredFinite
<1> HIDE DEF A, B
<1>5. Cardinality(A \cup B) = Cardinality(A) + Cardinality(B) - Cardinality(A \cap B)
      BY <1>3, <1>4, FS_Union
<1>6. Cardinality(A \cap B) = 0 BY <1>2, FS_EmptySet
<1> QED BY <1>1, <1>3, <1>4, <1>5, <1>6 DEF B

LEMMA SumSizes ==
  ASSUME NEW S \in SUBSET Prefix, \A q, r \in S : Within(q, r) => q = r
  PROVE  MapThenSumSet(Size, S) = Cardinality(Covered(S))
<1> DEFINE D(g) == [s \in SUBSET S |->
                      IF s = {} THEN 0
                      ELSE LET x == CHOOSE y \in s : TRUE IN Size(x) + g[s \ {x}]]
           iter == CHOOSE g : g = D(g)
           h == [s \in SUBSET S |-> Cardinality(Covered(s))]
<1>1. MapThenSumSet(Size, S) = iter[S] BY DEF MapThenSumSet, MapThenFoldSet
<1>2. h = D(h)
  <2> SUFFICES ASSUME NEW s \in SUBSET S PROVE h[s] = D(h)[s] OBVIOUS
  <2>1. CASE s = {}
    <3>1. Covered(s) = {} BY <2>1 DEF Covered
    <3> QED BY <2>1, <3>1, FS_EmptySet
  <2>2. CASE s # {}
    <3> DEFINE x == CHOOSE y \in s : TRUE
    <3>1. x \in s /\ s \in SUBSET Prefix BY <2>2
    <3> HIDE DEF x
    <3>2. h[s] = Size(x) + h[s \ {x}] BY <3>1, CoveredOneMore
    <3> QED BY <2>2, <3>2 DEF x
  <2> QED BY <2>1, <2>2
<1>3. iter = D(iter) BY <1>2
<1> HIDE DEF iter
<1> DEFINE B == {s \in SUBSET S : iter[s] # h[s]}
<1>4. ASSUME B # {} PROVE FALSE
  <2>1. PICK T \in B : \A x \in T : T \ {x} \notin B
    <3>1. B \subseteq SUBSET S /\ IsFiniteSet(S) BY FiniteAddresses, FS_Subset
    <3> HIDE DEF B
    <3> QED BY <1>4, <3>1, LeastSet
  <2>2. iter[T] = D(iter)[T] /\ h[T] = D(h)[T] BY <1>2, <1>3
  <2>3. CASE T = {} BY <2>1, <2>2, <2>3
  <2>4. CASE T # {}
    <3> DEFINE x == CHOOSE y \in T : TRUE
    <3>1. x \in T /\ T \ {x} \in SUBSET S BY <2>4
    <3>2. iter[T \ {x}] = h[T \ {x}] BY <2>1, <3>1
    <3>3. D(iter)[T] = Size(x) + iter[T \ {x}] /\ D(h)[T] = Size(x) + h[T \ {x}]
          BY <2>4
    <3> QED BY <2>1, <2>2, <3>2, <3>3
  <2> QED BY <2>3, <2>4
<1>5. S \in SUBSET S /\ S \notin B BY <1>4
<1> QED BY <1>1, <1>5

\* The addresses of a value, those of its leaves that are no whole radix entry,
\* and those of the others.
Valued(v) == {a \in Address : ValueAt(leaf, a) = v}
SmallLeaf(q) == Size(q) < Block
Small(v) == {a \in Address : \E q \in DOMAIN leaf :
                               a \in Cover(q) /\ leaf[q] = v /\ SmallLeaf(q)}
Big(v) == Valued(v) \ Small(v)

LEMMA CountIps ==
  ASSUME IsTree(leaf), NEW p \in Prefix, NEW v, NEW x \in BOOLEAN
  PROVE  count_ips(p, v, x)
           = Cardinality({a \in Address : \E q \in DOMAIN leaf :
                            /\ a \in Cover(q) /\ Within(q, p) /\ leaf[q] = v
                            /\ x => SmallLeaf(q)})
<1> DEFINE S == {q \in DOMAIN leaf : /\ Within(q, p) /\ leaf[q] = v
                                     /\ x => Size(q) < Block}
<1>1. S \in SUBSET Prefix /\ \A q, r \in S : Within(q, r) => q = r BY DEF IsTree
<1>2. count_ips(p, v, x) = MapThenSumSet(Size, S) BY DEF count_ips
<1>3. Covered(S) = {a \in Address : \E q \in DOMAIN leaf :
                      /\ a \in Cover(q) /\ Within(q, p) /\ leaf[q] = v
                      /\ x => SmallLeaf(q)}
  <2>1. \A q \in DOMAIN leaf : Cover(q) \subseteq Address
        BY CoverInside DEF IsTree
  <2> QED BY <2>1 DEF Covered, SmallLeaf
<1> HIDE DEF S
<1>4. MapThenSumSet(Size, S) = Cardinality(Covered(S)) BY <1>1, SumSizes
<1> QED BY <1>2, <1>3, <1>4

LEMMA RootFacts ==
  /\ Root \in Prefix /\ Size(Root) = 2^Bits /\ Root[2] * Size(Root) = 0
  /\ Cover(Root) = Address
  /\ \A p \in Prefix : Within(p, Root)
<1>1. 0 \in 0 .. Bits /\ 0 \in 0 .. 2^0 - 1 BY PrefixFacts, PowerZero
<1>2. Root \in Prefix BY <1>1, PrefixFacts DEF Root
<1>3. Size(Root) = 2^Bits BY PrefixFacts DEF Root, Size
<1>4. Cover(Root) = Address
  <2> DEFINE all == 2^Bits
  <2>1. all \in Nat BY FiniteAddresses
  <2>2. Cover(Root) = 0 * all .. (0 + 1) * all - 1 BY <1>3 DEF Cover, Root
  <2>3. Address = 0 .. all - 1 BY DEF Address
  <2> HIDE DEF all
  <2> QED BY <2>1, <2>2, <2>3
<1>5. ASSUME NEW p \in Prefix PROVE Within(p, Root)
  <2>1. PICK a : a \in Cover(p) BY CoverInside
  <2>2. a \in Cover(Root) /\ Root[1] <= p[1]
        BY <1>4, <2>1, CoverInside, PrefixFacts DEF Root
  <2> QED BY <1>2, <2>1, <2>2, WithinCover
<1>6. Root[2] * Size(Root) = 0 BY <1>3, FiniteAddresses DEF Root
<1> QED BY <1>2, <1>3, <1>4, <1>5, <1>6

\* Without the counts of a painting.
LEMMA CountAll ==
  ASSUME IsTree(leaf), NEW v
  PROVE  count_ips(Root, v, FALSE) = Cardinality(Valued(v))
<1>1. {a \in Address : \E q \in DOMAIN leaf :
         a \in Cover(q) /\ Within(q, Root) /\ leaf[q] = v /\ (FALSE => SmallLeaf(q))}
        = Valued(v)
  <2>1. \A q \in DOMAIN leaf : Within(q, Root) BY RootFacts DEF IsTree
  <2>2. \A a \in Address : \E q \in DOMAIN leaf : a \in Cover(q) BY DEF IsTree
  <2>3. \A q \in DOMAIN leaf : \A a \in Cover(q) : ValueAt(leaf, a) = leaf[q]
        BY LeafValue
  <2> QED BY <2>1, <2>2, <2>3 DEF Valued
<1>2. Root \in Prefix BY RootFacts
<1> QED BY <1>1, <1>2, CountIps

-----------------------------------------------------------------------------
(* The nodes of the tree *)

LEMMA NodeFacts ==
  ASSUME IsTree(leaf), NEW n \in Nodes(leaf)
  PROVE  /\ n \in Prefix
         /\ \E q \in DOMAIN leaf : Within(q, n) /\ n = Cut(q, n[1])
         /\ \A r \in DOMAIN leaf : \A a \in Cover(r) \cap Cover(n) : Within(r, n)
<1>1. PICK q \in DOMAIN leaf : \E len \in 0 .. q[1] : n = Cut(q, len) BY DEF Nodes
<1>2. PICK len \in 0 .. q[1] : n = Cut(q, len) BY <1>1
<1>3. q \in Prefix BY DEF IsTree
<1>4. n \in Prefix /\ n[1] = len /\ Within(q, n) BY <1>2, <1>3, CutFacts
<1>5. ASSUME NEW r \in DOMAIN leaf, NEW a \in Cover(r) \cap Cover(n)
      PROVE  Within(r, n)
  <2>1. r \in Prefix BY DEF IsTree
  <2>2. CASE Within(n, r)
    <3>1. Within(q, r) BY <1>3, <1>4, <2>1, <2>2, WithinTransitive
    <3>2. q = r BY <3>1 DEF IsTree
    <3> QED BY <1>4, <3>2
  <2>3. Within(n, r) \/ Within(r, n) BY <1>4, <2>1, Laminar
  <2> QED BY <2>2, <2>3
<1> QED BY <1>2, <1>4, <1>5

LEMMA LeafNode ==
  ASSUME IsTree(leaf), NEW q \in DOMAIN leaf, NEW n \in Prefix, Within(q, n)
  PROVE  n \in Nodes(leaf)
<1>1. q \in Prefix BY DEF IsTree
<1>2. n[1] \in 0 .. q[1] /\ n = Cut(q, n[1])
  <2>1. q[1] \in 0 .. Bits /\ n[1] \in 0 .. Bits BY <1>1, PrefixFacts
  <2> QED BY <2>1 DEF Within
<1> QED BY <1>2 DEF Nodes

\* The addresses of a prefix are a range; those of the left half come first.
LEMMA CoverRange ==
  ASSUME NEW p \in Prefix
  PROVE  /\ p[2] * Size(p) \in Nat /\ Size(p) \in Nat \ {0}
         /\ Cover(p) = p[2] * Size(p) .. p[2] * Size(p) + Size(p) - 1
<1>1. p[2] \in Nat /\ Size(p) \in Nat \ {0}
  <2>1. p[1] \in 0 .. Bits /\ p[2] \in 0 .. 2^p[1] - 1 BY PrefixFacts
  <2> QED BY <2>1, CoverInside
<1> DEFINE s == Size(p)
           n == p[2]
<1>2. Cover(p) = n * s .. (n + 1) * s - 1 BY DEF Cover
<1>3. n \in Nat /\ s \in Nat \ {0} BY <1>1
<1> HIDE DEF s, n
<1>4. (n + 1) * s = n * s + s /\ n * s \in Nat BY <1>3
<1> QED BY <1>2, <1>3, <1>4 DEF s, n

LEMMA Children ==
  ASSUME NEW n \in Prefix, n[1] # Bits
  PROVE  /\ Left(n) \in Prefix /\ Right(n) \in Prefix
         /\ Left(n)[1] = n[1] + 1 /\ Right(n)[1] = n[1] + 1
         /\ Within(Left(n), n) /\ Within(Right(n), n)
         /\ Right(n) = Sibling(Left(n)) /\ Left(n) # Root
         /\ Size(Right(n)) = Size(Left(n))
         /\ Left(n)[2] * Size(Left(n)) = n[2] * Size(n)
         /\ Right(n)[2] * Size(Right(n)) = n[2] * Size(n) + Size(Left(n))
         /\ Cover(n) = Cover(Left(n)) \cup Cover(Right(n))
         /\ Cover(Left(n)) \cap Cover(Right(n)) = {}
<1>1. /\ n[1] \in 0 .. Bits - 1 /\ n[2] \in Nat /\ n[2] < 2^n[1] /\ n = <<n[1], n[2]>>
      /\ Bits \in Nat /\ 2^n[1] \in Nat
  <2>1. n[1] \in 0 .. Bits /\ n[2] \in 0 .. 2^n[1] - 1 /\ n = <<n[1], n[2]>> /\ Bits \in Nat
        BY PrefixFacts
  <2>2. 2^n[1] \in Nat \ {0} BY <2>1, SizeFacts
  <2> QED BY <2>1, <2>2
<1>2. 2^(n[1] + 1) = 2 * 2^n[1] BY <1>1, PowerNext
<1>3. 2 * n[2] \in 0 .. 2^(n[1] + 1) - 1 /\ 2 * n[2] + 1 \in 0 .. 2^(n[1] + 1) - 1
      /\ n[1] + 1 \in 0 .. Bits
      BY <1>1, <1>2
<1>4. Left(n) \in Prefix /\ Right(n) \in Prefix BY <1>3, PrefixFacts DEF Left, Right
<1>5. Left(n)[1] = n[1] + 1 /\ Right(n)[1] = n[1] + 1 BY DEF Left, Right
<1>6. Left(n) # Root /\ Right(n) # Root
  <2>1. n[1] + 1 # 0 BY <1>1
  <2> QED BY <1>5, <2>1 DEF Root
<1>7. Cut(Left(n), n[1]) = n /\ Cut(Right(n), n[1]) = n
  <2>1. /\ Cut(Left(n), Left(n)[1] - 1) = <<Left(n)[1] - 1, Left(n)[2] \div 2>>
        /\ Cut(Right(n), Right(n)[1] - 1) = <<Right(n)[1] - 1, Right(n)[2] \div 2>>
        BY <1>4, <1>6, HalfFacts
  <2>2. (n[1] + 1) - 1 = n[1] BY <1>1
  <2>3. (2 * n[2]) \div 2 = n[2] /\ (2 * n[2] + 1) \div 2 = n[2] BY <1>1
  <2>4. Left(n)[2] = 2 * n[2] /\ Right(n)[2] = 2 * n[2] + 1 BY DEF Left, Right
  <2> QED BY <1>1, <1>5, <2>1, <2>2, <2>3, <2>4
<1>8. Within(Left(n), n) /\ Within(Right(n), n)
      BY <1>1, <1>5, <1>7 DEF Within
<1>9. Right(n) = Sibling(Left(n))
  <2>1. (2 * n[2]) % 2 = 0 BY <1>1
  <2> QED BY <2>1 DEF Left, Right, Sibling
<1>10. Size(n) = 2 * Size(Left(n)) /\ Size(Right(n)) = Size(Left(n))
  <2>1. Bits - (n[1] + 1) \in Nat /\ (Bits - (n[1] + 1)) + 1 = Bits - n[1] BY <1>1
  <2>2. 2^((Bits - (n[1] + 1)) + 1) = 2 * 2^(Bits - (n[1] + 1)) BY <2>1, PowerNext
  <2> QED BY <1>5, <2>1, <2>2 DEF Size
<1> DEFINE s == Size(Left(n))
           k == n[2]
<1>11. s \in Nat \ {0} /\ k \in Nat BY <1>1, <1>4, CoverInside
<1>12. /\ Left(n)[2] * Size(Left(n)) = (2 * k) * s
       /\ Right(n)[2] * Size(Right(n)) = (2 * k + 1) * s
       /\ n[2] * Size(n) = k * (2 * s) /\ Size(n) = 2 * s /\ Size(Right(n)) = s
       BY <1>10 DEF Left, Right
<1>13. /\ Cover(n) = n[2] * Size(n) .. n[2] * Size(n) + Size(n) - 1
       /\ Cover(Left(n)) = Left(n)[2] * Size(Left(n)) .. Left(n)[2] * Size(Left(n)) + s - 1
       /\ Cover(Right(n)) = Right(n)[2] * Size(Right(n))
                              .. Right(n)[2] * Size(Right(n)) + Size(Right(n)) - 1
       BY <1>4, CoverRange
<1> HIDE DEF s, k
<1>14. (2 * k) * s = k * (2 * s) /\ (2 * k + 1) * s = k * (2 * s) + s
       /\ k * (2 * s) \in Nat
       BY <1>11
<1> DEFINE b == k * (2 * s)
<1>15. /\ Cover(n) = b .. b + 2 * s - 1 /\ Cover(Left(n)) = b .. b + s - 1
       /\ Cover(Right(n)) = b + s .. b + s + s - 1 /\ b \in Nat
       BY <1>12, <1>13, <1>14
<1> HIDE DEF b
<1>16. Cover(n) = Cover(Left(n)) \cup Cover(Right(n))
       /\ Cover(Left(n)) \cap Cover(Right(n)) = {}
       BY <1>11, <1>15
<1> QED BY <1>4, <1>5, <1>6, <1>8, <1>9, <1>10, <1>12, <1>14, <1>16 DEF s

\* A node that is no leaf has both its halves in the tree.
LEMMA InnerNode ==
  ASSUME IsTree(leaf), NEW n \in Nodes(leaf), n \notin DOMAIN leaf
  PROVE  n[1] # Bits /\ Left(n) \in Nodes(leaf) /\ Right(n) \in Nodes(leaf)
<1>1. n \in Prefix BY NodeFacts
<1>2. PICK q \in DOMAIN leaf : Within(q, n) BY NodeFacts
<1>3. q \in Prefix /\ q # n /\ n[1] \in 0 .. Bits /\ q[1] \in 0 .. Bits
      BY <1>1, PrefixFacts DEF IsTree
<1>4. n[1] <= q[1] /\ n[1] # q[1] BY <1>1, <1>2, <1>3, Laminar
<1>5. n[1] # Bits BY <1>3, <1>4
<1>6. ASSUME NEW c \in Prefix, Within(c, n), c[1] = n[1] + 1 PROVE c \in Nodes(leaf)
  <2>1. PICK a : a \in Cover(c) BY CoverInside
  <2>2. PICK r \in DOMAIN leaf : a \in Cover(r) BY <2>1, CoverInside DEF IsTree
  <2>3. r \in Prefix BY DEF IsTree
  <2>4. a \in Cover(n) BY <1>1, <1>6, <2>1, Laminar
  <2>5. Within(r, n) BY <2>2, <2>4, NodeFacts
  <2>6. n[1] <= r[1] /\ n[1] # r[1]
    <3>1. ASSUME n[1] = r[1] PROVE FALSE
          BY <1>1, <2>3, <2>5, <3>1, Laminar
    <3> QED BY <1>1, <2>3, <2>5, <3>1, Laminar
  <2>7. c[1] <= r[1] BY <1>3, <1>6, <2>3, <2>6, PrefixFacts
  <2>8. Within(r, c) BY <2>1, <2>2, <2>3, <2>7, WithinCover
  <2> QED BY <2>8, LeafNode
<1> QED BY <1>1, <1>5, <1>6, Children

-----------------------------------------------------------------------------
(* The way down to an index: the addresses it has passed and those it has  *)
(* still to go are always the index.                                       *)

Counted(v) == count = [p \in Nodes(leaf) |-> count_ips(p, v, TRUE)]

Start(p)     == p[2] * Size(p)
Before(v, a) == {b \in Small(v) : b < a}
Ways         == {w \in Prefix \X Nat : w[1] \in Nodes(leaf) /\ w[2] < count[w[1]]}
Passed(v, w) == Cardinality(Before(v, Start(w[1]))) + w[2]
Down(w) ==
  IF w[1] \in DOMAIN leaf THEN w
  ELSE IF w[2] < count[Left(w[1])] THEN <<Left(w[1]), w[2]>>
  ELSE <<Right(w[1]), w[2] - count[Left(w[1])]>>

LEMMA FiniteSubset ==
  ASSUME NEW S, S \subseteq Address
  PROVE  IsFiniteSet(S) /\ Cardinality(S) \in Nat
BY FiniteAddresses, FS_Subset, FS_CardinalityType

LEMMA DisjointUnion ==
  ASSUME NEW S, NEW T, S \subseteq Address, T \subseteq Address, S \cap T = {}
  PROVE  Cardinality(S \cup T) = Cardinality(S) + Cardinality(T)
<1>1. /\ IsFiniteSet(S) /\ IsFiniteSet(T) /\ Cardinality(S) \in Nat
      /\ Cardinality(T) \in Nat
      BY FiniteSubset
<1>2. Cardinality(S \cup T) = Cardinality(S) + Cardinality(T) - Cardinality(S \cap T)
      BY <1>1, FS_Union
<1>3. Cardinality(S \cap T) = 0 BY FS_EmptySet
<1> QED BY <1>1, <1>2, <1>3

LEMMA NodeCount ==
  ASSUME IsTree(leaf), NEW v, Counted(v), NEW n \in Nodes(leaf)
  PROVE  count[n] = Cardinality(Small(v) \cap Cover(n)) /\ count[n] \in Nat
<1>1. n \in Prefix BY NodeFacts
<1>2. {a \in Address : \E q \in DOMAIN leaf :
         /\ a \in Cover(q) /\ Within(q, n) /\ leaf[q] = v /\ (TRUE => SmallLeaf(q))}
        = Small(v) \cap Cover(n)
  <2>1. ASSUME NEW q \in DOMAIN leaf, NEW a \in Cover(q), Within(q, n) PROVE a \in Cover(n)
        BY <1>1, <2>1, Laminar DEF IsTree
  <2>2. \A q \in DOMAIN leaf : \A a \in Cover(q) \cap Cover(n) : Within(q, n)
        BY NodeFacts
  <2> QED BY <2>1, <2>2 DEF Small
<1>3. count[n] = count_ips(n, v, TRUE) BY DEF Counted
<1>4. Small(v) \cap Cover(n) \subseteq Address BY DEF Small
<1> QED BY <1>1, <1>2, <1>3, <1>4, CountIps, FiniteSubset

LEMMA InnerCount ==
  ASSUME IsTree(leaf), NEW v, Counted(v), NEW n \in Nodes(leaf), n \notin DOMAIN leaf
  PROVE  /\ Left(n) \in Nodes(leaf) \cap Prefix /\ Right(n) \in Nodes(leaf) \cap Prefix
         /\ Left(n)[1] = n[1] + 1 /\ Right(n)[1] = n[1] + 1
         /\ count[n] = count[Left(n)] + count[Right(n)]
         /\ Start(Left(n)) = Start(n)
         /\ Cardinality(Before(v, Start(Right(n))))
              = Cardinality(Before(v, Start(n))) + count[Left(n)]
<1>1. /\ n \in Prefix /\ n[1] # Bits
      /\ Left(n) \in Nodes(leaf) /\ Right(n) \in Nodes(leaf)
      BY NodeFacts, InnerNode
<1> DEFINE S == Small(v)
           l == Left(n)
           r == Right(n)
<1>2. /\ l \in Prefix /\ r \in Prefix /\ l[1] = n[1] + 1 /\ r[1] = n[1] + 1
      /\ Start(l) = Start(n) /\ Start(r) = Start(n) + Size(l)
      /\ Cover(n) = Cover(l) \cup Cover(r) /\ Cover(l) \cap Cover(r) = {}
      BY <1>1, Children DEF Start
<1>3. /\ Start(n) \in Nat /\ Size(l) \in Nat \ {0}
      /\ Cover(l) = Start(n) .. Start(n) + Size(l) - 1
      BY <1>1, <1>2, CoverRange DEF Start
<1>4. S \subseteq Address /\ Address \subseteq Nat
  <2>1. S \subseteq Address BY DEF Small
  <2>2. Address \subseteq Nat BY FiniteAddresses DEF Address
  <2> QED BY <2>1, <2>2
<1>5. /\ count[n] = Cardinality(S \cap Cover(n))
      /\ count[l] = Cardinality(S \cap Cover(l)) /\ count[r] = Cardinality(S \cap Cover(r))
      BY <1>1, NodeCount
<1> HIDE DEF S, l, r
<1>6. count[n] = count[l] + count[r]
  <2>1. S \cap Cover(n) = (S \cap Cover(l)) \cup (S \cap Cover(r)) BY <1>2
  <2>2. (S \cap Cover(l)) \cap (S \cap Cover(r)) = {} BY <1>2
  <2>3. S \cap Cover(l) \subseteq Address /\ S \cap Cover(r) \subseteq Address BY <1>4
  <2>4. Cardinality((S \cap Cover(l)) \cup (S \cap Cover(r)))
          = Cardinality(S \cap Cover(l)) + Cardinality(S \cap Cover(r))
        BY <2>2, <2>3, DisjointUnion
  <2> QED BY <1>5, <2>1, <2>4
<1>7. Cardinality(Before(v, Start(r))) = Cardinality(Before(v, Start(n))) + count[l]
  <2>1. Before(v, Start(r)) = Before(v, Start(n)) \cup (S \cap Cover(l))
    <3>1. \A b \in Nat : b < Start(n) + Size(l) <=> b < Start(n) \/ b \in Cover(l)
          BY <1>3
    <3>2. \A x : Before(v, x) = {b \in S : b < x} BY DEF Before, S
    <3>3. S \subseteq Nat BY <1>4
    <3> QED BY <1>2, <3>1, <3>2, <3>3
  <2>2. Before(v, Start(n)) \cap (S \cap Cover(l)) = {}
        BY <1>3, <1>4 DEF Before
  <2>3. Before(v, Start(n)) \subseteq Address /\ S \cap Cover(l) \subseteq Address
        BY <1>4 DEF Before, S
  <2>4. Cardinality(Before(v, Start(n)) \cup (S \cap Cover(l)))
          = Cardinality(Before(v, Start(n))) + Cardinality(S \cap Cover(l))
        BY <2>2, <2>3, DisjointUnion
  <2> QED BY <1>5, <2>1, <2>4
<1> QED BY <1>1, <1>2, <1>6, <1>7 DEF l, r

LEMMA DownFacts ==
  ASSUME IsTree(leaf), NEW v, Counted(v), NEW w \in Ways
  PROVE  /\ Down(w) \in Ways /\ Passed(v, Down(w)) = Passed(v, w)
         /\ w[1] \notin DOMAIN leaf => Down(w)[1][1] = w[1][1] + 1
<1>1. w \in Prefix \X Nat /\ w[1] \in Nodes(leaf) /\ w[2] < count[w[1]] /\ w[2] \in Nat
      BY DEF Ways
<1>2. CASE w[1] \in DOMAIN leaf
      BY <1>2 DEF Down
<1>3. CASE w[1] \notin DOMAIN leaf
  <2> DEFINE l == Left(w[1])
             r == Right(w[1])
             before(n) == Cardinality(Before(v, Start(n)))
  <2>1. /\ l \in Nodes(leaf) \cap Prefix /\ r \in Nodes(leaf) \cap Prefix
        /\ l[1] = w[1][1] + 1 /\ r[1] = w[1][1] + 1
        /\ count[w[1]] = count[l] + count[r]
        /\ before(l) = before(w[1]) /\ before(r) = before(w[1]) + count[l]
        BY <1>1, <1>3, InnerCount
  <2>2. count[l] \in Nat /\ count[r] \in Nat BY <2>1, NodeCount
  <2>3. before(w[1]) \in Nat
    <3>1. Before(v, Start(w[1])) \subseteq Address BY DEF Before, Small
    <3> QED BY <3>1, FiniteSubset
  <2>4. /\ Down(w) = IF w[2] < count[l] THEN <<l, w[2]>> ELSE <<r, w[2] - count[l]>>
        /\ \A u : Passed(v, u) = before(u[1]) + u[2]
        BY <1>3 DEF Down, Passed
  <2> HIDE DEF l, r, before
  <2>5. CASE w[2] < count[l]
    <3>1. Down(w) = <<l, w[2]>> BY <2>4, <2>5
    <3> QED BY <1>1, <2>1, <2>4, <2>5, <3>1 DEF Ways
  <2>6. CASE ~(w[2] < count[l])
    <3>1. Down(w) = <<r, w[2] - count[l]>> BY <2>4, <2>6
    <3>2. w[2] - count[l] \in Nat /\ w[2] - count[l] < count[r]
          BY <1>1, <2>1, <2>2, <2>6
    <3>3. before(r) + (w[2] - count[l]) = before(w[1]) + w[2]
          BY <1>1, <2>1, <2>2, <2>3
    <3> QED BY <2>1, <2>4, <3>1, <3>2, <3>3 DEF Ways
  <2> QED BY <2>5, <2>6
<1> QED BY <1>2, <1>3

LEMMA WalkFacts ==
  ASSUME IsTree(leaf), NEW v, Counted(v), NEW n \in Nat, n < count[Root]
  PROVE  \E w \in Ways : /\ w[1] \in DOMAIN leaf /\ Passed(v, w) = n
                         /\ lookup_index(n) = Start(w[1]) + w[2]
<1> DEFINE D(g) == [d \in 0 .. Bits |->
                      IF d = 0 THEN <<Root, n>>
                      ELSE LET node == g[d - 1][1]
                               rest == g[d - 1][2]
                           IN IF node \in DOMAIN leaf THEN g[d - 1]
                              ELSE IF rest < count[Left(node)] THEN <<Left(node), rest>>
                              ELSE <<Right(node), rest - count[Left(node)]>>]
           walk == CHOOSE g : g = D(g)
<1>1. lookup_index(n) = walk[Bits][1][2] * Size(walk[Bits][1]) + walk[Bits][2]
      BY DEF lookup_index
<1>2. <<Root, n>> \in Ways
  <2>1. PICK q \in DOMAIN leaf : 0 \in Cover(q)
    <3>1. 0 \in Address BY FiniteAddresses DEF Address
    <3> QED BY <3>1 DEF IsTree
  <2>2. q \in Prefix BY DEF IsTree
  <2>3. Root \in Nodes(leaf) BY <2>2, RootFacts, LeafNode
  <2> QED BY <2>3, RootFacts DEF Ways
<1>3. \E g : g = D(g)
  <2> DEFINE f == [x \in Nat \X Ways |-> Down(x[2])]
  <2>1. f \in [Nat \X Ways -> Ways] BY DownFacts
  <2>2. Bits \in Nat BY PrefixFacts
  <2>3. PICK h \in [0 .. Bits -> Ways] : Iterates(h, <<Root, n>>, f, Bits)
    <3> HIDE DEF f
    <3> QED BY <1>2, <2>1, <2>2, NumberRecursion
  <2>4. ASSUME NEW d \in 0 .. Bits PROVE h[d] = D(h)[d]
    <3>1. CASE d = 0 BY <2>3, <3>1 DEF Iterates
    <3>2. CASE d # 0
      <4>1. d - 1 \in 0 .. Bits /\ d \in Nat /\ d \in 1 .. Bits BY <2>2, <3>2
      <4>2. h[d] = Down(h[d - 1]) BY <2>3, <3>2, <4>1 DEF Iterates
      <4> QED BY <3>2, <4>2 DEF Down
    <3> QED BY <3>1, <3>2
  <2>5. h = D(h) BY <2>3, <2>4
  <2> HIDE DEF D
  <2> QED BY <2>5
<1>4. walk = D(walk) BY <1>3
<1> HIDE DEF walk
<1>5. walk[0] = <<Root, n>> /\ \A d \in 1 .. Bits : walk[d] = Down(walk[d - 1])
  <2>1. Bits \in Nat BY PrefixFacts
  <2>2. walk[0] = <<Root, n>>
    <3>1. 0 \in 0 .. Bits BY <2>1
    <3> QED BY <1>4, <3>1
  <2>3. ASSUME NEW d \in 1 .. Bits PROVE walk[d] = Down(walk[d - 1])
    <3>1. d \in 0 .. Bits /\ d # 0 BY <2>1
    <3> QED BY <1>4, <3>1 DEF Down
  <2> QED BY <2>2, <2>3
<1> HIDE DEF D
<1> DEFINE Sound(d) == /\ walk[d] \in Ways /\ Passed(v, walk[d]) = n
                       /\ walk[d][1] \in DOMAIN leaf \/ walk[d][1][1] = d
           G == {d \in Nat : d <= Bits => Sound(d)}
<1>6. 0 \in G
  <2>1. Passed(v, <<Root, n>>) = n
    <3>1. Before(v, Start(Root)) = {}
      <4>1. Start(Root) = 0 BY RootFacts DEF Start
      <4>2. \A a \in Address : ~(a < 0) BY FiniteAddresses DEF Address
      <4> QED BY <4>1, <4>2 DEF Before, Small
    <3>2. Cardinality(Before(v, Start(Root))) = 0 BY <3>1, FS_EmptySet
    <3> QED BY <3>2 DEF Passed
  <2>2. Root[1] = 0 BY DEF Root
  <2> QED BY <1>2, <1>5, <2>1, <2>2
<1>7. ASSUME NEW d \in Nat, d \in G PROVE d + 1 \in G
  <2> SUFFICES ASSUME d + 1 <= Bits PROVE Sound(d + 1) OBVIOUS
  <2>1. d <= Bits /\ d + 1 \in 1 .. Bits /\ (d + 1) - 1 = d BY PrefixFacts
  <2>2. Sound(d) BY <1>7, <2>1
  <2>3. walk[d + 1] = Down(walk[d]) BY <1>5, <2>1
  <2>4. /\ Down(walk[d]) \in Ways /\ Passed(v, Down(walk[d])) = n
        /\ walk[d][1] \notin DOMAIN leaf => Down(walk[d])[1][1] = walk[d][1][1] + 1
        BY <2>2, DownFacts
  <2>5. walk[d][1] \in DOMAIN leaf => Down(walk[d]) = walk[d] BY DEF Down
  <2> QED BY <2>2, <2>3, <2>4, <2>5
<1>8. Sound(Bits)
  <2> HIDE DEF Sound
  <2>1. Nat \subseteq {d \in Nat : d <= Bits => Sound(d)}
    <3> HIDE DEF G
    <3>1. Nat \subseteq G BY <1>6, <1>7, Induction
    <3> QED BY <3>1 DEF G
  <2> QED BY <2>1, PrefixFacts
<1>9. walk[Bits][1] \in DOMAIN leaf
  <2>1. ASSUME walk[Bits][1] \notin DOMAIN leaf PROVE FALSE
    <3>1. walk[Bits][1] \in Nodes(leaf) /\ walk[Bits][1][1] = Bits BY <1>8, <2>1 DEF Ways
    <3> QED BY <2>1, <3>1, InnerNode
  <2> QED BY <2>1
<1> QED BY <1>1, <1>8, <1>9 DEF Start

\* The nth of the small leaves' addresses is the one with n before it.
LEMMA LookupFacts ==
  ASSUME IsTree(leaf), NEW v, Counted(v), NEW n \in Nat, n < count[Root]
  PROVE  /\ lookup_index(n) \in Small(v)
         /\ Cardinality(Before(v, lookup_index(n))) = n
<1>1. PICK w \in Ways : /\ w[1] \in DOMAIN leaf /\ Passed(v, w) = n
                        /\ lookup_index(n) = Start(w[1]) + w[2]
      BY WalkFacts
<1> DEFINE q == w[1]
           a == Start(q) + w[2]
           S == Small(v)
<1>2. /\ q \in DOMAIN leaf /\ q \in Prefix /\ q \in Nodes(leaf)
      /\ w[2] \in Nat /\ w[2] < count[q]
      BY <1>1 DEF Ways
<1>3. /\ Start(q) \in Nat /\ Size(q) \in Nat \ {0}
      /\ Cover(q) = Start(q) .. Start(q) + Size(q) - 1 /\ Cover(q) \subseteq Address
      /\ Cardinality(Cover(q)) = Size(q)
      BY <1>2, CoverRange, CoverInside DEF Start
<1>4. count[q] = Cardinality(S \cap Cover(q)) BY <1>2, NodeCount
<1>5. leaf[q] = v /\ SmallLeaf(q)
  <2>1. ASSUME S \cap Cover(q) = {} PROVE FALSE
        BY <1>2, <1>4, <2>1, FS_EmptySet
  <2>2. PICK b : b \in S /\ b \in Cover(q) BY <2>1
  <2>3. PICK r \in DOMAIN leaf : b \in Cover(r) /\ leaf[r] = v /\ SmallLeaf(r)
        BY <2>2 DEF Small
  <2>4. r = q BY <1>2, <2>2, <2>3, LeafUnique
  <2> QED BY <2>3, <2>4
<1>6. Cover(q) \subseteq S BY <1>2, <1>3, <1>5 DEF Small
<1>7. count[q] = Size(q)
  <2>1. S \cap Cover(q) = Cover(q) BY <1>6
  <2> QED BY <1>3, <1>4, <2>1
<1> HIDE DEF q, S
<1>8. a \in Cover(q) /\ a \in S BY <1>2, <1>3, <1>6, <1>7
<1>9. Cardinality(Before(v, a)) = Cardinality(Before(v, Start(q))) + w[2]
  <2> DEFINE T == Start(q) .. a - 1
  <2>1. S \subseteq Address /\ Address \subseteq Nat
        BY FiniteAddresses DEF Small, S, Address
  <2>2. T \subseteq Cover(q) BY <1>2, <1>3, <1>7
  <2>3. Before(v, a) = Before(v, Start(q)) \cup T
    <3>1. \A x : Before(v, x) = {b \in S : b < x} BY DEF Before, S
    <3>2. \A b \in Nat : b < a <=> b < Start(q) \/ b \in T BY <1>2, <1>3
    <3>3. S \subseteq Nat /\ T \subseteq S BY <1>6, <2>1, <2>2
    <3> HIDE DEF T, a
    <3> QED BY <3>1, <3>2, <3>3
  <2>4. Before(v, Start(q)) \cap T = {} BY <1>3, <2>1 DEF Before
  <2>5. Cardinality(T) = w[2]
    <3>1. CASE w[2] = 0
      <4>1. T = {} BY <1>3, <3>1
      <4> QED BY <3>1, <4>1, FS_EmptySet
    <3>2. CASE w[2] # 0
      <4>1. /\ Start(q) \in Int /\ a - 1 \in Int /\ Start(q) <= a - 1
            /\ (a - 1) - Start(q) + 1 = w[2]
            BY <1>2, <1>3, <3>2
      <4> HIDE DEF a
      <4> QED BY <4>1, FS_Interval
    <3> QED BY <3>1, <3>2
  <2>6. Before(v, Start(q)) \subseteq Address BY <2>1 DEF Before, S
  <2>7. T \subseteq Address BY <1>3, <2>2
  <2> HIDE DEF T
  <2> QED BY <2>3, <2>4, <2>5, <2>6, <2>7, DisjointUnion
<1>10. Passed(v, w) = Cardinality(Before(v, Start(q))) + w[2] BY DEF Passed, q
<1> QED BY <1>1, <1>8, <1>9, <1>10 DEF q, S

\* The indices below the count are, one to one, the small leaves' addresses.
LEMMA SmallIndices ==
  ASSUME IsTree(leaf), NEW v, Counted(v)
  PROVE  /\ count[Root] \in Nat
         /\ \A n \in 0 .. count[Root] - 1 : lookup_index(n) \in Small(v)
         /\ \A m, n \in 0 .. count[Root] - 1 :
              lookup_index(m) = lookup_index(n) => m = n
         /\ \A a \in Small(v) : \E n \in 0 .. count[Root] - 1 : lookup_index(n) = a
<1> DEFINE S == Small(v)
           rank(a) == Cardinality(Before(v, a))
<1>1. Root \in Nodes(leaf)
  <2>1. PICK q \in DOMAIN leaf : 0 \in Cover(q)
    <3>1. 0 \in Address BY FiniteAddresses DEF Address
    <3> QED BY <3>1 DEF IsTree
  <2>2. q \in Prefix BY DEF IsTree
  <2> QED BY <2>2, RootFacts, LeafNode
<1>2. S \subseteq Address /\ S \subseteq Nat /\ \A a : Before(v, a) = {b \in S : b < a}
  <2>1. S \subseteq Address BY DEF Small
  <2>2. Address \subseteq Nat BY FiniteAddresses DEF Address
  <2> QED BY <2>1, <2>2 DEF Before
<1>3. count[Root] = Cardinality(S) /\ count[Root] \in Nat
  <2>1. S \cap Cover(Root) = S BY <1>2, RootFacts
  <2> QED BY <1>1, <2>1, NodeCount
<1>4. ASSUME NEW n \in 0 .. count[Root] - 1
      PROVE  lookup_index(n) \in S /\ rank(lookup_index(n)) = n
  <2>1. n \in Nat /\ n < count[Root] BY <1>3
  <2> QED BY <2>1, LookupFacts
<1>5. ASSUME NEW a \in S, NEW b \in S, b < a PROVE rank(b) < rank(a)
  <2>1. a \in Nat /\ b \in Nat BY <1>2
  <2>2. Before(v, b) \subseteq Before(v, a) /\ Before(v, a) \subseteq Address
    <3>1. ASSUME NEW x \in S, x < b PROVE x < a
      <4>1. x \in Nat BY <1>2
      <4> QED BY <1>5, <2>1, <3>1, <4>1
    <3> HIDE DEF S
    <3> QED BY <1>2, <3>1
  <2>3. b \in Before(v, a) /\ b \notin Before(v, b) BY <1>2, <1>5, <2>1
  <2>4. IsFiniteSet(Before(v, a)) /\ rank(a) \in Nat /\ rank(b) \in Nat
    <3>1. Before(v, b) \subseteq Address BY <2>2
    <3> QED BY <2>2, <3>1, FiniteSubset
  <2>5. rank(b) <= rank(a) /\ (rank(a) = rank(b) => Before(v, a) = Before(v, b))
        BY <2>2, <2>4, FS_Subset
  <2> QED BY <2>3, <2>4, <2>5
<1>6. ASSUME NEW a \in S PROVE rank(a) \in 0 .. count[Root] - 1
  <2>1. Before(v, a) \subseteq S /\ a \notin Before(v, a) /\ a \in Nat
    <3>1. a \in Nat /\ ~(a < a) BY <1>2
    <3> HIDE DEF S
    <3> QED BY <1>2, <3>1
  <2>2. IsFiniteSet(S) /\ rank(a) \in Nat
    <3>1. Before(v, a) \subseteq Address BY <1>2, <2>1
    <3> QED BY <1>2, <3>1, FiniteSubset
  <2>3. rank(a) <= Cardinality(S) /\ (Cardinality(S) = rank(a) => S = Before(v, a))
        BY <2>1, <2>2, FS_Subset
  <2> HIDE DEF rank
  <2> QED BY <1>3, <2>1, <2>2, <2>3
<1> HIDE DEF rank
<1>7. ASSUME NEW a \in S PROVE \E n \in 0 .. count[Root] - 1 : lookup_index(n) = a
  <2> DEFINE b == lookup_index(rank(a))
  <2>1. b \in S /\ rank(b) = rank(a) /\ rank(a) \in 0 .. count[Root] - 1 BY <1>4, <1>6
  <2>2. a \in Nat /\ b \in Nat BY <1>2, <2>1
  <2>3. rank(a) \in Nat BY <1>3, <2>1
  <2> HIDE DEF b
  <2>4. ~(a < b) /\ ~(b < a) BY <1>5, <2>1, <2>3
  <2>5. a = b BY <2>2, <2>4
  <2> QED BY <2>1, <2>5 DEF b
<1>8. ASSUME NEW m \in 0 .. count[Root] - 1, NEW n \in 0 .. count[Root] - 1,
             lookup_index(m) = lookup_index(n)
      PROVE  m = n
      BY <1>4, <1>8
<1> QED BY <1>3, <1>4, <1>7, <1>8

-----------------------------------------------------------------------------
(* The radix array *)

Entry(i) == <<RadixLength, i>>

LEMMA PowerOrder == ASSUME NEW m \in Nat, NEW n \in Nat PROVE 2^m < 2^n <=> m < n
<1>1. ASSUME NEW i \in Nat, NEW j \in Nat, i < j PROVE 2^i < 2^j
  <2>1. PICK k \in Nat : j = (k + 1) + i
    <3>1. (j - i) - 1 \in Nat /\ j = (((j - i) - 1) + 1) + i BY <1>1
    <3> QED BY <3>1
  <2>2. 2^j = (2 * 2^k) * 2^i
    <3>1. k + 1 \in Nat OBVIOUS
    <3>2. 2^((k + 1) + i) = 2^(k + 1) * 2^i BY <3>1, PowerSum
    <3>3. 2^(k + 1) = 2 * 2^k BY PowerNext
    <3> QED BY <2>1, <3>2, <3>3
  <2> DEFINE x == 2^k
             y == 2^i
  <2>3. x \in Nat \ {0} /\ y \in Nat \ {0} BY PowerType
  <2> HIDE DEF x, y
  <2>4. x >= 1 /\ y >= 1 /\ x * y >= y BY <2>3
  <2>5. (2 * x) * y = x * y + x * y /\ x * y \in Nat BY <2>3
  <2>6. y < (2 * x) * y BY <2>3, <2>4, <2>5
  <2> QED BY <2>2, <2>6 DEF x, y
<1>2. 2^m \in Nat /\ 2^n \in Nat BY PowerType
<1>3. m < n \/ n < m \/ m = n OBVIOUS
<1> QED BY <1>1, <1>2, <1>3

LEMMA BlockFacts ==
  /\ RadixLength \in 0 .. Bits /\ Block \in Nat \ {0} /\ 2^RadixLength \in Nat \ {0}
  /\ 2^RadixLength * Block = 2^Bits
  /\ \A q \in Prefix : SmallLeaf(q) <=> RadixLength < q[1]
<1>1. RadixLength \in 0 .. Bits BY ConstraintAssumption
<1>2. ASSUME NEW q \in Prefix PROVE SmallLeaf(q) <=> RadixLength < q[1]
  <2>1. q[1] \in 0 .. Bits /\ Bits \in Nat BY PrefixFacts
  <2>2. Bits - q[1] \in Nat /\ Bits - RadixLength \in Nat BY <1>1, <2>1
  <2>3. SmallLeaf(q) <=> Bits - q[1] < Bits - RadixLength
        BY <2>2, PowerOrder DEF SmallLeaf, Size, Block
  <2> QED BY <1>1, <2>1, <2>3
<1> QED BY <1>1, <1>2, SizeFacts DEF Block

\* The addresses of a radix entry, and the entries of the addresses.
LEMMA EntryFacts ==
  /\ \A i \in 0 .. 2^RadixLength - 1 : \A y \in 0 .. Block - 1 :
       /\ i * Block + y \in Address
       /\ (i * Block + y) \div Block = i /\ (i * Block + y) % Block = y
  /\ \A a \in Address : /\ a \div Block \in 0 .. 2^RadixLength - 1
                        /\ a % Block \in 0 .. Block - 1
                        /\ a = (a \div Block) * Block + (a % Block)
                        /\ Entry(a \div Block) \in Prefix /\ a \in Cover(Entry(a \div Block))
<1> DEFINE B == Block
           r == 2^RadixLength
           all == 2^Bits
<1>1. B \in Nat \ {0} /\ r \in Nat \ {0} /\ r * B = all /\ Address = 0 .. all - 1
      BY BlockFacts DEF Address
<1>2. ASSUME NEW a \in Address
      PROVE  /\ a \div B \in 0 .. r - 1 /\ Entry(a \div B) \in Prefix
             /\ a \in Cover(Entry(a \div B))
  <2>1. At(a, RadixLength) = Entry(a \div B) /\ At(a, RadixLength)[1] = RadixLength
        BY DEF At, Entry, Block
  <2>2. At(a, RadixLength) \in Prefix BY BlockFacts, AtPrefix
  <2>3. Entry(a \div B)[2] = a \div B /\ Entry(a \div B)[1] = RadixLength BY DEF Entry
  <2>4. a \div B \in 0 .. r - 1 BY <2>1, <2>2, <2>3, PrefixFacts
  <2> QED BY <2>1, <2>2, <2>4, CoverAt
<1> HIDE DEF B, r, all
<1>3. ASSUME NEW i \in 0 .. r - 1, NEW y \in 0 .. B - 1
      PROVE  /\ i * B + y \in Address
             /\ (i * B + y) \div B = i /\ (i * B + y) % B = y
  <2>1. i \in Nat /\ y \in Nat /\ y < B /\ i + 1 <= r BY <1>1
  <2>2. (i + 1) * B <= r * B BY <1>1, <2>1
  <2>3. (i + 1) * B = i * B + B /\ i * B \in Nat BY <1>1, <2>1
  <2>4. i * B + y \in Address BY <1>1, <2>1, <2>2, <2>3
  <2>5. i = (i * B + y) \div B
    <3>1. i * B + y \in Nat /\ i * B <= i * B + y /\ i * B + y < i * B + B
          BY <1>1, <2>1, <2>3
    <3> QED BY <1>1, <2>1, <3>1, DivFacts
  <2>6. i * B + y = B * ((i * B + y) \div B) + ((i * B + y) % B)
    <3> DEFINE z == i * B + y
    <3>1. z \in Nat BY <2>1, <2>3
    <3> HIDE DEF z
    <3>2. z = B * (z \div B) + (z % B) BY <1>1, <3>1
    <3> QED BY <3>2 DEF z
  <2>7. (i * B + y) % B \in Nat
    <3> DEFINE z == i * B + y
    <3>1. z \in Nat BY <2>1, <2>3
    <3> HIDE DEF z
    <3>2. z % B \in Nat BY <1>1, <3>1
    <3> QED BY <3>2 DEF z
  <2>8. B * i = i * B BY <1>1, <2>1
  <2> QED BY <2>1, <2>3, <2>4, <2>5, <2>6, <2>7, <2>8
<1>4. ASSUME NEW a \in Address
      PROVE  a % B \in 0 .. B - 1 /\ a = (a \div B) * B + (a % B)
      BY <1>1
<1> QED BY <1>2, <1>3, <1>4 DEF B, r

\* s holds the entries below i that have the value, each once.
Entries(s, i, v) ==
  /\ s \in Seq(0 .. 2^RadixLength - 1)
  /\ \A j \in 1 .. Len(s) : s[j] < i /\ InRadix(s[j], v)
  /\ \A x \in 0 .. i - 1 : InRadix(x, v) => \E j \in 1 .. Len(s) : s[j] = x
  /\ \A j, k \in 1 .. Len(s) : s[j] = s[k] => j = k

LEMMA EntriesNext ==
  ASSUME NEW v, NEW i \in Nat, i < 2^RadixLength, NEW s, Entries(s, i, v)
  PROVE  Entries(IF InRadix(i, v) THEN Append(s, i) ELSE s, i + 1, v)
<1> DEFINE R == 2^RadixLength
           In(x) == InRadix(x, v)
<1>1. /\ s \in Seq(0 .. R - 1) /\ R \in Nat /\ i \in 0 .. R - 1
      /\ \A j \in 1 .. Len(s) : s[j] < i /\ In(s[j])
      /\ \A x \in 0 .. i - 1 : In(x) => \E j \in 1 .. Len(s) : s[j] = x
      /\ \A j, k \in 1 .. Len(s) : s[j] = s[k] => j = k
      BY BlockFacts DEF Entries
<1>2. /\ \A t : Entries(t, i + 1, v)
           <=> /\ t \in Seq(0 .. R - 1)
               /\ \A j \in 1 .. Len(t) : t[j] < i + 1 /\ In(t[j])
               /\ \A x \in 0 .. (i + 1) - 1 : In(x) => \E j \in 1 .. Len(t) : t[j] = x
               /\ \A j, k \in 1 .. Len(t) : t[j] = t[k] => j = k
      BY DEF Entries
<1>3. \A j \in 1 .. Len(s) : s[j] \in Nat /\ s[j] < i + 1 /\ s[j] < i /\ In(s[j])
  <2> SUFFICES ASSUME NEW j \in 1 .. Len(s)
               PROVE  s[j] \in Nat /\ s[j] < i + 1 /\ s[j] < i /\ In(s[j])
      OBVIOUS
  <2>1. s[j] \in 0 .. R - 1 BY <1>1
  <2>2. s[j] < i /\ In(s[j]) BY <1>1
  <2> HIDE DEF R, In
  <2> QED BY <1>1, <2>1, <2>2
<1> HIDE DEF R, In
<1>4. CASE In(i)
  <2> DEFINE t == Append(s, i)
             n == Len(s)
  <2>1. /\ t \in Seq(0 .. R - 1) /\ n \in Nat /\ Len(t) = n + 1 /\ t[n + 1] = i
        /\ \A j \in 1 .. n : t[j] = s[j]
        BY <1>1
  <2> HIDE DEF t, n
  <2>2. ASSUME NEW j \in 1 .. Len(t) PROVE t[j] < i + 1 /\ In(t[j])
    <3>1. CASE j = n + 1 BY <1>4, <2>1, <3>1
    <3>2. CASE j # n + 1
      <4>1. j \in 1 .. n BY <2>1, <3>2
      <4> QED BY <1>3, <2>1, <4>1 DEF n
    <3> QED BY <3>1, <3>2
  <2>3. ASSUME NEW x \in 0 .. (i + 1) - 1, In(x) PROVE \E j \in 1 .. Len(t) : t[j] = x
    <3>1. CASE x = i
      <4>1. n + 1 \in 1 .. Len(t) BY <2>1
      <4> QED BY <2>1, <3>1, <4>1
    <3>2. CASE x # i
      <4>1. x \in 0 .. i - 1 BY <3>2
      <4>2. PICK j \in 1 .. n : s[j] = x BY <1>1, <2>3, <4>1 DEF n
      <4>3. j \in 1 .. Len(t) BY <2>1
      <4> QED BY <2>1, <4>2, <4>3
    <3> QED BY <3>1, <3>2
  <2>4. ASSUME NEW j \in 1 .. Len(t), NEW k \in 1 .. Len(t), t[j] = t[k] PROVE j = k
    <3>1. ASSUME NEW l \in 1 .. n PROVE t[l] < i /\ t[l] \in Nat
          BY <1>3, <2>1, <3>1 DEF n
    <3>2. (j \in 1 .. n \/ j = n + 1) /\ (k \in 1 .. n \/ k = n + 1) BY <2>1
    <3>3. CASE j \in 1 .. n /\ k \in 1 .. n BY <1>1, <2>1, <2>4, <3>3 DEF n
    <3>4. CASE j \in 1 .. n /\ k = n + 1
      <4>1. t[j] < i /\ t[j] \in Nat /\ t[k] = i BY <2>1, <3>1, <3>4
      <4> QED BY <2>4, <4>1
    <3>5. CASE j = n + 1 /\ k \in 1 .. n
      <4>1. t[k] < i /\ t[k] \in Nat /\ t[j] = i BY <2>1, <3>1, <3>5
      <4> QED BY <2>4, <4>1
    <3>6. CASE j = n + 1 /\ k = n + 1 BY <3>6
    <3> QED BY <3>2, <3>3, <3>4, <3>5, <3>6
  <2>5. Entries(t, i + 1, v) BY <1>2, <2>1, <2>2, <2>3, <2>4
  <2> QED BY <1>4, <2>5 DEF t, In
<1>5. CASE ~In(i)
  <2>1. ASSUME NEW j \in 1 .. Len(s) PROVE s[j] < i + 1 BY <1>1, <1>3
  <2>2. ASSUME NEW x \in 0 .. (i + 1) - 1, In(x) PROVE \E j \in 1 .. Len(s) : s[j] = x
    <3>1. x # i BY <1>5, <2>2
    <3>2. x \in 0 .. i - 1 BY <3>1
    <3> QED BY <1>1, <2>2, <3>2
  <2>3. Entries(s, i + 1, v) BY <1>1, <1>2, <2>1, <2>2
  <2> QED BY <1>5, <2>3 DEF In
<1> QED BY <1>4, <1>5

LEMMA RadixFacts ==
  ASSUME NEW v
  PROVE  Entries(Radix(v), 2^RadixLength, v)
<1> DEFINE n == 2^RadixLength
           D(g) == [i \in 0 .. n |->
                      IF i = 0 THEN <<>>
                      ELSE IF InRadix(i - 1, v) THEN Append(g[i - 1], i - 1)
                      ELSE g[i - 1]]
           fill == CHOOSE g : g = D(g)
           R == Seq(0 .. n - 1)
           Next1(i, s) == IF i \in 1 .. n /\ InRadix(i - 1, v) THEN Append(s, i - 1) ELSE s
<1>1. Radix(v) = fill[n] BY DEF Radix
<1>2. n \in Nat BY BlockFacts
<1> HIDE DEF n
<1>3. \E g : g = D(g)
  <2> DEFINE f == [x \in Nat \X R |-> Next1(x[1], x[2])]
  <2>1. f \in [Nat \X R -> R]
    <3> SUFFICES ASSUME NEW i \in Nat, NEW s \in R PROVE Next1(i, s) \in R
        OBVIOUS
    <3>1. CASE i \in 1 .. n /\ InRadix(i - 1, v)
      <4>1. i - 1 \in 0 .. n - 1 BY <1>2, <3>1
      <4> QED BY <3>1, <4>1
    <3> QED BY <3>1
  <2>2. <<>> \in R OBVIOUS
  <2>3. PICK h \in [0 .. n -> R] : Iterates(h, <<>>, f, n)
    <3> HIDE DEF f, R
    <3> QED BY <1>2, <2>1, <2>2, NumberRecursion
  <2>4. ASSUME NEW i \in 0 .. n PROVE h[i] = D(h)[i]
    <3>1. CASE i = 0 BY <2>3, <3>1 DEF Iterates
    <3>2. CASE i # 0
      <4>1. i - 1 \in 0 .. n /\ i \in Nat /\ i \in 1 .. n BY <1>2, <3>2
      <4>2. h[i] = Next1(i, h[i - 1])
        <5>1. <<i, h[i - 1]>> \in Nat \X R BY <4>1
        <5> HIDE DEF R
        <5>2. f[<<i, h[i - 1]>>] = Next1(i, h[i - 1]) BY <5>1
        <5> HIDE DEF f, Next1
        <5> QED BY <2>3, <4>1, <5>2 DEF Iterates
      <4> QED BY <3>2, <4>1, <4>2
    <3> QED BY <3>1, <3>2
  <2>5. h = D(h) BY <2>3, <2>4
  <2> HIDE DEF D
  <2> QED BY <2>5
<1>4. fill = D(fill) BY <1>3
<1> HIDE DEF fill
<1> DEFINE G == {i \in Nat : i <= n => Entries(fill[i], i, v)}
<1>5. 0 \in G
  <2>1. fill[0] = <<>>
    <3>1. 0 \in 0 .. n BY <1>2
    <3> QED BY <1>4, <3>1
  <2>2. Entries(<<>>, 0, v)
    <3>1. <<>> \in Seq(0 .. 2^RadixLength - 1) /\ Len(<<>>) = 0 OBVIOUS
    <3>2. 1 .. 0 = {} /\ 0 .. 0 - 1 = {} OBVIOUS
    <3> QED BY <3>1, <3>2 DEF Entries
  <2> QED BY <2>1, <2>2
<1>6. ASSUME NEW i \in Nat, i \in G PROVE i + 1 \in G
  <2> SUFFICES ASSUME i + 1 <= n PROVE Entries(fill[i + 1], i + 1, v) OBVIOUS
  <2>1. Entries(fill[i], i, v) /\ i < 2^RadixLength BY <1>2, <1>6 DEF n
  <2>2. fill[i + 1] = IF InRadix(i, v) THEN Append(fill[i], i) ELSE fill[i]
    <3>1. i + 1 \in 0 .. n /\ i + 1 # 0 /\ (i + 1) - 1 = i BY <1>2
    <3> QED BY <1>4, <3>1
  <2> QED BY <2>1, <2>2, EntriesNext
<1>7. n \in G
  <2> HIDE DEF G
  <2> QED BY <1>2, <1>5, <1>6, Induction
<1> QED BY <1>1, <1>2, <1>7 DEF n

\* The addresses that are not in a small leaf are those of the radix entries.
LEMMA BigFacts ==
  ASSUME IsTree(leaf), NEW v
  PROVE  /\ Small(v) \subseteq Valued(v) /\ Big(v) \subseteq Address
         /\ \A a \in Address : a \in Big(v) <=> InRadix(a \div Block, v)
<1>1. Small(v) \subseteq Valued(v) BY LeafValue DEF Small, Valued
<1>2. ASSUME NEW a \in Address PROVE a \in Big(v) <=> InRadix(a \div Block, v)
  <2> DEFINE e == Entry(a \div Block)
  <2>1. e \in Prefix /\ a \in Cover(e) /\ e[1] = RadixLength BY EntryFacts DEF Entry
  <2>2. InRadix(a \div Block, v) <=> \E q \in DOMAIN leaf : Within(e, q) /\ leaf[q] = v
        BY DEF InRadix, Entry
  <2> HIDE DEF e
  <2>3. PICK q \in DOMAIN leaf : a \in Cover(q) BY DEF IsTree
  <2>4. q \in Prefix /\ \A r \in DOMAIN leaf : r \in Prefix BY DEF IsTree
  <2>5. \A r \in DOMAIN leaf : a \in Cover(r) => r = q BY <2>3, LeafUnique
  <2>6. a \in Valued(v) <=> leaf[q] = v BY <2>3, LeafValue DEF Valued
  <2>7. a \in Small(v) <=> leaf[q] = v /\ SmallLeaf(q) BY <2>3, <2>5 DEF Small
  <2>8. SmallLeaf(q) <=> ~(q[1] <= RadixLength) BY <2>4, BlockFacts, PrefixFacts
  <2>9. \A r \in DOMAIN leaf : Within(e, r) <=> r[1] <= RadixLength /\ a \in Cover(r)
        BY <2>1, <2>4, WithinCover
  <2> QED BY <2>2, <2>3, <2>5, <2>6, <2>7, <2>8, <2>9 DEF Big
<1> QED BY <1>1, <1>2 DEF Big, Valued

-----------------------------------------------------------------------------
(* The counts and the indices of a painted tree *)

\* The indices below the addresses of the radix entries are those addresses.
LEMMA BigIndices ==
  ASSUME IsTree(leaf), NEW v, radix = Radix(v)
  PROVE  /\ Len(radix) \in Nat /\ Len(radix) * Block \in Nat
         /\ \A k \in Nat : k \div Block < Len(radix) <=> k < Len(radix) * Block
         /\ \A k \in 0 .. Len(radix) * Block - 1 : constraint_lookup_index(k) \in Big(v)
         /\ \A k, m \in 0 .. Len(radix) * Block - 1 :
              constraint_lookup_index(k) = constraint_lookup_index(m) => k = m
         /\ \A a \in Big(v) : \E k \in 0 .. Len(radix) * Block - 1 :
              constraint_lookup_index(k) = a
<1> DEFINE B == Block
           R == 2^RadixLength
           L == Len(radix)
           ip(k) == constraint_lookup_index(k)
<1>1. /\ radix \in Seq(0 .. R - 1)
      /\ \A j \in 1 .. L : InRadix(radix[j], v)
      /\ \A x \in 0 .. R - 1 : InRadix(x, v) => \E j \in 1 .. L : radix[j] = x
      /\ \A j, k \in 1 .. L : radix[j] = radix[k] => j = k
      BY RadixFacts DEF Entries
<1>2. L \in Nat /\ B \in Nat \ {0} /\ R \in Nat BY <1>1, BlockFacts
<1>3. \A j \in 1 .. L : radix[j] \in 0 .. R - 1
  <2> DEFINE T == 0 .. R - 1
  <2>1. radix \in Seq(T) BY <1>1
  <2> HIDE DEF T
  <2>2. \A j \in 1 .. Len(radix) : radix[j] \in T BY <2>1
  <2> QED BY <2>2 DEF T
<1>4. /\ \A i \in 0 .. R - 1 : \A y \in 0 .. B - 1 :
           /\ i * B + y \in Address
           /\ (i * B + y) \div B = i /\ (i * B + y) % B = y
      /\ \A a \in Address : /\ a \div B \in 0 .. R - 1 /\ a % B \in 0 .. B - 1
                            /\ a = (a \div B) * B + (a % B)
      BY EntryFacts
<1>5. \A k : k \div B < L => ip(k) = radix[k \div B + 1] * B + (k % B)
      BY DEF constraint_lookup_index
<1>6. Big(v) \subseteq Address /\ \A a \in Address : a \in Big(v) <=> InRadix(a \div B, v)
      BY BigFacts
<1> HIDE DEF B, R, L, ip
<1>7. L * B \in Nat BY <1>2
<1>8. ASSUME NEW k \in Nat
      PROVE  /\ k \div B < L <=> k < L * B
             /\ k \div B \in Nat /\ k % B \in 0 .. B - 1
             /\ k = (k \div B) * B + (k % B)
  <2>1. k \div B \in Nat /\ k % B \in 0 .. B - 1 /\ k = (k \div B) * B + (k % B) BY <1>2
  <2>2. k < L * B => k \div B < L BY <1>2, DivBelow
  <2>3. k \div B < L => k < L * B
    <3> DEFINE d == k \div B
    <3>1. d \in Nat /\ k < d * B + B BY <1>2, <2>1
    <3> HIDE DEF d
    <3>2. ASSUME d < L PROVE k < L * B
      <4>1. (d + 1) * B <= L * B BY <1>2, <3>1, <3>2
      <4>2. (d + 1) * B = d * B + B /\ d * B \in Nat BY <1>2, <3>1
      <4> QED BY <1>2, <1>7, <3>1, <4>1, <4>2
    <3> QED BY <3>2 DEF d
  <2> QED BY <2>1, <2>2, <2>3
<1>9. ASSUME NEW k \in 0 .. L * B - 1
      PROVE  /\ k \in Nat /\ k \div B + 1 \in 1 .. L /\ ip(k) \in Address
             /\ ip(k) \div B = radix[k \div B + 1] /\ ip(k) % B = k % B
  <2>1. k \in Nat /\ k \div B < L /\ k \div B \in Nat /\ k % B \in 0 .. B - 1
        BY <1>2, <1>7, <1>8
  <2>2. k \div B + 1 \in 1 .. L BY <1>2, <2>1
  <2>3. ip(k) = radix[k \div B + 1] * B + (k % B) BY <1>5, <2>1
  <2>4. radix[k \div B + 1] \in 0 .. R - 1 BY <1>3, <2>2
  <2> QED BY <1>4, <2>1, <2>2, <2>3, <2>4
<1>10. ASSUME NEW k \in 0 .. L * B - 1 PROVE ip(k) \in Big(v)
       BY <1>1, <1>6, <1>9
<1>11. ASSUME NEW k \in 0 .. L * B - 1, NEW m \in 0 .. L * B - 1, ip(k) = ip(m)
       PROVE  k = m
  <2>1. k \div B + 1 = m \div B + 1 /\ k % B = m % B BY <1>1, <1>9, <1>11
  <2>2. k \in Nat /\ m \in Nat BY <1>7
  <2>3. k \div B = m \div B BY <1>8, <2>1, <2>2
  <2> QED BY <1>8, <2>1, <2>2, <2>3
<1>12. ASSUME NEW a \in Big(v) PROVE \E k \in 0 .. L * B - 1 : ip(k) = a
  <2>1. /\ a \in Address /\ InRadix(a \div B, v) /\ a \div B \in 0 .. R - 1
        /\ a % B \in 0 .. B - 1 /\ a = (a \div B) * B + (a % B)
        BY <1>4, <1>6
  <2>2. PICK j \in 1 .. L : radix[j] = a \div B BY <1>1, <2>1
  <2> DEFINE d == j - 1
             y == a % B
             k == d * B + y
  <2>3. d \in Nat /\ d + 1 = j /\ d < L /\ y \in Nat /\ y < B BY <1>2, <2>1, <2>2
  <2> HIDE DEF d, y
  <2>4. (d + 1) * B <= L * B BY <1>2, <2>3
  <2>5. (d + 1) * B = d * B + B /\ d * B \in Nat BY <1>2, <2>3
  <2>6. k \in 0 .. L * B - 1 BY <1>2, <1>7, <2>3, <2>4, <2>5
  <2>7. k \in Nat /\ d * B <= k /\ k < d * B + B BY <1>2, <2>3, <2>5
  <2> HIDE DEF k
  <2>8. d = k \div B BY <1>2, <2>3, <2>7, DivFacts
  <2>9. k % B = y
    <3>1. k = (k \div B) * B + (k % B) /\ k % B \in 0 .. B - 1 BY <1>8, <2>7
    <3>2. k = d * B + y BY DEF k
    <3>3. k % B \in Nat BY <1>2, <3>1
    <3> QED BY <2>3, <2>5, <2>8, <3>1, <3>2, <3>3
  <2>10. ip(k) = radix[j] * B + y BY <1>5, <2>3, <2>8, <2>9
  <2>11. ip(k) = a BY <2>1, <2>2, <2>10 DEF y
  <2> QED BY <2>6, <2>11
<1> QED BY <1>2, <1>7, <1>8, <1>10, <1>11, <1>12 DEF L, B, ip

LEMMA PaintedFacts ==
  ASSUME IsTree(leaf), NEW v, Counted(v), radix = Radix(v), painted, paint_value = v
  PROVE  LET indices == 0 .. constraint_count_ips(v) - 1
             ip == [i \in indices |-> constraint_lookup_index(i)]
         IN /\ IsInjective(ip)
            /\ Range(ip) = Valued(v)
            /\ constraint_count_ips(v) = Cardinality(Valued(v))
<1> DEFINE c == count[Root]
           b == Len(radix) * Block
           total == constraint_count_ips(v)
           ip == [i \in 0 .. total - 1 |-> constraint_lookup_index(i)]
<1>1. /\ c \in Nat
      /\ \A n \in 0 .. c - 1 : lookup_index(n) \in Small(v)
      /\ \A m, n \in 0 .. c - 1 : lookup_index(m) = lookup_index(n) => m = n
      /\ \A a \in Small(v) : \E n \in 0 .. c - 1 : lookup_index(n) = a
      BY SmallIndices
<1>2. /\ b \in Nat
      /\ \A k \in Nat : k \div Block < Len(radix) <=> k < b
      /\ \A k \in 0 .. b - 1 : constraint_lookup_index(k) \in Big(v)
      /\ \A k, m \in 0 .. b - 1 :
           constraint_lookup_index(k) = constraint_lookup_index(m) => k = m
      /\ \A a \in Big(v) : \E k \in 0 .. b - 1 : constraint_lookup_index(k) = a
      BY BigIndices
<1>3. total = c + b BY DEF constraint_count_ips
<1>4. \A k \in Nat : ~(k < b) => constraint_lookup_index(k) = lookup_index(k - b)
      BY <1>2 DEF constraint_lookup_index
<1>5. Valued(v) = Small(v) \cup Big(v) /\ Small(v) \cap Big(v) = {}
      BY BigFacts DEF Big
<1> HIDE DEF c, b, total
<1>6. ASSUME NEW k \in 0 .. total - 1
      PROVE  \/ k \in 0 .. b - 1 /\ ip[k] = constraint_lookup_index(k) /\ ip[k] \in Big(v)
             \/ /\ k \notin 0 .. b - 1 /\ k - b \in 0 .. c - 1
                /\ ip[k] = lookup_index(k - b) /\ ip[k] \in Small(v)
  <2>1. k \in Nat BY <1>1, <1>2, <1>3
  <2>2. CASE k < b
    <3>1. k \in 0 .. b - 1 BY <1>2, <2>1, <2>2
    <3> QED BY <1>2, <3>1
  <2>3. CASE ~(k < b)
    <3>1. k - b \in 0 .. c - 1 /\ k \notin 0 .. b - 1
          BY <1>1, <1>2, <1>3, <2>1, <2>3
    <3>2. ip[k] = lookup_index(k - b) BY <1>4, <2>1, <2>3
    <3> QED BY <1>1, <3>1, <3>2
  <2> QED BY <2>2, <2>3
<1>7. ASSUME NEW k \in 0 .. total - 1, NEW m \in 0 .. total - 1, ip[k] = ip[m]
      PROVE  k = m
  <2>1. k \in Nat /\ m \in Nat BY <1>1, <1>2, <1>3
  <2> DEFINE x == ip[k]
             y == ip[m]
  <2>2. x = y BY <1>7
  <2>3. /\ \/ k \in 0 .. b - 1 /\ x = constraint_lookup_index(k) /\ x \in Big(v)
           \/ k - b \in 0 .. c - 1 /\ x = lookup_index(k - b) /\ x \in Small(v)
        /\ \/ m \in 0 .. b - 1 /\ y = constraint_lookup_index(m) /\ y \in Big(v)
           \/ m - b \in 0 .. c - 1 /\ y = lookup_index(m - b) /\ y \in Small(v)
        BY <1>6
  <2> HIDE DEF x, y
  <2>4. CASE x \in Big(v)
    <3>1. x \notin Small(v) BY <1>5, <2>4
    <3> QED BY <1>2, <2>2, <2>3, <3>1
  <2>5. CASE x \in Small(v)
    <3>1. x \notin Big(v) BY <1>5, <2>5
    <3>2. k - b = m - b BY <1>1, <2>2, <2>3, <3>1
    <3> QED BY <1>2, <2>1, <3>2
  <2> QED BY <2>3, <2>4, <2>5
<1>8. ASSUME NEW a \in Valued(v) PROVE \E k \in 0 .. total - 1 : ip[k] = a
  <2>1. CASE a \in Big(v)
    <3>1. PICK k \in 0 .. b - 1 : constraint_lookup_index(k) = a BY <1>2, <2>1
    <3>2. k \in 0 .. total - 1 BY <1>1, <1>2, <1>3
    <3> QED BY <3>1, <3>2
  <2>2. CASE a \in Small(v)
    <3>1. PICK n \in 0 .. c - 1 : lookup_index(n) = a BY <1>1, <2>2
    <3>2. n + b \in 0 .. total - 1 /\ n + b \in Nat /\ ~(n + b < b) /\ (n + b) - b = n
          BY <1>1, <1>2, <1>3
    <3>3. ip[n + b] = a BY <1>4, <3>1, <3>2
    <3> QED BY <3>2, <3>3
  <2> QED BY <1>5, <2>1, <2>2
<1>9. \A k \in 0 .. total - 1 : ip[k] \in Valued(v) BY <1>5, <1>6
<1>10. DOMAIN ip = 0 .. total - 1 OBVIOUS
<1> DEFINE I == 0 .. total - 1
<1>11. IsFiniteSet(I) /\ Cardinality(I) = total
  <2>1. total \in Nat BY <1>1, <1>2, <1>3
  <2>2. CASE total = 0
    <3>1. I = {} BY <2>2
    <3> QED BY <2>2, <3>1, FS_EmptySet
  <2>3. CASE total # 0
    <3>1. 0 \in Int /\ total - 1 \in Int /\ 0 <= total - 1 /\ (total - 1) - 0 + 1 = total
          BY <2>1, <2>3
    <3> QED BY <3>1, FS_Interval
  <2> QED BY <2>2, <2>3
<1>12. ip \in [I -> Valued(v)] BY <1>9
<1> HIDE DEF ip, I
<1>13. IsInjective(ip) BY <1>7, <1>10 DEF IsInjective
<1>14. Range(ip) = Valued(v) BY <1>8, <1>9, <1>10 DEF Range
<1>15. ip \in Bijection(I, Valued(v))
  <2>1. \A a \in Valued(v) : \E k \in I : ip[k] = a BY <1>8 DEF I
  <2> QED BY <1>12, <1>13, <2>1 DEF Bijection, Injection, Surjection
<1>16. Cardinality(Valued(v)) = total
  <2>1. ExistsBijection(I, Valued(v)) BY <1>15 DEF ExistsBijection
  <2> QED BY <1>11, <2>1, FS_Bijection
<1> QED BY <1>13, <1>14, <1>16 DEF ip, total

-----------------------------------------------------------------------------
(* The constraint *)

\* What every operation keeps: a painting is that of the tree as it is.
ConstraintInv ==
  /\ IsTree(leaf) /\ IsCompact(leaf)
  /\ colour = [a \in Address |-> ValueAt(leaf, a)]
  /\ painted \in BOOLEAN /\ paint_value \in Values
  /\ radix \in Seq(0 .. 2^RadixLength - 1)
  /\ DOMAIN count \subseteq Prefix /\ count \in [DOMAIN count -> 0 .. 2^Bits]
  /\ painted => Counted(paint_value) /\ radix = Radix(paint_value)

LEMMA ConstraintSound == ConstraintInv => TreeSound /\ CountExact /\ IndexExact
<1> SUFFICES ASSUME ConstraintInv PROVE TreeSound /\ CountExact /\ IndexExact
    OBVIOUS
<1> USE DEF ConstraintInv
<1>1. ASSUME NEW a \in Address
      PROVE  Cardinality({q \in DOMAIN leaf : a \in Cover(q)}) = 1
  <2>1. PICK q \in DOMAIN leaf : a \in Cover(q) BY DEF IsTree
  <2>2. \A r \in DOMAIN leaf : a \in Cover(r) => r = q BY <2>1, LeafUnique
  <2>3. {r \in DOMAIN leaf : a \in Cover(r)} = {q} BY <2>1, <2>2
  <2> QED BY <2>3, FS_Singleton
<1>2. ASSUME NEW a \in Address PROVE ValueAt(leaf, a) \in Values
  <2>1. PICK q \in DOMAIN leaf : a \in Cover(q) BY DEF IsTree
  <2>2. ValueAt(leaf, a) = leaf[q] BY <2>1, LeafValue
  <2> QED BY <2>2 DEF IsTree
<1>3. ConstraintTypeOK
  <2>1. Partition BY <1>1 DEF Partition
  <2>2. colour \in [Address -> Values] BY <1>2
  <2>3. DOMAIN leaf \subseteq Prefix /\ leaf \in [DOMAIN leaf -> Values] BY DEF IsTree
  <2> QED BY <2>1, <2>2, <2>3 DEF ConstraintTypeOK
<1>4. LastPaintWins BY DEF LastPaintWins, lookup_ip, ValueAt
<1>5. Compact BY DEF IsCompact, Compact
<1>6. \A v : Valued(v) = {a \in Address : colour[a] = v} BY DEF Valued
<1>7. ASSUME NEW v \in Values PROVE constraint_count_ips(v) = Cardinality(Valued(v))
  <2>1. CASE painted /\ paint_value = v BY <2>1, PaintedFacts
  <2>2. CASE ~(painted /\ paint_value = v)
        BY <2>2, CountAll DEF constraint_count_ips
  <2> QED BY <2>1, <2>2
<1>8. CountExact BY <1>6, <1>7 DEF CountExact
<1>9. IndexExact
  <2>1. CASE painted BY <1>6, <2>1, PaintedFacts DEF IndexExact
  <2>2. CASE ~painted BY <2>2 DEF IndexExact
  <2> QED BY <2>1, <2>2
<1> QED BY <1>3, <1>4, <1>5, <1>8, <1>9 DEF TreeSound

LEMMA InitFacts == ASSUME NEW v \in Values, constraint_init(v) PROVE ConstraintInv
<1> USE DEF constraint_init
<1>1. leaf = [p \in {Root} |-> v] /\ DOMAIN leaf = {Root} /\ leaf[Root] = v OBVIOUS
<1>2. IsTree(leaf)
  <2>1. \A a \in Address : a \in Cover(Root) BY RootFacts
  <2> QED BY <1>1, <2>1, RootFacts DEF IsTree
<1>3. IsCompact(leaf) BY <1>1 DEF IsCompact
<1>4. ASSUME NEW a \in Address PROVE ValueAt(leaf, a) = v
  <2>1. a \in Cover(Root) BY RootFacts
  <2> QED BY <1>1, <1>2, <2>1, LeafValue
<1>5. count \in [{Root} -> 0 .. 2^Bits]
  <2>1. 0 \in 0 .. 2^Bits BY FiniteAddresses
  <2> QED BY <2>1
<1>6. DOMAIN count \subseteq Prefix /\ count \in [DOMAIN count -> 0 .. 2^Bits]
      BY <1>5, RootFacts
<1>7. colour = [a \in Address |-> ValueAt(leaf, a)] BY <1>4
<1>8. radix \in Seq(0 .. 2^RadixLength - 1) OBVIOUS
<1>9. painted = FALSE /\ paint_value \in Values OBVIOUS
<1> QED BY <1>2, <1>3, <1>6, <1>7, <1>8, <1>9 DEF ConstraintInv

\* Setting the prefixes of a host name, one after another in any order.
LEMMA FoldFacts ==
  ASSUME NEW t, IsTree(t), IsCompact(t), NEW ps, ps \subseteq Prefix, NEW v \in Values
  PROVE  LET u == FoldSet(LAMBDA p, s : set_recurse(s, p, v), t, ps)
         IN /\ IsTree(u) /\ IsCompact(u)
            /\ \A a \in Address : ValueAt(u, a) = IF \E p \in ps : a \in Cover(p)
                                                  THEN v ELSE ValueAt(t, a)
<1> DEFINE D(g) == [s \in SUBSET ps |->
                      IF s = {} THEN t
                      ELSE LET x == CHOOSE y \in s : TRUE
                           IN set_recurse(g[s \ {x}], x, v)]
           iter == CHOOSE g : g = D(g)
           Trees == {u \in UNION {[P -> Values] : P \in SUBSET Prefix} :
                       IsTree(u) /\ IsCompact(u)}
           Sound(u, s) == /\ IsTree(u) /\ IsCompact(u)
                          /\ \A a \in Address :
                               ValueAt(u, a) = IF \E p \in s : a \in Cover(p)
                                               THEN v ELSE ValueAt(t, a)
<1>1. FoldSet(LAMBDA p, s : set_recurse(s, p, v), t, ps) = iter[ps]
      BY DEF FoldSet, MapThenFoldSet
<1>2. IsFiniteSet(ps) BY FiniteAddresses, FS_Subset
<1>3. \A u : IsTree(u) /\ IsCompact(u) => u \in Trees BY DEF IsTree
<1>4. \E g : g = D(g)
  <2> DEFINE f == [x \in ps \X Trees |-> set_recurse(x[2], x[1], v)]
             c == [s \in SUBSET ps |-> CHOOSE y \in s : TRUE]
  <2>1. f \in [ps \X Trees -> Trees]
    <3>1. ASSUME NEW p \in ps, NEW u \in Trees PROVE set_recurse(u, p, v) \in Trees
      <4>1. p \in Prefix /\ IsTree(u) /\ IsCompact(u) OBVIOUS
      <4> HIDE DEF Trees
      <4> QED BY <1>3, <4>1, SetFacts
    <3> HIDE DEF Trees
    <3> QED BY <3>1
  <2> HIDE DEF Trees
  <2>2. PICK h \in [SUBSET ps -> Trees] : Gathers(h, t, f, c, ps)
    <3>1. \A s \in (SUBSET ps) \ {{}} : c[s] \in s OBVIOUS
    <3> HIDE DEF f, c
    <3> QED BY <1>2, <1>3, <2>1, <3>1, SetRecursion
  <2>3. ASSUME NEW s \in SUBSET ps PROVE h[s] = D(h)[s]
    <3>1. CASE s = {} BY <2>2, <3>1 DEF Gathers
    <3>2. CASE s # {}
      <4>1. c[s] \in s /\ c[s] = CHOOSE y \in s : TRUE BY <3>2
      <4> HIDE DEF c
      <4>2. h[s] = f[<<c[s], h[s \ {c[s]}]>>] BY <2>2, <3>2 DEF Gathers
      <4>3. <<c[s], h[s \ {c[s]}]>> \in ps \X Trees BY <4>1
      <4>4. h[s] = set_recurse(h[s \ {c[s]}], c[s], v) BY <4>2, <4>3
      <4> QED BY <3>2, <4>1, <4>4
    <3> QED BY <3>1, <3>2
  <2>4. h = D(h)
    <3>1. h = [s \in SUBSET ps |-> h[s]] BY <2>2
    <3> QED BY <2>3, <3>1
  <2> HIDE DEF D
  <2> QED BY <2>4
<1>5. iter = D(iter) BY <1>4
<1> HIDE DEF iter
<1> DEFINE B == {s \in SUBSET ps : ~Sound(iter[s], s)}
<1>6. ASSUME B # {} PROVE FALSE
  <2>1. PICK T \in B : \A x \in T : T \ {x} \notin B
    <3>1. B \subseteq SUBSET ps OBVIOUS
    <3> HIDE DEF B
    <3> QED BY <1>2, <1>6, <3>1, LeastSet
  <2>2. T \in SUBSET ps /\ ~Sound(iter[T], T) OBVIOUS
  <2>3. iter[T] = D(iter)[T] BY <1>5
  <2>4. CASE T = {}
    <3>1. iter[T] = t BY <2>2, <2>3, <2>4
    <3> QED BY <2>2, <2>4, <3>1
  <2>5. CASE T # {}
    <3> DEFINE x == CHOOSE y \in T : TRUE
               u == iter[T \ {x}]
    <3>1. x \in T /\ x \in Prefix BY <2>2, <2>5
    <3>2. iter[T] = set_recurse(u, x, v) BY <2>2, <2>3, <2>5
    <3> HIDE DEF x
    <3>3. Sound(u, T \ {x})
      <4>1. T \ {x} \in SUBSET ps BY <2>2
      <4> HIDE DEF Sound
      <4> QED BY <2>1, <3>1, <4>1
    <3> HIDE DEF u
    <3>4. /\ IsTree(iter[T]) /\ IsCompact(iter[T])
          /\ \A a \in Address : ValueAt(iter[T], a)
                                  = IF a \in Cover(x) THEN v ELSE ValueAt(u, a)
          BY <3>1, <3>2, <3>3, SetFacts
    <3>5. ASSUME NEW a \in Address
          PROVE  ValueAt(iter[T], a) = IF \E p \in T : a \in Cover(p)
                                       THEN v ELSE ValueAt(t, a)
          BY <3>1, <3>3, <3>4
    <3>6. Sound(iter[T], T) BY <3>4, <3>5
    <3> HIDE DEF Sound
    <3> QED BY <2>2, <3>6
  <2> QED BY <2>4, <2>5
<1>7. Sound(iter[ps], ps)
  <2> HIDE DEF Sound
  <2> QED BY <1>6
<1> QED BY <1>1, <1>7

LEMMA PaintFacts ==
  ASSUME ConstraintInv, NEW v \in Values, constraint_paint_value(v)
  PROVE  ConstraintInv'
<1> USE DEF constraint_paint_value, tree
<1>1. /\ leaf' = leaf /\ colour' = colour /\ painted' = TRUE /\ paint_value' = v
      /\ radix' = Radix(v) /\ count' = [p \in Nodes(leaf) |-> count_ips(p, v, TRUE)]
      OBVIOUS
<1>2. \A i : InRadix(i, v)' <=> InRadix(i, v) BY <1>1 DEF InRadix
<1>3. Radix(v)' = Radix(v) BY <1>1 DEF Radix, InRadix
<1>4. \A p : count_ips(p, v, TRUE)' = count_ips(p, v, TRUE) BY <1>1 DEF count_ips
<1>5. Counted(v)' BY <1>1 DEF Counted, count_ips
<1>6. Radix(v) \in Seq(0 .. 2^RadixLength - 1) BY RadixFacts DEF Entries
<1>7. IsTree(leaf) BY DEF ConstraintInv
<1>8. \A n \in Nodes(leaf) : n \in Prefix BY <1>7, NodeFacts
<1>9. ASSUME NEW n \in Nodes(leaf) PROVE count_ips(n, v, TRUE) \in 0 .. 2^Bits
  <2> DEFINE S == {a \in Address : \E q \in DOMAIN leaf :
                     /\ a \in Cover(q) /\ Within(q, n) /\ leaf[q] = v
                     /\ TRUE => SmallLeaf(q)}
  <2>1. count_ips(n, v, TRUE) = Cardinality(S) BY <1>7, <1>8, CountIps
  <2>2. S \subseteq Address OBVIOUS
  <2> HIDE DEF S
  <2>3. Cardinality(S) \in Nat BY <2>2, FiniteSubset
  <2>4. Cardinality(S) <= 2^Bits BY <2>2, FiniteAddresses, FS_Subset
  <2>5. 2^Bits \in Nat BY FiniteAddresses
  <2> DEFINE c == Cardinality(S)
             all == 2^Bits
  <2>6. c \in Nat /\ c <= all /\ all \in Nat BY <2>3, <2>4, <2>5
  <2> HIDE DEF c, all
  <2>7. c \in 0 .. all BY <2>6
  <2> QED BY <2>1, <2>7 DEF c, all
<1>10. DOMAIN count' \subseteq Prefix /\ count' \in [DOMAIN count' -> 0 .. 2^Bits]
       BY <1>1, <1>8, <1>9
<1>11. (IsTree(leaf) /\ IsCompact(leaf))'
       /\ colour' = [a \in Address |-> ValueAt(leaf, a)]'
       BY <1>1 DEF ConstraintInv
<1> QED BY <1>1, <1>3, <1>5, <1>6, <1>10, <1>11 DEF ConstraintInv

LEMMA SetStep ==
  ASSUME ConstraintInv, NEW p \in Prefix, NEW v \in Values, constraint_set(p, v)
  PROVE  ConstraintInv'
<1>1. /\ leaf' = set_recurse(leaf, p, v) /\ painted' = FALSE
      /\ colour' = [a \in Address |-> IF a \in Cover(p) THEN v ELSE colour[a]]
      /\ radix' = radix /\ count' = count /\ paint_value' = paint_value
      BY DEF constraint_set
<1>2. IsTree(leaf) /\ IsCompact(leaf) /\ colour = [a \in Address |-> ValueAt(leaf, a)]
      BY DEF ConstraintInv
<1>3. /\ IsTree(leaf') /\ IsCompact(leaf')
      /\ \A a \in Address : ValueAt(leaf', a) = IF a \in Cover(p) THEN v
                                                ELSE ValueAt(leaf, a)
      BY <1>1, <1>2, SetFacts
<1>4. colour' = [a \in Address |-> ValueAt(leaf', a)] BY <1>1, <1>2, <1>3
<1> QED BY <1>1, <1>3, <1>4 DEF ConstraintInv

LEMMA ConstraintStep ==
  ASSUME ConstraintInv, [ConstraintNext]_<<tree, paint>>
  PROVE  ConstraintInv'
<1>1. CASE ConstraintNext BY <1>1, SetStep, PaintFacts DEF ConstraintNext, PaintFor
<1>2. CASE UNCHANGED <<tree, paint>>
  <2>1. /\ leaf' = leaf /\ colour' = colour /\ radix' = radix /\ count' = count
        /\ painted' = painted /\ paint_value' = paint_value
        BY <1>2 DEF tree, paint
  <2>2. Radix(paint_value)' = Radix(paint_value) BY <2>1 DEF Radix, InRadix
  <2>3. Counted(paint_value)' <=> Counted(paint_value)
        BY <2>1 DEF Counted, count_ips
  <2> QED BY <2>1, <2>2, <2>3 DEF ConstraintInv
<1> QED BY <1>1, <1>2

\* The invariant that the three theorems below rest on: the leaves are a tree
\* with the values last set, and what the last painting left is that of the
\* tree until a prefix is set again (constraint_set, constraint_paint_value).
THEOREM ConstraintSafe == ConstraintSpec => []ConstraintInv
<1>1. ConstraintInit => ConstraintInv BY InitFacts DEF ConstraintInit
<1>2. ConstraintInv /\ [ConstraintNext]_<<tree, paint>> => ConstraintInv'
      BY ConstraintStep
<1> QED BY <1>1, <1>2, PTL DEF ConstraintSpec

\* Whatever prefixes are set, in whatever order, and whenever the tree is
\* painted: the tree stands for the last value set, and no two of its leaves
\* could be one (set_recurse).
THEOREM ConstraintTree == ConstraintSpec => []TreeSound
BY ConstraintSafe, ConstraintSound, PTL

\* The number of addresses of a value is right, whether it is taken from the
\* last painting or from the tree (constraint_count_ips).
THEOREM ConstraintCounts == ConstraintSpec => []CountExact
BY ConstraintSafe, ConstraintSound, PTL

\* The indices below the count are, one to one, the addresses of the value, in
\* the radix array and past its end (constraint_lookup_index).
THEOREM ConstraintIndices == ConstraintSpec => []IndexExact
BY ConstraintSafe, ConstraintSound, PTL

-----------------------------------------------------------------------------
(* blacklist_init *)

\* What is allowed before the blacklist is looked at.
Wanted ==
  IF sources \cap {"wfile", "wlist"} = {} THEN Address ELSE Covered(whitelisted_cidrs)

\* At every moment what is allowed is what the entries read so far say; nothing
\* is blacklisted while the whitelist is read, and 0.0.0.0 is before the end.
BlacklistInv ==
  /\ sources \subseteq {"wfile", "wlist", "bfile"}
  /\ phase \in {"wfile", "wlist", "bfile", "zero", "paint", "ready", "failure", "exit"}
  /\ whitelisted_cidrs \subseteq Prefix /\ blacklisted_cidrs \subseteq Prefix
  /\ phase \in {"wfile", "wlist"} => blacklisted_cidrs = {}
  /\ phase \in {"paint", "ready", "failure"} => <<Bits, 0>> \in blacklisted_cidrs
  /\ \A a \in Address :
       colour[a] = ADDR_ALLOWED <=> a \in Wanted \ Covered(blacklisted_cidrs)
  /\ phase = "ready" => /\ painted /\ paint_value = ADDR_ALLOWED
                        /\ \E q \in DOMAIN leaf : leaf[q] = ADDR_ALLOWED

LEMMA ValueFacts ==
  /\ Values = {ADDR_DISALLOWED, ADDR_ALLOWED} /\ ADDR_ALLOWED # ADDR_DISALLOWED
  /\ {<<Bits, 0>>} \subseteq Prefix /\ Cover(<<Bits, 0>>) = {0} /\ 0 \in Address
  /\ \A ps \in {{p} : p \in Networks} \cup Hosts : ps \subseteq Prefix
<1>1. Values = {ADDR_DISALLOWED, ADDR_ALLOWED} /\ ADDR_ALLOWED # ADDR_DISALLOWED
      BY BlacklistAssumption DEF ADDR_ALLOWED, ADDR_DISALLOWED
<1>2. Bits \in Nat /\ Bits \in 0 .. Bits /\ 2^Bits \in Nat \ {0}
      BY PrefixFacts, FiniteAddresses
<1>3. 0 \in Address /\ 0 \in 0 .. 2^Bits - 1 BY <1>2 DEF Address
<1>4. <<Bits, 0>> \in Prefix BY <1>2, <1>3, PrefixFacts
<1>5. Cover(<<Bits, 0>>) = {0}
  <2>1. Bits - Bits = 0 BY <1>2
  <2>2. Size(<<Bits, 0>>) = 1 BY <2>1, PowerZero DEF Size
  <2>3. Cover(<<Bits, 0>>) = 0 * 1 .. (0 + 1) * 1 - 1 BY <2>2 DEF Cover
  <2> QED BY <2>3
<1>6. \A ps \in {{p} : p \in Networks} \cup Hosts : ps \subseteq Prefix
      BY BlacklistAssumption
<1> QED BY <1>1, <1>3, <1>4, <1>5, <1>6

LEMMA AddStep ==
  ASSUME ConstraintInv, NEW ps, ps \subseteq Prefix, NEW v \in Values, Add(ps, v)
  PROVE  ConstraintInv'
<1>1. /\ leaf' = FoldSet(LAMBDA p, s : set_recurse(s, p, v), leaf, ps)
      /\ painted' = FALSE
      /\ colour' = [a \in Address |-> IF \E p \in ps : a \in Cover(p)
                                      THEN v ELSE colour[a]]
      /\ radix' = radix /\ count' = count /\ paint_value' = paint_value
      BY DEF Add
<1>2. IsTree(leaf) /\ IsCompact(leaf) /\ colour = [a \in Address |-> ValueAt(leaf, a)]
      BY DEF ConstraintInv
<1>3. /\ IsTree(leaf') /\ IsCompact(leaf')
      /\ \A a \in Address : ValueAt(leaf', a) = IF \E p \in ps : a \in Cover(p)
                                                THEN v ELSE ValueAt(leaf, a)
      BY <1>1, <1>2, FoldFacts
<1>4. colour' = [a \in Address |-> ValueAt(leaf', a)] BY <1>1, <1>2, <1>3
<1> QED BY <1>1, <1>3, <1>4 DEF ConstraintInv

\* The constraint stays as it is.
LEMMA KeepStep ==
  ASSUME ConstraintInv, UNCHANGED <<tree, paint>>
  PROVE  ConstraintInv'
BY ConstraintStep

LEMMA CoveredUnion ==
  ASSUME NEW ps, NEW qs, ps \subseteq Prefix, qs \subseteq Prefix, NEW a \in Address
  PROVE  /\ a \in Covered(ps) <=> \E p \in ps : a \in Cover(p)
         /\ a \in Covered(ps \cup qs) <=> a \in Covered(ps) \/ a \in Covered(qs)
BY DEF Covered

\* A line or 0.0.0.0: the colours follow the cidrs.
LEMMA AddAllowed ==
  ASSUME ConstraintInv, BlacklistInv, NEW ps, ps \subseteq Prefix, NEW v \in Values,
         Add(ps, v), UNCHANGED sources,
         v = ADDR_ALLOWED => /\ sources \cap {"wfile", "wlist"} # {}
                             /\ blacklisted_cidrs = {}
  PROVE  /\ (whitelisted_cidrs \subseteq Prefix /\ blacklisted_cidrs \subseteq Prefix)'
         /\ (\A a \in Address :
               colour[a] = ADDR_ALLOWED <=> a \in Wanted \ Covered(blacklisted_cidrs))'
<1>1. /\ whitelisted_cidrs \subseteq Prefix /\ blacklisted_cidrs \subseteq Prefix
      /\ sources' = sources
      /\ \A a \in Address :
           colour[a] = ADDR_ALLOWED <=> a \in Wanted \ Covered(blacklisted_cidrs)
      BY DEF BlacklistInv
<1>2. \A a \in Address :
        colour'[a] = IF a \in Covered(ps) THEN v ELSE colour[a]
      BY DEF Add, Covered
<1>3. CASE v = ADDR_ALLOWED
  <2>1. /\ whitelisted_cidrs' = whitelisted_cidrs \cup ps
        /\ blacklisted_cidrs' = blacklisted_cidrs /\ blacklisted_cidrs = {}
        BY <1>3 DEF Add
  <2>2. Covered({}) = {} BY DEF Covered
  <2>3. Wanted = Covered(whitelisted_cidrs) /\ Wanted' = Covered(whitelisted_cidrs')
        BY <1>1, <1>3 DEF Wanted
  <2>4. ASSUME NEW a \in Address
        PROVE  colour'[a] = ADDR_ALLOWED <=> a \in Wanted' \ Covered(blacklisted_cidrs')
    <3>1. a \in Wanted' <=> a \in Wanted \/ a \in Covered(ps)
          BY <1>1, <2>1, <2>3, CoveredUnion
    <3> QED BY <1>1, <1>2, <1>3, <2>1, <2>2, <3>1
  <2> QED BY <1>1, <2>1, <2>4
<1>4. CASE v # ADDR_ALLOWED
  <2>1. /\ blacklisted_cidrs' = blacklisted_cidrs \cup ps
        /\ whitelisted_cidrs' = whitelisted_cidrs
        BY <1>4 DEF Add
  <2>2. Wanted' = Wanted BY <1>1, <2>1 DEF Wanted
  <2>3. ASSUME NEW a \in Address
        PROVE  colour'[a] = ADDR_ALLOWED <=> a \in Wanted' \ Covered(blacklisted_cidrs')
    <3>1. a \in Covered(blacklisted_cidrs')
            <=> a \in Covered(blacklisted_cidrs) \/ a \in Covered(ps)
          BY <1>1, <2>1, CoveredUnion
    <3> QED BY <1>1, <1>2, <1>4, <2>2, <3>1
  <2> QED BY <1>1, <2>1, <2>3
<1> QED BY <1>3, <1>4

LEMMA InitAllowed == Init => ConstraintInv /\ BlacklistInv
<1> SUFFICES ASSUME Init PROVE ConstraintInv /\ BlacklistInv OBVIOUS
<1>1. Default(sources) \in Values BY ValueFacts DEF Default
<1>2. ConstraintInv BY <1>1, InitFacts DEF Init
<1>3. ASSUME NEW a \in Address
      PROVE  colour[a] = ADDR_ALLOWED <=> a \in Wanted \ Covered(blacklisted_cidrs)
  <2>1. colour[a] = Default(sources) BY DEF Init, constraint_init
  <2>2. Covered({}) = {} BY DEF Covered
  <2> QED BY <2>1, <2>2, ValueFacts DEF Init, Default, Wanted
<1> QED BY <1>2, <1>3 DEF Init, BlacklistInv

LEMMA KeepAllowed ==
  ASSUME BlacklistInv, UNCHANGED <<tree, sources, cidrs>>
  PROVE  (\A a \in Address :
            colour[a] = ADDR_ALLOWED <=> a \in Wanted \ Covered(blacklisted_cidrs))'
<1>1. /\ colour' = colour /\ sources' = sources
      /\ whitelisted_cidrs' = whitelisted_cidrs /\ blacklisted_cidrs' = blacklisted_cidrs
      BY DEF tree, cidrs
<1>2. Wanted' = Wanted BY <1>1 DEF Wanted
<1> QED BY <1>1, <1>2 DEF BlacklistInv

\* The invariant of blacklist_init: that of the constraint, and that what is
\* allowed so far is what the sources read so far say.
THEOREM BlacklistSafe == Spec => [](ConstraintInv /\ BlacklistInv)
<1>1. ASSUME ConstraintInv, BlacklistInv, [Next]_vars
      PROVE  ConstraintInv' /\ BlacklistInv'
  <2> DEFINE Allowed == \A a \in Address :
               colour[a] = ADDR_ALLOWED <=> a \in Wanted \ Covered(blacklisted_cidrs)
  <2>1. CASE GoodLine
    <3>1. PICK ps \in {{p} : p \in Networks} \cup Hosts : Add(ps, ValueOf[phase])
          BY <2>1 DEF GoodLine
    <3>2. /\ phase \in sources /\ phase \in {"wfile", "wlist", "bfile"}
          /\ sources' = sources /\ phase' = phase /\ ps \subseteq Prefix
          BY <1>1, <2>1, ValueFacts DEF GoodLine, Reading, given, BlacklistInv
    <3>3. /\ ValueOf[phase] \in Values
          /\ ValueOf[phase] = ADDR_ALLOWED => phase \in {"wfile", "wlist"}
          /\ phase \in {"wfile", "wlist"} => ValueOf[phase] = ADDR_ALLOWED
          BY <3>2, ValueFacts DEF ValueOf
    <3>4. ConstraintInv' BY <1>1, <3>1, <3>2, <3>3, AddStep
    <3>5. /\ (whitelisted_cidrs \subseteq Prefix /\ blacklisted_cidrs \subseteq Prefix)'
          /\ Allowed'
      <4>1. ValueOf[phase] = ADDR_ALLOWED => /\ sources \cap {"wfile", "wlist"} # {}
                                             /\ blacklisted_cidrs = {}
            BY <1>1, <3>2, <3>3 DEF BlacklistInv
      <4> QED BY <1>1, <3>1, <3>2, <3>3, <4>1, AddAllowed
    <3>6. phase \in {"wfile", "wlist"} => blacklisted_cidrs' = {}
          BY <1>1, <3>1, <3>3 DEF BlacklistInv, Add
    <3> QED BY <1>1, <3>2, <3>4, <3>5, <3>6 DEF BlacklistInv
  <2>2. CASE UnknownHost \/ BadPrefix
    <3>1. /\ UNCHANGED <<tree, paint, given, cidrs>> /\ phase \in sources
          /\ phase' = "exit" \/ phase' = phase
          BY <2>2 DEF UnknownHost, BadPrefix, Reading
    <3>2. UNCHANGED <<tree, paint>> /\ UNCHANGED <<tree, sources, cidrs>>
          BY <3>1 DEF given
    <3>3. phase \in {"wfile", "wlist", "bfile"} BY <1>1, <3>1 DEF BlacklistInv
    <3>4. ConstraintInv' /\ Allowed' BY <1>1, <3>2, KeepStep, KeepAllowed
    <3> QED BY <1>1, <3>1, <3>2, <3>3, <3>4 DEF BlacklistInv, cidrs
  <2>3. CASE EndOfSource
    <3>1. UNCHANGED <<tree, paint>> /\ UNCHANGED <<tree, sources, cidrs>>
          BY <2>3 DEF EndOfSource, given
    <3>2. \/ phase = "wfile" /\ phase' = "wlist"
          \/ phase = "wlist" /\ phase' = "bfile"
          \/ phase = "bfile" /\ phase' = "zero"
          BY <2>3 DEF EndOfSource, NextPhase
    <3>3. ConstraintInv' /\ Allowed' BY <1>1, <3>1, KeepStep, KeepAllowed
    <3> QED BY <1>1, <3>1, <3>2, <3>3 DEF BlacklistInv, cidrs
  <2>4. CASE Zero
    <3>1. /\ Add({<<Bits, 0>>}, ADDR_DISALLOWED) /\ phase' = "paint" /\ phase = "zero"
          /\ sources' = sources
          BY <2>4 DEF Zero, given
    <3>2. ConstraintInv' BY <1>1, <3>1, AddStep, ValueFacts
    <3>3. /\ (whitelisted_cidrs \subseteq Prefix /\ blacklisted_cidrs \subseteq Prefix)'
          /\ Allowed'
          BY <1>1, <3>1, AddAllowed, ValueFacts
    <3>4. <<Bits, 0>> \in blacklisted_cidrs' BY <3>1, ValueFacts DEF Add
    <3> QED BY <1>1, <3>1, <3>2, <3>3, <3>4 DEF BlacklistInv
  <2>5. CASE Paint
    <3>1. /\ constraint_paint_value(ADDR_ALLOWED) /\ UNCHANGED <<tree, sources, cidrs>>
          /\ phase = "paint" /\ painted' = TRUE /\ paint_value' = ADDR_ALLOWED
          /\ \/ phase' = "failure"
             \/ phase' = "ready" /\ \E q \in DOMAIN leaf : leaf[q] = ADDR_ALLOWED
          BY <2>5 DEF Paint, constraint_paint_value, given
    <3>2. ConstraintInv' BY <1>1, <3>1, PaintFacts, ValueFacts
    <3>3. Allowed' BY <1>1, <3>1, KeepAllowed
    <3>4. leaf' = leaf BY <3>1 DEF tree
    <3> QED BY <1>1, <3>1, <3>2, <3>3, <3>4 DEF BlacklistInv, cidrs
  <2>6. CASE UNCHANGED vars
    <3>1. UNCHANGED <<tree, paint>> /\ UNCHANGED <<tree, sources, cidrs>>
          BY <2>6 DEF vars, given
    <3>2. ConstraintInv' /\ Allowed' BY <1>1, <3>1, KeepStep, KeepAllowed
    <3> QED BY <1>1, <2>6, <3>2 DEF BlacklistInv, vars, cidrs, given, tree, paint
  <2> QED BY <1>1, <2>1, <2>2, <2>3, <2>4, <2>5, <2>6 DEF Next
<1> QED BY <1>1, InitAllowed, PTL DEF Spec

LEMMA AllowedSound ==
  ConstraintInv /\ BlacklistInv => AllowedExact /\ IndicesAllowed
<1> SUFFICES ASSUME ConstraintInv, BlacklistInv PROVE AllowedExact /\ IndicesAllowed
    OBVIOUS
<1> DEFINE Allowed == {a \in Address : blacklist_is_allowed(a)}
<1>1. Allowed = Valued(ADDR_ALLOWED)
      BY DEF blacklist_is_allowed, lookup_ip, Valued, ValueAt
<1>2. Valued(ADDR_ALLOWED) = {a \in Address : colour[a] = ADDR_ALLOWED}
      BY DEF ConstraintInv, Valued
<1>3. phase \in {"paint", "ready", "failure"} => 0 \in Covered(blacklisted_cidrs)
      BY ValueFacts DEF BlacklistInv, Covered
<1>4. Wanted \subseteq Address
  <2>1. whitelisted_cidrs \in SUBSET Prefix BY DEF BlacklistInv
  <2> QED BY <2>1, CoveredFinite DEF Wanted
<1>5. Allowed = Wanted \ Covered(blacklisted_cidrs)
      BY <1>1, <1>2, <1>4 DEF BlacklistInv
<1>6. AllowedExact
  <2> SUFFICES ASSUME phase \in {"ready", "failure"}
               PROVE  Allowed = Wanted \ (Covered(blacklisted_cidrs) \cup {0})
      BY DEF AllowedExact, Wanted
  <2> QED BY <1>3, <1>5
<1>7. IndicesAllowed
  <2> SUFFICES ASSUME phase = "ready"
               PROVE  LET indices == 0 .. blacklist_count_allowed - 1
                          ip == [i \in indices |-> blacklist_lookup_index(i)]
                      IN /\ blacklist_count_allowed \in 1 .. 2^Bits - 1
                         /\ IsInjective(ip) /\ Range(ip) = Allowed
      BY DEF IndicesAllowed
  <2>1. /\ painted /\ paint_value = ADDR_ALLOWED /\ IsTree(leaf)
        /\ Counted(ADDR_ALLOWED) /\ radix = Radix(ADDR_ALLOWED)
        /\ \E q \in DOMAIN leaf : leaf[q] = ADDR_ALLOWED
        BY DEF BlacklistInv, ConstraintInv
  <2>2. LET indices == 0 .. constraint_count_ips(ADDR_ALLOWED) - 1
            ip == [i \in indices |-> constraint_lookup_index(i)]
        IN /\ IsInjective(ip) /\ Range(ip) = Allowed
           /\ constraint_count_ips(ADDR_ALLOWED) = Cardinality(Allowed)
        BY <1>1, <2>1, PaintedFacts
  <2>3. Allowed # {}
    <3>1. PICK q \in DOMAIN leaf : leaf[q] = ADDR_ALLOWED BY <2>1
    <3>2. PICK a : a \in Cover(q) BY <2>1, CoverInside DEF IsTree
    <3>3. a \in Address BY <2>1, <3>2, CoverInside DEF IsTree
    <3>4. ValueAt(leaf, a) = ADDR_ALLOWED BY <2>1, <3>1, <3>2, LeafValue
    <3> QED BY <1>1, <3>3, <3>4 DEF Valued
  <2>4. 0 \notin Allowed /\ 0 \in Address BY <1>3, <1>5, ValueFacts
  <2> DEFINE A == Allowed
             n == Cardinality(A)
             all == 2^Bits
  <2>5. A \subseteq Address OBVIOUS
  <2>6. IsFiniteSet(A) /\ n \in Nat /\ n <= all /\ all \in Nat /\ (n = all => A = Address)
    <3> HIDE DEF A
    <3> QED BY <2>5, FiniteAddresses, FiniteSubset, FS_Subset
  <2>7. n # 0
    <3> HIDE DEF A
    <3> QED BY <2>3, <2>6, FS_EmptySet DEF A
  <2>8. n # all BY <2>4, <2>6
  <2> HIDE DEF n, all
  <2>9. n \in 1 .. all - 1 BY <2>6, <2>7, <2>8
  <2>10. blacklist_count_allowed \in 1 .. 2^Bits - 1
         BY <2>2, <2>9 DEF blacklist_count_allowed, n, all
  <2> QED BY <2>2, <2>10 DEF blacklist_count_allowed, blacklist_lookup_index
<1> QED BY <1>6, <1>7

\* After every line read by blacklist_init the tree, the counts and the indices
\* are right.
THEOREM BlacklistTree == Spec => [](TreeSound /\ CountExact /\ IndexExact)
BY BlacklistSafe, ConstraintSound, PTL

\* What blacklist_init allows is the whitelist without the blacklist and without
\* 0.0.0.0 (blacklist_is_allowed).
THEOREM BlacklistAllows == Spec => []AllowedExact
BY BlacklistSafe, AllowedSound, PTL

\* The indices of the scan stand, one to one, for the addresses that are allowed
\* (blacklist_lookup_index, blacklist_count_allowed).
THEOREM BlacklistIndices == Spec => []IndicesAllowed
BY BlacklistSafe, AllowedSound, PTL
=============================================================================
