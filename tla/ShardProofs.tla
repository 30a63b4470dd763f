----------------------------- MODULE ShardProofs -----------------------------
(***************************************************************************)
(* The walks of the subshards, proved for every group, number of instances *)
(* and threads, allowed addresses, limit, generator and offset.            *)
(***************************************************************************)
EXTENDS Shard, Counting

-----------------------------------------------------------------------------
(* Division by a positive number *)

\* Division with remainder, as the provers know it.
LEMMA ModDef ==
  ASSUME NEW a \in Nat, NEW t \in Nat \ {0}
  PROVE  a = t * (a \div t) + (a % t) /\ a \div t \in Nat /\ a % t \in 0 .. t - 1
  BY SMT

\* The remainder is unique.
LEMMA ModUnique ==
  ASSUME NEW a \in Nat, NEW q \in Int, NEW r \in Int, NEW t \in Nat \ {0},
         0 <= r, r < t, a = t * q + r
  PROVE  a % t = r
  BY SMT

\* A number below the modulus is its own remainder.
LEMMA ModSmall ==
  ASSUME NEW a \in Nat, NEW t \in Nat \ {0}, a < t
  PROVE  a % t = a
  BY SMT

\* A number below twice the modulus is reduced by one subtraction.
LEMMA ModSub ==
  ASSUME NEW a \in Nat, NEW t \in Nat \ {0}, t <= a, a < 2 * t
  PROVE  a % t = a - t
  BY SMT

\* Different multiples of t are t apart.
LEMMA MulGap ==
  ASSUME NEW p \in Nat, NEW q \in Nat, NEW t \in Nat \ {0}, p < q
  PROVE  t * p + t <= t * q
  BY SMT

\* A step of t stays in the residue class.
LEMMA ModAdd ==
  ASSUME NEW a \in Nat, NEW t \in Nat \ {0}
  PROVE  (a + t) % t = a % t
<1> DEFINE q == a \div t
           r == a % t
<1>1. a = t * q + r /\ q \in Nat /\ r \in 0 .. t - 1  BY ModDef
<1>2. t * (q + 1) = t * q + t  BY <1>1, SMT
<1> HIDE DEF q, r
<1>3. a + t = t * (q + 1) + r  BY <1>1, <1>2, SMT
<1>4. (a + t) % t = r  BY <1>1, <1>3, ModUnique, SMT
<1> QED  BY <1>4 DEF r

\* Two numbers of a residue class are t apart.
LEMMA ModGap ==
  ASSUME NEW a \in Nat, NEW b \in Nat, NEW t \in Nat \ {0},
         a % t = b % t, a < b
  PROVE  a + t <= b
<1> DEFINE p == a \div t
           q == b \div t
           r == a % t
<1>1. a = t * p + r /\ p \in Nat /\ r \in 0 .. t - 1  BY ModDef
<1>2. b = t * q + r /\ q \in Nat  BY ModDef
<1>3. t * p \in Int /\ t * q \in Int  BY <1>1, <1>2, SMT
<1> HIDE DEF p, q, r
<1>4. p < q
  <2> SUFFICES ASSUME q <= p PROVE FALSE  BY <1>1, <1>2, SMT
  <2>1. CASE q = p  BY <2>1, <1>1, <1>2
  <2>2. CASE q < p
    <3>1. t * q + t <= t * p  BY <2>2, <1>1, <1>2, MulGap
    <3> QED  BY <3>1, <1>1, <1>2, <1>3, SMT
  <2> QED  BY <2>1, <2>2, <1>1, <1>2, SMT
<1>5. t * p + t <= t * q  BY <1>1, <1>2, <1>4, MulGap
<1> QED  BY <1>1, <1>2, <1>3, <1>5, SMT

\* Remainders may be taken before a product or a sum, or after it.
LEMMA ModTimes ==
  ASSUME NEW a \in Nat, NEW b \in Nat, NEW t \in Nat \ {0}
  PROVE  ((a % t) * b) % t = (a * b) % t
<1> DEFINE q == a \div t
           r == a % t
<1>1. a = t * q + r /\ q \in Nat /\ r \in Nat  BY ModDef
<1> HIDE DEF q, r
<1> DEFINE p == r * b
           u == p \div t
           v == p % t
<1>2. p \in Nat  BY <1>1, SMT
<1>3. p = t * u + v /\ u \in Nat /\ v \in 0 .. t - 1
  <2> HIDE DEF p
  <2> QED  BY <1>2, ModDef
<1>4. a * b = t * (q * b) + r * b  BY <1>1, SMT
<1>5. t * (q * b + u) = t * (q * b) + t * u /\ q * b + u \in Int
      /\ a * b \in Nat /\ t * (q * b) \in Int /\ t * u \in Int
  BY <1>1, <1>3, SMT
<1>6. a * b = t * (q * b + u) + v
  <2> DEFINE x == t * (q * b)
             y == t * u
             z == a * b
  <2>1. z = x + p /\ p = y + v /\ t * (q * b + u) = x + y
        /\ x \in Int /\ y \in Int /\ v \in Int
    BY <1>3, <1>4, <1>5
  <2> HIDE DEF x, y, z, u, v, p
  <2>2. z = (x + y) + v  BY <2>1, SMT
  <2> QED  BY <2>1, <2>2 DEF z
<1> HIDE DEF u, v
<1>7. (a * b) % t = v
  <2> DEFINE z == a * b
             w == q * b + u
  <2>1. z = t * w + v /\ z \in Nat /\ w \in Int /\ 0 <= v /\ v < t /\ v \in Int
    BY <1>3, <1>5, <1>6, SMT
  <2> HIDE DEF z, w
  <2>2. z % t = v  BY <2>1, ModUnique
  <2> QED  BY <2>2 DEF z
<1> QED  BY <1>7 DEF p, v, r

LEMMA ModPlus ==
  ASSUME NEW a \in Nat, NEW b \in Nat, NEW t \in Nat \ {0}
  PROVE  ((a % t) + b) % t = (a + b) % t
<1> DEFINE q == a \div t
           r == a % t
<1>1. a = t * q + r /\ q \in Nat /\ r \in Nat  BY ModDef
<1> HIDE DEF q, r
<1> DEFINE p == r + b
           u == p \div t
           v == p % t
<1>2. p \in Nat  BY <1>1, SMT
<1>3. p = t * u + v /\ u \in Nat /\ v \in 0 .. t - 1
  <2> HIDE DEF p
  <2> QED  BY <1>2, ModDef
<1> HIDE DEF u, v
<1>4. t * (q + u) = t * q + t * u /\ t * q \in Int /\ t * u \in Int  BY <1>1, <1>3, SMT
<1>5. a + b = t * (q + u) + v
  <2> DEFINE x == t * q
             y == t * u
  <2> HIDE DEF x, y
  <2>1. a = x + r /\ r + b = y + v /\ x \in Int /\ y \in Int /\ v \in Int
    BY <1>1, <1>3, <1>4 DEF x, y
  <2>2. a + b = (x + y) + v  BY <2>1, <1>1, SMT
  <2> QED  BY <2>2, <1>4 DEF x, y
<1>6. (a + b) % t = v
  <2> DEFINE z == a + b
             w == q + u
  <2>1. z = t * w + v /\ z \in Nat /\ w \in Int /\ 0 <= v /\ v < t /\ v \in Int
    BY <1>1, <1>3, <1>5, SMT
  <2> HIDE DEF z, w
  <2>2. z % t = v  BY <2>1, ModUnique
  <2> QED  BY <2>2 DEF z
<1> QED  BY <1>6 DEF p, v, r

-----------------------------------------------------------------------------
(* The end index *)

\* The end index that shard_init computes lies among the first tot indices.
LEMMA EndValue ==
  ASSUME NEW Elements \in Nat \ {0}, NEW tot \in 1 .. Elements, NEW b \in 0 .. tot - 1
  PROVE  end_idx(Elements, tot, b) = IF b < Elements % tot THEN b + tot - (Elements % tot)
                                           ELSE b - (Elements % tot)
<1> DEFINE r == Elements % tot
           q == Elements \div tot
<1>0. Elements \in Nat \ {0} /\ tot \in Nat \ {0} /\ tot <= Elements
  BY SMT
<1>b. b \in Nat /\ b < tot  BY <1>0, SMT
<1>1. Elements = tot * q + r /\ q \in Nat /\ r \in 0 .. tot - 1
  BY <1>0, ModDef
<1>2. end_idx(Elements, tot, b) = LET end == (Elements - r + b) % Elements
                  IN IF end >= tot THEN (end + tot) % Elements ELSE end
  BY DEF end_idx
<1>3. Elements - r >= tot
  <2>1. 0 < q
    <3> SUFFICES ASSUME q = 0 PROVE FALSE  BY <1>1, SMT
    <3>1. tot * q = 0  BY <1>0, SMT
    <3> QED  BY <3>1, <1>0, <1>1, SMT
  <2>2. tot * 0 + tot <= tot * q  BY <2>1, <1>0, <1>1, MulGap
  <2>3. tot * q \in Int /\ tot * 0 = 0  BY <1>0, <1>1, SMT
  <2> HIDE DEF q, r
  <2> QED  BY <2>2, <2>3, <1>0, <1>1, SMT
<1> HIDE DEF q, r
<1>4. CASE b < r
  <2>1. (Elements - r + b) % Elements = Elements - r + b
    BY <1>4, <1>0, <1>b, <1>1, <1>3, ModSmall, SMT
  <2>2. (Elements - r + b + tot) % Elements = b + tot - r
    <3> DEFINE sum == Elements - r + b + tot
    <3>1. sum \in Nat /\ Elements <= sum /\ sum < 2 * Elements
          /\ sum - Elements = b + tot - r
      BY <1>4, <1>0, <1>b, <1>1, <1>3, SMT
    <3> HIDE DEF sum
    <3>2. sum % Elements = sum - Elements  BY <3>1, <1>0, ModSub
    <3> QED  BY <3>1, <3>2 DEF sum
  <2> QED  BY <2>1, <2>2, <1>2, <1>4, <1>0, <1>b, <1>1, <1>3, SMT DEF r
<1>5. CASE ~(b < r)
  <2>1. (Elements - r + b) % Elements = b - r
    <3> DEFINE sum == Elements - r + b
    <3>1. sum \in Nat /\ Elements <= sum /\ sum < 2 * Elements
          /\ sum - Elements = b - r
      BY <1>5, <1>0, <1>b, <1>1, <1>3, SMT
    <3> HIDE DEF sum
    <3>2. sum % Elements = sum - Elements  BY <3>1, <1>0, ModSub
    <3> QED  BY <3>1, <3>2 DEF sum
  <2> QED  BY <2>1, <1>2, <1>5, <1>0, <1>b, <1>1, SMT DEF r
<1> QED  BY <1>4, <1>5

\* What follows the largest index of a residue class is the end index.
LEMMA LastIndex ==
  ASSUME NEW Elements \in Nat \ {0}, NEW tot \in 1 .. Elements, NEW b \in 0 .. tot - 1,
         NEW last \in 0 .. Elements - 1, last % tot = b, last + tot >= Elements
  PROVE  (last + tot) % Elements = end_idx(Elements, tot, b)
<1> DEFINE r == Elements % tot
           q == Elements \div tot
           p == last \div tot
<1>0. Elements \in Nat \ {0} /\ tot \in Nat \ {0} /\ tot <= Elements
  BY SMT
<1>b. b \in Nat /\ b < tot /\ last \in Nat /\ last < Elements
  BY <1>0, SMT
<1>1. Elements = tot * q + r /\ q \in Nat /\ r \in 0 .. tot - 1
  BY <1>0, ModDef
<1>2. last = tot * p + b /\ p \in Nat  BY <1>0, <1>b, ModDef
<1>3. tot * p \in Int /\ tot * q \in Int  BY <1>0, <1>1, <1>2, SMT
<1>4. end_idx(Elements, tot, b) = IF b < r THEN b + tot - r ELSE b - r  BY EndValue
<1>5. (last + tot) % Elements = last + tot - Elements
  <2> DEFINE sum == last + tot
  <2>1. sum \in Nat /\ Elements <= sum /\ sum < 2 * Elements
    BY <1>0, <1>b, SMT
  <2> HIDE DEF sum
  <2>2. sum % Elements = sum - Elements  BY <2>1, <1>0, ModSub
  <2> QED  BY <2>2, <1>0, <1>b, SMT DEF sum
<1> HIDE DEF p, q, r
<1>6. ~(q < p)
  <2> SUFFICES ASSUME q < p PROVE FALSE  OBVIOUS
  <2>1. tot * q + tot <= tot * p  BY <1>0, <1>1, <1>2, MulGap
  <2> QED  BY <2>1, <1>0, <1>b, <1>1, <1>2, <1>3, SMT
<1>7. CASE b < r
  <2>1. ~(p < q)
    <3> SUFFICES ASSUME p < q PROVE FALSE  OBVIOUS
    <3>1. tot * p + tot <= tot * q  BY <1>0, <1>1, <1>2, MulGap
    <3> QED  BY <3>1, <1>7, <1>0, <1>b, <1>1, <1>2, <1>3, SMT
  <2>2. p = q  BY <2>1, <1>6, <1>1, <1>2, SMT
  <2> QED  BY <2>2, <1>7, <1>0, <1>b, <1>1, <1>2, <1>3, <1>4, <1>5, SMT
<1>8. CASE ~(b < r)
  <2>1. p # q  BY <1>8, <1>0, <1>b, <1>1, <1>2, <1>3, SMT
  <2>2. ~(p + 1 < q)
    <3> SUFFICES ASSUME p + 1 < q PROVE FALSE  OBVIOUS
    <3>1. tot * (p + 1) + tot <= tot * q  BY <1>0, <1>1, <1>2, MulGap, SMT
    <3>2. tot * (p + 1) = tot * p + tot  BY <1>0, <1>2, SMT
    <3> QED  BY <3>1, <3>2, <1>0, <1>b, <1>1, <1>2, <1>3, SMT
  <2>3. q = p + 1  BY <2>1, <2>2, <1>6, <1>1, <1>2, SMT
  <2>4. tot * q = tot * p + tot  BY <2>3, <1>0, <1>2, SMT
  <2> QED  BY <2>4, <1>8, <1>0, <1>b, <1>1, <1>2, <1>3, <1>4, <1>5, SMT
<1> QED  BY <1>7, <1>8

-----------------------------------------------------------------------------
(* The group: no element but 0 is lost in a product, so the powers of a     *)
(* generator run through all the elements and begin again with 1.           *)

LEMMA OrderType == Prime \in Nat /\ Order \in Nat \ {0} /\ Prime = Order + 1
                   /\ Prime \in Nat \ {0} /\ Word \in Nat \ {0}
BY CyclicAssumption, SMT DEF Order

\* A product of elements is an element.
LEMMA Product ==
  ASSUME NEW a \in 1 .. Order, NEW b \in 1 .. Order
  PROVE  (a * b) % Prime \in 1 .. Order
<1>1. a * b \in Nat  BY OrderType, SMT
<1>2. (a * b) % Prime \in 0 .. Prime - 1  BY <1>1, OrderType, ModDef
<1>3. (a * b) % Prime # 0  BY GroupAssumption
<1> QED  BY <1>2, <1>3, OrderType, SMT

\* A common factor may be cancelled.
LEMMA Cancel ==
  ASSUME NEW a \in 1 .. Order, NEW b \in 1 .. Order, NEW g \in 1 .. Order,
         (a * g) % Prime = (b * g) % Prime
  PROVE  a = b
<1>1. ASSUME NEW x \in 1 .. Order, NEW y \in 1 .. Order, x < y,
             (x * g) % Prime = (y * g) % Prime
      PROVE  FALSE
  <2> DEFINE p == x * g
             q == y * g
             d == y - x
             j == p \div Prime
             k == q \div Prime
             r == p % Prime
  <2>1. p \in Nat /\ q \in Nat /\ d \in 1 .. Order /\ q = p + d * g /\ d * g \in Nat
    BY <1>1, OrderType, SMT
  <2> HIDE DEF p, q, d
  <2>2. p = Prime * j + r /\ j \in Nat /\ r \in 0 .. Prime - 1
    BY <2>1, OrderType, ModDef
  <2>3. q = Prime * k + r /\ k \in Nat  BY <1>1, <2>1, OrderType, ModDef DEF p, q
  <2> HIDE DEF j, k, r
  <2>4. Prime * (k - j) = Prime * k - Prime * j /\ Prime * k \in Int /\ Prime * j \in Int
    BY <2>2, <2>3, OrderType, SMT
  <2>5. d * g = Prime * (k - j) + 0  BY <2>1, <2>2, <2>3, <2>4, SMT
  <2>6. (d * g) % Prime = 0
    <3> DEFINE z == d * g
               w == k - j
    <3>1. z = Prime * w + 0 /\ z \in Nat /\ w \in Int  BY <2>1, <2>2, <2>3, <2>5, SMT
    <3> HIDE DEF z, w
    <3>2. z % Prime = 0  BY <3>1, OrderType, ModUnique, SMT
    <3> QED  BY <3>2 DEF z
  <2> QED  BY <2>1, <2>6, GroupAssumption
<1> QED  BY <1>1, OrderType, SMT

\* The table of powers, row by row.
LEMMA Powers ==
  ASSUME NEW g \in 1 .. Order
  PROVE  /\ PowerTable[g] \in [0 .. Order - 1 -> 1 .. Order]
         /\ PowerTable[g][0] = 1
         /\ \A n \in 1 .. Order - 1 :
              PowerTable[g][n] = (PowerTable[g][n - 1] * g) % Prime
<1> DEFINE D(h) == [n \in 0 .. Order - 1 |-> IF n = 0 THEN 1 ELSE (h[n - 1] * g) % Prime]
           power == CHOOSE h : h = D(h)
           f == [x \in Nat \X (1 .. Order) |-> (x[2] * g) % Prime]
<1>1. PowerTable[g] = power  BY DEF PowerTable
<1>2. f \in [Nat \X (1 .. Order) -> 1 .. Order]
  <2>1. \A x \in Nat \X (1 .. Order) : (x[2] * g) % Prime \in 1 .. Order  BY Product
  <2> QED  BY <2>1
<1>3. PICK h \in [0 .. Order - 1 -> 1 .. Order] : Iterates(h, 1, f, Order - 1)
  <2>1. 1 \in 1 .. Order /\ Order - 1 \in Nat  BY OrderType, SMT
  <2> HIDE DEF f
  <2> QED  BY <1>2, <2>1, NumberRecursion
<1>4. ASSUME NEW n \in 1 .. Order - 1 PROVE h[n] = (h[n - 1] * g) % Prime
  <2>1. n - 1 \in 0 .. Order - 1 /\ n \in Nat  BY OrderType, SMT
  <2>2. h[n - 1] \in 1 .. Order  BY <2>1
  <2>3. h[n] = f[<<n, h[n - 1]>>]  BY <1>3 DEF Iterates
  <2> QED  BY <2>1, <2>2, <2>3
<1>5. h[0] = 1  BY <1>3 DEF Iterates
<1>6. h = D(h)
  <2>1. ASSUME NEW n \in 0 .. Order - 1
        PROVE  h[n] = IF n = 0 THEN 1 ELSE (h[n - 1] * g) % Prime
    <3>1. n = 0 \/ n \in 1 .. Order - 1  BY OrderType, SMT
    <3> QED  BY <3>1, <1>4, <1>5, SMT
  <2> QED  BY <2>1
<1>7. power = D(power)
  <2>1. \E k : k = D(k)
    <3> HIDE DEF D
    <3> QED  BY <1>6
  <2> HIDE DEF D
  <2> QED  BY <2>1
<1> HIDE DEF power
<1>9. ASSUME NEW n \in 1 .. Order - 1 PROVE power[n] = (power[n - 1] * g) % Prime
  <2>1. n \in 0 .. Order - 1 /\ n # 0  BY OrderType, SMT
  <2> QED  BY <1>7, <2>1
<1>8. power[0] = 1
  <2>1. 0 \in 0 .. Order - 1  BY OrderType, SMT
  <2> QED  BY <1>7, <2>1
<1>10. \A n \in Nat : n \in 0 .. Order - 1 => power[n] \in 1 .. Order
  <2> DEFINE G == {n \in Nat : n \in 0 .. Order - 1 => power[n] \in 1 .. Order}
  <2>1. 0 \in G  BY <1>8, OrderType, SMT
  <2>2. ASSUME NEW n \in Nat, n \in G PROVE n + 1 \in G
    <3> SUFFICES ASSUME n + 1 \in 0 .. Order - 1 PROVE power[n + 1] \in 1 .. Order  OBVIOUS
    <3>1. n \in 0 .. Order - 1 /\ n + 1 \in 1 .. Order - 1 /\ (n + 1) - 1 = n
      BY OrderType, SMT
    <3>2. power[n] \in 1 .. Order  BY <2>2, <3>1
    <3>3. power[n + 1] = (power[n] * g) % Prime  BY <1>9, <3>1
    <3> QED  BY <3>2, <3>3, Product
  <2> HIDE DEF G
  <2>3. Nat \subseteq G  BY <2>1, <2>2, Induction
  <2> QED  BY <2>3 DEF G
<1>11. power \in [0 .. Order - 1 -> 1 .. Order]
  <2>1. power = [n \in 0 .. Order - 1 |-> power[n]]  BY <1>7
  <2>2. \A n \in 0 .. Order - 1 : power[n] \in 1 .. Order  BY <1>10
  <2> QED  BY <2>1, <2>2
<1> QED  BY <1>1, <1>8, <1>9, <1>11

\* A power of an element is an element.
LEMMA PowerIn ==
  ASSUME NEW g \in 1 .. Order, NEW n \in Nat
  PROVE  /\ Power(g, n) \in 1 .. Order
         /\ n < Order => Power(g, n) = PowerTable[g][n]
<1>1. n % Order \in 0 .. Order - 1  BY OrderType, ModDef
<1>2. Power(g, n) = PowerTable[g][n % Order]  BY OrderType, SMT DEF Power
<1>3. n < Order => n % Order = n  BY OrderType, ModSmall
<1> QED  BY <1>1, <1>2, <1>3, Powers

\* The powers of a generator are all different ...
LEMMA PowersDiffer ==
  ASSUME NEW g \in Generators, NEW m \in 0 .. Order - 1, NEW n \in 0 .. Order - 1,
         Power(g, m) = Power(g, n)
  PROVE  m = n
<1>0. g \in 1 .. Order /\ m \in Nat /\ n \in Nat /\ m < Order /\ n < Order
  BY OrderType, SMT DEF Generators
<1> DEFINE S == 0 .. Order - 1
           T == 1 .. Order
           f == PowerTable[g]
<1>1. f \in [S -> T]  BY <1>0, Powers
<1>2. \A e \in T : \E k \in S : f[k] = e
  <2> SUFFICES ASSUME NEW e \in T PROVE \E k \in S : f[k] = e  OBVIOUS
  <2>1. PICK k \in S : Power(g, k) = e  BY DEF Generators
  <2>2. k \in Nat /\ k < Order  BY OrderType, SMT
  <2>3. f[k] = e  BY <2>1, <2>2, <1>0, PowerIn
  <2> QED  BY <2>3
<1>3. f \in Surjection(S, T)  BY <1>1, <1>2 DEF Surjection
<1>4. IsFiniteSet(S) /\ Cardinality(S) = Cardinality(T)
  <2>1. Order \in Int /\ Order - 1 \in Int /\ Order >= 1  BY OrderType, SMT
  <2>2. Cardinality(S) = Order /\ IsFiniteSet(S)  BY <2>1, FS_Interval, SMT
  <2>3. Cardinality(T) = Order  BY <2>1, FS_Interval, SMT
  <2> QED  BY <2>2, <2>3
<1> HIDE DEF f, S, T
<1>5. f \in Injection(S, T)  BY <1>3, <1>4, FS_SurjSameCardinalityImpliesInj
<1>6. f[m] = f[n]  BY <1>0, PowerIn DEF f
<1> QED  BY <1>1, <1>5, <1>6 DEF Injection, IsInjective, S

\* ... and the next after the last is 1 again.
LEMMA PowersWrap ==
  ASSUME NEW g \in Generators
  PROVE  (Power(g, Order - 1) * g) % Prime = 1
<1>0. g \in 1 .. Order /\ Order - 1 \in Nat  BY OrderType, SMT DEF Generators
<1> DEFINE e == (Power(g, Order - 1) * g) % Prime
<1>1. e \in 1 .. Order  BY <1>0, PowerIn, Product
<1>2. PICK n \in 0 .. Order - 1 : Power(g, n) = e  BY <1>1 DEF Generators
<1>3. n \in Nat /\ n < Order /\ Power(g, n) = PowerTable[g][n]
  <2>1. n \in Nat /\ n < Order  BY OrderType, SMT
  <2> QED  BY <2>1, <1>0, PowerIn
<1>4. CASE n = 0  BY <1>2, <1>3, <1>4, <1>0, Powers
<1>5. CASE n # 0
  <2>1. n \in 1 .. Order - 1 /\ n - 1 \in Nat /\ n - 1 < Order /\ n - 1 \in 0 .. Order - 1
    BY <1>3, <1>5, OrderType, SMT
  <2>2. Power(g, n) = (Power(g, n - 1) * g) % Prime  BY <2>1, <1>0, <1>3, Powers, PowerIn
  <2>3. Power(g, n - 1) \in 1 .. Order /\ Power(g, Order - 1) \in 1 .. Order
    BY <2>1, <1>0, PowerIn
  <2>4. Power(g, n - 1) = Power(g, Order - 1)
    BY <2>2, <2>3, <1>0, <1>2, Cancel
  <2>5. n - 1 = Order - 1  BY <2>1, <2>4, OrderType, SMT, PowersDiffer
  <2> QED  BY <2>5, <1>3, OrderType, SMT
<1> QED  BY <1>4, <1>5

\* So one more factor is the next power, ...
LEMMA PowerStep ==
  ASSUME NEW g \in Generators, NEW n \in Nat
  PROVE  Power(g, n + 1) = (Power(g, n) * g) % Prime
<1>0. g \in 1 .. Order  BY DEF Generators
<1> DEFINE r == n % Order
<1>1. r \in 0 .. Order - 1  BY OrderType, ModDef
<1>2. Power(g, n) = PowerTable[g][r] /\ Power(g, n + 1) = PowerTable[g][(n + 1) % Order]
  BY <1>0, OrderType, SMT DEF Power
<1>3. (n + 1) % Order = (r + 1) % Order
  <2>1. 1 \in Nat  OBVIOUS
  <2> QED  BY <2>1, OrderType, ModPlus
<1> HIDE DEF r
<1>4. CASE r = Order - 1
  <2>1. (r + 1) % Order = 0  BY <1>4, OrderType, SMT
  <2>2. r \in Nat /\ r < Order  BY <1>1, OrderType, SMT
  <2>3. Power(g, Order - 1) = PowerTable[g][r]  BY <2>2, <1>0, <1>4, PowerIn
  <2> QED  BY <2>1, <2>3, <1>0, <1>2, <1>3, PowersWrap, Powers
<1>5. CASE r # Order - 1
  <2>1. r + 1 \in 1 .. Order - 1 /\ (r + 1) - 1 = r /\ r + 1 \in Nat /\ r + 1 < Order
    BY <1>1, <1>5, OrderType, SMT
  <2>2. (r + 1) % Order = r + 1  BY <2>1, OrderType, ModSmall
  <2>3. PowerTable[g][r + 1] = (PowerTable[g][r] * g) % Prime  BY <2>1, <1>0, Powers
  <2> QED  BY <2>2, <2>3, <1>2, <1>3
<1> QED  BY <1>4, <1>5

\* ... powers add up, ...
LEMMA PowersAdd ==
  ASSUME NEW g \in Generators, NEW j \in Nat, NEW k \in Nat
  PROVE  Power(g, j + k) = (Power(g, j) * Power(g, k)) % Prime
<1>0. g \in 1 .. Order  BY DEF Generators
<1> DEFINE G == {n \in Nat : Power(g, j + n) = (Power(g, j) * Power(g, n)) % Prime}
<1>1. 0 \in G
  <2>1. Power(g, 0) = 1
    <3>1. 0 \in Nat /\ 0 < Order  BY OrderType, SMT
    <3> QED  BY <3>1, <1>0, PowerIn, Powers
  <2>2. Power(g, j) \in 1 .. Order  BY <1>0, PowerIn
  <2>3. Power(g, j) % Prime = Power(g, j)  BY <2>2, OrderType, ModSmall, SMT
  <2>4. j + 0 = j /\ Power(g, j) * 1 = Power(g, j)  BY <2>2, OrderType, SMT
  <2> QED  BY <2>1, <2>3, <2>4
<1>2. ASSUME NEW n \in Nat, n \in G PROVE n + 1 \in G
  <2> DEFINE a == Power(g, j)
             b == Power(g, n)
  <2>0. a \in 1 .. Order /\ b \in 1 .. Order  BY <1>0, PowerIn
  <2>2. Power(g, (j + n) + 1) = (Power(g, j + n) * g) % Prime  BY PowerStep
  <2>3. Power(g, j + n) = (a * b) % Prime  BY <1>2
  <2>4. Power(g, n + 1) = (b * g) % Prime  BY PowerStep
  <2> HIDE DEF a, b
  <2>1. a \in Nat /\ b \in Nat /\ g \in Nat /\ a * b \in Nat /\ b * g \in Nat
    BY <1>0, <2>0, OrderType, SMT
  <2>5. (((a * b) % Prime) * g) % Prime = ((a * b) * g) % Prime
    BY <2>1, OrderType, ModTimes
  <2>6. (((b * g) % Prime) * a) % Prime = ((b * g) * a) % Prime
    BY <2>1, OrderType, ModTimes
  <2>7. (a * b) * g = (b * g) * a  BY <2>1, SMT
  <2>8. (b * g) % Prime \in Nat  BY <2>1, OrderType, ModDef, SMT
  <2>9. a * ((b * g) % Prime) = ((b * g) % Prime) * a  BY <2>1, <2>8, SMT
  <2>10. Power(g, (j + n) + 1) = (a * Power(g, n + 1)) % Prime
    BY <2>2, <2>3, <2>4, <2>5, <2>6, <2>7, <2>9
  <2>11. (j + n) + 1 = j + (n + 1)  OBVIOUS
  <2> QED  BY <2>10, <2>11 DEF a
<1> HIDE DEF G
<1>3. k \in G  BY <1>1, <1>2, Induction
<1> QED  BY <1>3 DEF G

\* ... and a power of a power is a power.
LEMMA PowerOfPower ==
  ASSUME NEW g \in Generators, NEW c \in Nat, NEW n \in 0 .. Order - 1
  PROVE  Power(Power(g, c), n) = Power(g, c * n)
<1> DEFINE h == Power(g, c)
           G == {m \in Nat : m < Order => Power(h, m) = Power(g, c * m)}
<1>0. g \in 1 .. Order  BY DEF Generators
<1>1. h \in 1 .. Order  BY <1>0, PowerIn
<1> HIDE DEF h
<1>2. 0 \in G
  <2>1. 0 \in Nat /\ 0 < Order /\ c * 0 = 0  BY OrderType, SMT
  <2>2. ASSUME NEW e \in 1 .. Order PROVE Power(e, 0) = 1
    <3>1. Power(e, 0) = PowerTable[e][0]  BY <2>1, PowerIn
    <3> QED  BY <3>1, Powers
  <2>3. Power(h, 0) = 1 /\ Power(g, 0) = 1  BY <2>2, <1>0, <1>1
  <2> QED  BY <2>1, <2>3
<1>3. ASSUME NEW m \in Nat, m \in G PROVE m + 1 \in G
  <2> SUFFICES ASSUME m + 1 < Order PROVE Power(h, m + 1) = Power(g, c * (m + 1))
    OBVIOUS
  <2>1. m < Order /\ m + 1 \in 1 .. Order - 1 /\ (m + 1) - 1 = m /\ m + 1 \in Nat
    BY OrderType, SMT
  <2>2. Power(h, m) = Power(g, c * m)  BY <1>3, <2>1
  <2>3. Power(h, m + 1) = (Power(h, m) * h) % Prime
    <3>1. Power(h, m) = PowerTable[h][m] /\ Power(h, m + 1) = PowerTable[h][m + 1]
      BY <2>1, <1>1, PowerIn
    <3>2. PowerTable[h][m + 1] = (PowerTable[h][(m + 1) - 1] * h) % Prime
      BY <2>1, <1>1, Powers
    <3> QED  BY <3>1, <3>2, <2>1
  <2>4. c * m \in Nat /\ c * (m + 1) = c * m + c  BY SMT
  <2>5. Power(g, c * m + c) = (Power(g, c * m) * h) % Prime
    BY <2>4, PowersAdd DEF h
  <2> QED  BY <2>2, <2>3, <2>4, <2>5
<1> HIDE DEF G
<1>4. n \in G /\ n < Order
  <2>1. Nat \subseteq G  BY <1>2, <1>3, Induction
  <2> QED  BY <2>1, OrderType, SMT
<1> QED  BY <1>4 DEF G, h

-----------------------------------------------------------------------------
(* find_primroot *)

\* A number that check_coprime accepts shares no divisor with the order: the
\* smallest that is a sum of multiples of both divides both.
LEMMA CoprimeInverse ==
  ASSUME NEW c \in 1 .. Order, Coprime(c)
  PROVE  \E u, k \in Int : c * u = 1 + Order * k
<1> DEFINE D == {d \in 1 .. Order : \E u, k \in Int : c * u = d + Order * k}
<1>0. c \in Nat \ {0} /\ Order \in Nat \ {0}  BY OrderType, SMT
<1>1. c \in D
  <2>1. 1 \in Int /\ 0 \in Int /\ c * 1 = c + Order * 0  BY <1>0, SMT
  <2> QED  BY <2>1
<1>2. PICK d \in D : \A e \in D : d <= e
  <2>1. D \subseteq Nat  BY <1>0, SMT
  <2> HIDE DEF D
  <2> QED  BY <1>1, <2>1, LeastNumber
<1>3. PICK u \in Int, k \in Int : c * u = d + Order * k  OBVIOUS
<1>4. d \in Nat \ {0} /\ d <= Order  BY <1>0, SMT
<1>5. Order % d = 0
  <2> DEFINE q == Order \div d
             r == Order % d
  <2>1. Order = d * q + r /\ q \in Nat /\ r \in 0 .. d - 1  BY <1>0, <1>4, ModDef
  <2> HIDE DEF q, r
  <2> SUFFICES ASSUME r # 0 PROVE FALSE  BY DEF r
  <2>2. r \in 1 .. Order /\ ~(d <= r)  BY <2>1, <1>0, <1>4, SMT
  <2>3. c * (-(q * u)) = -(q * (c * u)) /\ q * u \in Int  BY <2>1, <1>0, SMT
  <2>4. q * (c * u) = d * q + Order * (q * k) /\ q * k \in Int
    BY <2>1, <1>0, <1>3, <1>4, SMT
  <2>5. Order * (-1 - q * k) = -Order - Order * (q * k)  BY <2>4, <1>0, SMT
  <2>6. c * (-(q * u)) = r + Order * (-1 - q * k)
    <3> DEFINE x == Order * (q * k)
               y == d * q
    <3>1. x \in Int /\ y \in Int  BY <2>1, <2>4, <1>0, <1>4, SMT
    <3>2. c * (-(q * u)) = -(y + x) /\ Order = y + r /\ Order * (-1 - q * k) = -Order - x
      BY <2>1, <2>3, <2>4, <2>5
    <3> HIDE DEF x, y
    <3> QED  BY <3>1, <3>2, <2>1, <1>0, SMT
  <2>7. -(q * u) \in Int /\ -1 - q * k \in Int  BY <2>3, <2>4, SMT
  <2>8. r \in D  BY <2>2, <2>6, <2>7
  <2> QED  BY <2>2, <2>8, <1>2
<1>6. c % d = 0
  <2> DEFINE q == c \div d
             r == c % d
  <2>1. c = d * q + r /\ q \in Nat /\ r \in 0 .. d - 1  BY <1>0, <1>4, ModDef
  <2> HIDE DEF q, r
  <2> SUFFICES ASSUME r # 0 PROVE FALSE  BY DEF r
  <2>2. r \in 1 .. Order /\ ~(d <= r)  BY <2>1, <1>0, <1>4, SMT
  <2>3. c * (1 - q * u) = c - q * (c * u) /\ q * u \in Int  BY <2>1, <1>0, SMT
  <2>4. q * (c * u) = d * q + Order * (q * k) /\ q * k \in Int
    BY <2>1, <1>0, <1>3, <1>4, SMT
  <2>5. Order * (-(q * k)) = -(Order * (q * k))  BY <2>4, <1>0, SMT
  <2>6. c * (1 - q * u) = r + Order * (-(q * k))
    <3> DEFINE x == Order * (q * k)
               y == d * q
    <3>1. x \in Int /\ y \in Int  BY <2>1, <2>4, <1>0, <1>4, SMT
    <3>2. c * (1 - q * u) = c - (y + x) /\ c = y + r /\ Order * (-(q * k)) = -x
      BY <2>1, <2>3, <2>4, <2>5
    <3> HIDE DEF x, y
    <3> QED  BY <3>1, <3>2, <2>1, <1>0, SMT
  <2>7. 1 - q * u \in Int /\ -(q * k) \in Int  BY <2>3, <2>4, SMT
  <2>8. r \in D  BY <2>2, <2>6, <2>7
  <2> QED  BY <2>2, <2>8, <1>2
<1>7. d = 1
  <2> SUFFICES ASSUME d # 1 PROVE FALSE  OBVIOUS
  <2>1. d \in 2 .. Order  BY <1>4, SMT
  <2>2. PICK f \in PrimeFactors : d % f = 0  BY <2>1, <1>5, GroupAssumption
  <2>3. f \in Nat /\ f >= 2  BY CyclicAssumption, SMT
  <2>4. c % f = 0
    <3> DEFINE q == c \div d
               p == d \div f
    <3>1. c = d * q + 0 /\ q \in Nat  BY <1>0, <1>4, <1>6, ModDef
    <3>2. d = f * p + 0 /\ p \in Nat  BY <2>2, <2>3, <1>4, ModDef, SMT
    <3> HIDE DEF q, p
    <3>3. c = f * (p * q) + 0 /\ p * q \in Int  BY <3>1, <3>2, <2>3, <1>4, SMT
    <3> DEFINE w == p * q
    <3> HIDE DEF w
    <3>4. c = f * w + 0 /\ w \in Int  BY <3>3 DEF w
    <3> QED  BY <3>4, <2>3, <1>0, ModUnique, SMT
  <2>5. CASE f < c  BY <2>4, <2>5 DEF Coprime
  <2>6. CASE f = c  BY <2>6 DEF Coprime
  <2>7. CASE f > c
    <3>1. c % f = c  BY <2>3, <2>7, <1>0, ModSmall, SMT
    <3> QED  BY <3>1, <2>4, <1>0
  <2> QED  BY <2>3, <2>5, <2>6, <2>7, <1>0, SMT
<1> QED  BY <1>3, <1>7

\* The order of the group is coprime with the prime, so the search ends ...
LEMMA AdditiveCoprime ==
  ASSUME NEW word \in Nat
  PROVE  Additive(word) \in Nat \ {0} /\ Coprime(Additive(word))
<1> DEFINE start == IF word % Prime = 0 THEN 1 ELSE word % Prime
           B == {c \in start .. start + Prime : Coprime(c)}
<1>1. start \in Nat \ {0} /\ start <= Prime
  <2>1. word % Prime \in 0 .. Prime - 1  BY OrderType, ModDef
  <2> QED  BY <2>1, OrderType, SMT
<1> HIDE DEF start
<1>2. Coprime(Prime)
  <2> SUFFICES ASSUME NEW f \in PrimeFactors
               PROVE  f < Prime /\ Prime % f # 0
    BY OrderType, CyclicAssumption, SMT DEF Coprime
  <2>1. f \in Nat /\ f >= 2 /\ f < Prime  BY OrderType, CyclicAssumption, SMT
  <2> DEFINE w == Order \div f
  <2>2. Order = f * w + 0 /\ w \in Int
    <3>1. Order % f = 0  BY GroupAssumption
    <3>2. f \in Nat \ {0}  BY <2>1, SMT
    <3>3. Order = f * w + (Order % f) /\ w \in Nat  BY <3>2, OrderType, ModDef
    <3> QED  BY <3>1, <3>3, SMT
  <2> HIDE DEF w
  <2>3. Prime = f * w + 1
    <3>1. f * w \in Int  BY <2>1, <2>2, SMT
    <3> QED  BY <3>1, <2>2, OrderType, SMT
  <2>4. Prime % f = 1
    <3>1. f \in Nat \ {0} /\ 1 \in Int /\ 0 <= 1 /\ 1 < f  BY <2>1, SMT
    <3> QED  BY <3>1, <2>2, <2>3, OrderType, ModUnique
  <2> QED  BY <2>1, <2>4
<1>3. Prime \in B  BY <1>1, <1>2, OrderType, SMT
<1>4. PICK c \in B : \A d \in B : c <= d
  <2>1. B \subseteq Nat  BY <1>1, OrderType, SMT
  <2> HIDE DEF B
  <2> QED  BY <1>3, <2>1, LeastNumber
<1>5. ASSUME NEW d \in start .. c - 1 PROVE ~Coprime(d)
  <2>1. d \in start .. start + Prime /\ ~(c <= d)  BY <1>1, OrderType, SMT
  <2> QED  BY <2>1, <1>4
<1> DEFINE Sought(x) == Coprime(x) /\ \A d \in start .. x - 1 : ~Coprime(d)
<1>6. Sought(c)  BY <1>5
<1>7. Additive(word) = CHOOSE x \in start .. start + Prime : Sought(x)
  BY DEF Additive, start
<1>8. \E x \in start .. start + Prime : Sought(x)
  <2> HIDE DEF Sought
  <2> QED  BY <1>6
<1>9. Additive(word) \in start .. start + Prime /\ Sought(Additive(word))
  <2> HIDE DEF Sought
  <2> QED  BY <1>7, <1>8
<1> QED  BY <1>1, <1>9, OrderType, SMT

\* What find_primroot returns generates the whole group, whatever word it draws,
\* when isomorphism accepts what check_coprime does and what it returns fits the
\* uint32_t: in every group but the largest the last is always so.
THEOREM GeneratorSound ==
  ASSUME NEW word \in Nat, Drawable(word),
         Prime <= Word \/ isomorphism(Additive(word)) < Word
  PROVE  Generator(word) \in Generators
<1> DEFINE c == Additive(word)
           g == Power(PrimRoot, c)
<1>0. PrimRoot \in Generators /\ PrimRoot \in 1 .. Order
  BY GroupAssumption DEF Generators
<1>1. c \in 1 .. Order /\ Coprime(c) /\ c \in Nat
  BY AdditiveCoprime, OrderType, SMT DEF Drawable
<1>2. g \in 1 .. Order  BY <1>0, <1>1, PowerIn
<1>3. Generator(word) = g
  <2>1. g < Word  BY <1>2, OrderType, SMT DEF isomorphism
  <2>2. g % Word = g  BY <2>1, <1>2, OrderType, ModSmall, SMT
  <2> QED  BY <2>2 DEF Generator, isomorphism
<1>4. PICK u \in Int, k \in Int : c * u = 1 + Order * k
  <2> HIDE DEF c
  <2> QED  BY <1>1, CoprimeInverse
<1> HIDE DEF c
<1>5. ASSUME NEW e \in 1 .. Order PROVE \E n \in 0 .. Order - 1 : Power(g, n) = e
  <2>1. PICK m \in 0 .. Order - 1 : Power(PrimRoot, m) = e  BY <1>0 DEF Generators
  <2>2. m \in Nat /\ m < Order /\ Order \in Nat \ {0}  BY OrderType, SMT
  <2> DEFINE x == u * m
             q == x \div Order
             n == x % Order
  <2>3. x \in Int  BY <2>2, SMT
  <2>4. x = Order * q + n /\ q \in Int /\ n \in 0 .. Order - 1
    <3> HIDE DEF x
    <3> QED  BY <2>3, <2>2, SMT
  <2> HIDE DEF q, n
  <2>5. n \in Nat /\ c * n \in Nat  BY <1>1, <2>2, <2>4, SMT
  <2>6. c * (u * m) = (c * u) * m  BY <1>1, <2>2, SMT
  <2>7. (1 + Order * k) * m = m + Order * (k * m) /\ k * m \in Int  BY <2>2, SMT
  <2>8. c * (Order * q + n) = Order * (c * q) + c * n /\ c * q \in Int
    BY <1>1, <2>2, <2>4, <2>5, SMT
  <2>9. Order * (k * m - c * q) = Order * (k * m) - Order * (c * q)
        /\ Order * (k * m) \in Int /\ Order * (c * q) \in Int
    BY <2>2, <2>7, <2>8, SMT
  <2>10. c * n = Order * (k * m - c * q) + m
    <3> DEFINE y == Order * (k * m)
               z == Order * (c * q)
               v == c * n
    <3>1. m + y = z + v /\ y \in Int /\ z \in Int /\ v \in Int
          /\ Order * (k * m - c * q) = y - z
      BY <1>4, <2>4, <2>5, <2>6, <2>7, <2>8, <2>9
    <3> HIDE DEF y, z, v
    <3>2. v = (y - z) + m  BY <3>1, <2>2, SMT
    <3> QED  BY <3>1, <3>2 DEF v
  <2>11. (c * n) % Order = m
    <3> DEFINE v == c * n
               w == k * m - c * q
    <3>1. v = Order * w + m /\ w \in Int /\ v \in Nat  BY <2>5, <2>7, <2>8, <2>10
    <3> HIDE DEF v, w
    <3>2. v % Order = m  BY <3>1, <2>2, ModUnique, SMT
    <3> QED  BY <3>2 DEF v
  <2>12. Power(PrimRoot, c * n) = e
    <3>1. Power(PrimRoot, c * n) = PowerTable[PrimRoot][m]
      BY <1>0, <2>11, OrderType, SMT DEF Power
    <3>2. Power(PrimRoot, m) = PowerTable[PrimRoot][m]  BY <2>2, <1>0, PowerIn
    <3> QED  BY <3>1, <3>2, <2>1
  <2>13. Power(g, n) = e  BY <2>4, <2>12, <1>0, <1>1, PowerOfPower
  <2> QED  BY <2>4, <2>13
<1> QED  BY <1>2, <1>3, <1>5 DEF Generators

-----------------------------------------------------------------------------
(* Elements by their indices *)

LEMMA PowerRange ==
  ASSUME NEW g \in 0 .. Prime - 1, NEW n \in Nat
  PROVE  Power(g, n) \in 0 .. Prime - 1
<1>1. CASE g = 0  BY <1>1, OrderType, SMT DEF Power
<1>2. CASE g # 0
  <2>1. g \in 1 .. Order  BY <1>2, OrderType, SMT
  <2> QED  BY <2>1, PowerIn, OrderType, SMT
<1> QED  BY <1>1, <1>2

LEMMA ElementIn ==
  ASSUME generator \in Generators, offset \in 1 .. Order, NEW k \in Nat
  PROVE  Element(k) \in 1 .. Order
<1>0. generator \in 1 .. Order /\ k + 1 \in Nat  BY DEF Generators
<1>1. Power(generator, k + 1) \in 1 .. Order  BY <1>0, PowerIn
<1> QED  BY <1>1, Product DEF Element

\* Different indices have different elements, ...
LEMMA ElementsDiffer ==
  ASSUME generator \in Generators, offset \in 1 .. Order,
         NEW j \in 0 .. Order - 1, NEW k \in 0 .. Order - 1, Element(j) = Element(k)
  PROVE  j = k
<1> DEFINE g == generator
<1>0. j \in Nat /\ k \in Nat /\ g \in 1 .. Order  BY OrderType, SMT DEF Generators
<1>1. Power(g, j + 1) = Power(g, k + 1)
  <2>1. Power(g, j + 1) \in 1 .. Order /\ Power(g, k + 1) \in 1 .. Order
    BY <1>0, PowerIn
  <2> QED  BY <2>1, Cancel DEF Element
<1>2. Power(g, j + 1) = (Power(g, j) * g) % Prime
      /\ Power(g, k + 1) = (Power(g, k) * g) % Prime
  BY <1>0, PowerStep
<1>3. Power(g, j) = Power(g, k)
  <2>1. Power(g, j) \in 1 .. Order /\ Power(g, k) \in 1 .. Order
    BY <1>0, PowerIn
  <2> QED  BY <2>1, <1>0, <1>1, <1>2, Cancel
<1> QED  BY <1>3, PowersDiffer

\* ... an index counts modulo the order, ...
LEMMA ElementWraps ==
  ASSUME generator \in Generators, NEW k \in Nat
  PROVE  Element(k % Order) = Element(k)
<1>1. k % Order \in Nat  BY OrderType, ModDef, SMT
<1>2. ((k % Order) + 1) % Order = (k + 1) % Order
  <2>1. 1 \in Nat  OBVIOUS
  <2> QED  BY <2>1, OrderType, ModPlus
<1>3. Power(generator, (k % Order) + 1) = Power(generator, k + 1)
  BY <1>2 DEF Power
<1> QED  BY <1>3 DEF Element

\* ... and t further on is a product with the t-th power.
LEMMA ElementStep ==
  ASSUME generator \in Generators, offset \in 1 .. Order, NEW k \in Nat, NEW t \in Nat
  PROVE  Element(k + t) = (Element(k) * Power(generator, t)) % Prime
<1> DEFINE a == Power(generator, k + 1)
           b == Power(generator, t)
<1>1. generator \in 1 .. Order /\ k + 1 \in Nat  BY DEF Generators
<1>2. a \in 1 .. Order /\ b \in 1 .. Order  BY <1>1, PowerIn
<1>3. Power(generator, (k + 1) + t) = (a * b) % Prime
  <2>1. k + 1 \in Nat  OBVIOUS
  <2> QED  BY <2>1, PowersAdd
<1>4. (k + t) + 1 = (k + 1) + t  OBVIOUS
<1>5. Element(k + t) = (((a * b) % Prime) * offset) % Prime
  BY <1>3, <1>4 DEF Element
<1>6. Element(k) = (a * offset) % Prime  BY DEF Element
<1> HIDE DEF a, b
<1>7. a \in Nat /\ b \in Nat /\ offset \in Nat /\ a * b \in Nat /\ a * offset \in Nat
      /\ (a * b) * offset = (a * offset) * b
  BY <1>2, OrderType, SMT
<1>8. (((a * b) % Prime) * offset) % Prime = ((a * b) * offset) % Prime
  BY <1>7, OrderType, ModTimes
<1>9. (((a * offset) % Prime) * b) % Prime = ((a * offset) * b) % Prime
  BY <1>7, OrderType, ModTimes
<1> QED  BY <1>5, <1>6, <1>7, <1>8, <1>9 DEF b

-----------------------------------------------------------------------------
(* Threads and their subshards *)

Counts == allowed \in AllowedCounts /\ limit \in Limits

LEMMA CountsFacts ==
  ASSUME Counts
  PROVE  /\ allowed \in Nat \ {0} /\ allowed < Word /\ allowed < Prime
         /\ targets \in 0 .. allowed
         /\ senders \in Nat \ {0} /\ (senders <= targets \/ senders = 1)
         /\ Shards \in Nat \ {0} /\ tot_shards \in Nat \ {0}
         /\ tot_shards <= Shards * SenderThreads
<1>1. /\ allowed \in Nat \ {0} /\ allowed < Word /\ allowed < Prime /\ limit \in Nat
      /\ Shards \in Nat \ {0} /\ SenderThreads \in Nat \ {0}
  BY ShardAssumption, OrderType, SMT DEF Counts
<1>2. targets \in 0 .. allowed  BY <1>1, SMT DEF targets, Lesser
<1>3. senders \in 1 .. SenderThreads /\ (senders <= targets \/ senders = 1)
  BY <1>1, <1>2, SMT DEF senders
<1> HIDE DEF targets, senders
<1>4. tot_shards \in Nat \ {0} /\ tot_shards <= Shards * SenderThreads
  BY <1>1, <1>3, SMT DEF tot_shards
<1> QED  BY <1>1, <1>2, <1>3, <1>4, SMT

\* The threads are numbered from 0 to tot_shards - 1.
LEMMA BeginFacts ==
  ASSUME Counts, NEW s \in Subshard
  PROVE  begin_idx(s) \in 0 .. tot_shards - 1 /\ SubOf(begin_idx(s)) = s
<1> DEFINE b == begin_idx(s)
           x == s[1]
           y == s[2]
<1>0. Shards \in Nat \ {0} /\ senders \in Nat \ {0}  BY CountsFacts
<1>1. x \in 0 .. Shards - 1 /\ y \in 0 .. senders - 1 /\ s = <<x, y>>
  BY DEF Subshard
<1>2. b = Shards * y + x /\ b \in Nat /\ Shards * y \in Nat
  BY <1>0, <1>1, SMT DEF begin_idx
<1>3. b \in 0 .. tot_shards - 1
  <2>1. Shards * y + Shards <= Shards * senders  BY <1>0, <1>1, MulGap, SMT
  <2>2. Shards * senders \in Nat  BY <1>0, SMT
  <2> HIDE DEF b, x, y
  <2>3. Shards * y + x < Shards * senders  BY <2>1, <2>2, <1>0, <1>1, <1>2, SMT
  <2> QED  BY <2>2, <2>3, <1>2, SMT DEF tot_shards
<1> HIDE DEF b, x, y
<1>4. b % Shards = x
  BY <1>0, <1>1, <1>2, ModUnique, SMT
<1>5. b \div Shards = y
  <2> DEFINE q == b \div Shards
  <2>1. b = Shards * q + x /\ q \in Nat  BY <1>0, <1>2, <1>4, ModDef
  <2> HIDE DEF q
  <2>2. Shards * q = Shards * y /\ Shards * q \in Nat  BY <2>1, <1>0, <1>1, <1>2, SMT
  <2>3. ~(q < y)
    <3>1. q < y => Shards * q + Shards <= Shards * y  BY <2>1, <1>0, <1>1, MulGap, SMT
    <3> QED  BY <3>1, <2>2, <1>0, SMT
  <2>4. ~(y < q)
    <3>1. y < q => Shards * y + Shards <= Shards * q  BY <2>1, <1>0, <1>1, MulGap, SMT
    <3> QED  BY <3>1, <2>2, <1>0, SMT
  <2>5. q = y  BY <2>1, <2>3, <2>4, <1>1, SMT
  <2> QED  BY <2>5 DEF q
<1> QED  BY <1>1, <1>3, <1>4, <1>5 DEF SubOf, b

LEMMA SubOfFacts ==
  ASSUME Counts, NEW b \in 0 .. tot_shards - 1
  PROVE  SubOf(b) \in Subshard /\ begin_idx(SubOf(b)) = b
<1> DEFINE x == b % Shards
           y == b \div Shards
<1>0. Shards \in Nat \ {0} /\ senders \in Nat \ {0} /\ b \in Nat
      /\ b < Shards * senders
  BY CountsFacts, SMT DEF tot_shards
<1>1. b = Shards * y + x /\ y \in Nat /\ x \in 0 .. Shards - 1  BY <1>0, ModDef
<1> HIDE DEF x, y
<1>2. y < senders
  <2> SUFFICES ASSUME senders <= y PROVE FALSE  BY <1>0, <1>1, SMT
  <2>1. Shards * y \in Nat /\ Shards * senders \in Nat  BY <1>0, <1>1, SMT
  <2>2. CASE senders = y  BY <2>1, <2>2, <1>0, <1>1, SMT
  <2>3. CASE senders < y
    <3>1. Shards * senders + Shards <= Shards * y  BY <2>3, <1>0, <1>1, MulGap
    <3> QED  BY <3>1, <2>1, <1>0, <1>1, SMT
  <2> QED  BY <2>2, <2>3, <1>0, <1>1, SMT
<1>3. SubOf(b) = <<x, y>>  BY DEF SubOf, x, y
<1>4. <<x, y>> \in Subshard  BY <1>0, <1>1, <1>2, SMT DEF Subshard
<1>5. begin_idx(<<x, y>>) = b  BY <1>0, <1>1, SMT DEF begin_idx
<1> QED  BY <1>3, <1>4, <1>5

\* No thread is to send more than all the targets.
LEMMA MaxTargets ==
  ASSUME Counts, NEW s \in Subshard
  PROVE  max_targets(s) \in 0 .. targets
<1> DEFINE q == targets \div senders
           r == targets % senders
<1>0. targets \in Nat /\ senders \in Nat \ {0} /\ (senders <= targets \/ senders = 1)
      /\ Shards \in Nat \ {0}
  BY CountsFacts, SMT
<1>1. targets = senders * q + r /\ q \in Nat /\ r \in 0 .. senders - 1
  BY <1>0, ModDef
<1>2. s[1] \in Nat  BY <1>0, SMT DEF Subshard
<1>3. max_targets(s) = q + (IF r > s[1] THEN 1 ELSE 0)  BY DEF max_targets
<1> HIDE DEF q, r, targets, senders
<1>4. q <= senders * q  BY <1>0, <1>1, SMT
<1>5. CASE r > s[1]
  <2>1. q + 1 <= senders * q + r  BY <1>4, <1>0, <1>1, <1>2, <1>5, SMT
  <2> QED  BY <2>1, <1>0, <1>1, <1>3, <1>5, SMT
<1>6. CASE ~(r > s[1])
  <2>1. q <= senders * q + r  BY <1>4, <1>0, <1>1, SMT
  <2> QED  BY <2>1, <1>0, <1>1, <1>3, <1>6, SMT
<1> QED  BY <1>5, <1>6

-----------------------------------------------------------------------------
(* What is so of every thread ... *)

ThreadInv(s) ==
  /\ pc[s] = "new" => sent[s] = 0 /\ blacklisted[s] = 0 /\ probes[s] = <<>>
  /\ IF pc[s] \in {"new", "badroot"}
     THEN pc[s] = "badroot" => generator = -1
     ELSE generator # -1 /\ params[s] = Params(s)
  /\ pc[s] = "send" => InRange(current[s])
  /\ sent[s] <= max_targets(s)

ThreadsInv == TypeOK /\ \A s \in Subshard : ThreadInv(s)

(* ... and of the walk of a regular one: it has been through the elements of *)
(* its residue class up to the one it is at, has probed the eligible ones of *)
(* those it is done with, and counted the others.                            *)

Index      == 0 .. Order - 1
Upto(s, i) == {Element(j) : j \in {k \in Index : k % tot_shards = begin_idx(s) /\ k <= i}}
Rest(p, c, w) == IF p \in {"cur", "send", "capped"} THEN w \ {c} ELSE w

\* p, c, w, pr and n stand for the thread's pc, current, walked, probes, and for
\* what it sent and passed over.
WalkFacts(s, p, c, w, pr, n) ==
  /\ p # "badindex"
  /\ IF p = "done" THEN w = Own(s)
     ELSE \E i \in Index : /\ i % tot_shards = begin_idx(s)
                           /\ c = Element(i) /\ w = Upto(s, i)
  /\ Range(pr) = {e - 1 : e \in {f \in Rest(p, c, w) : f - 1 \in Eligible(s)}}
  /\ IsInjective(pr)
  /\ n = Cardinality(Rest(p, c, w) \ Unseen(s))
  /\ p \in {"cur", "send", "capped"} => c - 1 \in Eligible(s)
  /\ p = "skip" => pr = <<>>

WalkInv(s) ==
  WalkFacts(s, pc[s], current[s], walked[s], probes[s], sent[s] + blacklisted[s])

ShardInv == ThreadsInv /\ \A s \in Subshard : Regular(s) => WalkInv(s)

\* The cycle is made once, and with it what every thread computes from it.
LEMMA SameCycle ==
  ASSUME UNCHANGED cycle
  PROVE  /\ Counts' = Counts /\ targets' = targets /\ senders' = senders
         /\ tot_shards' = tot_shards /\ Subshard' = Subshard
         /\ \A s : max_targets(s)' = max_targets(s)
         /\ \A s : Params(s)' = Params(s)
         /\ \A k : Element(k)' = Element(k)
         /\ \A e : InRange(e)' = InRange(e)
<1>1. /\ allowed' = allowed /\ limit' = limit /\ generator' = generator
      /\ offset' = offset
  BY DEF cycle
<1>2. Counts' = Counts /\ targets' = targets  BY <1>1 DEF Counts, targets
<1>3. senders' = senders  BY <1>2 DEF senders
<1>4. tot_shards' = tot_shards /\ Subshard' = Subshard  BY <1>3 DEF tot_shards, Subshard
<1>5. \A s : max_targets(s)' = max_targets(s)  BY <1>2, <1>3 DEF max_targets
<1>6. \A s : Params(s)' = Params(s)  BY <1>1, <1>4 DEF Params, begin_idx
<1>7. \A k : Element(k)' = Element(k)  BY <1>1 DEF Element
<1>8. \A e : InRange(e)' = InRange(e)  BY <1>1 DEF InRange, max_index
<1> QED  BY <1>2, <1>3, <1>4, <1>5, <1>6, <1>7, <1>8

LEMMA SameSubshards ==
  ASSUME UNCHANGED cycle
  PROVE  \A s : /\ Own(s)' = Own(s) /\ Eligible(s)' = Eligible(s)
                /\ Unseen(s)' = Unseen(s) /\ First(s)' = First(s)
                /\ \A i : Upto(s, i)' = Upto(s, i)
<1> SUFFICES ASSUME NEW s
             PROVE  /\ Own(s)' = Own(s) /\ Eligible(s)' = Eligible(s)
                    /\ Unseen(s)' = Unseen(s) /\ First(s)' = First(s)
                    /\ \A i : Upto(s, i)' = Upto(s, i)
  OBVIOUS
<1>1. Own(s)' = Own(s)  BY SameCycle DEF Own, begin_idx
<1>2. First(s)' = First(s)  BY SameCycle DEF First, begin_idx
<1>3. Eligible(s)' = Eligible(s)  BY <1>1, <1>2, SameCycle DEF Eligible
<1>4. Unseen(s)' = Unseen(s)  BY <1>1, <1>2, SameCycle DEF Unseen
<1>5. ASSUME NEW i PROVE Upto(s, i)' = Upto(s, i)
  BY SameCycle DEF Upto, Index, begin_idx
<1> QED  BY <1>1, <1>2, <1>3, <1>4, <1>5

LEMMA GeneratorRange ==
  ASSUME NEW word \in Nat
  PROVE  Generator(word) \in 0 .. Prime - 1
<1> DEFINE x == isomorphism(Additive(word))
<1>1. Additive(word) \in Nat /\ PrimRoot \in 0 .. Prime - 1
  BY AdditiveCoprime, OrderType, CyclicAssumption, SMT
<1>2. x \in 0 .. Prime - 1  BY <1>1, PowerRange DEF isomorphism
<1>3. Generator(word) = x % Word  BY DEF Generator
<1> HIDE DEF x
<1>4. x % Word <= x /\ x % Word \in Nat
  <2> DEFINE q == x \div Word
             r == x % Word
  <2>1. x \in Nat  BY <1>2, OrderType, SMT
  <2>2. x = Word * q + r /\ q \in Nat /\ r \in 0 .. Word - 1  BY <2>1, OrderType, ModDef
  <2> HIDE DEF q, r
  <2>3. Word * q \in Nat  BY <2>2, OrderType, SMT
  <2> QED  BY <2>2, <2>3, OrderType, SMT DEF r
<1> QED  BY <1>2, <1>3, <1>4, OrderType, SMT

LEMMA InitThreads ==
  ASSUME Init
  PROVE  ThreadsInv /\ \A s \in Subshard : ~Regular(s)
<1>1. Counts  BY DEF Init, Counts
<1>2. generator \in -1 .. Prime - 1
  <2>1. PICK word \in 0 .. Lesser(Prime, Word) - 1 :
          generator = IF Drawable(word) THEN Generator(word) ELSE -1
    BY DEF Init
  <2>2. word \in Nat  BY OrderType, SMT DEF Lesser
  <2>3. CASE Drawable(word)
    <3>1. Generator(word) \in 0 .. Prime - 1  BY <2>2, GeneratorRange
    <3> QED  BY <2>1, <2>3, <3>1, OrderType, SMT
  <2>4. CASE ~Drawable(word)  BY <2>1, <2>4, OrderType, SMT
  <2> QED  BY <2>3, <2>4
<1>3. offset \in 0 .. Prime - 1
  <2>1. offset \in 0 .. Lesser(Prime, Word) - 1  BY DEF Init
  <2> QED  BY <2>1, OrderType, SMT DEF Lesser
<1>4. /\ params = [s \in Subshard |-> [first |-> 0, last |-> 0, factor |-> 0]]
      /\ pc = [s \in Subshard |-> "new"] /\ current = [s \in Subshard |-> 0]
      /\ sent = [s \in Subshard |-> 0] /\ blacklisted = [s \in Subshard |-> 0]
      /\ probes = [s \in Subshard |-> <<>>] /\ walked = [s \in Subshard |-> {}]
  BY DEF Init
<1>5. 0 \in 0 .. Prime - 1 /\ targets \in Nat  BY <1>1, CountsFacts, OrderType, SMT
<1>6. TypeOK
  <2>1. 0 \in 0 .. targets  BY <1>5, SMT
  <2>2. sent \in [Subshard -> 0 .. targets] /\ blacklisted \in [Subshard -> Nat]
        /\ current \in [Subshard -> 0 .. Prime - 1]
    BY <1>4, <1>5, <2>1
  <2>3. <<>> \in Seq(0 .. allowed - 1)  OBVIOUS
  <2>4. probes \in [Subshard -> Seq(0 .. allowed - 1)]
        /\ walked \in [Subshard -> SUBSET (0 .. Prime - 1)]
    BY <1>4, <2>3
  <2>5. params \in [Subshard -> [first : 0 .. Prime - 1, last : 0 .. Prime - 1,
                                 factor : 0 .. Prime - 1]]
    BY <1>4, <1>5
  <2>6. pc \in [Subshard -> {"new", "skip", "cur", "send", "next", "done",
                             "capped", "badroot", "badindex"}]
    BY <1>4
  <2> QED  BY <1>1, <1>2, <1>3, <2>2, <2>4, <2>5, <2>6 DEF TypeOK, Counts
<1>7. ASSUME NEW s \in Subshard PROVE ThreadInv(s)
  <2>1. max_targets(s) \in 0 .. targets  BY <1>1, MaxTargets
  <2>2. 0 <= max_targets(s)  BY <2>1, <1>5, SMT
  <2> QED  BY <1>4, <2>2 DEF ThreadInv
<1> QED  BY <1>4, <1>6, <1>7 DEF ThreadsInv, Regular

\* A step of one thread leaves the others what they were.
LEMMA OtherThread ==
  ASSUME UNCHANGED cycle, NEW u \in Subshard, params'[u] = params[u], pc'[u] = pc[u],
         current'[u] = current[u], sent'[u] = sent[u],
         blacklisted'[u] = blacklisted[u], probes'[u] = probes[u],
         walked'[u] = walked[u]
  PROVE  /\ ThreadInv(u) => ThreadInv(u)'
         /\ Regular(u)' <=> Regular(u)
         /\ WalkInv(u) => WalkInv(u)'
<1>1. generator' = generator /\ offset' = offset  BY DEF cycle
<1>2. ThreadInv(u) => ThreadInv(u)'  BY <1>1, SameCycle DEF ThreadInv
<1>3. Regular(u)' <=> Regular(u)  BY <1>1, SameCycle, SameSubshards DEF Regular, Able
<1>4. Eligible(u)' = Eligible(u) /\ Unseen(u)' = Unseen(u) /\ Own(u)' = Own(u)
      /\ \A i : Upto(u, i)' = Upto(u, i)
  BY SameSubshards
<1>5. begin_idx(u)' = begin_idx(u) /\ Index' = Index  BY DEF begin_idx, Index
<1>6. WalkInv(u) => WalkInv(u)'
  BY <1>4, <1>5, SameCycle DEF WalkInv, WalkFacts
<1> QED  BY <1>2, <1>3, <1>6

LEMMA StepFrame ==
  ASSUME TypeOK, NEW s \in Subshard, Step(s)
  PROVE  /\ UNCHANGED cycle
         /\ \A u \in Subshard \ {s} :
              /\ params'[u] = params[u] /\ pc'[u] = pc[u]
              /\ current'[u] = current[u] /\ sent'[u] = sent[u]
              /\ blacklisted'[u] = blacklisted[u] /\ probes'[u] = probes[u]
              /\ walked'[u] = walked[u]
<1> USE DEF TypeOK
<1>1. CASE MakeCycleFail(s)  BY <1>1 DEF MakeCycleFail
<1>2. CASE shard_init(s)  BY <1>2 DEF shard_init
<1>3. CASE CurIp(s)  BY <1>3 DEF CurIp
<1>4. CASE Probe(s)  BY <1>4 DEF Probe
<1>5. CASE Capped(s)  BY <1>5 DEF Capped
<1>6. CASE TooLarge(s)  BY <1>6 DEF TooLarge
<1>7. CASE ReachedLast(s)  BY <1>7 DEF ReachedLast
<1>8. CASE Found(s)  BY <1>8 DEF Found
<1>9. CASE PassOver(s)  BY <1>9 DEF PassOver
<1> QED  BY <1>1, <1>2, <1>3, <1>4, <1>5, <1>6, <1>7, <1>8, <1>9 DEF Step

LEMMA ModRange ==
  ASSUME NEW x \in Nat
  PROVE  x % Prime \in 0 .. Prime - 1
BY OrderType, ModDef

LEMMA Mul64Type ==
  ASSUME NEW a \in Nat, NEW b \in Nat
  PROVE  Mul64(a, b) \in Nat /\ (a * b < Word * Word => Mul64(a, b) = a * b)
<1> DEFINE x == a * b
           w == Word * Word
<1>1. x \in Nat /\ w \in Nat \ {0}  BY OrderType, SMT
<1>2. Mul64(a, b) = x % w  BY DEF Mul64
<1> HIDE DEF x, w
<1>3. x % w \in Nat /\ (x < w => x % w = x)  BY <1>1, ModDef, ModSmall, SMT
<1> QED  BY <1>2, <1>3 DEF x, w

LEMMA ParamsType ==
  ASSUME Counts, generator \in 0 .. Prime - 1, offset \in 0 .. Prime - 1,
         NEW s \in Subshard
  PROVE  Params(s) \in [first : 0 .. Prime - 1, last : 0 .. Prime - 1,
                        factor : 0 .. Prime - 1]
<1>1. tot_shards \in Nat \ {0} /\ begin_idx(s) \in Nat  BY CountsFacts, BeginFacts, SMT
<1>2. ASSUME NEW n \in Nat
      PROVE  Mul64(Power(generator, n), offset) % Prime \in 0 .. Prime - 1
  <2>1. Power(generator, n) \in Nat /\ offset \in Nat  BY PowerRange, OrderType, SMT
  <2>2. Mul64(Power(generator, n), offset) \in Nat  BY <2>1, Mul64Type
  <2> QED  BY <2>2, ModRange
<1>3. Power(generator, tot_shards) \in 0 .. Prime - 1  BY <1>1, PowerRange
<1>4. begin_idx(s) + 1 \in Nat  BY <1>1
<1>5. end_idx(Order, tot_shards, begin_idx(s)) + 1 \in Nat
  <2> DEFINE t == tot_shards
             b == begin_idx(s)
             x == Order - (Order % t) + b
  <2>1. Order % t <= Order /\ Order % t \in Nat
    <3> DEFINE q == Order \div t
               r == Order % t
    <3>1. Order = t * q + r /\ q \in Nat /\ r \in 0 .. t - 1  BY <1>1, OrderType, ModDef
    <3> HIDE DEF q, r, t
    <3>2. t * q \in Nat  BY <1>1, <3>1, SMT DEF t
    <3> QED  BY <1>1, <3>1, <3>2, OrderType, SMT DEF t, r
  <2>2. x \in Nat  BY <2>1, <1>1, OrderType, SMT
  <2>3. x % Order \in Nat /\ ((x % Order) + t) % Order \in Nat
    <3> HIDE DEF x
    <3>1. x % Order \in Nat  BY <2>2, OrderType, ModDef, SMT
    <3> DEFINE y == (x % Order) + t
    <3>2. y \in Nat  BY <3>1, <1>1
    <3> HIDE DEF y
    <3>3. y % Order \in Nat  BY <3>2, OrderType, ModDef, SMT
    <3> QED  BY <3>1, <3>3 DEF y
  <2>4. end_idx(Order, t, b) = IF x % Order >= t THEN ((x % Order) + t) % Order ELSE x % Order
    BY DEF end_idx
  <2> QED  BY <2>3, <2>4, SMT
<1> QED  BY <1>2, <1>3, <1>4, <1>5 DEF Params

LEMMA NextElemType ==
  ASSUME TypeOK, NEW s \in Subshard
  PROVE  NextElem(s) \in 0 .. Prime - 1
<1>1. current[s] \in Nat /\ params[s].factor \in Nat  BY OrderType, SMT DEF TypeOK
<1>2. Mul64(current[s], params[s].factor) \in Nat  BY <1>1, Mul64Type
<1> QED  BY <1>2, ModRange DEF NextElem

LEMMA StepTypes ==
  ASSUME ThreadsInv, NEW s \in Subshard, Step(s)
  PROVE  TypeOK'
<1>0. TypeOK /\ ThreadInv(s) /\ Counts  BY DEF ThreadsInv, TypeOK, Counts
<1>1. UNCHANGED cycle  BY <1>0, StepFrame
<1>2. Subshard' = Subshard /\ targets' = targets  BY <1>1, SameCycle
<1>3. allowed' = allowed /\ limit' = limit /\ generator' = generator /\ offset' = offset
  BY <1>1 DEF cycle
<1> DEFINE Pc == {"new", "skip", "cur", "send", "next", "done", "capped", "badroot", "badindex"}
           Par == [first : 0 .. Prime - 1, last : 0 .. Prime - 1, factor : 0 .. Prime - 1]
           Types == /\ params' \in [Subshard -> Par] /\ pc' \in [Subshard -> Pc]
                    /\ current' \in [Subshard -> 0 .. Prime - 1]
                    /\ sent' \in [Subshard -> 0 .. targets]
                    /\ blacklisted' \in [Subshard -> Nat]
                    /\ probes' \in [Subshard -> Seq(0 .. allowed - 1)]
                    /\ walked' \in [Subshard -> SUBSET (0 .. Prime - 1)]
<1> SUFFICES Types  BY <1>0, <1>2, <1>3 DEF TypeOK
<1>4. /\ params \in [Subshard -> Par] /\ pc \in [Subshard -> Pc]
      /\ current \in [Subshard -> 0 .. Prime - 1] /\ sent \in [Subshard -> 0 .. targets]
      /\ blacklisted \in [Subshard -> Nat]
      /\ probes \in [Subshard -> Seq(0 .. allowed - 1)]
      /\ walked \in [Subshard -> SUBSET (0 .. Prime - 1)]
  BY <1>0 DEF TypeOK
<1>5. NextElem(s) \in 0 .. Prime - 1  BY <1>0, NextElemType
<1> HIDE DEF Par
<1>6. CASE MakeCycleFail(s)  BY <1>4, <1>6 DEF MakeCycleFail
<1>7. CASE shard_init(s)
  <2>1. generator \in 0 .. Prime - 1
    BY <1>0, <1>7, OrderType, SMT DEF TypeOK, shard_init
  <2>2. Params(s) \in Par  BY <2>1, <1>0, ParamsType DEF TypeOK, Par
  <2>3. Params(s).first \in 0 .. Prime - 1  BY <2>2 DEF Par
  <2>4. params' = [params EXCEPT ![s] = Params(s)] /\ params'[s] = Params(s)
    BY <1>4, <1>7 DEF shard_init
  <2>5. /\ current' = [current EXCEPT ![s] = Params(s).first]
        /\ walked' = [walked EXCEPT ![s] = {Params(s).first}]
        /\ pc' = [pc EXCEPT ![s] = IF Params(s).first > targets THEN "skip" ELSE "cur"]
        /\ sent' = sent /\ blacklisted' = blacklisted /\ probes' = probes
    BY <2>4, <1>7 DEF shard_init
  <2> HIDE DEF Par
  <2>6. params' \in [Subshard -> Par]  BY <2>2, <2>4, <1>4
  <2>7. current' \in [Subshard -> 0 .. Prime - 1]
        /\ walked' \in [Subshard -> SUBSET (0 .. Prime - 1)]
    BY <2>3, <2>5, <1>4
  <2>8. pc' \in [Subshard -> Pc]  BY <2>5, <1>4
  <2> QED  BY <2>5, <2>6, <2>7, <2>8, <1>4
<1>8. CASE CurIp(s)  BY <1>4, <1>8 DEF CurIp
<1>9. CASE Probe(s)
  <2>1. sent[s] + 1 \in 0 .. targets
    <3>1. max_targets(s) \in 0 .. targets /\ targets \in Nat
      BY <1>0, CountsFacts, MaxTargets, SMT
    <3>2. sent[s] \in 0 .. targets /\ sent[s] < max_targets(s)  BY <1>4, <1>9 DEF Probe
    <3> QED  BY <3>1, <3>2, SMT
  <2>2. current[s] - 1 \in 0 .. allowed - 1
    BY <1>0, <1>9 DEF ThreadInv, Probe, InRange, max_index
  <2>3. Append(probes[s], current[s] - 1) \in Seq(0 .. allowed - 1)
    <3>1. probes[s] \in Seq(0 .. allowed - 1)  BY <1>4
    <3> QED  BY <3>1, <2>2
  <2> QED  BY <2>1, <2>3, <1>4, <1>9 DEF Probe
<1>10. CASE Capped(s)  BY <1>4, <1>10 DEF Capped
<1>11. CASE TooLarge(s)  BY <1>4, <1>5, <1>11 DEF TooLarge
<1>12. CASE ReachedLast(s)  BY <1>4, <1>5, <1>12 DEF ReachedLast
<1>13. CASE Found(s)  BY <1>4, <1>5, <1>13 DEF Found
<1>14. CASE PassOver(s)
  <2>1. blacklisted[s] + 1 \in Nat  BY <1>4
  <2> QED  BY <1>4, <1>5, <1>14, <2>1 DEF PassOver
<1> QED  BY <1>6, <1>7, <1>8, <1>9, <1>10, <1>11, <1>12, <1>13, <1>14 DEF Step

LEMMA StepThread ==
  ASSUME ThreadsInv, NEW s \in Subshard, Step(s)
  PROVE  ThreadInv(s)'
<1>0. TypeOK /\ ThreadInv(s) /\ Counts  BY DEF ThreadsInv, TypeOK, Counts
<1>1. UNCHANGED cycle  BY <1>0, StepFrame
<1>2. generator' = generator  BY <1>1 DEF cycle
<1>3. max_targets(s)' = max_targets(s) /\ Params(s)' = Params(s)
      /\ \A e : InRange(e)' = InRange(e)
  BY <1>1, SameCycle
<1>4. /\ s \in DOMAIN params /\ s \in DOMAIN pc /\ s \in DOMAIN current
      /\ s \in DOMAIN sent /\ s \in DOMAIN blacklisted /\ s \in DOMAIN probes
  BY <1>0 DEF TypeOK
<1> DEFINE Now == /\ pc'[s] = "new" => sent'[s] = 0 /\ blacklisted'[s] = 0 /\ probes'[s] = <<>>
                  /\ IF pc'[s] \in {"new", "badroot"}
                     THEN pc'[s] = "badroot" => generator = -1
                     ELSE generator # -1 /\ params'[s] = Params(s)
                  /\ pc'[s] = "send" => InRange(current'[s])
                  /\ sent'[s] <= max_targets(s)
<1> SUFFICES Now  BY <1>2, <1>3 DEF ThreadInv
<1> USE DEF ThreadInv
<1>6. CASE MakeCycleFail(s)  BY <1>0, <1>4, <1>6 DEF MakeCycleFail
<1>7. CASE shard_init(s)  BY <1>0, <1>4, <1>7 DEF shard_init
<1>8. CASE CurIp(s)  BY <1>0, <1>4, <1>8 DEF CurIp
<1>9. CASE Probe(s)
  <2>1. sent[s] + 1 <= max_targets(s)
    <3>1. max_targets(s) \in 0 .. targets /\ targets \in Nat
      BY <1>0, CountsFacts, MaxTargets, SMT
    <3>2. sent[s] \in 0 .. targets /\ sent[s] < max_targets(s)
      BY <1>0, <1>9 DEF Probe, TypeOK
    <3> QED  BY <3>1, <3>2, SMT
  <2> QED  BY <2>1, <1>0, <1>4, <1>9 DEF Probe
<1>10. CASE Capped(s)  BY <1>0, <1>4, <1>10 DEF Capped
<1>11. CASE TooLarge(s)  BY <1>0, <1>4, <1>11 DEF TooLarge, Seeking
<1>12. CASE ReachedLast(s)  BY <1>0, <1>4, <1>12 DEF ReachedLast, Seeking
<1>13. CASE Found(s)  BY <1>0, <1>4, <1>13 DEF Found, Seeking
<1>14. CASE PassOver(s)  BY <1>0, <1>4, <1>14 DEF PassOver, Seeking
<1> QED  BY <1>6, <1>7, <1>8, <1>9, <1>10, <1>11, <1>12, <1>13, <1>14 DEF Step

LEMMA NextThreads ==
  ASSUME ThreadsInv, [Next]_vars
  PROVE  ThreadsInv'
<1>1. ASSUME NEW s \in Subshard, Step(s) PROVE ThreadsInv'
  <2>1. TypeOK  BY DEF ThreadsInv
  <2>2. TypeOK' /\ ThreadInv(s)'  BY <1>1, StepTypes, StepThread
  <2>3. UNCHANGED cycle /\ Subshard' = Subshard  BY <1>1, <2>1, StepFrame, SameCycle
  <2>4. ASSUME NEW u \in Subshard, u # s PROVE ThreadInv(u)'
    <3>1. ThreadInv(u)  BY DEF ThreadsInv
    <3>2. u \in Subshard \ {s}  BY <2>4
    <3> QED  BY <3>1, <3>2, <1>1, <2>1, StepFrame, OtherThread
  <2>5. \A u \in Subshard' : ThreadInv(u)'  BY <2>2, <2>3, <2>4
  <2> QED  BY <2>2, <2>5 DEF ThreadsInv
<1>2. ASSUME UNCHANGED vars PROVE ThreadsInv'
  <2>1. UNCHANGED cycle  BY <1>2 DEF vars, cycle
  <2>2. TypeOK'
    <3>1. TypeOK /\ Subshard' = Subshard /\ targets' = targets
      BY <2>1, SameCycle DEF ThreadsInv
    <3> QED  BY <3>1, <1>2 DEF TypeOK, vars
  <2>3. Subshard' = Subshard  BY <2>1, SameCycle
  <2>4. ASSUME NEW u \in Subshard PROVE ThreadInv(u)'
    <3>1. ThreadInv(u)  BY DEF ThreadsInv
    <3> QED  BY <3>1, <2>1, <1>2, OtherThread DEF vars
  <2> QED  BY <2>2, <2>3, <2>4 DEF ThreadsInv
<1> QED  BY <1>1, <1>2 DEF Next, AllOver

-----------------------------------------------------------------------------
(* The walk of a regular thread *)

\* The parameters that shard_init computes are elements and a power.
LEMMA ParamsFacts ==
  ASSUME Counts, offset \in 0 .. Prime - 1, NEW s \in Subshard, Able(s)
  PROVE  /\ generator \in Generators /\ offset \in 1 .. Order
         /\ tot_shards \in 1 .. Order /\ begin_idx(s) \in Index
         /\ begin_idx(s) % tot_shards = begin_idx(s)
         /\ Params(s).factor = Power(generator, tot_shards)
         /\ Params(s).first = Element(begin_idx(s))
         /\ First(s) = Element(begin_idx(s))
         /\ end_idx(Order, tot_shards, begin_idx(s)) \in 0 .. tot_shards - 1
         /\ Params(s).last = Element(end_idx(Order, tot_shards, begin_idx(s)))
<1> DEFINE t == tot_shards
           b == begin_idx(s)
           e == end_idx(Order, t, b)
<1>0. t \in Nat \ {0} /\ t \in 1 .. Order /\ b \in 0 .. t - 1 /\ generator \in Generators
  BY CountsFacts, BeginFacts, OrderType, SMT DEF Able
<1>1. b \in Nat /\ b < t /\ b \in Index /\ b < Order  BY <1>0, OrderType, SMT DEF Index
<1>2. offset # 0
  <2> SUFFICES ASSUME offset = 0 PROVE FALSE  OBVIOUS
  <2>1. PICK f \in Own(s) : InRange(f)  BY DEF Able, Eligible
  <2>2. f - 1 \in 0 .. allowed - 1  BY <2>1 DEF InRange, max_index
  <2>3. PICK k \in 0 .. Order - 1 : f = Element(k)  BY DEF Own
  <2>4. k + 1 \in Nat  BY OrderType, SMT
  <2>5. Power(generator, k + 1) \in 1 .. Order
    <3>1. generator \in 1 .. Order  BY <1>0 DEF Generators
    <3> QED  BY <3>1, <2>4, PowerIn
  <2>6. Power(generator, k + 1) * 0 = 0  BY <2>5, OrderType, SMT
  <2>7. f = 0  BY <2>3, <2>6, OrderType, ModSmall, SMT DEF Element
  <2> QED  BY <2>2, <2>7, CountsFacts, SMT
<1>3. offset \in 1 .. Order  BY <1>2, OrderType, SMT
<1>4. ASSUME NEW k \in Nat
      PROVE  Mul64(Power(generator, k + 1), offset) % Prime = Element(k)
  <2>1. Power(generator, k + 1) \in 1 .. Order
    <3>1. generator \in 1 .. Order /\ k + 1 \in Nat  BY <1>0 DEF Generators
    <3> QED  BY <3>1, PowerIn
  <2> DEFINE x == Power(generator, k + 1)
  <2>2. x \in Nat /\ offset \in Nat /\ Order \in Nat /\ x <= Order  BY <2>1, <1>3, OrderType, SMT
  <2> HIDE DEF x
  <2>3. x * offset <= Order * offset /\ x * offset \in Nat /\ Order * offset \in Nat
    BY <2>2, SMT
  <2>4. x * offset < Word * Word
    <3> DEFINE y == Order * offset
               z == x * offset
               w == Word * Word
    <3>1. y < w /\ z <= y /\ y \in Nat /\ z \in Nat  BY <2>3 DEF Able
    <3>2. w \in Nat  BY OrderType, SMT
    <3> HIDE DEF y, z, w
    <3>3. z < w  BY <3>1, <3>2, SMT
    <3> QED  BY <3>3 DEF z, w
  <2>5. Mul64(x, offset) = x * offset  BY <2>2, <2>4, Mul64Type
  <2> QED  BY <2>5 DEF Element, x
<1>5. e \in 0 .. t - 1
  <2>1. e = IF b < Order % t THEN b + t - (Order % t) ELSE b - (Order % t)
    BY <1>0, OrderType, EndValue
  <2>2. Order % t \in 0 .. t - 1  BY <1>0, OrderType, ModDef
  <2> QED  BY <2>1, <2>2, <1>0, <1>1, SMT
<1>6. e \in Nat  BY <1>0, <1>5, SMT
<1>7. b % t = b /\ b % Order = b  BY <1>0, <1>1, OrderType, ModSmall
<1> QED  BY <1>0, <1>1, <1>3, <1>4, <1>5, <1>6, <1>7 DEF Params, First

\* One step of the walk, before the end and at the end.
LEMMA NextFacts ==
  ASSUME Counts, offset \in 0 .. Prime - 1, NEW s \in Subshard, Able(s),
         params[s] = Params(s), NEW i \in Index, i % tot_shards = begin_idx(s), current[s] = Element(i)
  PROVE  /\ NextElem(s) = Element(i + tot_shards)
         /\ IF i + tot_shards < Order
            THEN /\ i + tot_shards \in Index
                 /\ (i + tot_shards) % tot_shards = begin_idx(s)
                 /\ NextElem(s) \notin Upto(s, i)
                 /\ Upto(s, i + tot_shards) = Upto(s, i) \cup {NextElem(s)}
                 /\ NextElem(s) # First(s) /\ NextElem(s) # params[s].last
                 /\ NextElem(s) \in Own(s)
            ELSE /\ NextElem(s) = params[s].last
                 /\ NextElem(s) = Element(end_idx(Order, tot_shards, begin_idx(s)))
                 /\ (i + tot_shards) % Order = end_idx(Order, tot_shards, begin_idx(s))
                 /\ Upto(s, i) = Own(s)
<1> DEFINE t == tot_shards
           b == begin_idx(s)
           e == end_idx(Order, t, b)
<1>1. /\ generator \in Generators /\ offset \in 1 .. Order /\ t \in 1 .. Order
      /\ b \in Index /\ b % t = b /\ e \in 0 .. t - 1
      /\ params[s].factor = Power(generator, t)
      /\ First(s) = Element(b) /\ params[s].last = Element(e)
  BY ParamsFacts
<1>2. i \in Nat /\ i < Order /\ i % t = b /\ current[s] = Element(i) /\ t \in Nat \ {0}
  BY <1>1, OrderType, SMT DEF Index
<1>3. NextElem(s) = Element(i + t)
  <2> DEFINE x == Element(i)
             f == Power(generator, t)
  <2>1. x \in 1 .. Order /\ f \in 1 .. Order
    <3>1. generator \in 1 .. Order  BY <1>1 DEF Generators
    <3> QED  BY <3>1, <1>1, <1>2, ElementIn, PowerIn
  <2> HIDE DEF x, f
  <2>2. x \in Nat /\ f \in Nat /\ x <= Order /\ Order \in Nat  BY <2>1, OrderType, SMT
  <2>3. x * f <= Order * f /\ x * f \in Nat /\ Order * f \in Nat  BY <2>2, SMT
  <2>4. x * f < Word * Word
    <3> DEFINE y == Order * f
               z == x * f
               w == Word * Word
    <3>1. y < w /\ z <= y /\ y \in Nat /\ z \in Nat  BY <2>3, <1>1 DEF Able, f
    <3>2. w \in Nat  BY OrderType, SMT
    <3> HIDE DEF y, z, w
    <3>3. z < w  BY <3>1, <3>2, SMT
    <3> QED  BY <3>3 DEF z, w
  <2>5. Mul64(x, f) = x * f  BY <2>2, <2>4, Mul64Type
  <2>6. NextElem(s) = Mul64(x, f) % Prime  BY <1>1, <1>2 DEF NextElem, x, f
  <2>7. Element(i + t) = (x * f) % Prime  BY <1>1, <1>2, ElementStep DEF x, f
  <2> QED  BY <2>5, <2>6, <2>7
<1>4. CASE i + t < Order
  <2> DEFINE j == i + t
  <2>1. j \in Index /\ j \in Nat /\ i < j  BY <1>2, <1>4, OrderType, SMT DEF Index
  <2>2. j % t = b  BY <1>2, ModAdd
  <2>3. ASSUME NEW k \in Index, k < j PROVE Element(k) # Element(j)
    <3>1. k # j  BY <2>3, OrderType, SMT DEF Index
    <3> HIDE DEF j
    <3> QED  BY <3>1, <2>1, <1>1, ElementsDiffer DEF Index
  <2>4. Element(j) \notin Upto(s, i)
    <3> SUFFICES ASSUME Element(j) \in Upto(s, i) PROVE FALSE  OBVIOUS
    <3>1. PICK k \in Index : k <= i /\ Element(k) = Element(j)  BY DEF Upto
    <3>2. k < j  BY <3>1, <2>1, <1>2, OrderType, SMT DEF Index
    <3> QED  BY <3>1, <3>2, <2>3
  <2>5. Upto(s, j) = Upto(s, i) \cup {Element(j)}
    <3>1. {k \in Index : k % t = b /\ k <= j} = {k \in Index : k % t = b /\ k <= i} \cup {j}
      <4>1. ASSUME NEW k \in Index, k % t = b, k <= j, k # j PROVE k <= i
        <5>0. k \in Nat  BY OrderType, SMT DEF Index
        <5> SUFFICES ASSUME i < k PROVE FALSE  BY <5>0, <1>2, SMT
        <5>1. i + t <= k  BY <5>0, <4>1, <1>2, ModGap
        <5> QED  BY <5>0, <5>1, <4>1, <1>2, SMT
      <4>2. ASSUME NEW k \in Index, k <= i PROVE k <= j
        BY <4>2, <1>2, OrderType, SMT DEF Index
      <4>3. j <= j  BY <2>1, SMT
      <4> HIDE DEF j
      <4> QED  BY <4>1, <4>2, <4>3, <2>1, <2>2
    <3> HIDE DEF j
    <3> QED  BY <3>1 DEF Upto
  <2>6. Element(j) # Element(b)
    <3>1. b < j  BY <1>1, <1>2, OrderType, SMT DEF Index
    <3> QED  BY <3>1, <2>3, <1>1
  <2>7. Element(j) # Element(e)
    <3>1. e \in Index /\ e < j  BY <1>1, <1>2, OrderType, SMT DEF Index
    <3> QED  BY <3>1, <2>3
  <2>8. Element(j) \in Own(s)  BY <2>1, <2>2 DEF Own, Index
  <2> HIDE DEF j
  <2>9. NextElem(s) = Element(j)  BY <1>3 DEF j
  <2>10. /\ NextElem(s) \notin Upto(s, i) /\ Upto(s, j) = Upto(s, i) \cup {NextElem(s)}
         /\ NextElem(s) # First(s) /\ NextElem(s) # params[s].last
         /\ NextElem(s) \in Own(s)
    BY <2>4, <2>5, <2>6, <2>7, <2>8, <2>9, <1>1
  <2> QED  BY <2>1, <2>2, <2>10, <1>3, <1>4 DEF j
<1>5. CASE ~(i + t < Order)
  <2>1. i + t >= Order /\ i + t \in Nat  BY <1>2, <1>5, OrderType, SMT
  <2>2. (i + t) % Order = e
    <3>1. b \in 0 .. t - 1  BY BeginFacts
    <3>2. i \in 0 .. Order - 1  BY DEF Index
    <3> QED  BY <3>1, <3>2, <2>1, <1>1, <1>2, OrderType, LastIndex
  <2>3. Element(e) = Element(i + t)  BY <2>1, <2>2, <1>1, ElementWraps
  <2>4. Upto(s, i) = Own(s)
    <3>1. ASSUME NEW k \in Index, k % t = b PROVE k <= i
      <4>0. k \in Nat /\ k < Order  BY OrderType, SMT DEF Index
      <4> SUFFICES ASSUME i < k PROVE FALSE  BY <4>0, <1>2, SMT
      <4>1. i + t <= k  BY <4>0, <3>1, <1>2, ModGap
      <4> QED  BY <4>0, <4>1, <2>1, OrderType, <1>2, SMT
    <3> QED  BY <3>1 DEF Upto, Own, Index
  <2> QED  BY <2>2, <2>3, <2>4, <1>1, <1>3, <1>5
<1> QED  BY <1>4, <1>5

\* A subshard is finite, and a walk stays in it.
LEMMA OwnFinite ==
  ASSUME NEW s
  PROVE  /\ IsFiniteSet(Own(s))
         /\ \A i : Upto(s, i) \subseteq Own(s)
<1> DEFINE J == {j \in Index : j % tot_shards = begin_idx(s)}
           f == [j \in J |-> Element(j)]
<1>1. IsFiniteSet(Index)
  <2>1. 0 \in Int /\ Order - 1 \in Int  BY OrderType, SMT
  <2> QED  BY <2>1, FS_Interval DEF Index
<1>2. IsFiniteSet(J)
  <2>1. J \in SUBSET Index  OBVIOUS
  <2> HIDE DEF J
  <2> QED  BY <1>1, <2>1, FS_Subset
<1>3. Own(s) = {Element(j) : j \in J}  BY DEF Own, Index
<1>4. f \in Surjection(J, Own(s))
  <2> HIDE DEF J
  <2> QED  BY <1>3 DEF Surjection
<1>5. IsFiniteSet(Own(s))
  <2> HIDE DEF f, J
  <2> QED  BY <1>2, <1>4, FS_Surjection
<1>6. \A i : Upto(s, i) \subseteq Own(s)  BY DEF Upto, Own, Index
<1> QED  BY <1>5, <1>6

LEMMA OwnElements ==
  ASSUME Counts, offset \in 0 .. Prime - 1, NEW s \in Subshard, Able(s), NEW e \in Own(s)
  PROVE  e \in 1 .. Order /\ e \in Nat
<1>1. PICK k \in Index : e = Element(k)  BY DEF Own, Index
<1>2. k \in Nat  BY OrderType, SMT DEF Index
<1>3. e \in 1 .. Order  BY <1>1, <1>2, ParamsFacts, ElementIn
<1> QED  BY <1>3, OrderType, SMT

\* An eligible element is in range, and neither too large nor skipped.
LEMMA EligibleSeen ==
  ASSUME Counts, offset \in 0 .. Prime - 1, NEW s \in Subshard, Able(s),
         NEW e \in Own(s), e - 1 \in Eligible(s)
  PROVE  e \notin Unseen(s) /\ InRange(e)
<1>1. PICK f \in Own(s) : InRange(f) /\ ~(f = First(s) /\ f > targets) /\ e - 1 = f - 1
  BY DEF Eligible
<1>2. e \in Nat /\ f \in Nat  BY OwnElements
<1>3. e = f  BY <1>1, <1>2, SMT
<1>4. f - 1 \in 0 .. allowed - 1  BY <1>1 DEF InRange, max_index
<1>5. e < Word
  <2>1. allowed \in Nat /\ allowed < Word /\ Word \in Nat  BY CountsFacts, OrderType
  <2> QED  BY <2>1, <1>2, <1>3, <1>4, SMT
<1> QED  BY <1>1, <1>2, <1>3, <1>5, OrderType, SMT DEF Unseen

LEMMA ToWalkInv ==
  ASSUME UNCHANGED cycle, NEW s,
         WalkFacts(s, pc'[s], current'[s], walked'[s], probes'[s],
                   sent'[s] + blacklisted'[s])
  PROVE  WalkInv(s)'
<1>1. Eligible(s)' = Eligible(s) /\ Unseen(s)' = Unseen(s) /\ Own(s)' = Own(s)
      /\ \A i : Upto(s, i)' = Upto(s, i)
  BY SameSubshards
<1>2. begin_idx(s)' = begin_idx(s) /\ Index' = Index  BY DEF begin_idx, Index
<1> QED  BY <1>1, <1>2, SameCycle DEF WalkInv, WalkFacts

\* shard_init begins the walk at the first element of the subshard.
LEMMA BeginWalk ==
  ASSUME ThreadsInv, NEW s \in Subshard, shard_init(s), Able(s)
  PROVE  WalkInv(s)'
<1>0. Counts /\ offset \in 0 .. Prime - 1 /\ TypeOK /\ ThreadInv(s)
  BY DEF ThreadsInv, TypeOK, Counts
<1>1. UNCHANGED cycle  BY <1>0, StepFrame DEF Step
<1> DEFINE b == begin_idx(s)
           e == Element(b)
           p == IF e > targets THEN "skip" ELSE "cur"
<1>2. /\ b \in Index /\ b % tot_shards = b /\ Params(s).first = e /\ First(s) = e
      /\ generator \in Generators /\ offset \in 1 .. Order /\ tot_shards \in 1 .. Order
  BY <1>0, ParamsFacts
<1>3. /\ pc'[s] = p /\ current'[s] = e /\ walked'[s] = {e} /\ probes'[s] = <<>>
      /\ sent'[s] = 0 /\ blacklisted'[s] = 0
  <2>1. /\ s \in DOMAIN params /\ s \in DOMAIN pc /\ s \in DOMAIN current
        /\ s \in DOMAIN walked
    BY <1>0 DEF TypeOK
  <2>2. params'[s] = Params(s)  BY <2>1 DEF shard_init
  <2>3. params'[s].first = e  BY <1>2, <2>2
  <2> HIDE DEF e
  <2> QED  BY <2>1, <2>3, <1>0 DEF shard_init, ThreadInv
<1>4. Upto(s, b) = {e}
  <2>1. {k \in Index : k % tot_shards = b /\ k <= b} = {b}
    <3>0. b \in Nat /\ b < tot_shards /\ tot_shards \in Nat \ {0}
      BY <1>0, BeginFacts, CountsFacts, SMT
    <3>1. ASSUME NEW k \in Index, k % tot_shards = b, k <= b PROVE k = b
      <4>1. k \in Nat /\ k < tot_shards  BY <3>0, <3>1, OrderType, SMT DEF Index
      <4> QED  BY <4>1, <3>0, <3>1, ModSmall
    <3>2. b <= b  BY <3>0, SMT
    <3> HIDE DEF b
    <3> QED  BY <3>1, <3>2, <1>2
  <2> QED  BY <2>1 DEF Upto
<1>5. e \in Own(s) /\ e \in Nat
  <2>1. e \in Own(s)  BY <1>2 DEF Own, Index
  <2> QED  BY <2>1, <1>0, OwnElements
<1>6. targets \in 0 .. allowed /\ allowed \in Nat  BY <1>0, CountsFacts
<1>7. IsInjective(<<>>) /\ Range(<<>>) = {} /\ 0 + 0 = 0 /\ Cardinality({}) = 0
  BY FS_EmptySet DEF IsInjective, Range
<1> HIDE DEF e
<1>8. CASE e > targets
  <2>1. e \in Unseen(s)  BY <1>2, <1>5, <1>8 DEF Unseen
  <2>2. ASSUME e - 1 \in Eligible(s) PROVE FALSE
    BY <2>1, <2>2, <1>0, <1>5, EligibleSeen
  <2>3. WalkFacts(s, "skip", e, {e}, <<>>, 0 + 0)
    <3>1. Rest("skip", e, {e}) = {e}  BY DEF Rest
    <3>2. {e} \ Unseen(s) = {}  BY <2>1
    <3>3. {f - 1 : f \in {f \in {e} : f - 1 \in Eligible(s)}} = {}  BY <2>2
    <3>4. \E i \in Index : /\ i % tot_shards = begin_idx(s)
                           /\ e = Element(i) /\ {e} = Upto(s, i)
      BY <1>2, <1>4 DEF e
    <3> QED  BY <3>1, <3>2, <3>3, <3>4, <1>7 DEF WalkFacts
  <2> QED  BY <2>3, <1>1, <1>3, <1>8, ToWalkInv
<1>9. CASE ~(e > targets)
  <2>1. e - 1 \in Eligible(s)
    <3>1. e \in 1 .. Order  BY <1>0, <1>5, OwnElements
    <3>2. e - 1 \in 0 .. allowed - 1  BY <3>1, <1>5, <1>6, <1>9, OrderType, SMT
    <3> QED  BY <3>2, <1>5, <1>9 DEF Eligible, InRange, max_index
  <2>2. WalkFacts(s, "cur", e, {e}, <<>>, 0 + 0)
    <3>1. Rest("cur", e, {e}) = {}  BY DEF Rest
    <3>2. {} \ Unseen(s) = {}  OBVIOUS
    <3>3. {f - 1 : f \in {f \in {} : f - 1 \in Eligible(s)}} = {}  OBVIOUS
    <3>4. \E i \in Index : /\ i % tot_shards = begin_idx(s)
                           /\ e = Element(i) /\ {e} = Upto(s, i)
      BY <1>2, <1>4 DEF e
    <3> QED  BY <3>1, <3>2, <3>3, <3>4, <2>1, <1>7 DEF WalkFacts
  <2> QED  BY <2>2, <1>1, <1>3, <1>9, ToWalkInv
<1> QED  BY <1>8, <1>9

\* From one element to the next: what the three ways have in common.
LEMMA WalkOn ==
  ASSUME ThreadsInv, NEW s \in Subshard, Regular(s), WalkInv(s), Seeking(s),
         pc[s] \notin {"new", "badroot"}
  PROVE  /\ NextElem(s) = params[s].last
            => /\ walked[s] = Own(s) /\ pc[s] = "next" /\ Params(s).last = NextElem(s)
         /\ NextElem(s) # params[s].last
            => /\ NextElem(s) \in Own(s) \ walked[s] /\ NextElem(s) # First(s)
               /\ \E i \in Index : /\ i % tot_shards = begin_idx(s)
                                   /\ NextElem(s) = Element(i)
                                   /\ walked[s] \cup {NextElem(s)} = Upto(s, i)
<1>0. /\ Counts /\ offset \in 0 .. Prime - 1 /\ params[s] = Params(s) /\ Able(s)
  BY DEF ThreadsInv, TypeOK, Counts, ThreadInv, Regular
<1>1. PICK i \in Index : /\ i % tot_shards = begin_idx(s)
                         /\ current[s] = Element(i) /\ walked[s] = Upto(s, i)
  BY DEF WalkInv, WalkFacts, Seeking
<1>2. CASE i + tot_shards < Order
  <2>1. /\ i + tot_shards \in Index /\ (i + tot_shards) % tot_shards = begin_idx(s)
        /\ NextElem(s) = Element(i + tot_shards)
        /\ NextElem(s) \notin walked[s]
        /\ Upto(s, i + tot_shards) = walked[s] \cup {NextElem(s)}
        /\ NextElem(s) # First(s) /\ NextElem(s) # params[s].last
        /\ NextElem(s) \in Own(s)
    BY <1>0, <1>1, <1>2, NextFacts
  <2> QED  BY <2>1
<1>3. CASE ~(i + tot_shards < Order)
  <2>1. NextElem(s) = params[s].last /\ walked[s] = Own(s)
    BY <1>0, <1>1, <1>3, NextFacts
  <2>2. pc[s] # "skip"
    <3> SUFFICES ASSUME pc[s] = "skip" PROVE FALSE  OBVIOUS
    <3>1. Range(probes[s]) = {}  BY DEF WalkInv, WalkFacts, Range
    <3>2. Range(probes[s]) = {e - 1 : e \in {f \in Own(s) : f - 1 \in Eligible(s)}}
      BY <2>1 DEF WalkInv, WalkFacts, Rest
    <3>3. PICK a \in Eligible(s) : TRUE  BY <1>0 DEF Able
    <3>4. PICK e \in Own(s) : a = e - 1  BY DEF Eligible
    <3> QED  BY <3>1, <3>2, <3>3, <3>4
  <2> QED  BY <2>1, <2>2, <1>0 DEF Seeking
<1> QED  BY <1>2, <1>3

\* One element more, that is counted or not.
LEMMA OneElement ==
  ASSUME ThreadsInv, NEW s \in Subshard, WalkInv(s), NEW e, e \notin walked[s],
         pc[s] # "done"
  PROVE  /\ IsFiniteSet(walked[s]) /\ Cardinality(walked[s] \ Unseen(s)) \in Nat
         /\ e \in Unseen(s) => (walked[s] \cup {e}) \ Unseen(s) = walked[s] \ Unseen(s)
         /\ e \notin Unseen(s) => Cardinality((walked[s] \cup {e}) \ Unseen(s))
                                   = Cardinality(walked[s] \ Unseen(s)) + 1
<1>1. IsFiniteSet(walked[s])
  <2>1. PICK i : walked[s] = Upto(s, i)  BY DEF WalkInv, WalkFacts
  <2>2. walked[s] \in SUBSET Own(s)  BY <2>1, OwnFinite
  <2> QED  BY <2>2, OwnFinite, FS_Subset
<1>2. IsFiniteSet(walked[s] \ Unseen(s))
  <2>1. walked[s] \ Unseen(s) \in SUBSET walked[s]  OBVIOUS
  <2> QED  BY <2>1, <1>1, FS_Subset
<1>3. Cardinality(walked[s] \ Unseen(s)) \in Nat  BY <1>2, FS_CardinalityType
<1>4. ASSUME e \notin Unseen(s)
      PROVE  Cardinality((walked[s] \cup {e}) \ Unseen(s))
             = Cardinality(walked[s] \ Unseen(s)) + 1
  <2>1. (walked[s] \cup {e}) \ Unseen(s) = (walked[s] \ Unseen(s)) \cup {e}  BY <1>4
  <2>2. e \notin walked[s] \ Unseen(s)  OBVIOUS
  <2> QED  BY <2>1, <2>2, <1>2, FS_AddElement
<1> QED  BY <1>1, <1>3, <1>4

\* An element that is too large, or not in range, is walked over.
LEMMA OverWalk ==
  ASSUME ThreadsInv, NEW s \in Subshard, Regular(s), WalkInv(s),
         TooLarge(s) \/ PassOver(s)
  PROVE  WalkInv(s)'
<1> DEFINE e == NextElem(s)
           n == sent[s] + blacklisted[s]
           m == IF TooLarge(s) THEN n ELSE n + 1
<1>0. /\ Counts /\ offset \in 0 .. Prime - 1 /\ TypeOK /\ Able(s)
  BY DEF ThreadsInv, TypeOK, Counts, Regular
<1>1. UNCHANGED cycle  BY <1>0, StepFrame DEF Step
<1>2. Seeking(s) /\ pc[s] \notin {"new", "badroot", "cur", "send", "capped", "done"}
  BY DEF TooLarge, PassOver, Seeking
<1>3. e # params[s].last
  <2>1. CASE TooLarge(s)
    <3>1. params[s].last < Word /\ params[s].last \in Nat /\ e \in Nat /\ e >= Word
      <4>1. params[s] = Params(s) /\ params[s].last \in 0 .. Prime - 1
        BY <1>2 DEF ThreadsInv, ThreadInv, TypeOK
      <4> QED  BY <4>1, <2>1, <1>0, NextElemType, OrderType, SMT DEF Able, TooLarge
    <3> QED  BY <3>1, OrderType, SMT
  <2>2. CASE PassOver(s)  BY <2>2 DEF PassOver
  <2> QED  BY <2>1, <2>2
<1>4. /\ e \in Own(s) \ walked[s] /\ e # First(s)
      /\ \E i \in Index : /\ i % tot_shards = begin_idx(s)
                          /\ e = Element(i) /\ walked[s] \cup {e} = Upto(s, i)
  BY <1>2, <1>3, WalkOn
<1>5. e \in Nat  BY <1>0, <1>4, OwnElements
<1>6. sent[s] \in Nat /\ blacklisted[s] \in Nat
  <2>1. targets \in Nat  BY <1>0, CountsFacts, SMT
  <2> QED  BY <2>1, <1>0, SMT DEF TypeOK
<1>7. /\ pc'[s] = pc[s] /\ current'[s] = e /\ walked'[s] = walked[s] \cup {e}
      /\ probes'[s] = probes[s] /\ sent'[s] + blacklisted'[s] = m
  <2>1. s \in DOMAIN walked /\ s \in DOMAIN current /\ s \in DOMAIN blacklisted
    BY <1>0 DEF TypeOK
  <2>2. CASE TooLarge(s)  BY <2>1, <2>2 DEF TooLarge
  <2>3. CASE PassOver(s) /\ ~TooLarge(s)
    <3>1. /\ pc'[s] = pc[s] /\ current'[s] = e /\ walked'[s] = walked[s] \cup {e}
          /\ probes'[s] = probes[s] /\ sent'[s] = sent[s]
          /\ blacklisted'[s] = blacklisted[s] + 1
      BY <2>1, <2>3 DEF PassOver
    <3> QED  BY <3>1, <2>3, <1>6, SMT
  <2> QED  BY <2>2, <2>3
<1>8. e - 1 \notin Eligible(s)
  <2> SUFFICES ASSUME e - 1 \in Eligible(s) PROVE FALSE  OBVIOUS
  <2>1. InRange(e) /\ e \notin Unseen(s)  BY <1>0, <1>4, EligibleSeen
  <2>2. CASE TooLarge(s)  BY <2>1, <2>2, <1>4 DEF TooLarge, Unseen
  <2>3. CASE PassOver(s)  BY <2>1, <2>3 DEF PassOver
  <2> QED  BY <2>2, <2>3
<1>9. e \in Unseen(s) <=> TooLarge(s)
  <2>1. CASE TooLarge(s)  BY <2>1, <1>4 DEF TooLarge, Unseen
  <2>2. CASE PassOver(s)
    <3>1. e < Word  BY <2>2 DEF PassOver
    <3>2. ~(e >= Word)  BY <3>1, <1>5, OrderType, SMT
    <3> QED  BY <3>2, <1>4 DEF Unseen, TooLarge
  <2> QED  BY <2>1, <2>2
<1>10. /\ Rest(pc[s], e, walked[s] \cup {e}) = walked[s] \cup {e}
       /\ Rest(pc[s], current[s], walked[s]) = walked[s]
  BY <1>2 DEF Rest
<1>11. m = Cardinality((walked[s] \cup {e}) \ Unseen(s))
  <2>1. n = Cardinality(walked[s] \ Unseen(s))  BY <1>10 DEF WalkInv, WalkFacts
  <2> HIDE DEF e, n
  <2>2. e \notin walked[s] /\ pc[s] # "done"  BY <1>2, <1>4
  <2>3. CASE e \in Unseen(s)  BY <2>1, <2>2, <2>3, <1>9, OneElement
  <2>4. CASE e \notin Unseen(s)  BY <2>1, <2>2, <2>4, <1>9, OneElement
  <2> QED  BY <2>3, <2>4
<1> HIDE DEF e, m
<1>12. WalkFacts(s, pc[s], e, walked[s] \cup {e}, probes[s], m)
  <2>1. Range(probes[s]) = {f - 1 : f \in {f \in walked[s] : f - 1 \in Eligible(s)}}
    BY <1>10 DEF WalkInv, WalkFacts
  <2>2. {f \in walked[s] \cup {e} : f - 1 \in Eligible(s)}
        = {f \in walked[s] : f - 1 \in Eligible(s)}
    BY <1>8
  <2>3. pc[s] # "badindex" /\ IsInjective(probes[s])
        /\ (pc[s] = "skip" => probes[s] = <<>>)
    BY DEF WalkInv, WalkFacts
  <2> QED  BY <2>1, <2>2, <2>3, <1>2, <1>4, <1>10, <1>11 DEF WalkFacts
<1> QED  BY <1>1, <1>7, <1>12, ToWalkInv

\* An element in range is the next to look up, or to send to.
LEMMA FoundWalk ==
  ASSUME ThreadsInv, NEW s \in Subshard, Regular(s), WalkInv(s), Found(s)
  PROVE  WalkInv(s)'
<1> DEFINE e == NextElem(s)
           n == sent[s] + blacklisted[s]
           p == IF pc[s] = "skip" THEN "cur" ELSE "send"
<1>0. /\ Counts /\ offset \in 0 .. Prime - 1 /\ TypeOK /\ Able(s)
  BY DEF ThreadsInv, TypeOK, Counts, Regular
<1>1. UNCHANGED cycle  BY <1>0, StepFrame DEF Step
<1>2. Seeking(s) /\ pc[s] \notin {"new", "badroot", "cur", "send", "capped", "done"}
  BY DEF Found, Seeking
<1>3. e # params[s].last /\ InRange(e)  BY DEF Found
<1>4. /\ e \in Own(s) \ walked[s] /\ e # First(s)
      /\ \E i \in Index : /\ i % tot_shards = begin_idx(s)
                          /\ e = Element(i) /\ walked[s] \cup {e} = Upto(s, i)
  BY <1>2, <1>3, WalkOn
<1>5. e - 1 \in Eligible(s)  BY <1>3, <1>4 DEF Eligible
<1>6. /\ pc'[s] = p /\ current'[s] = e /\ walked'[s] = walked[s] \cup {e}
      /\ probes'[s] = probes[s] /\ sent'[s] + blacklisted'[s] = n
  <2>1. s \in DOMAIN walked /\ s \in DOMAIN current /\ s \in DOMAIN pc
    BY <1>0 DEF TypeOK
  <2> QED  BY <2>1 DEF Found
<1>7. /\ Rest(p, e, walked[s] \cup {e}) = walked[s]
      /\ Rest(pc[s], current[s], walked[s]) = walked[s]
  BY <1>2, <1>4 DEF Rest
<1>8. Range(probes[s]) = {f - 1 : f \in {f \in walked[s] : f - 1 \in Eligible(s)}}
      /\ n = Cardinality(walked[s] \ Unseen(s)) /\ IsInjective(probes[s])
  BY <1>7 DEF WalkInv, WalkFacts
<1> HIDE DEF e, n
<1>9. WalkFacts(s, p, e, walked[s] \cup {e}, probes[s], n)
  BY <1>4, <1>5, <1>7, <1>8 DEF WalkFacts
<1> QED  BY <1>1, <1>6, <1>9, ToWalkInv

\* The walk ends with all the elements of the subshard.
LEMMA EndWalk ==
  ASSUME ThreadsInv, NEW s \in Subshard, Regular(s), WalkInv(s), ReachedLast(s)
  PROVE  WalkInv(s)' /\ pc[s] = "next"
<1> DEFINE n == sent[s] + blacklisted[s]
<1>0. TypeOK  BY DEF ThreadsInv
<1>1. UNCHANGED cycle  BY <1>0, StepFrame DEF Step
<1>2. Seeking(s) /\ pc[s] \notin {"new", "badroot", "cur", "send", "capped", "done"}
  BY DEF ReachedLast, Seeking
<1>3. walked[s] = Own(s) /\ pc[s] = "next"  BY <1>2, WalkOn DEF ReachedLast
<1>4. /\ pc'[s] = "done" /\ walked'[s] = walked[s] /\ current'[s] = NextElem(s)
      /\ probes'[s] = probes[s] /\ sent'[s] + blacklisted'[s] = n
  <2>1. s \in DOMAIN pc /\ s \in DOMAIN current  BY <1>0 DEF TypeOK
  <2> QED  BY <2>1, <1>3 DEF ReachedLast
<1>5. WalkFacts(s, "done", NextElem(s), walked[s], probes[s], n)
  BY <1>3 DEF WalkInv, WalkFacts, Rest
<1> QED  BY <1>1, <1>3, <1>4, <1>5, ToWalkInv

\* The lookup and the cap change nothing of the walk.
LEMMA StayWalk ==
  ASSUME ThreadsInv, NEW s \in Subshard, Regular(s), WalkInv(s), CurIp(s) \/ Capped(s)
  PROVE  WalkInv(s)'
<1> DEFINE n == sent[s] + blacklisted[s]
<1>0. /\ Counts /\ offset \in 0 .. Prime - 1 /\ TypeOK /\ Able(s)
  BY DEF ThreadsInv, TypeOK, Counts, Regular
<1>1. UNCHANGED cycle  BY <1>0, StepFrame DEF Step
<1>2. s \in DOMAIN pc  BY <1>0 DEF TypeOK
<1>3. current[s] \in Own(s) /\ current[s] - 1 \in Eligible(s)
  BY DEF WalkInv, WalkFacts, CurIp, Capped, Own, Index
<1>4. InRange(current[s])  BY <1>0, <1>3, EligibleSeen
<1>5. PICK p \in {"send", "capped"} :
        /\ pc'[s] = p /\ walked'[s] = walked[s] /\ current'[s] = current[s]
        /\ probes'[s] = probes[s] /\ sent'[s] + blacklisted'[s] = n
  BY <1>2, <1>4 DEF CurIp, Capped
<1>6. WalkFacts(s, p, current[s], walked[s], probes[s], n)
  BY <1>5 DEF WalkInv, WalkFacts, Rest, CurIp, Capped
<1> QED  BY <1>1, <1>5, <1>6, ToWalkInv

\* A probe settles the element in hand.
LEMMA ProbeWalk ==
  ASSUME ThreadsInv, NEW s \in Subshard, Regular(s), WalkInv(s), Probe(s)
  PROVE  WalkInv(s)'
<1> DEFINE c == current[s]
           pr == probes[s]
           w == walked[s]
           old == w \ {c}
           new == Append(pr, c - 1)
           n == sent[s] + blacklisted[s]
<1>0. /\ Counts /\ offset \in 0 .. Prime - 1 /\ TypeOK /\ Able(s)
  BY DEF ThreadsInv, TypeOK, Counts, Regular
<1>1. UNCHANGED cycle  BY <1>0, StepFrame DEF Step
<1>2. pc[s] = "send"  BY DEF Probe
<1>3. /\ \E i \in Index : /\ i % tot_shards = begin_idx(s)
                          /\ c = Element(i) /\ w = Upto(s, i)
      /\ Range(pr) = {e - 1 : e \in {f \in old : f - 1 \in Eligible(s)}}
      /\ IsInjective(pr) /\ n = Cardinality(old \ Unseen(s)) /\ c - 1 \in Eligible(s)
  BY <1>2 DEF WalkInv, WalkFacts, Rest
<1>4. w \subseteq Own(s)  BY <1>3, OwnFinite
<1>5. c \in w /\ c \in Nat /\ \A e \in w : e \in Nat
  <2>1. PICK i \in Index : /\ i % tot_shards = begin_idx(s)
                           /\ c = Element(i) /\ w = Upto(s, i)
    BY <1>3
  <2>2. i <= i  BY OrderType, SMT DEF Index
  <2>3. c \in w  BY <2>1, <2>2 DEF Upto
  <2>4. \A e \in w : e \in Nat  BY <1>0, <1>4, OwnElements
  <2> QED  BY <2>3, <2>4
<1>6. c \notin Unseen(s)  BY <1>0, <1>3, <1>4, <1>5, EligibleSeen
<1>7. sent[s] \in Nat /\ blacklisted[s] \in Nat /\ pr \in Seq(0 .. allowed - 1)
  <2>1. targets \in Nat  BY <1>0, CountsFacts, SMT
  <2> QED  BY <2>1, <1>0, SMT DEF TypeOK
<1>8. /\ pc'[s] = "next" /\ walked'[s] = w /\ current'[s] = c
      /\ probes'[s] = new /\ sent'[s] + blacklisted'[s] = n + 1
  <2>1. s \in DOMAIN pc /\ s \in DOMAIN probes /\ s \in DOMAIN sent
    BY <1>0 DEF TypeOK
  <2>2. sent'[s] = sent[s] + 1 /\ blacklisted'[s] = blacklisted[s]  BY <2>1 DEF Probe
  <2>3. /\ pc'[s] = "next" /\ walked'[s] = w /\ current'[s] = c /\ probes'[s] = new
    BY <2>1 DEF Probe
  <2> QED  BY <2>2, <2>3, <1>7, SMT
<1>9. n + 1 = Cardinality(w \ Unseen(s))
  <2>1. w = old \cup {c}  BY <1>5
  <2>2. IsFiniteSet(old \ Unseen(s))
    <3>1. old \ Unseen(s) \in SUBSET Own(s)  BY <1>4
    <3> QED  BY <3>1, OwnFinite, FS_Subset
  <2>3. w \ Unseen(s) = (old \ Unseen(s)) \cup {c}  BY <2>1, <1>6
  <2>4. c \notin old \ Unseen(s)  OBVIOUS
  <2> HIDE DEF n, old
  <2> QED  BY <2>2, <2>3, <2>4, <1>3, FS_AddElement
<1> HIDE DEF n, c, w, pr
<1>10. /\ Len(pr) \in Nat /\ DOMAIN pr = 1 .. Len(pr)
       /\ DOMAIN new = 1 .. Len(pr) + 1 /\ new[Len(pr) + 1] = c - 1
       /\ \A i \in 1 .. Len(pr) : new[i] = pr[i]
  BY <1>7
<1>11. c - 1 \notin Range(pr)
  <2> SUFFICES ASSUME c - 1 \in Range(pr) PROVE FALSE  OBVIOUS
  <2>1. PICK e \in old : c - 1 = e - 1  BY <1>3
  <2>2. e \in w /\ e # c  OBVIOUS
  <2> QED  BY <2>1, <2>2, <1>5, SMT
<1>12. Range(new) = Range(pr) \cup {c - 1}
  <2>1. ASSUME NEW i \in DOMAIN new PROVE new[i] \in Range(pr) \cup {c - 1}
    <3>1. i \in 1 .. Len(pr) \/ i = Len(pr) + 1  BY <1>10
    <3>2. CASE i \in 1 .. Len(pr)
      <4>1. new[i] = pr[i] /\ i \in DOMAIN pr  BY <3>2, <1>10
      <4> QED  BY <4>1 DEF Range
    <3>3. CASE i = Len(pr) + 1  BY <3>3, <1>10
    <3> QED  BY <3>1, <3>2, <3>3
  <2>2. ASSUME NEW i \in DOMAIN pr PROVE pr[i] \in Range(new)
    <3>1. i \in 1 .. Len(pr) /\ i \in DOMAIN new  BY <1>10
    <3>2. new[i] = pr[i]  BY <3>1, <1>10
    <3> HIDE DEF new
    <3> QED  BY <3>1, <3>2 DEF Range
  <2>3. c - 1 \in Range(new)
    <3>1. Len(pr) + 1 \in DOMAIN new  BY <1>10
    <3>2. new[Len(pr) + 1] = c - 1  BY <1>10
    <3> HIDE DEF new
    <3> QED  BY <3>1, <3>2 DEF Range
  <2> HIDE DEF new
  <2> QED  BY <2>1, <2>2, <2>3 DEF Range
<1>13. IsInjective(new)
  <2> SUFFICES ASSUME NEW i \in DOMAIN new, NEW j \in DOMAIN new, new[i] = new[j]
               PROVE  i = j
    BY DEF IsInjective
  <2>1. /\ i \in 1 .. Len(pr) \/ i = Len(pr) + 1
        /\ j \in 1 .. Len(pr) \/ j = Len(pr) + 1
    BY <1>10
  <2>2. \A k \in 1 .. Len(pr) : new[k] = pr[k] /\ new[k] \in Range(pr) /\ k \in DOMAIN pr
    BY <1>10 DEF Range
  <2>3. new[Len(pr) + 1] = c - 1  BY <1>10
  <2> HIDE DEF new
  <2>4. CASE i \in 1 .. Len(pr) /\ j \in 1 .. Len(pr)
    BY <2>2, <2>4, <1>3 DEF IsInjective
  <2> QED  BY <2>1, <2>2, <2>3, <2>4, <1>11
<1>14. Range(new) = {e - 1 : e \in {f \in w : f - 1 \in Eligible(s)}}
  <2>1. {f \in w : f - 1 \in Eligible(s)} = {f \in old : f - 1 \in Eligible(s)} \cup {c}
    BY <1>3, <1>5
  <2> HIDE DEF new, old
  <2> QED  BY <2>1, <1>3, <1>12
<1> HIDE DEF new
<1>15. Rest("next", c, w) = w  BY DEF Rest
<1>16. WalkFacts(s, "next", c, w, new, n + 1)
  BY <1>3, <1>9, <1>13, <1>14, <1>15 DEF WalkFacts
<1> QED  BY <1>1, <1>8, <1>16, ToWalkInv

LEMMA InitWalks ==
  ASSUME Init
  PROVE  ShardInv
BY InitThreads DEF ShardInv

LEMMA NextWalks ==
  ASSUME ShardInv, [Next]_vars
  PROVE  ShardInv'
<1>1. ThreadsInv /\ TypeOK  BY DEF ShardInv, ThreadsInv
<1>2. ThreadsInv'  BY <1>1, NextThreads
<1>3. ASSUME NEW s \in Subshard, Step(s)
      PROVE  \A u \in Subshard' : Regular(u)' => WalkInv(u)'
  <2>1. UNCHANGED cycle /\ Subshard' = Subshard  BY <1>1, <1>3, StepFrame, SameCycle
  <2>2. ASSUME NEW u \in Subshard, u # s, Regular(u)' PROVE WalkInv(u)'
    <3>1. u \in Subshard \ {s}  BY <2>2
    <3>2. Regular(u) /\ (WalkInv(u) => WalkInv(u)')
      BY <3>1, <2>1, <2>2, <1>1, <1>3, StepFrame, OtherThread
    <3> QED  BY <3>2 DEF ShardInv
  <2>3. ASSUME Regular(s)' PROVE WalkInv(s)'
    <3>1. Able(s)
      <4>1. generator' = generator /\ offset' = offset  BY <2>1 DEF cycle
      <4> QED  BY <4>1, <2>1, <2>3, SameCycle, SameSubshards DEF Regular, Able
    <3>2. CASE pc[s] = "new"
      <4>1. CASE MakeCycleFail(s)
        <5>1. generator = -1 /\ generator \in 1 .. Order
          BY <4>1, <3>1 DEF MakeCycleFail, Able, Generators
        <5> QED  BY <5>1, OrderType, SMT
      <4>2. CASE shard_init(s)  BY <4>2, <3>1, <1>1, BeginWalk
      <4> QED  BY <4>1, <4>2, <3>2, <1>3
               DEF Step, CurIp, Probe, Capped, TooLarge, ReachedLast, Found, PassOver, Seeking
    <3>3. CASE pc[s] # "new"
      <4>1. Regular(s) /\ WalkInv(s)  BY <3>1, <3>3 DEF Regular, ShardInv
      <4>2. CASE CurIp(s) \/ Capped(s)  BY <4>1, <4>2, <1>1, StayWalk
      <4>3. CASE Probe(s)  BY <4>1, <4>3, <1>1, ProbeWalk
      <4>4. CASE TooLarge(s) \/ PassOver(s)  BY <4>1, <4>4, <1>1, OverWalk
      <4>5. CASE ReachedLast(s)  BY <4>1, <4>5, <1>1, EndWalk
      <4>6. CASE Found(s)  BY <4>1, <4>6, <1>1, FoundWalk
      <4> QED  BY <4>2, <4>3, <4>4, <4>5, <4>6, <3>3, <1>3
               DEF Step, MakeCycleFail, shard_init
    <3> QED  BY <3>2, <3>3
  <2> QED  BY <2>1, <2>2, <2>3
<1>4. ASSUME UNCHANGED vars PROVE \A u \in Subshard' : Regular(u)' => WalkInv(u)'
  <2>1. UNCHANGED cycle  BY <1>4 DEF vars, cycle
  <2>2. Subshard' = Subshard  BY <2>1, SameCycle
  <2>3. ASSUME NEW u \in Subshard, Regular(u)' PROVE WalkInv(u)'
    <3>1. Regular(u) /\ (WalkInv(u) => WalkInv(u)')
      BY <2>1, <2>3, <1>4, OtherThread DEF vars
    <3> QED  BY <3>1 DEF ShardInv
  <2> QED  BY <2>2, <2>3
<1>5. \A u \in Subshard' : Regular(u)' => WalkInv(u)'
  BY <1>3, <1>4 DEF Next, AllOver
<1> QED  BY <1>2, <1>5 DEF ShardInv

-----------------------------------------------------------------------------
(* What follows *)

LEMMA OnceFollows ==
  ASSUME ShardInv
  PROVE  OwnOnce
<1> SUFFICES ASSUME NEW s \in Subshard, Regular(s)
             PROVE  Range(probes[s]) \subseteq Eligible(s) /\ IsInjective(probes[s])
  BY DEF OwnOnce
<1>1. WalkInv(s)  BY DEF ShardInv
<1> QED  BY <1>1 DEF WalkInv, WalkFacts

LEMMA CompleteFollows ==
  ASSUME ShardInv
  PROVE  WalkComplete
<1> SUFFICES ASSUME NEW s \in Subshard, Regular(s), pc[s] = "done"
             PROVE  /\ Range(probes[s]) = Eligible(s)
                    /\ sent[s] + blacklisted[s] = Cardinality(Own(s) \ Unseen(s))
  BY DEF WalkComplete
<1>1. WalkInv(s)  BY DEF ShardInv
<1>2. Rest(pc[s], current[s], walked[s]) = Own(s)  BY <1>1 DEF WalkInv, WalkFacts, Rest
<1>3. Range(probes[s]) = {e - 1 : e \in {f \in Own(s) : f - 1 \in Eligible(s)}}
      /\ sent[s] + blacklisted[s] = Cardinality(Own(s) \ Unseen(s))
  BY <1>1, <1>2 DEF WalkInv, WalkFacts
<1>4. {e - 1 : e \in {f \in Own(s) : f - 1 \in Eligible(s)}} = Eligible(s)
  BY DEF Eligible
<1> QED  BY <1>3, <1>4

LEMMA PassFollows ==
  ASSUME ShardInv
  PROVE  OnePass
<1> SUFFICES ASSUME NEW s \in Subshard, Regular(s)
             PROVE  sent[s] + blacklisted[s] <= Cardinality(Own(s))
  BY DEF OnePass
<1>1. WalkInv(s)  BY DEF ShardInv
<1> DEFINE S == Rest(pc[s], current[s], walked[s]) \ Unseen(s)
<1>2. walked[s] \subseteq Own(s)  BY <1>1, OwnFinite DEF WalkInv, WalkFacts
<1>3. S \in SUBSET Own(s)  BY <1>2 DEF Rest
<1>4. sent[s] + blacklisted[s] = Cardinality(S)  BY <1>1 DEF WalkInv, WalkFacts
<1> HIDE DEF S
<1> QED  BY <1>3, <1>4, OwnFinite, FS_Subset

LEMMA LookupFollows ==
  ASSUME ShardInv
  PROVE  LookupSound
<1>1. TypeOK  BY DEF ShardInv, ThreadsInv
<1>2. ASSUME NEW s \in Subshard
      PROVE  /\ pc[s] = "badindex" => ~Regular(s)
             /\ pc[s] = "send" => InRange(current[s])
  BY DEF ShardInv, ThreadsInv, ThreadInv, WalkInv, WalkFacts
<1> QED  BY <1>1, <1>2 DEF LookupSound

\* A sum of numbers that have a bound.
LEMMA SumBounded ==
  ASSUME NEW S, IsFiniteSet(S), NEW f, NEW m \in Nat, \A x \in S : f[x] \in 0 .. m
  PROVE  SumFunctionOnSet(f, S) \in Nat /\ SumFunctionOnSet(f, S) <= m * Cardinality(S)
<1> DEFINE Sum(T) == SumFunctionOnSet(f, T)
           G == {T \in SUBSET S : Sum(T) \in Nat /\ Sum(T) <= m * Cardinality(T)}
<1>1. {} \in G
  <2>1. Sum({}) = 0  BY SumOfNone
  <2>2. Cardinality({}) = 0 /\ m * 0 = 0  BY FS_EmptySet
  <2> QED  BY <2>1, <2>2
<1>2. ASSUME NEW T \in SUBSET S, NEW x \in S, T \in G, x \notin T
      PROVE  T \cup {x} \in G
  <2>1. IsFiniteSet(T)  BY FS_Subset
  <2>2. Cardinality(T) \in Nat /\ Cardinality(T \cup {x}) = Cardinality(T) + 1
    BY <2>1, <1>2, FS_CardinalityType, FS_AddElement
  <2>3. Sum(T \cup {x}) = Sum(T) + f[x]
    <3>1. \A y \in T : f[y] \in Nat  OBVIOUS
    <3>2. f[x] \in Nat  OBVIOUS
    <3> QED  BY <3>1, <3>2, <2>1, <1>2, SumOneMore
  <2>4. Sum(T) \in Nat /\ Sum(T) <= m * Cardinality(T)  BY <1>2
  <2>5. f[x] \in Nat /\ f[x] <= m  OBVIOUS
  <2> HIDE DEF Sum
  <2>6. m * (Cardinality(T) + 1) = m * Cardinality(T) + m /\ m * Cardinality(T) \in Nat
    BY <2>2, SMT
  <2>7. Sum(T \cup {x}) \in Nat /\ Sum(T \cup {x}) <= m * Cardinality(T \cup {x})
    BY <2>2, <2>3, <2>4, <2>5, <2>6, SMT
  <2> QED  BY <2>7
<1> HIDE DEF G
<1>3. S \in G  BY <1>1, <1>2, FiniteInduction
<1> QED  BY <1>3 DEF G

LEMMA CapFollows ==
  ASSUME ShardInv
  PROVE  CapNearlyKept
<1> SUFFICES ASSUME NEW i \in 0 .. Shards - 1
             PROVE  SumFunctionOnSet(sent, {i} \X (0 .. senders - 1)) < targets + senders
  BY DEF CapNearlyKept
<1> DEFINE S == {i} \X (0 .. senders - 1)
           q == targets \div senders
           r == targets % senders
           m == q + (IF r > i THEN 1 ELSE 0)
<1>0. Counts /\ TypeOK /\ \A s \in Subshard : ThreadInv(s)
  BY DEF ShardInv, ThreadsInv, TypeOK, Counts
<1>1. targets \in Nat /\ senders \in Nat \ {0} /\ i \in Nat
  BY <1>0, CountsFacts, SMT
<1>2. targets = senders * q + r /\ q \in Nat /\ r \in 0 .. senders - 1  BY <1>1, ModDef
<1> HIDE DEF q, r
<1>3. m \in Nat  BY <1>2, SMT
<1>4. \A s \in S : sent[s] \in 0 .. m
  <2> SUFFICES ASSUME NEW s \in S PROVE sent[s] \in 0 .. m  OBVIOUS
  <2>1. s \in Subshard /\ s[1] = i  BY DEF Subshard
  <2>2. max_targets(s) = m  BY <2>1 DEF max_targets, q, r
  <2>3. sent[s] \in 0 .. targets /\ sent[s] <= max_targets(s)
    BY <2>1, <1>0 DEF TypeOK, ThreadInv
  <2> HIDE DEF m
  <2> QED  BY <2>2, <2>3, <1>1, <1>3, SMT
<1>5. IsFiniteSet(S) /\ Cardinality(S) = senders
  <2>1. IsFiniteSet({i}) /\ Cardinality({i}) = 1  BY FS_Singleton
  <2>2. IsFiniteSet(0 .. senders - 1) /\ Cardinality(0 .. senders - 1) = senders
    BY <1>1, FS_Interval, SMT
  <2>3. 1 * senders = senders  BY <1>1
  <2> DEFINE T == 0 .. senders - 1
  <2>4. IsFiniteSet(T) /\ Cardinality(T) = senders  BY <2>2
  <2>5. S = {i} \X T  OBVIOUS
  <2> HIDE DEF T, S
  <2>6. IsFiniteSet({i} \X T) /\ Cardinality({i} \X T) = 1 * senders
    BY <2>1, <2>4, FS_Product
  <2> QED  BY <2>3, <2>5, <2>6
<1> HIDE DEF S, m
<1>6. SumFunctionOnSet(sent, S) \in Nat /\ SumFunctionOnSet(sent, S) <= m * senders
  BY <1>3, <1>4, <1>5, SumBounded
<1>7. m * senders < targets + senders
  <2>1. senders * q \in Nat /\ q * senders = senders * q
        /\ (q + 1) * senders = senders * q + senders
    BY <1>1, <1>2, SMT
  <2>2. CASE r > i  BY <2>1, <2>2, <1>1, <1>2, SMT DEF m
  <2>3. CASE ~(r > i)
    <3>1. m = q  BY <2>3, <1>2 DEF m
    <3> QED  BY <3>1, <2>1, <1>1, <1>2, SMT
  <2> QED  BY <2>2, <2>3
<1>8. m * senders \in Nat /\ targets + senders \in Nat  BY <1>1, <1>3, SMT
<1>9. SumFunctionOnSet(sent, S) < targets + senders
  <2> DEFINE x == m * senders
             y == targets + senders
             z == SumFunctionOnSet(sent, S)
  <2>1. z <= x /\ x < y /\ x \in Nat /\ y \in Nat /\ z \in Nat  BY <1>6, <1>7, <1>8
  <2> HIDE DEF x, y, z
  <2>2. z < y  BY <2>1
  <2> QED  BY <2>2 DEF y, z
<1> QED  BY <1>9 DEF S

-----------------------------------------------------------------------------
(* The walk by indices.  Of each thread: the index it is at, those it has   *)
(* visited, and whether it has stopped.                                     *)

AtOf(s)      == IF Regular(s) THEN Log(current[s]) ELSE begin_idx(s)
VisitedOf(s) == IF Regular(s) THEN {Log(e) : e \in walked[s]} ELSE {begin_idx(s)}
StoppedOf(s) == Regular(s) /\ pc[s] = "done"

LEMMA LogElement ==
  ASSUME generator \in Generators, offset \in 1 .. Order, NEW i \in Index
  PROVE  Log(Element(i)) = i
<1>1. \A k \in 0 .. Order - 1 : Element(k) = Element(i) => k = i
  BY ElementsDiffer DEF Index
<1>2. i \in 0 .. Order - 1  BY DEF Index
<1> QED  BY <1>1, <1>2 DEF Log

LEMMA MapsOf ==
  ASSUME Counts, NEW b \in 0 .. tot_shards - 1
  PROVE  /\ walk_at[b] = AtOf(SubOf(b)) /\ walk_visited[b] = VisitedOf(SubOf(b))
         /\ walk_stopped[b] = StoppedOf(SubOf(b))
BY SubOfFacts DEF walk_at, walk_visited, walk_stopped, AtOf, VisitedOf, StoppedOf

\* The indices of what a regular thread has walked.
LEMMA VisitedFacts ==
  ASSUME ShardInv, NEW s \in Subshard, Regular(s)
  PROVE  VisitedOf(s) = IF pc[s] = "done"
                        THEN {j \in Index : j % tot_shards = begin_idx(s)}
                        ELSE {j \in Index : j % tot_shards = begin_idx(s) /\ j <= AtOf(s)}
<1>0. Counts /\ offset \in 0 .. Prime - 1 /\ Able(s) /\ WalkInv(s)
  BY DEF ShardInv, ThreadsInv, TypeOK, Counts, Regular
<1>1. \A j \in Index : Log(Element(j)) = j  BY <1>0, ParamsFacts, LogElement
<1>2. CASE pc[s] = "done"
  <2>1. walked[s] = {Element(j) : j \in {k \in Index : k % tot_shards = begin_idx(s)}}
    BY <1>0, <1>2 DEF WalkInv, WalkFacts, Own, Index
  <2> QED  BY <2>1, <1>1, <1>2 DEF VisitedOf
<1>3. CASE pc[s] # "done"
  <2>1. PICK i \in Index : current[s] = Element(i) /\ walked[s] = Upto(s, i)
    BY <1>0, <1>3 DEF WalkInv, WalkFacts
  <2>2. AtOf(s) = i  BY <2>1, <1>1 DEF AtOf
  <2>3. walked[s] = {Element(j) : j \in {k \in Index : k % tot_shards = begin_idx(s) /\ k <= i}}
    BY <2>1 DEF Upto
  <2>4. {Log(e) : e \in walked[s]} = {k \in Index : k % tot_shards = begin_idx(s) /\ k <= i}
    BY <2>3, <1>1
  <2> QED  BY <2>2, <2>4, <1>3 DEF VisitedOf
<1> QED  BY <1>2, <1>3

\* A step of a thread: it stays, or goes on by tot_shards, or stops.
AfterOf(s) == (AtOf(s) + tot_shards) % Order
EndOf(s)   == end_idx(Order, tot_shards, begin_idx(s))
Stays(s)   == UNCHANGED <<AtOf(s), VisitedOf(s), StoppedOf(s)>>
GoesOn(s)  == /\ ~StoppedOf(s) /\ AfterOf(s) # EndOf(s) /\ AtOf(s)' = AfterOf(s)
              /\ VisitedOf(s)' = VisitedOf(s) \cup {AfterOf(s)}
              /\ UNCHANGED StoppedOf(s)
Stops(s)   == /\ ~StoppedOf(s) /\ AfterOf(s) = EndOf(s) /\ AtOf(s)' = AfterOf(s)
              /\ StoppedOf(s)' = TRUE /\ UNCHANGED VisitedOf(s)

LEMMA ThreadWalks ==
  ASSUME ShardInv, NEW s \in Subshard, Step(s)
  PROVE  Stays(s) \/ GoesOn(s) \/ Stops(s)
<1>0. /\ Counts /\ offset \in 0 .. Prime - 1 /\ TypeOK /\ ThreadsInv /\ ThreadInv(s)
  BY DEF ShardInv, ThreadsInv, TypeOK, Counts
<1>1. UNCHANGED cycle /\ generator' = generator /\ offset' = offset
  BY <1>0, StepFrame DEF cycle
<1>2. (Able(s)' <=> Able(s)) /\ begin_idx(s)' = begin_idx(s)
      /\ \A e : Log(e)' = Log(e)
  BY <1>1, SameCycle, SameSubshards DEF Able, begin_idx, Log
<1>3. CASE ~Able(s)
  BY <1>2, <1>3 DEF Stays, AtOf, VisitedOf, StoppedOf, Regular
<1>4. CASE Able(s) /\ pc[s] = "new"
  <2>1. shard_init(s)
    <3>1. ~MakeCycleFail(s)
      <4>1. generator \in 1 .. Order  BY <1>4 DEF Able, Generators
      <4>2. generator # -1  BY <4>1, OrderType, SMT
      <4> QED  BY <4>2 DEF MakeCycleFail
    <3> QED  BY <3>1, <1>4
             DEF Step, CurIp, Probe, Capped, TooLarge, ReachedLast, Found, PassOver, Seeking
  <2> DEFINE e == Params(s).first
  <2>2. current'[s] = e /\ walked'[s] = {e} /\ pc'[s] \in {"skip", "cur"}
    <3>1. /\ s \in DOMAIN params /\ s \in DOMAIN pc /\ s \in DOMAIN current
          /\ s \in DOMAIN walked
      BY <1>0 DEF TypeOK
    <3> QED  BY <3>1, <2>1 DEF shard_init
  <2>3. Log(e) = begin_idx(s)  BY <1>0, <1>4, ParamsFacts, LogElement
  <2> HIDE DEF e
  <2>4. Regular(s)' /\ ~Regular(s)  BY <2>2, <1>2, <1>4 DEF Regular
  <2>5. AtOf(s)' = begin_idx(s)  BY <2>2, <2>3, <2>4, <1>2 DEF AtOf
  <2>6. VisitedOf(s)' = {begin_idx(s)}  BY <2>2, <2>3, <2>4, <1>2 DEF VisitedOf
  <2>7. StoppedOf(s)' = FALSE  BY <2>2 DEF StoppedOf
  <2>8. AtOf(s) = begin_idx(s) /\ VisitedOf(s) = {begin_idx(s)} /\ StoppedOf(s) = FALSE
    BY <2>4 DEF AtOf, VisitedOf, StoppedOf
  <2> QED  BY <2>5, <2>6, <2>7, <2>8 DEF Stays
<1>5. CASE Able(s) /\ pc[s] # "new"
  <2>0. Regular(s) /\ WalkInv(s)  BY <1>5 DEF Regular, ShardInv
  <2>1. CASE CurIp(s) \/ Probe(s) \/ Capped(s)
    <3>1. s \in DOMAIN pc  BY <1>0 DEF TypeOK
    <3>2. /\ current' = current /\ walked' = walked /\ pc[s] # "done"
          /\ pc'[s] \notin {"new", "done"}
      BY <2>1, <3>1 DEF CurIp, Probe, Capped
    <3>3. Regular(s)'  BY <3>2, <1>2, <1>5 DEF Regular
    <3> QED  BY <3>2, <3>3, <2>0, <1>2 DEF Stays, AtOf, VisitedOf, StoppedOf
  <2>2. CASE Seeking(s)
    <3>1. params[s] = Params(s) /\ pc[s] # "done"  BY <2>2, <1>0 DEF ThreadInv, Seeking
    <3>2. PICK i \in Index : /\ i % tot_shards = begin_idx(s)
                             /\ current[s] = Element(i) /\ walked[s] = Upto(s, i)
      BY <2>0, <3>1 DEF WalkInv, WalkFacts
    <3>3. /\ generator \in Generators /\ offset \in 1 .. Order
          /\ tot_shards \in 1 .. Order /\ EndOf(s) \in 0 .. tot_shards - 1
      BY <1>0, <1>5, ParamsFacts DEF EndOf
    <3>4. AtOf(s) = i /\ i \in Nat /\ i < Order /\ tot_shards \in Nat \ {0}
      BY <2>0, <3>2, <3>3, LogElement, OrderType, SMT DEF AtOf, Index
    <3>5. ~StoppedOf(s)  BY <3>1 DEF StoppedOf
    <3>6. CASE i + tot_shards < Order
      <4>1. /\ i + tot_shards \in Index /\ NextElem(s) = Element(i + tot_shards)
            /\ NextElem(s) # params[s].last
        BY <1>0, <1>5, <3>1, <3>2, <3>6, NextFacts
      <4>2. Log(NextElem(s)) = i + tot_shards  BY <4>1, <3>3, LogElement
      <4>3. AfterOf(s) = i + tot_shards  BY <3>4, <3>6, OrderType, ModSmall DEF AfterOf
      <4>4. AfterOf(s) # EndOf(s)  BY <4>3, <3>3, <3>4, OrderType, SMT
      <4>5. TooLarge(s) \/ Found(s) \/ PassOver(s)
        BY <4>1, <2>2 DEF Step, MakeCycleFail, shard_init, CurIp, Probe, Capped,
                          ReachedLast, Seeking
      <4>6. /\ current'[s] = NextElem(s) /\ walked'[s] = walked[s] \cup {NextElem(s)}
            /\ pc'[s] \notin {"new", "done"}
        <5>1. s \in DOMAIN pc /\ s \in DOMAIN current /\ s \in DOMAIN walked
          BY <1>0 DEF TypeOK
        <5> QED  BY <5>1, <4>5 DEF TooLarge, Found, PassOver, Seeking
      <4>7. Regular(s)'  BY <4>6, <1>2, <1>5 DEF Regular
      <4>8. AtOf(s)' = AfterOf(s)  BY <4>2, <4>3, <4>6, <4>7, <1>2 DEF AtOf
      <4>9. VisitedOf(s)' = VisitedOf(s) \cup {AfterOf(s)}
        <5>1. VisitedOf(s)' = {Log(e) : e \in walked'[s]}  BY <4>7, <1>2 DEF VisitedOf
        <5>2. VisitedOf(s) = {Log(e) : e \in walked[s]}  BY <2>0 DEF VisitedOf
        <5> QED  BY <5>1, <5>2, <4>2, <4>3, <4>6
      <4>10. StoppedOf(s)' = StoppedOf(s)  BY <4>6, <3>1 DEF StoppedOf
      <4> QED  BY <4>4, <4>8, <4>9, <4>10, <3>5 DEF GoesOn
    <3>7. CASE ~(i + tot_shards < Order)
      <4>1. /\ NextElem(s) = params[s].last /\ NextElem(s) = Element(EndOf(s))
            /\ AfterOf(s) = EndOf(s)
        BY <1>0, <1>5, <3>1, <3>2, <3>4, <3>7, NextFacts DEF EndOf, AfterOf
      <4>2. NextElem(s) < Word  BY <4>1, <3>1, <1>5 DEF Able
      <4>3. ~TooLarge(s)
        <5>1. NextElem(s) \in Nat  BY <1>0, NextElemType, OrderType, SMT
        <5> QED  BY <4>2, <5>1, OrderType, SMT DEF TooLarge
      <4>4. ReachedLast(s)
        BY <4>1, <4>3, <2>2 DEF Step, MakeCycleFail, shard_init, CurIp, Probe, Capped,
                                Found, PassOver, Seeking
      <4>5. pc[s] = "next"  BY <4>4, <2>0, <1>0, EndWalk
      <4>6. current'[s] = NextElem(s) /\ walked'[s] = walked[s] /\ pc'[s] = "done"
        <5>1. s \in DOMAIN pc /\ s \in DOMAIN current  BY <1>0 DEF TypeOK
        <5> QED  BY <5>1, <4>4, <4>5 DEF ReachedLast
      <4>7. Regular(s)'  BY <4>6, <1>2, <1>5 DEF Regular
      <4>8. Log(NextElem(s)) = EndOf(s)
        <5>1. EndOf(s) \in Index  BY <3>3, OrderType, SMT DEF Index
        <5> QED  BY <5>1, <4>1, <3>3, LogElement
      <4>9. AtOf(s)' = AfterOf(s)  BY <4>1, <4>6, <4>7, <4>8, <1>2 DEF AtOf
      <4>10. VisitedOf(s)' = VisitedOf(s)  BY <4>6, <4>7, <2>0, <1>2 DEF VisitedOf
      <4>11. StoppedOf(s)' = TRUE  BY <4>6, <4>7 DEF StoppedOf
      <4> QED  BY <4>1, <4>9, <4>10, <4>11, <3>5 DEF Stops
    <3> QED  BY <3>6, <3>7
  <2> QED  BY <2>1, <2>2, <1>5
           DEF Step, MakeCycleFail, shard_init, TooLarge, ReachedLast, Found, PassOver
<1> QED  BY <1>3, <1>4, <1>5

\* A group with an element for every subshard, so that tot_shards, which is set
\* once, is a number of walks.
EnoughElements == Shards * SenderThreads <= Order

LEMMA InitMaps ==
  ASSUME EnoughElements, Init
  PROVE  Walk!Init
<1>1. Counts /\ \A s \in Subshard : ~Regular(s)  BY InitThreads DEF Init, Counts
<1>2. tot_shards \in 1 .. Order
  <2>1. tot_shards \in Nat \ {0} /\ tot_shards <= Shards * SenderThreads
    BY <1>1, CountsFacts
  <2>2. Shards * SenderThreads \in Nat  BY ShardAssumption, SMT
  <2> QED  BY <2>1, <2>2, OrderType, SMT DEF EnoughElements
<1>3. \A b \in 0 .. tot_shards - 1 : ~Regular(SubOf(b))  BY <1>1, SubOfFacts
<1>4. /\ walk_at = [b \in 0 .. tot_shards - 1 |-> b]
      /\ walk_visited = [b \in 0 .. tot_shards - 1 |-> {b}]
      /\ walk_stopped = [b \in 0 .. tot_shards - 1 |-> FALSE]
  BY <1>3 DEF walk_at, walk_visited, walk_stopped
<1> QED  BY <1>2, <1>4 DEF Walk!Init, Walk!Walks

LEMMA NextMaps ==
  ASSUME ShardInv, ShardInv', [Next]_vars
  PROVE  [Walk!Next]_(Walk!wvars)
<1>0. Counts /\ Counts' /\ TypeOK  BY DEF ShardInv, ThreadsInv, TypeOK, Counts
<1>1. ASSUME NEW s \in Subshard, Step(s) PROVE [Walk!Next]_(Walk!wvars)
  <2> DEFINE b == begin_idx(s)
             B == 0 .. tot_shards - 1
  <2>1. UNCHANGED cycle /\ tot_shards' = tot_shards  BY <1>0, <1>1, StepFrame, SameCycle
  <2>2. b \in B /\ SubOf(b) = s  BY <1>0, BeginFacts
  <2>3. \A c : SubOf(c)' = SubOf(c)  BY DEF SubOf
  <2>4. begin_idx(s)' = b  BY DEF begin_idx
  <2>5. ASSUME NEW c \in B, c # b
        PROVE  /\ walk_at'[c] = walk_at[c] /\ walk_visited'[c] = walk_visited[c]
               /\ walk_stopped'[c] = walk_stopped[c]
    <3> DEFINE u == SubOf(c)
    <3>1. u \in Subshard \ {s}  BY <1>0, <2>2, <2>5, SubOfFacts
    <3>2. /\ pc'[u] = pc[u] /\ current'[u] = current[u] /\ walked'[u] = walked[u]
          /\ (Regular(u)' <=> Regular(u))
      BY <3>1, <2>1, <1>0, <1>1, StepFrame, OtherThread
    <3>3. \A e : Log(e)' = Log(e)  BY <2>1, SameCycle DEF Log
    <3> QED  BY <3>2, <3>3, <2>1, <2>3 DEF walk_at, walk_visited, walk_stopped
  <2>6. /\ walk_at[b] = AtOf(s) /\ walk_visited[b] = VisitedOf(s)
        /\ walk_stopped[b] = StoppedOf(s)
    BY <1>0, <2>2, MapsOf
  <2>7. /\ walk_at'[b] = AtOf(s)' /\ walk_visited'[b] = VisitedOf(s)'
        /\ walk_stopped'[b] = StoppedOf(s)'
    BY <2>1, <2>2, <2>3, <2>4
       DEF walk_at, walk_visited, walk_stopped, AtOf, VisitedOf, StoppedOf
  <2>8. /\ walk_at = [c \in B |-> walk_at[c]] /\ walk_at' = [c \in B |-> walk_at'[c]]
        /\ walk_visited = [c \in B |-> walk_visited[c]]
        /\ walk_visited' = [c \in B |-> walk_visited'[c]]
        /\ walk_stopped = [c \in B |-> walk_stopped[c]]
        /\ walk_stopped' = [c \in B |-> walk_stopped'[c]]
    BY <2>1 DEF walk_at, walk_visited, walk_stopped
  <2> HIDE DEF b, B
  <2>9. /\ walk_at' = [walk_at EXCEPT ![b] = AtOf(s)']
        /\ walk_visited' = [walk_visited EXCEPT ![b] = VisitedOf(s)']
        /\ walk_stopped' = [walk_stopped EXCEPT ![b] = StoppedOf(s)']
    BY <2>2, <2>5, <2>7, <2>8
  <2>10. CASE Stays(s)
    BY <2>1, <2>2, <2>6, <2>8, <2>9, <2>10 DEF Stays, Walk!wvars
  <2>11. b \in Walk!Walks  BY <2>2 DEF Walk!Walks, B
  <2>12. Walk!After(b) = AfterOf(s) /\ Walk!EndIdx(b) = EndOf(s)
    BY <2>6 DEF Walk!After, Walk!EndIdx, AfterOf, EndOf, end_idx, b
  <2>13. CASE GoesOn(s)
    <3>1. Walk!Advance(b)
      BY <2>1, <2>2, <2>6, <2>8, <2>9, <2>12, <2>13 DEF GoesOn, Walk!Advance
    <3>2. walk_at'[b] = Walk!After(b)
      BY <2>7, <2>12, <2>13 DEF GoesOn
    <3> QED  BY <3>1, <3>2, <2>11 DEF Walk!Next
  <2>14. CASE Stops(s)
    <3>1. Walk!Stop(b)
      BY <2>1, <2>2, <2>6, <2>8, <2>9, <2>12, <2>14 DEF Stops, Walk!Stop
    <3>2. walk_at'[b] = Walk!After(b)
      BY <2>7, <2>12, <2>14 DEF Stops
    <3> QED  BY <3>1, <3>2, <2>11 DEF Walk!Next
  <2> QED  BY <2>10, <2>13, <2>14, <1>1, ThreadWalks
<1>2. ASSUME UNCHANGED vars PROVE UNCHANGED Walk!wvars
  <2>1. UNCHANGED cycle  BY <1>2 DEF vars, cycle
  <2>2. Counts' = Counts /\ tot_shards' = tot_shards  BY <2>1, SameCycle
  <2>3. \A e : Log(e)' = Log(e)  BY <2>1, SameCycle DEF Log
  <2>4. ASSUME NEW c \in 0 .. tot_shards - 1
        PROVE  Regular(SubOf(c))' <=> Regular(SubOf(c))
    <3>1. SubOf(c) \in Subshard  BY <1>0, SubOfFacts
    <3>2. SubOf(c)' = SubOf(c)  BY DEF SubOf
    <3> QED  BY <3>1, <3>2, <2>1, <1>2, OtherThread DEF vars
  <2>5. pc' = pc /\ current' = current /\ walked' = walked  BY <1>2 DEF vars
  <2>6. walk_at' = walk_at /\ walk_visited' = walk_visited /\ walk_stopped' = walk_stopped
    BY <2>2, <2>3, <2>4, <2>5 DEF walk_at, walk_visited, walk_stopped, SubOf
  <2> QED  BY <2>2, <2>6 DEF Walk!wvars
<1> QED  BY <1>1, <1>2 DEF Next, AllOver

-----------------------------------------------------------------------------
(* Whose an element is, and whose an address *)

\* Every element of the group has an index, whatever the offset.
LEMMA ElementExists ==
  ASSUME generator \in Generators, offset \in 1 .. Order, NEW e \in 1 .. Order
  PROVE  \E k \in 0 .. Order - 1 : Element(k) = e
<1> DEFINE g == generator
<1>1. PICK m \in 0 .. Order - 1 : Power(g, m) = offset  BY DEF Generators
<1>2. PICK n \in 0 .. Order - 1 : Power(g, n) = e  BY DEF Generators
<1>3. m \in Nat /\ n \in Nat /\ m < Order /\ n < Order  BY OrderType, SMT
<1>4. ASSUME NEW k \in 0 .. Order - 1, Power(g, (k + 1) + m) = e
      PROVE  Element(k) = e
  <2>1. k + 1 \in Nat  BY OrderType, SMT
  <2>2. Power(g, (k + 1) + m) = (Power(g, k + 1) * Power(g, m)) % Prime
    BY <2>1, <1>3, PowersAdd
  <2> QED  BY <2>2, <1>1, <1>4 DEF Element
<1>5. CASE m < n
  <2> DEFINE k == n - 1 - m
  <2>1. k \in 0 .. Order - 1 /\ (k + 1) + m = n  BY <1>3, <1>5, OrderType, SMT
  <2> HIDE DEF k
  <2> QED  BY <2>1, <1>2, <1>4
<1>6. CASE ~(m < n)
  <2> DEFINE k == n + Order - 1 - m
  <2>1. k \in 0 .. Order - 1 /\ (k + 1) + m = n + Order
    BY <1>3, <1>6, OrderType, SMT
  <2> HIDE DEF k
  <2>2. (n + Order) % Order = n % Order  BY <1>3, OrderType, ModAdd
  <2>3. Power(g, n + Order) = Power(g, n)  BY <2>2 DEF Power
  <2> QED  BY <2>1, <2>3, <1>2, <1>4
<1> QED  BY <1>5, <1>6

\* No element is of two subshards.
LEMMA OwnDisjoint ==
  ASSUME Counts, generator \in Generators, offset \in 1 .. Order,
         NEW s \in Subshard, NEW t \in Subshard, NEW e \in Own(s), e \in Own(t)
  PROVE  s = t
<1>1. PICK j \in 0 .. Order - 1 : j % tot_shards = begin_idx(s) /\ e = Element(j)
  BY DEF Own
<1>2. PICK k \in 0 .. Order - 1 : k % tot_shards = begin_idx(t) /\ e = Element(k)
  BY DEF Own
<1>3. j = k  BY <1>1, <1>2, ElementsDiffer
<1> QED  BY <1>1, <1>2, <1>3, BeginFacts

\* No two regular threads have been through the same element; and every element
\* of the group has been gone through by a regular thread that is at its end, or
\* is of the subshard of another thread: one under way, capped, or not regular.
VisitedPartition ==
  generator \in Generators /\ offset # 0 =>
    /\ \A s, t \in Subshard :
         s # t /\ Regular(s) /\ Regular(t) => walked[s] \cap walked[t] = {}
    /\ \A e \in 1 .. Order : \E s \in Subshard :
         e \in IF Regular(s) /\ pc[s] = "done" THEN walked[s] ELSE Own(s)

LEMMA PartitionFollows ==
  ASSUME ShardInv
  PROVE  VisitedPartition
<1> SUFFICES ASSUME generator \in Generators, offset # 0
             PROVE  /\ \A s, t \in Subshard :
                         s # t /\ Regular(s) /\ Regular(t) => walked[s] \cap walked[t] = {}
                    /\ \A e \in 1 .. Order : \E s \in Subshard :
                         e \in IF Regular(s) /\ pc[s] = "done" THEN walked[s] ELSE Own(s)
  BY DEF VisitedPartition
<1>1. Counts /\ offset \in 0 .. Prime - 1  BY DEF ShardInv, ThreadsInv, TypeOK, Counts
<1>2. offset \in 1 .. Order /\ tot_shards \in Nat \ {0}
  BY <1>1, CountsFacts, OrderType, SMT
<1>3. ASSUME NEW s \in Subshard, Regular(s)
      PROVE  walked[s] \subseteq Own(s) /\ (pc[s] = "done" => walked[s] = Own(s))
  <2>1. WalkInv(s)  BY <1>3 DEF ShardInv
  <2> QED  BY <2>1, OwnFinite DEF WalkInv, WalkFacts
<1>4. ASSUME NEW s \in Subshard, NEW t \in Subshard, s # t, Regular(s), Regular(t),
             NEW e \in walked[s], e \in walked[t]
      PROVE  FALSE
  <2>1. e \in Own(s) /\ e \in Own(t)  BY <1>3, <1>4
  <2> QED  BY <2>1, <1>1, <1>2, <1>4, OwnDisjoint
<1>5. ASSUME NEW e \in 1 .. Order
      PROVE  \E s \in Subshard : e \in Own(s)
  <2>1. PICK k \in 0 .. Order - 1 : Element(k) = e  BY <1>2, ElementExists
  <2> DEFINE s == SubOf(k % tot_shards)
  <2>2. s \in Subshard /\ begin_idx(s) = k % tot_shards
    <3>1. k % tot_shards \in 0 .. tot_shards - 1  BY <1>2, OrderType, ModDef, SMT
    <3> QED  BY <3>1, <1>1, SubOfFacts
  <2>3. e \in Own(s)  BY <2>1, <2>2 DEF Own
  <2> HIDE DEF s
  <2> QED  BY <2>2, <2>3
<1> QED  BY <1>3, <1>4, <1>5

\* What remains of "we connect to every host once" when some thread is not
\* regular: each allowed address is an element of one subshard, no regular
\* thread of another probes it, and the thread of that subshard, if regular and
\* at its end with no limit on the targets, has probed it exactly once.
AddressOwned ==
  generator \in Generators /\ offset # 0 =>
    \A a \in 0 .. allowed - 1 : \E s \in Subshard :
      /\ a + 1 \in Own(s)
      /\ \A t \in Subshard \ {s} : Regular(t) => a \notin Range(probes[t])
      /\ limit >= allowed /\ Regular(s) /\ pc[s] = "done"
           => \E i \in DOMAIN probes[s] :
                \A j \in DOMAIN probes[s] : probes[s][j] = a <=> j = i

LEMMA OwnedFollows ==
  ASSUME ShardInv
  PROVE  AddressOwned
<1> SUFFICES ASSUME generator \in Generators, offset # 0, NEW a \in 0 .. allowed - 1
             PROVE  \E s \in Subshard :
                      /\ a + 1 \in Own(s)
                      /\ \A t \in Subshard \ {s} : Regular(t) => a \notin Range(probes[t])
                      /\ limit >= allowed /\ Regular(s) /\ pc[s] = "done"
                           => \E i \in DOMAIN probes[s] :
                                \A j \in DOMAIN probes[s] : probes[s][j] = a <=> j = i
  BY DEF AddressOwned
<1>1. Counts /\ offset \in 0 .. Prime - 1  BY DEF ShardInv, ThreadsInv, TypeOK, Counts
<1>2. /\ allowed \in Nat /\ allowed < Prime /\ tot_shards \in Nat \ {0}
      /\ targets \in 0 .. allowed
  BY <1>1, CountsFacts
<1>3. offset \in 1 .. Order /\ a \in Nat /\ a + 1 \in 1 .. Order /\ (a + 1) - 1 = a
  BY <1>1, <1>2, OrderType, SMT
<1>4. PICK k \in 0 .. Order - 1 : Element(k) = a + 1  BY <1>3, ElementExists
<1> DEFINE s == SubOf(k % tot_shards)
<1>5. s \in Subshard /\ begin_idx(s) = k % tot_shards
  <2>1. k % tot_shards \in 0 .. tot_shards - 1  BY <1>2, OrderType, ModDef, SMT
  <2> QED  BY <2>1, <1>1, SubOfFacts
<1>6. a + 1 \in Own(s)  BY <1>4, <1>5 DEF Own
<1> HIDE DEF s
<1>7. ASSUME NEW t \in Subshard \ {s}, Regular(t), a \in Range(probes[t])
      PROVE  FALSE
  <2>1. WalkInv(t)  BY <1>7 DEF ShardInv
  <2>2. PICK e \in Own(t) : e - 1 = a
    <3>1. Rest(pc[t], current[t], walked[t]) \subseteq Own(t)
      BY <2>1, OwnFinite DEF WalkInv, WalkFacts, Rest
    <3> QED  BY <2>1, <3>1, <1>7 DEF WalkInv, WalkFacts
  <2>3. PICK j \in 0 .. Order - 1 : e = Element(j)  BY DEF Own
  <2>4. e \in 1 .. Order  BY <2>3, <1>3, OrderType, ElementIn, SMT
  <2>5. e = a + 1  BY <2>2, <2>4, <1>3, OrderType, SMT
  <2> QED  BY <2>5, <1>1, <1>3, <1>5, <1>6, OwnDisjoint
<1>8. ASSUME limit >= allowed, Regular(s), pc[s] = "done"
      PROVE  \E i \in DOMAIN probes[s] :
               \A j \in DOMAIN probes[s] : probes[s][j] = a <=> j = i
  <2>1. Range(probes[s]) = Eligible(s)
    BY <1>5, <1>8, CompleteFollows DEF WalkComplete
  <2>2. IsInjective(probes[s])  BY <1>5, <1>8 DEF ShardInv, WalkInv, WalkFacts
  <2>3. targets = allowed
    <3>1. limit \in Nat  BY <1>1, ShardAssumption DEF Counts
    <3> QED  BY <3>1, <1>2, <1>8, SMT DEF targets, Lesser
  <2>4. a \in Eligible(s)
    <3>1. InRange(a + 1)  BY <1>2, <1>3, SMT DEF InRange, max_index
    <3>2. ~(a + 1 > targets)  BY <2>3, <1>2, <1>3, SMT
    <3> QED  BY <3>1, <3>2, <1>3, <1>6 DEF Eligible
  <2>5. PICK i \in DOMAIN probes[s] : probes[s][i] = a  BY <2>1, <2>4 DEF Range
  <2> WITNESS i \in DOMAIN probes[s]
  <2> QED  BY <2>2, <2>5 DEF IsInjective
<1> QED  BY <1>5, <1>6, <1>7, <1>8

-----------------------------------------------------------------------------
(***************************************************************************)
(* The theorems of the specification.                                      *)
(***************************************************************************)
\* In every reachable state the variables have their types, no counter has
\* passed its bound, and a thread that is able to walk has been at its
\* elements up to the one it is at, having probed those it could.
THEOREM ShardInvariant == Spec => []ShardInv
<1> QED  BY InitWalks, NextWalks, PTL DEF Spec

\* The threads of all instances probe only addresses of their own subshards,
\* and each address once.
THEOREM ProbedOnce == Spec => []OwnOnce
<1> QED  BY ShardInvariant, OnceFollows, PTL

\* A thread that stops before its max_targets has probed every address of its
\* subshard, and what it sent and passed over are all its elements.
THEOREM WalksComplete == Spec => []WalkComplete
<1> QED  BY ShardInvariant, CompleteFollows, PTL

\* No thread counts more elements than its subshard has: it never goes round
\* the group a second time.
THEOREM OnePassOnly == Spec => []OnePass
<1> QED  BY ShardInvariant, PassFollows, PTL

\* A thread with an address in its subshard looks up no index that is out of
\* range, and no thread sends to an address that it did not look up.
THEOREM LookupsSound == Spec => []LookupSound
<1> QED  BY ShardInvariant, LookupFollows, PTL

\* An instance exceeds its targets by less than one address per thread.
THEOREM CapKept == Spec => []CapNearlyKept
<1> QED  BY ShardInvariant, CapFollows, PTL

\* When the group has an element for each subshard, the multiplications modulo
\* the prime are a walk by indices: each step of a thread adds tot_shards to
\* its index or stops it at the end index that shard_init computed.
THEOREM WalksImplemented == ASSUME EnoughElements PROVE Spec => WalkKept
<1>1. Init => Walk!Init  BY InitMaps
<1>2. ShardInv /\ ShardInv' /\ [Next]_vars => [Walk!Next]_(Walk!wvars)  BY NextMaps
<1> QED  BY ShardInvariant, <1>1, <1>2, PTL DEF Spec, WalkKept, Walk!Spec

\* What the regular threads have been through never overlaps, and with what is
\* left to the subshards that are not at their ends it is the whole group
\* (shard_init and shard_get_next_elem): no element is left to no thread.
THEOREM VisitedShared == Spec => []VisitedPartition
<1> QED  BY ShardInvariant, PartitionFollows, PTL

\* Every allowed address is of one thread of one instance: shard_init and
\* shard_get_next_ip keep every other regular thread from it, and that thread,
\* if regular, has probed it exactly once when it ends with no limit.
THEOREM AddressesShared == Spec => []AddressOwned
<1> QED  BY ShardInvariant, OwnedFollows, PTL
=============================================================================
