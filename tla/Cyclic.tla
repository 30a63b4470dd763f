-------------------------------- MODULE Cyclic --------------------------------
(***************************************************************************)
(* cyclic.c: the multiplicative group of integers modulo a prime that      *)
(* orders the addresses of a scan, and the choice of its generator.        *)
(***************************************************************************)
EXTENDS Integers, FiniteSets

CONSTANTS
  Prime,          (* group->prime                                            *)
  PrimRoot,       (* group->known_primroot                                   *)
  PrimeFactors,   (* group->prime_factors, those of Prime - 1                *)
  Word            (* 2^32, the range of uint32_t; uint64_t is its square     *)

ASSUME CyclicAssumption ==
  /\ Prime \in Nat /\ Prime > 2 /\ Word \in Nat \ {0}
  /\ PrimRoot \in 1 .. Prime - 1
  /\ PrimeFactors \subseteq 2 .. Prime - 1

Order == Prime - 1

\* mpz_powm(base, n, Prime) for n > 0, tabulated: it depends on n modulo Order
PowerTable == [base \in 1 .. Order |->
                 LET power[n \in 0 .. Order - 1] ==
                       IF n = 0 THEN 1 ELSE (power[n - 1] * base) % Prime
                 IN power]
Power(base, n) == IF base = 0 THEN 0 ELSE PowerTable[base][n % Order]

\* the elements of which every element is a power
Generators == {g \in 1 .. Order : \A e \in 1 .. Order :
                                     \E n \in 0 .. Order - 1 : Power(g, n) = e}

\* what the table of groups gives: a prime, a primitive root of it, and the
\* prime factors of its predecessor
ASSUME GroupAssumption ==
  /\ \A a, b \in 1 .. Order : (a * b) % Prime # 0
  /\ PrimRoot \in Generators
  /\ \A f \in PrimeFactors : Order % f = 0
  /\ \A d \in 2 .. Order : Order % d = 0 => \E f \in PrimeFactors : d % f = 0

Coprime(check) ==
  \A f \in PrimeFactors : /\ f > check => f % check # 0
                          /\ f < check => check % f # 0
                          /\ f # check

\* find_primroot: the candidate drawn, then the next ones, up to a coprime one
Additive(word) ==
  LET start == IF word % Prime = 0 THEN 1 ELSE word % Prime
  IN CHOOSE c \in start .. start + Prime :
       Coprime(c) /\ \A d \in start .. c - 1 : ~Coprime(d)

\* assert(additive_elt < mult_group->prime); and the candidate is a uint32_t,
\* which check_coprime divides by
Drawable(word) == Additive(word) < Prime /\ Additive(word) < Word

isomorphism(additive) == Power(PrimRoot, additive)

\* find_primroot returns a uint32_t
Generator(word) == isomorphism(Additive(word)) % Word
=============================================================================
