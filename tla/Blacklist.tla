------------------------------ MODULE Blacklist ------------------------------
(***************************************************************************)
(* lib/blacklist.c: blacklist_init builds the constraint of a scan from    *)
(* the whitelist file, the destinations of the command line and the        *)
(* blacklist file, in this order.  Both its callers pass no blacklist      *)
(* entries other than the file.                                            *)
(*                                                                         *)
(* An entry of a source is the parsed line: a network, a host name with    *)
(* the addresses it resolves to, a host name that does not resolve, or a   *)
(* prefix length that is none.                                             *)
(***************************************************************************)
EXTENDS Constraint

CONSTANTS
  Networks,       (* prefixes that are given as such                         *)
  Hosts,          (* sets of prefixes: the addresses of a host name          *)
  MaxLines        (* bound: the entries of one source                        *)

ADDR_DISALLOWED == 0
ADDR_ALLOWED    == 1

ASSUME BlacklistAssumption ==
  /\ Values = {ADDR_DISALLOWED, ADDR_ALLOWED} /\ MaxLines \in Nat
  /\ Networks \subseteq Prefix
  /\ \A ps \in Hosts : ps # {} /\ ps \subseteq Prefix

VARIABLES
  sources,              \* which of "wfile", "wlist", "bfile" are given
  ignore_invalid_hosts, \* zconf.ignore_invalid_hosts
  phase,                \* where blacklist_init is
  lines,                \* the entries read from the source it reads
  whitelisted_cidrs, blacklisted_cidrs

given == <<sources, ignore_invalid_hosts>>
cidrs == <<whitelisted_cidrs, blacklisted_cidrs>>
vars  == <<tree, paint, given, phase, lines, cidrs>>

NextPhase == [wfile |-> "wlist", wlist |-> "bfile", bfile |-> "zero"]
ValueOf   == [wfile |-> ADDR_ALLOWED, wlist |-> ADDR_ALLOWED,
              bfile |-> ADDR_DISALLOWED]

\* _add_constraint for every prefix of ps: in what order makes no difference,
\* as they get the same value
Add(ps, value) ==
  /\ leaf' = FoldSet(LAMBDA p, t : set_recurse(t, p, value), leaf, ps)
  /\ painted' = FALSE
  /\ colour' = [a \in Address |-> IF \E p \in ps : a \in Cover(p)
                                  THEN value ELSE colour[a]]
  /\ IF value = ADDR_ALLOWED
     THEN /\ whitelisted_cidrs' = whitelisted_cidrs \cup ps
          /\ UNCHANGED blacklisted_cidrs
     ELSE /\ blacklisted_cidrs' = blacklisted_cidrs \cup ps
          /\ UNCHANGED whitelisted_cidrs
  /\ UNCHANGED <<radix, count, paint_value>>

-----------------------------------------------------------------------------

\* Mutant: only a whitelist file makes the default to allow nothing.
DefaultByFile(s) == IF "wfile" \in s THEN ADDR_DISALLOWED ELSE ADDR_ALLOWED

\* using a whitelist, so default to allowing nothing
Default(s) == IF s \cap {"wfile", "wlist"} # {} THEN ADDR_DISALLOWED
              ELSE ADDR_ALLOWED

Init ==
  /\ sources \in SUBSET {"wfile", "wlist", "bfile"}
  /\ ignore_invalid_hosts \in BOOLEAN
  /\ constraint_init(Default(sources))
  /\ phase = "wfile" /\ lines = 0
  /\ whitelisted_cidrs = {} /\ blacklisted_cidrs = {}

Reading == phase \in sources /\ lines < MaxLines

\* init_from_string with a network, or with a host name that resolves
GoodLine ==
  /\ Reading
  /\ \E ps \in {{p} : p \in Networks} \cup Hosts : Add(ps, ValueOf[phase])
  /\ lines' = lines + 1
  /\ UNCHANGED <<given, phase>>

\* a host name that does not resolve: an error of a file, unless it is to be
\* ignored; init_from_array goes on to the next
UnknownHost ==
  /\ Reading
  /\ IF phase # "wlist" /\ ~ignore_invalid_hosts
     THEN phase' = "exit" /\ UNCHANGED lines
     ELSE lines' = lines + 1 /\ UNCHANGED phase
  /\ UNCHANGED <<tree, paint, given, cidrs>>

\* log_fatal ends the process; so does a file that cannot be opened
BadPrefix ==
  /\ phase \in sources
  /\ Reading \/ (phase # "wlist" /\ lines = 0)
  /\ phase' = "exit"
  /\ UNCHANGED <<tree, paint, given, lines, cidrs>>

EndOfSource ==
  /\ phase \in DOMAIN NextPhase
  /\ phase' = NextPhase[phase] /\ lines' = 0
  /\ UNCHANGED <<tree, paint, given, cidrs>>

\* Mutant: 0.0.0.0 stays as it is.
ZeroKept ==
  /\ phase = "zero"
  /\ phase' = "paint"
  /\ UNCHANGED <<tree, paint, given, lines, cidrs>>

\* 0.0.0.0 is never scanned
Zero ==
  /\ phase = "zero"
  /\ Add({<<Bits, 0>>}, ADDR_DISALLOWED)
  /\ phase' = "paint"
  /\ UNCHANGED <<given, lines>>

\* constraint_paint_value, and EXIT_FAILURE when nothing is allowed
Paint ==
  /\ phase = "paint"
  /\ constraint_paint_value(ADDR_ALLOWED)
  /\ phase' = IF \E q \in DOMAIN leaf : leaf[q] = ADDR_ALLOWED
              THEN "ready" ELSE "failure"
  /\ UNCHANGED <<given, lines, cidrs>>

Next == GoodLine \/ UnknownHost \/ BadPrefix \/ EndOfSource \/ Zero \/ Paint

Spec == Init /\ [][Next]_vars

-----------------------------------------------------------------------------
(* What the scan uses when blacklist_init has returned *)

blacklist_lookup_index(index) == constraint_lookup_index(index)
blacklist_is_allowed(address) == lookup_ip(address) = ADDR_ALLOWED
blacklist_count_allowed == constraint_count_ips(ADDR_ALLOWED)

-----------------------------------------------------------------------------

Covered(ps) == UNION {Cover(p) : p \in ps}

\* What may be scanned is the union of the whitelist file and the
\* destinations, or everything without either, but for every network of the
\* blacklist, however they overlap, and for 0.0.0.0.
AllowedExact ==
  phase \in {"ready", "failure"} =>
    {a \in Address : blacklist_is_allowed(a)}
      = (IF sources \cap {"wfile", "wlist"} = {} THEN Address
         ELSE Covered(whitelisted_cidrs)) \ (Covered(blacklisted_cidrs) \cup {0})

\* The iterator of the scan gets a number of addresses that is neither 0 nor
\* all of them, and every index below it stands for a different allowed one.
IndicesAllowed ==
  phase = "ready" =>
    LET indices == 0 .. blacklist_count_allowed - 1
        ip == [i \in indices |-> blacklist_lookup_index(i)]
    IN /\ blacklist_count_allowed \in 1 .. 2^Bits - 1
       /\ IsInjective(ip)
       /\ Range(ip) = {a \in Address : blacklist_is_allowed(a)}
=============================================================================
