-------------------------------- MODULE ZConf --------------------------------
(***************************************************************************)
(* What the two ways to start a scan share: the globals of state.c that    *)
(* they fill in, and the steps of a configuration.  The command line       *)
(* (CommandLine) ends the process at the first thing that is wrong; the    *)
(* binding (Binding) throws, and goes on.                                  *)
(***************************************************************************)
EXTENDS Gateway

CONSTANTS
  OutputModules,   (* output_modules[], by the options of the build           *)
  ByteWord,        (* 2^8, for threads and shards                             *)
  PortWord,        (* 2^16, for ports                                         *)
  Word,            (* 2^32, for addresses, seeds and rates                    *)
  PacketBits,      (* the bits of a packet and what goes with it on the wire  *)
  NumCores,        (* sysconf(_SC_NPROCESSORS_ONLN)                           *)
  AddressOf,       (* the address of each interface                           *)
  \* bounds: what users ask for, and what the host answers
  PortArgs, SourceArgs, ShardArgs, SeedArgs, BandwidthArgs, RateArgs, LimitArgs,
  ThreadArgs, AllowedCounts, Routes, Neighbours,
  Words,           (* random words, for the choice of a source address        *)
  MaxOptions       (* the options given to one scan, besides its output       *)

ASSUME ZConfAssumption ==
  /\ {PortWord, PacketBits, NumCores} \subseteq Nat \ {0}
  /\ ByteWord \in Nat \ {0, 1} /\ Word \in Nat \ {0} /\ Word % 2 = 0
  /\ "node-json" \in OutputModules /\ MaxOptions \in Nat

\* An int, an unsigned or an address, as the code keeps it; 0.0.0.0 is never
\* allowed (Blacklist), so that not all addresses are.
ASSUME ArgsAssumption ==
  /\ PortArgs \cup ShardArgs \cup LimitArgs \cup ThreadArgs \subseteq Int
  /\ BandwidthArgs \cup Words \subseteq Nat
  /\ SeedArgs \cup AllowedCounts \subseteq 0 .. Word - 1
  /\ RateArgs \subseteq -(Word \div 2) .. (Word \div 2) - 1
  /\ SourceArgs \subseteq Address \X Address
  /\ \A i \in DOMAIN AddressOf : AddressOf[i] \in Address
  /\ \A answer \in Routes \cup Neighbours : IsAnswer(answer)

VARIABLES
  program,        \* "zmap" or "node"
  pc,             \* where its main thread is
  args,           \* options of the command line that are looked at twice
  zconf,          \* struct state_conf
  targets,        \* zsend.targets
  constraint,     \* whether blacklist.c has one
  thrown,         \* an exception is pending
  asked           \* history: what the user asked for, and what the host knows

settings == <<args, zconf, targets, constraint, thrown, asked>>

Interface == DOMAIN AddressOf

\* Where a process or a call has ended, each way by a name of its own.
Ended == {"exit", "fatal", "denied", "crashed", "aborted", "over"}

Defaults ==
  [output |-> NULL, fields |-> NULL, success |-> "none",
   filter_duplicates |-> FALSE, filter_unsuccessful |-> FALSE,
   dryrun |-> FALSE, quiet |-> FALSE, send_ip_pkts |-> FALSE,
   iface |-> NULL, source_ip |-> NULL, srcip_offset |-> 0,
   gw_mac |-> "zero", gw_mac_set |-> FALSE,
   ports |-> <<PortWord \div 2, PortWord - 1>>,
   seed |-> NULL, rng |-> NULL, shard_num |-> 0, total_shards |-> 0,
   bandwidth |-> 0, rate |-> 0, max_targets |-> Word - 1, senders |-> 1]

-----------------------------------------------------------------------------
(* The steps of a configuration *)

Step(from, to) == pc = from /\ pc' = to

Configure(from, to, conf) ==
  /\ Step(from, to) /\ zconf' = conf
  /\ UNCHANGED <<args, targets, constraint, thrown, asked>>

\* an option is given
Given(from, to, conf) ==
  /\ asked.options < MaxOptions
  /\ Step(from, to) /\ zconf' = conf
  /\ asked' = [asked EXCEPT !.options = @ + 1]
  /\ UNCHANGED <<args, targets, constraint, thrown>>

\* the process ends, in one of the ways that end it
End(from, how) == Step(from, how) /\ UNCHANGED settings

\* ThrowException returns: the caller goes on
Throw(from, to, conf) ==
  /\ Step(from, to) /\ zconf' = conf /\ thrown' = TRUE
  /\ UNCHANGED <<args, targets, constraint, asked>>

-----------------------------------------------------------------------------
(* What both compute in the same way *)

Smaller(a, b) == IF a <= b THEN a ELSE b
AtLeastOne(n) == IF n >= 1 THEN n ELSE 1

get_output_module_by_name(name) == IF name \in OutputModules THEN name ELSE NULL

Nothing == [mac |-> NULL, options |-> 0]

\* 2^32 addresses do not fit in a uint32_t
Targets(allowed, max_targets) == Smaller(Smaller(allowed, Word - 1), max_targets)

\* one thread for each core but this one, and that of the monitor
DefaultSenders(quiet) ==
  LET others == AtLeastOne(NumCores - 1) % ByteWord
  IN IF quiet THEN others ELSE AtLeastOne(others - 1) % ByteWord

\* get_iface_ip: the one address of the interface
OwnAddress == <<AddressOf[zconf.iface], AddressOf[zconf.iface]>>

\* no more threads than targets
Fit(senders) == IF senders > targets THEN AtLeastOne(targets) % ByteWord
                ELSE senders

\* the random numbers of the scan: 0 stands for a key from /dev/urandom
aesrand_init(conf) == IF conf.seed = NULL THEN 0 ELSE (conf.seed + 1) % Word

\* packets per second, kept in an int
Rate(conf) ==
  LET pps == conf.bandwidth \div PacketBits
      rate == IF pps >= Word THEN 0 ELSE IF pps = 0 THEN 1 ELSE pps
  IN IF conf.bandwidth = 0 THEN conf.rate
     ELSE IF rate >= Word \div 2 THEN rate - Word ELSE rate

-----------------------------------------------------------------------------
(* The gateway, when no hardware address is given *)

\* The hardware address that belongs to the first gateway, if the answers are
\* complete, and the neighbour that is the gateway has one.
Known(routes, neighbours) ==
  LET read == read_nl_sock(routes)
      near == read_nl_sock(neighbours)
      gates == {k \in 1 .. Len(read.messages) : read.messages[k].gateway # NULL}
      gate == read.messages[CHOOSE k \in gates : \A j \in gates : k <= j].gateway
      its  == {near.messages[k] : k \in {j \in 1 .. Len(near.messages) :
                                           near.messages[j].dst = gate}}
  IN IF read.failed \/ near.failed \/ gates = {} \/ Cardinality(its) # 1 THEN NULL
     ELSE (CHOOSE m \in its : TRUE).lladdr
=============================================================================
