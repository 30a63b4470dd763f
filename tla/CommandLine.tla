----------------------------- MODULE CommandLine -----------------------------
(***************************************************************************)
(* main of zmap.c up to start_zmap: the options of the command line, in    *)
(* the order main looks at them, each action choosing what was given.      *)
(***************************************************************************)
EXTENDS ZConf

\* a log file or directory that cannot be opened, or both
Log ==
  \E file, directory, opens \in BOOLEAN :
    IF (file /\ directory) \/ ((file \/ directory) /\ ~opens)
    THEN End("log", "fatal")
    ELSE Configure("log", "output", zconf)

Module(name, fields, duplicates, unsuccessful) ==
  Configure("output", "probe",
            [zconf EXCEPT !.output = get_output_module_by_name(name),
                          !.fields = fields, !.filter_duplicates = duplicates,
                          !.filter_unsuccessful = unsuccessful])

\* the old names stand for another module, and for fields and filters; the
\* module that they stand for is not always looked for
OutputModule ==
  \/ \E name \in {"default", "simple_file"} : Module("csv", "saddr", TRUE, TRUE)
  \/ Module("csv", "list", FALSE, FALSE)
  \/ IF get_output_module_by_name("redis-packed") = NULL \/ args # {}
     THEN End("output", "fatal")
     ELSE Module("redis-packed", "saddr", TRUE, TRUE)
  \/ IF args # {} THEN End("output", "fatal")
     ELSE Module("csvredis", "*", FALSE, FALSE)
  \/ \E name \in OutputModules \cup {"unknown"} :
       IF get_output_module_by_name(name) = NULL THEN End("output", "fatal")
       ELSE Module(name, NULL, FALSE, FALSE)

\* an unknown probe module; --help, which reads the output module; --version
\* and the lists
ProbeModule ==
  \/ End("probe", "fatal")
  \/ End("probe", IF zconf.output = NULL THEN "crashed" ELSE "exit")
  \/ End("probe", "exit")
  \/ Configure("probe", "vpn", zconf)

Vpn ==
  \/ Configure("vpn", "fields", zconf)
  \/ Given("vpn", "fields", [zconf EXCEPT !.send_ip_pkts = TRUE,
                                          !.gw_mac_set = TRUE, !.gw_mac = "zero"])

\* the fields of the probe module, which has those the framework needs, and
\* of which the output is some: a name that is none of them is fatal
Fields ==
  \/ End("fields", "exit")     \* a required option is missing, or a list
  \/ /\ "output-fields" \in args \/ zconf.fields = "list"
     /\ End("fields", "fatal")
  \/ Configure("fields", "filter",
               [zconf EXCEPT !.fields = IF "output-fields" \in args THEN "user"
                                        ELSE IF @ = NULL THEN "saddr" ELSE @,
                             !.success = "success"])

\* parse_filter_string and validate_filter; args is not looked at again
Filter ==
  \/ "output-filter" \in args /\ End("filter", "fatal")
  \/ /\ Step("filter", "options") /\ args' = {}
     /\ UNCHANGED <<zconf, targets, constraint, thrown, asked>>

\* a metadata file that cannot be opened, or without JSON, is fatal
Options ==
  \/ End("options", "fatal")
  \/ Configure("options", "ports", zconf)
  \/ Given("options", "options", [zconf EXCEPT !.dryrun = TRUE])
  \/ Given("options", "options", [zconf EXCEPT !.quiet = TRUE])
  \/ \E rate \in RateArgs : Given("options", "options", [zconf EXCEPT !.rate = rate])
  \/ \E i \in Interface : Given("options", "options", [zconf EXCEPT !.iface = i])

\* both ends have been made 16 bits before their ranges are enforced
PortRange(first, last) ==
  IF first > last THEN End("ports", "exit")
  ELSE Given("ports", "source", [zconf EXCEPT !.ports = <<first, last>>])

\* a probe without ports, or with a target port, which may be missing or none
Ports ==
  \/ Configure("ports", "source", zconf)
  \/ End("ports", "fatal")
  \/ \E p \in PortArgs : IF p \in 0 .. PortWord - 1 THEN PortRange(p, p)
                         ELSE End("ports", "fatal")
  \/ \E p, q \in PortArgs : PortRange(p % PortWord, q % PortWord)

SourceIp ==
  \/ Configure("source", "mac", zconf)
  \/ \E range \in SourceArgs :
       Given("source", "mac", [zconf EXCEPT !.source_ip = range])

GatewayMac ==
  \/ Configure("mac", "shards", zconf)
  \/ Given("mac", "shards", [zconf EXCEPT !.gw_mac = "given", !.gw_mac_set = TRUE])
  \/ End("mac", "exit")

\* Mutant: a shard may be the last plus one.
ShardOver(shard, shards) ==
  shard = NULL \/ (shard \in 0 .. ByteWord - 2 /\ shards \in 1 .. ByteWord - 2
                   /\ shard <= shards)

\* both or none, each of at most 254, the one below the other
ShardFits(shard, shards) ==
  shard = NULL \/ (shard \in 0 .. ByteWord - 2 /\ shards \in 1 .. ByteWord - 2
                   /\ shard < shards)

\* without any of the three, one shard and a key of the system's
Shards ==
  \/ Configure("shards", "bandwidth", [zconf EXCEPT !.total_shards = 1])
  \/ \E seed \in SeedArgs \cup {NULL}, shard, shards \in ShardArgs \cup {NULL} :
    IF \/ {shard, shards} # {NULL} /\ seed = NULL
       \/ (shard = NULL) # (shards = NULL)
       \/ ~ShardFits(shard, shards)
    THEN End("shards", "fatal")
    ELSE Given("shards", "bandwidth",
                   [zconf EXCEPT !.seed = seed,
                                 !.shard_num = IF shard = NULL THEN 0 ELSE shard,
                                 !.total_shards = IF shards = NULL THEN 1 ELSE shards])

\* a suffix that is none of G, M and K; a number of targets that is none
Bandwidth ==
  \/ Configure("bandwidth", "max", zconf)
  \/ End("bandwidth", "exit")
  \/ \E b \in BandwidthArgs :
       Given("bandwidth", "max", [zconf EXCEPT !.bandwidth = b])

MaxTargets ==
  \/ Configure("max", "blacklist", zconf)
  \/ End("max", "exit")
  \/ \E n \in LimitArgs :
       Given("max", "blacklist",
             [zconf EXCEPT !.max_targets = IF n <= 0 THEN 0 ELSE Smaller(n, Word - 1)])

\* blacklist_init (Blacklist), and the targets
CountTargets ==
  \/ End("blacklist", IF constraint THEN "aborted" ELSE "fatal")
  \/ /\ Step("blacklist", "senders") /\ ~constraint
     /\ \E allowed \in AllowedCounts \ {0} :
          targets' = Targets(allowed, zconf.max_targets)
     /\ constraint' = TRUE
     /\ UNCHANGED <<args, zconf, thrown, asked>>

\* an int into a uint8_t
Senders ==
  \/ Configure("senders", "iface",
               [zconf EXCEPT !.senders = Fit(DefaultSenders(zconf.quiet))])
  \/ \E t \in ThreadArgs :
       Given("senders", "iface", [zconf EXCEPT !.senders = Fit(t % ByteWord)])

-----------------------------------------------------------------------------
(* start_zmap up to the initialisation of the output and the sender *)

\* no interface at all is fatal
StartIface ==
  IF zconf.iface # NULL THEN Configure("iface", "address", zconf)
  ELSE \/ End("iface", "fatal")
       \/ \E i \in Interface : Configure("iface", "address", [zconf EXCEPT !.iface = i])

StartSourceIp ==
  IF zconf.source_ip # NULL THEN Configure("address", "gateway", zconf)
  ELSE \/ End("address", "fatal")
       \/ Configure("address", "gateway",
                    [zconf EXCEPT !.source_ip = OwnAddress])

StartGateway ==
  IF zconf.gw_mac_set THEN Configure("gateway", "seed", zconf)
  ELSE \E routes \in Routes, neighbours \in Neighbours :
         \E gateway \in get_default_gw(routes, zconf.iface) :
           IF gateway.ret # "found" THEN End("gateway", "fatal")
           ELSE \E hw \in get_hw_addr(neighbours, gateway.val) :
                  IF hw.ret # "found" THEN End("gateway", "fatal")
                  ELSE /\ Step("gateway", "seed")
                       /\ zconf' = [zconf EXCEPT !.iface = gateway.iface, !.gw_mac = hw.val,
                                                 !.gw_mac_set = TRUE]
                       /\ asked' = [asked EXCEPT !.mac = Known(routes, neighbours)]
                       /\ UNCHANGED <<args, targets, constraint, thrown>>

StartSeed == Configure("seed", "init-output", [zconf EXCEPT !.rng = aesrand_init(zconf)])

CommandLineNext ==
  \/ Log \/ OutputModule \/ ProbeModule \/ Vpn \/ Fields \/ Filter \/ Options \/ Ports
  \/ SourceIp \/ GatewayMac \/ Shards \/ Bandwidth \/ MaxTargets \/ CountTargets
  \/ Senders \/ StartIface \/ StartSourceIp \/ StartGateway \/ StartSeed
=============================================================================
