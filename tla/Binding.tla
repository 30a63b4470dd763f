------------------------------- MODULE Binding -------------------------------
(***************************************************************************)
(* The binding: libzmap.cc, which a script calls with an object of options *)
(* and a callback, and Config of config.cc, which fills in the globals     *)
(* from the object.  Each action is one function of Config and chooses     *)
(* what the object has for it.                                             *)
(***************************************************************************)
EXTENDS ZConf

CONSTANT MaxCalls   \* bound: the calls of a script
VARIABLE calls

\* LibZMAP: too few arguments, no function, or no object
LibZMAP ==
  /\ calls < MaxCalls /\ calls' = calls + 1
  /\ \/ Step("idle", "config") /\ thrown' = FALSE
     \/ Step("idle", "idle") /\ thrown' = TRUE
  /\ asked' = Nothing
  /\ UNCHANGED <<args, zconf, targets, constraint>>

ConfigIface ==
  \/ End("config", "fatal")
  \/ \E i \in Interface : Configure("config", "ipaddr", [zconf EXCEPT !.iface = i])

\* get_iface_ip does not return a failure: it ends the process
ConfigIpaddr ==
  /\ pc = "ipaddr"
  /\ \/ End("ipaddr", "fatal")
     \/ Configure("ipaddr", "hwaddr", [zconf EXCEPT !.source_ip = OwnAddress])
     \/ \E range \in SourceArgs :
          Given("ipaddr", "hwaddr", [zconf EXCEPT !.source_ip = range])

\* an address of which a part could be read leaves that part
GivenHwaddr ==
  \/ Given("hwaddr", "bandwidth",
           [zconf EXCEPT !.gw_mac = "given", !.gw_mac_set = TRUE])
  \/ Throw("hwaddr", "bandwidth",
           [zconf EXCEPT !.gw_mac = Junk, !.gw_mac_set = TRUE])

\* The gateway of which no address was found is searched for all the same.
DetectHwaddr ==
  \E routes \in Routes, neighbours \in Neighbours :
    \E gateway \in get_default_gw(routes, zconf.iface) :
      \E hw \in get_hw_addr(neighbours, IF gateway.ret = "found" THEN gateway.val
                                              ELSE Junk) :
        IF hw.ret = "fatal" THEN End("hwaddr", "fatal")
        ELSE /\ Step("hwaddr", "bandwidth")
             /\ thrown' = (thrown \/ gateway.ret # "found" \/ hw.ret # "found")
             /\ zconf' = [zconf EXCEPT !.iface = gateway.iface, !.gw_mac_set = TRUE,
                                       !.gw_mac = IF hw.ret = "found" THEN hw.val ELSE @]
             /\ asked' = [asked EXCEPT !.mac = Known(routes, neighbours)]
             /\ UNCHANGED <<args, targets, constraint>>

ConfigHwaddr == GivenHwaddr \/ DetectHwaddr

\* the number before the suffix, when there is no such suffix
ConfigBandwidth ==
  \/ Configure("bandwidth", "blacklist", zconf)
  \/ \E b \in BandwidthArgs :
       \/ Given("bandwidth", "blacklist", [zconf EXCEPT !.bandwidth = b])
       \/ Throw("bandwidth", "blacklist", [zconf EXCEPT !.bandwidth = b])

\* Mutant: the second call gets a constraint of its own.
ConfigListsAgain ==
  \/ End("blacklist", "fatal")
  \/ /\ Step("blacklist", "targets")
     /\ constraint' = TRUE
     /\ \E allowed \in AllowedCounts :
          /\ targets' = allowed
          /\ thrown' = (thrown \/ allowed = 0)
     /\ UNCHANGED <<args, zconf, asked>>

\* ConfigRange, ConfigBlacklist and ConfigWhitelist say where blacklist_init
\* reads; it asserts that there is no constraint yet.  Nothing to scan throws.
ConfigWhiteBlackLists ==
  \/ End("blacklist", IF constraint THEN "aborted" ELSE "fatal")
  \/ /\ Step("blacklist", "targets")
     /\ ~constraint /\ constraint' = TRUE
     /\ \E allowed \in AllowedCounts :
          /\ targets' = allowed
          /\ thrown' = (thrown \/ allowed = 0)
     /\ UNCHANGED <<args, zconf, asked>>

ConfigTargets ==
  /\ Step("targets", "cores")
  /\ targets' = Targets(targets, zconf.max_targets)
  /\ UNCHANGED <<args, zconf, constraint, thrown, asked>>

ConfigCores ==
  Configure("cores", "seed", [zconf EXCEPT !.senders = Fit(DefaultSenders(zconf.quiet))])

ConfigSeed ==
  Configure("seed", "probe", [zconf EXCEPT !.rng = aesrand_init(zconf)])

\* An unknown module throws and is used.  fsconf is cleared, and with it the
\* index of success: that of the first field.
ConfigProbeModule ==
  \/ Throw("probe", "crashed", zconf)
  \/ Configure("probe", "output", [zconf EXCEPT !.fields = "*", !.success = "saddr"])

ConfigOutputModule ==
  Configure("output", "shard", [zconf EXCEPT !.output = "node-json",
                                             !.filter_duplicates = TRUE,
                                             !.filter_unsuccessful = TRUE])

ConfigShards ==
  \/ Configure("shard", "total", [zconf EXCEPT !.shard_num = 0])
  \/ \E n \in ShardArgs :
       Given("shard", "total", [zconf EXCEPT !.shard_num = n % ByteWord])

\* "shardtotal" tells whether to read "shartotal", which is 0 when it is not
\* there; the key of the README, "shardotal", is not looked at
ConfigShardTotal ==
  \E keys \in SUBSET {"shardtotal", "shartotal"}, n \in ShardArgs :
    /\ Step("total", "threads") /\ asked.options + Cardinality(keys) <= MaxOptions
    /\ asked' = [asked EXCEPT !.options = @ + Cardinality(keys)]
    /\ zconf' = [zconf EXCEPT !.total_shards =
                   IF "shardtotal" \notin keys THEN 1
                   ELSE IF "shartotal" \in keys THEN n % ByteWord ELSE 0]
    /\ UNCHANGED <<args, targets, constraint, thrown>>

ConfigThreads ==
  \/ Configure("threads", "init-send",
               [zconf EXCEPT !.senders = Fit(DefaultSenders(zconf.quiet))])
  \/ \E t \in ThreadArgs :
       Given("threads", "init-send", [zconf EXCEPT !.senders = Fit(t % ByteWord)])

BindingNext ==
  \/ LibZMAP
  \/ /\ \/ ConfigIface \/ ConfigIpaddr \/ ConfigHwaddr \/ ConfigBandwidth
        \/ ConfigWhiteBlackLists \/ ConfigTargets \/ ConfigCores \/ ConfigSeed
        \/ ConfigProbeModule \/ ConfigOutputModule \/ ConfigShards \/ ConfigShardTotal
        \/ ConfigThreads
     /\ UNCHANGED calls
=============================================================================
