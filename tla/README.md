# A verification of libzmap

libzmap is a Node.js binding (`src/src/*.cc`) around ZMap 1.2.1
(`src/src/zmap-1.2.1/`), a scanner that probes every allowed IPv4 address in a
pseudo-random order. This directory holds TLA+ models of both, and of the banner
grabbers that come with them, the TLC
configurations that check them on small instances, and theorems that TLAPS
checks for every value of the constants. Paths below are relative to
`src/src/zmap-1.2.1/` unless they start with `src/`.

## 1. The system

### Components

| Component | Where | State it keeps | Operations |
|---|---|---|---|
| Scan threads | `src/zmap.c` `start_zmap`, `src/src/async.cc` `Threads`; `src/send.c`, `src/recv.c`, `src/monitor.c`, `src/iterator.c` | `zsend`, `zrecv`, `zconf.recv_ready`, the capture handle `pc`, one `shard->state` per thread, three mutexes | start the receiver, wait for it, start senders and monitor, probe, report back, receive, cool down, join |
| Shards and the cyclic group | `src/cyclic.c`, `src/shard.c`, `src/iterator.c` | the group's generator and offset; per thread `first`, `last`, `factor`, `current` | `make_cycle`, `shard_init`, `shard_get_cur_ip`, `shard_get_next_ip` |
| Address constraint | `lib/constraint.c` | a binary tree of prefixes, counts on its nodes, a radix array, the `painted` flag | set a prefix, paint, look up an address, look up an index, count |
| Blacklist | `lib/blacklist.c` | one constraint, the lists of networks | `blacklist_init` from a whitelist file, destinations and a blacklist file; the queries |
| Response handling | `src/recv.c`, `lib/pbm.c`, `src/validate.c`, `src/probe_modules/` | the paged bitmap `seen`, `zrecv` | validate, classify, count, filter, hand over |
| Source address and port | `src/send.c`, `src/probe_modules/packet.h` | `srcip_first`, `srcip_last`, `srcip_offset` | `get_src_ip`, `get_src_port`, `check_dst_port` |
| Fields and output filter | `src/fieldset.c`, `src/filter.c`, `src/expression.c`, `src/lexer.l`, `src/parser.y` | field definitions, translation, filter tree | add and modify fields, translate, parse, validate, evaluate |
| Output modules | `src/output_modules/`, `lib/redis.c`, `src/src/module.c` | a file, or a buffer of results for Redis | start, process a record, close |
| Command-line driver | `src/zmap.c` | it fills `zconf` | `main`'s options in order, `start_zmap`, `drop_privs` |
| Binding: configuration | `src/src/libzmap.cc`, `config.cc` | it fills the same `zconf` from an object | `LibZMAP`, `Config` and its functions |
| Binding: results | `src/src/output.cc`, `module.c`, `src/lib/libzmap.js` | `obj` | `Summary`, the callback, `node_json_process` |
| Gateway and interfaces | `src/get_gateway.c`, `src/send-linux.h`, `src/send-bsd.h` | none | read netlink answers, find the gateway and its hardware address |
| Banner grabbers | `examples/banner-grab/banner-grab-tcp.c`, `examples/forge-socket/forge-socket.c` | counters and one state per connection | event handlers on stdin and connections |
| Go banner grabber | `examples/banner-grab-go/banner.go` | three channels | `main`, `grabber`, `output` |
| Rest | logger, `xalloc`, AES, generated parsers, probe payloads | | |

### How they interact

`blacklist_init` builds the constraint and paints it; from then on an *index*
between 0 and `blacklist_count_allowed()` stands for an allowed address.
`send_init` picks the smallest prime group larger than that count, and
`iterator_init` gives every send thread a subshard of it. A send thread steps
through its subshard, turns each element that is an index into an address and
sends `packet_streams` probes to it. Threads share `zsend` and the iterator
under `it_mutex` when they finish, the output and the interface's static data
under `send_mutex`. The last one to finish sets `zsend.finish` and
`zsend.complete`, which the receiver reads **without** a mutex to time its
cooldown. The receiver sets `zrecv.complete`, which the senders read without
a mutex to stop early. What it receives goes through the probe module's
`validate_packet` and `process_packet`, which make a record of fields; the two
filters, the filter expression and the translation of fields decide what the
output module gets of it. The monitor reads statistics from the receiver's
capture handle under `recv_ready_mutex`. `main` (or the binding's `Threads`)
joins them all and then prints, or returns to Javascript, the counters.

### What is hard

- The order of the unlocked reads and writes of `zsend.complete`,
  `zsend.finish` and `zrecv.complete`; `zsend.complete` is read twice for one
  packet.
- The handle closed by one thread and used by another.
- A thread that fails in the middle of several; a join that may never return.
- The last element of a subshard: three tests (32 bits, end, range) whose
  order matters, an end index with two cases, an ignored failure.
- The cap on probes is divided among threads whose parts are not equally full.
- The tree of prefixes: splitting, merging, stale counts, the boundary
  between radix array and tree.
- Everything is kept in globals, and the binding can be called again; its
  exceptions do not end the functions that throw them.
- Fields are declared in one place, added in another and found by position.
- A range of addresses handled in two byte orders; messages of the kernel whose
  parser keeps values from one message to the next.
- Privileges dropped by one thread while another opens a capture.
- Callbacks of the banner grabber that end a connection, and read the next
  lines from inside.

The list by source line, with the properties that cover each, is under
`hazards` in `PROJECT.json`.

### What makes each component correct

- *Scan threads*: no use of a closed handle; completion is announced only when
  all threads have stopped; the cooldown is given in full; results are
  counted once and never above the limit; the totals are the sums; main is
  last; the scan ends.
- *Shards*: the subshards of all threads of all instances partition the group;
  a thread probes the addresses of its own subshard, each once, all of them
  unless it is stopped, and not more than its cap.
- *Constraint*: an address has the value last set; counts and indices agree
  with the values; the tree is as small as it can be.
- *Blacklist*: allowed is what the whitelists say minus what the blacklist
  says and 0.0.0.0.
- *Response handling*: only answers to this scan's probes are counted, a host
  is unique once.
- *Ports and source addresses*: a reply to a port a probe was sent from is
  accepted; every probe leaves from an address of the range asked for.
- *Fields, filter and output*: every record has the fields declared, in that
  order; the rows are those that the filter means; Redis gets every address
  once and in order, and the buffer is never written past its end.
- *Command line and binding*: a scan is started with values that make sense
  together, by a process that still has its privileges, with nothing left over
  from another scan, and it ends.
- *Gateway*: the hardware address is that of the gateway.
- *Banner grabbers*: every line is tried once, at most so many at a time; every
  outcome is reported; the program ends when all have been.

## 2. The modules

| Module | Models | Extends / uses |
|---|---|---|
| `Scan` | the threads of one scan | |
| `ScanPromise` | what a scan promises, without threads | instantiated by `Scan` |
| `Counting` | lemmas that the proofs share: induction, recursion, sums, powers of two | |
| `ScanProofs` | the invariant of `Scan`, theorems on safety, results, totals, the end and the refinement | `Scan`, `Counting` |
| `Cyclic` | the group, `find_primroot` | |
| `Shard` | `make_cycle`, `shard_init`, the walk and the probes of each thread | `Cyclic`, `IndexWalk` |
| `IndexWalk` | the walk on indices instead of group elements | |
| `ShardProofs` | theorems about the group, the walks and the refinement | `Shard`, `Counting` |
| `Constraint` | the tree, the counts, the radix array | |
| `Blacklist` | `blacklist_init` and the queries | `Constraint` |
| `BlacklistProofs` | theorems about the tree, its counts and indices, and `Blacklist` | `Blacklist`, `Counting` |
| `Response` | validation, the probe modules, the paged bitmap, `packet_cb` | |
| `Record` | the fields of a record, their definitions, the filter | |
| `Output` | `packet_cb` from the record on, the output modules, the Redis buffer | `Record` |
| `ReceiverProofs` | theorems about `Response` and about `Output`, the two halves of `packet_cb` | `Response`, `Output`, `Counting` |
| `Gateway` | netlink answers, the default gateway, source addresses | |
| `ZConf` | `zconf` and what both ways to configure it share | `Gateway` |
| `CommandLine` | `main` and the first half of `start_zmap` | `ZConf` |
| `Binding` | `LibZMAP` and `Config` | `ZConf` |
| `Session` | a run of `zmap` or a script with several calls, from the configuration to the close | `CommandLine`, `Binding` |
| `SessionProofs` | theorems about `Session` | `Session`, `Counting` |
| `GrabPromise` | what a banner grabber promises | instantiated by the next two |
| `BannerGrab` | the event loop of the C banner grabbers | |
| `BannerGo` | the goroutines of the Go banner grabber | |
| `BannerGrabProofs`, `BannerGoProofs` | theorems about the two | `BannerGrab`, `BannerGo` |
| `MCScan`, `MCShard`, `MCBlacklist`, `MCResponse`, `MCOutput`, `MCSession`, `MCBannerGrab`, `MCBannerGo` | instances for TLC | |

### Scan

Each thread has a program counter: `mpc` for main, `spc[i]` for send thread
`i`, `rpc` for the receiver and `monpc` for the monitor. A step is what a
thread does between two accesses to shared state another thread can tell
apart; a critical section whose data are all protected by its mutex is one
step (`CallbackBegin` for a thread that is not the last), one that is not is
several (`CallbackFinish`, `CallbackPublish`: `zsend.finish` and
`zsend.complete` are read outside). `packet_cb` is two steps, `RecvPacket` up
to the first read of `zsend.complete` and `RecvCount` from the second. The
monitor's use of the handle is split between the test of `pc` (`MonLock`) and
the use (`MonUnlock`); `pcap_close` and `pc = NULL` are `RecvClose` and
`RecvForget`. The send loop reads `zrecv.complete` in `SenderTest`, before and
apart from its other tests (`MustStop`) and from `sent++` (`SenderNext`), so that
the receiver may set it in between. `late` counts the probes a thread sends after
it was set (a history variable).

The network is `probed` and `Arrival`: any probed address may answer, once,
several times, late or never; a probe may fail to leave (`SenderSend`).
`sockaddr` is the static of `send-linux.h` that every thread zeroes and
refills; a probe sent in between always fails. Time is three saturating
clocks that `Tick` advances: since `zsend.finish`, since `zsend.start`, and
since the last probe (`silence`, a history variable).

The unlocked words are read and written in program order. The source does not
guarantee this (they are plain variables, a data race in C), but each of the
stores in question is followed by calls the compiler cannot see through, and the
order is what the code relies on; what a compiler or processor that reorders
them would do is not modelled.

The binding's `Threads` is `start_zmap` without a monitor: `Monitor = FALSE`.

`ScanPromise` is the abstract specification: probes go out while it is
sending; probed hosts are reported once each, at most `max_results` of them; it
stops listening when it has those or when more than the cooldown has passed
since the last probe; and both stop. `Scan!PromiseKept` maps `sending` to "some
thread has not left its loop", `listening` to the receiver's place, `hosts` to
`seen` and `quiet` to `silence`.

### Cyclic, Shard, IndexWalk

`Cyclic` is the group: `Power` is a table of powers, `Additive` the search of
`find_primroot` from a random word to the next number coprime with the order.
`Shard` lets TLC choose every random word and every offset, and gives every
subshard (instance, thread) its own `params`, `current` and program counter.
`TooLarge`, `ReachedLast`, `Found` and `PassOver` are the four ways one round of
`shard_get_next_ip` can go, `skip` the call from `shard_init` and `next` the
one from `send_run`; a thread that comes to its end is `"done"`, one that is
stopped by its `max_targets` is `"capped"`. `Word` stands for 2^32. Products are
taken modulo its square as `uint64_t` does, and what `find_primroot` returns is
cut to a `uint32_t`; its candidate is one as well, so that a search that passes
2^32 begins again with 0, by which `check_coprime` divides (`Drawable`; -1 is
the generator of such a cycle, and `MakeCycleFail` its end).

A thread is `Regular` once it has been initialised and `Able` to walk as the
code means it to. Five things that the code does not exclude make it unable, and
the properties of the walk leave them out because they fail there:

- the generator does not generate the group. `GeneratorSound` shows that this
  takes a power of the primitive root that was cut to 32 bits, which only the
  group of 2^32+15 can have;
- the group has fewer elements than there are subshards (255 instances of 255
  threads in the group of 257, `src/shard.c:45`);
- the subshard has no address, so that the search of `shard_init` goes past its
  end into the next subshard (`src/shard.c:75`). An offset of 0 is such a case;
- the last element is 2^32 or more, which a 32-bit candidate never equals
  (`src/shard.c:104`);
- a product passes 64 bits (`src/shard.c:94`), with the largest group only.

`IndexWalk` replaces an element g^(k+1)*offset by k. Multiplication by g^tot
becomes addition of `tot` modulo the order. `Shard!WalkKept` is the refinement:
the discrete logarithm of each regular thread's `current` is a walk of
`IndexWalk`; one that is not regular stands still there, so that `WalkKept` says
nothing of it.

### Constraint, Blacklist

The tree is the function `leaf` from the prefixes of the leaves to their
values. `set_recurse` splits a leaf above (`Put`), drops what is below, and
merges equal halves on the way back up (`Merge`). `colour` is a history
variable: the value last set for each address. `constraint_paint_value` fills
`count` and `radix` for the current tree (`Radix` is its loop over the entries,
`PaintFor` the counts of the nodes); `constraint_set` only clears
`painted`, so that stale counts are in the model as they are in memory.
`Blacklist` reads the sources in the code's order; an entry is what parsing and
name resolution make of a line. Byte order is left out: every caller swaps once
on the way in and once on the way out.

### Response

`validate_gen` is two steps wherever it is called, writing the static
`aes_input` and encrypting it, and any other thread may come in between:
`SenderGenerate` and `SenderEncrypt` in `send_run`, `ReceiveGenerate` and
`ReceiveValidate` in `packet_cb`, `RegenerateInner` and `ValidateInner` in the
ICMP module. A validation is the address that was encrypted; those of different
addresses are taken to be different (the ICMP module compares 16 bits of it).
Its second word, from which the ports come, is `word`. `get_src_port`,
`check_dst_port`, the `validate_packet` of each module, `pbm_check` and
`pbm_set` bear the names of the source; `CRem` is C's remainder. `Accept` is
`packet_cb` from `pbm_check` on.

The network is `Answers` (any probe, any number of times, also from another
address) and `Strays`. `sent` holds what has been made, `verdict` how the last
packet was judged, `succeeded` which hosts have been counted and `answered` from
which a valid response was taken; the last three are history. Two choices stand for memory: what the ICMP and UDP modules take
for the header an ICMP error quotes lies 20 bytes further on
(`sizeof(struct icmp)` is 28, the header of an error has 8), in the padding of
the probe for the address and past it for the identifier. So an error has no
probe's validation here, and ports as they come.

`Scan` has the same callback with fewer details: a packet there is one that is
valid, and its concern is what the other threads do meanwhile.

### Record, Output

A record is a sequence of `[name, type, val]`, made by `RecordOf` as
`packet_cb` makes it; `DefsOf` is what the three modules declare for it. All
numbers of a packet that no one tells apart are one number. The text of a filter
is the sequence of its comparisons and of the words between them (without
parentheses); `filter_expr` makes the tree that yacc makes of it by the
precedence of the two operators, `Resolve` gives every node its index, and
`evaluate_expression` reads by index, as the code does. The tree is a function
from nodes to what they hold, as the heap is in C; a node is named by the stretch
of comparisons it stands for, so that its children are two shorter stretches
(`make_op_node`) and the nodes reachable from `Root` are those of the program.
`Meaning` says what a
filter means without any of these. A word that the lexer does not read as one
(`T_FIELD`) makes the filter invalid; a number goes through an `int`.

`Output` chooses a probe module, an output module, fields, a filter and the
arguments for Redis, and hands over up to three responses. `redismodule_flush`
either pushes everything or fails, with any of the pushes carried out, and
`log_fatal` ends the program. `file` holds the rows written, `got` is a history of
the records made. Its actions are `Refuse`, `Start`, `Receive` (all of `packet_cb`
from the record on) and `CloseModule`.

### Gateway, ZConf, CommandLine, Binding, Session

An answer of the kernel is the sequence of datagrams that `recv` returns;
`read_nl_sock` says what is in the buffer after it, and the two parsers fold
over the messages, with the variables that keep their values from one message to
the next. An address has two bytes of four values each, so that the two byte
orders differ.

`CommandLine` has one action per paragraph of `main`, in order; each chooses
what the user gave. `Binding` has one action per function of `Config`.
`Configure` sets fields of `zconf`, `Given` does so for an option that the user
gave and counts it, `End` ends the process (its second argument says how), and
`Throw` records a pending exception and goes on, as `ThrowException` does.
`Session` puts them before `send_init`, the output module and the threads, which
are reduced to their beginnings and ends: `Scan` has the rest. `euid` changes in
`drop_privs`, and the receiver opens its capture whenever it gets to it. A send
thread is counted in `spawned`, then in `sending` once its `send_run_init` is done
(`SenderInit`), and in `finished` when it has reported (`SenderEnd`); one whose
`send_run_init` fails returns without a report and keeps `send_mutex`
(`SenderInitFail`, in `failed`), so that no thread gets into the send loop after
it. `zsend.complete` is set when as many threads have reported as
`zconf.senders` says, which never happens when that is 0.

### BannerGrab, BannerGo

`BannerGrab` has an action per callback, and one for each way a line can go in
the loop of `stdin_readcb`. `decrement_cur_running` calls `stdin_readcb`, whose
loop may call `decrement_cur_running` for a line that fails at once: `frames`
counts those calls, and the end is looked for as each of them returns. What
libevent does is in the head comment and external. `forge-socket` shares the
structure, with connections that are made at once and lines it passes over;
`program` tells which of the two runs.

`BannerGo` has a program counter per goroutine, and channels as queues with room
for `N` values.

### How they fit together

Each module assumes what another one shows. `Shard` takes addresses to be the
indices below `allowed`, between 1 and `Word - 1`: `Blacklist!IndicesAllowed`
says that such indices stand one to one for the allowed addresses, and that
there are neither none nor all of them. So `Shard!OwnOnce` (no index twice)
is "no address twice", and with `AllowedExact` "no blacklisted address ever".
`Scan` takes each thread's number of addresses as an arbitrary number up to
`MaxShare` and every address as its thread's own: that is `OwnOnce`. What a
thread does when its subshard is wrong is in `Shard` only.
`Session!LaunchSane` says what `Shard` and `Scan` assume of a scan that the
command line starts: at least one port, a shard number below the number of
shards, no more threads than targets. A scan of the binding keeps none of
that, which is why the property names the program. `Output` begins where
`Response!Accept` hands a record over, and `Output!success_index` is what
`Response` calls the success of a packet.

## 3. What is checked

All runs enumerate their state space completely.

| Run | Question | Instance |
|---|---|---|
| `scan_threads` | Are locks, handle, completion, cooldown, results, totals and the order of the ends right in every interleaving, also when a send thread fails? How much is still sent when the results are full? | 2 senders of up to 2 addresses, with and without dry run, `max_results` 2 and 3 packets, cooldown 1, both filters, monitor, a send thread may fail |
| `scan_live` | Does the scan end, dry run or not? Do the threads implement `ScanPromise`? | 2 senders, with and without dry run, `max_results` 1, 1 packet, 2 streams, run-time limit, cooldown 1, monitor |
| `scan_initfail` | *violation*: the scan does not end when `send_run_init` fails | 2 senders |
| `shard_threads` | Does each thread of each instance probe its own subshard, once, wholly, in one pass and within its cap? Is every walk one of `IndexWalk`? When is an index out of range looked up? | order 16, `Word` 16, 2 instances of up to 3 threads, 8 or 15 addresses, `max_targets` 1, 5 or 16 |
| `shard_coverage` | *violation*: not every address is probed | order 16, 3 threads, 8 addresses |
| `blacklist` | Are values, counts and indices of the tree right after any prefixes in any order? Is exactly the right set allowed, and indexed? | 8 addresses, radix length 2, up to 3 entries per source |
| `response` | Which packets are valid, which repeats, and what is counted, when threads disturb each other? | 2 senders, 2 targets and 1 other address on 2 pages, 2 streams on 3 ports, words of 4 values, 3 packets, `max_results` 2, each of 3 modules |
| `response_race` | *violation*: a SYN-ACK to a probe is not a success | 1 stream, TCP |
| `output` | Has every record the fields declared? Are the rows what the options and the filter mean? Does Redis get every address once? | 3 probe modules, 4 output modules, 4 choices of fields, some 130 filters of up to 3 comparisons, up to 3 responses, a buffer of 2, pushes that may fail |
| `session` | What is a scan started with, from where does it send, has it its privileges, does it end unless a thread is missing, and does it leave anything to the next one? | command line with up to 2 options, or a script with up to 2 calls; root or not; 2 interfaces, 3 source ranges, 3 × 3 answers of the kernel, up to 3 targets, 0 to 3 send threads, `pthread_create` and `send_run_init` may fail |
| `banner` | Are slots and statistics right however callbacks nest? Does no line wait beside a free slot? Does the program keep `GrabPromise`? | both C programs, 4 lines, 2 slots |
| `banner_go` | Is nothing sent on a closed channel, does nothing deadlock, is every result printed before the end? | 2 grabbers, 4 lines |

`CHECK_DEADLOCK FALSE` is set where the program comes to an end: threads that
have exited, packets that have all arrived, a process that has ended. Deadlocks
that matter are what `ScanEnds`, `ScanReturns` and the two `PromiseKept` of the
grabbers exclude.

### Why the bounds are enough

- *Two send threads* are the least for which there is a last one and one that
  is not; nothing in the code compares more than two threads. Two addresses let
  a thread be stopped between two of them; three packets against a limit of two
  give a repeat, a result at the limit and one above it; a cooldown of one tick separates "at
  once" from "in time".
- *A group of order 16*: 16 with 6 subshards leaves a remainder, with 2
  it leaves none; 17 is just above `Word` 16 as 2^32+15 is just above 2^32, so
  one element is not a `uint32_t`. Every generator and offset is enumerated.
  15 addresses in a group of 16 fill it, 8 leave half of it out; with fewer
  targets than threads `senders` is cut down. `shard_threads` lets the threads
  run one after the other (`InOrder` in `MCShard`): they share nothing that a
  step of `Shard` changes, and no property looks at two that are half-way.
- *Eight addresses*: a prefix, a prefix within it, its sibling and one that
  meets none of them exist, as do leaves above, at and below the radix
  length. `blacklist` begins either with `blacklist_init` or, for the tree on its
  own (`TreeInit` of `MCBlacklist`), with any root: all trees over eight
  addresses are reached, so more steps add none. Its `VIEW` takes states that
  differ only in what an earlier painting left behind for one: while `painted` is
  false no operation reads it, and the next painting makes all of it anew, so
  that nothing that is reached later, and no property, depends on it.
- *Three ports, words of four values, two streams*: windows that fit, that wrap
  round at the end of the range, and that wrap round with the word. Addresses
  1, 2 and 3 on pages of two share a page (2, 3) and an offset (1, 3); address 0
  is 0.0.0.0. Three packets are a success, a repeat of it and another host, or
  a failure, a success and one too many.
- *Three responses, a buffer of two* (`output`): a flush that is due, and a rest
  at the close. Three comparisons and two words between them are the least for
  which precedence matters, in both orders. The filters have every operator,
  names that do not exist, that cannot be written, of the wrong type, and
  literals that are below, equal to, above and too large for an `int` of three bits.
- *Two options* (`MaxOptions` of `session`): every pair of options meets, in
  each of the two programs; a byte of four values (`ByteWord`) lets a number of threads
  and a shard become 0, a port word of four a port out of range, a word of sixteen
  a rate negative as an `int`. The random word (`Words`) is one number: the source
  addresses are checked for all destinations. Two calls
  are one that finds what another left behind.
- *Four lines, two slots* (`banner`): a slot freed while a line waits, and two
  that fail at once from inside each other. Two goroutines and four lines fill
  every channel.

### Fairness

Threads run: weak fairness for main, each sender, the receiver, the monitor and
time. Two steps of the receiver have strong fairness: `RecvReady` and
`RecvClose` wait for `recv_ready_mutex`, which main takes again and again while
it polls and the monitor once in every turn of its loop. Both release it each
time and spend most of their time without it (the monitor sleeps for a second
between two turns), so the receiver finds it free infinitely often and, with
any mutex that does not starve a waiter for ever, gets it. No fairness is
assumed for packets (`Arrival`), and none for a failure.

`Session` has weak fairness for the main thread from the threads' start on, for
the opening of the capture, for a sender's `send_run_init` and its end, and for
the receiver's end after the last of them; not for `RecvEnough`, which rests on
packets, and for no failure. A sender that waits for a `send_mutex` nobody gives
back stays where it is. `BannerGrab` has it for
events of stdin, for the loop inside a callback, and for the end of each
connection, which libevent's timeouts guarantee (`-r 0` and `-c 0`, which switch
a timeout or all reading off, are left out). `BannerGo` has it for each goroutine and
for `main`; a connection has a deadline.

### What the refuted runs show

- `scan_initfail`: `send_run` returns with `send_mutex` locked and without its
  callback when `send_run_init` fails (`src/send.c:186`). The other threads
  block, `zsend.complete` is never set, and the scan hangs.
- `shard_coverage`: the cap per thread is `targets / threads`
  (`src/shard.c:60`) also when there is no cap on the scan, and the addresses
  of a walk are not spread evenly. Addresses of a fuller subshard are left out.
- `response_race`: two send threads, or a sender and the receiver, are between
  the writing and the encryption of `aes_input` (`src/validate.c:43-45`). A
  probe goes out with the validation of another address, or an answer is
  checked against that of another, and is dropped. `GenuineAccepted` shows
  that a host that answers is overlooked for no other reason, a window of ports
  that wraps round aside; `StrayRejected` that a packet with no probe's
  validation is never accepted for it.

### Also seen while modelling

These follow from the models, or from the code next to them, without a run:

- `shard_init` ignores that `shard_get_next_ip` found nothing
  (`src/shard.c:75`), and an offset of 0 is not excluded (`src/cyclic.c:141`).
  Either way an index out of range is looked up, and the assertion at
  `lib/constraint.c:231` ends the process. A scan of a few addresses with as
  many threads nearly always has such a thread. `LookupSound` shows that there
  is no other cause, a last element of 2^32 or more aside.
- `check_dst_port` means to reject a port out of range and returns -1, which is
  true (`src/probe_modules/packet.h:85`; the comment at line 79 says 0). For UDP
  the ports are all that is checked.
- `find_primroot` steps from a candidate to the next without regard to the
  prime. In the group of 257 a candidate of 256 becomes 257, and the assertion
  at `src/cyclic.c:147` fails: one scan in 257 of at most 256 addresses
  (`MakeCycleFail`). In the group of 2^32+15 the candidate may pass the range of
  its `uint32_t` and divide by 0 (`src/cyclic.c:98`), and what is returned, a
  `uint64_t` returned as a `uint32_t` (`src/cyclic.c:120-121`), may be no
  generator.
- Nothing bounds instances times threads by the order of the group
  (`src/shard.c:45`): subshards past it overlap with others.
- The targets left over by the division among threads are given out by
  comparing with `shard_id`, which all threads of an instance share, not with
  `sub_id` (`src/shard.c:62`): the cap is exceeded by up to `threads - 1`.
  `CapNearlyKept` states what does hold.
- With the prime 2^32+15 a product of two elements may exceed 64 bits when both
  are within some fifteen of 2^32 (`src/shard.c:94`), and a last element of
  2^32 or more is never recognised by the 32-bit comparison
  (`src/shard.c:104`).
- `send_run_init` zeroes a static every thread sends with
  (`src/send-linux.h:56`); a probe sent meanwhile fails and is not repeated.
- `zrecv.complete` is set while threads still send when `max_results` is
  reached, where `src/state.h:136` says "has the scanner finished sending?".
- `packet_cb` reads `zsend.complete` twice (`src/recv.c:92` and `:103`): the
  record's `cooldown` and the counter may disagree on one packet (`TotalsExact`
  shows that it is at most one).
- The difference of two remainders at `src/probe_modules/packet.h:91` is within
  the range already, so that C's `%` leaves it alone and the test is "not above
  the last port of the window". With more than one stream a window that wraps
  round refuses the scan's own ports and accepts others (the condition
  `InOrderWindow` of `GenuineAccepted` is needed: without it TLC finds such a
  window).
- Only successes are marked in the bitmap (`src/recv.c:101`): a host that
  refuses twice is not a repeat, where
  `src/probe_modules/probe_modules.c:99` describes the field as "Is response a
  repeat response from host". Read as "this host has responded before" the field
  is wrong for such a host. `RepeatSound` states what holds under any reading: a
  repeat is always of a host that has responded before, and a host that has
  succeeded is always a repeat. It says nothing of the host in between.
- ICMP errors about the scan's own probes are not recognised
  (`src/probe_modules/module_icmp_echo.c:114`, `module_udp.c:305`): see
  `Response` above.

The configuration and the binding:

- The default output module of the command line is `csv`, which
  `output_modules[]` does not register here: without `-O`, or with `simple_file`
  or `extended_file`, `zconf.output_module` is NULL and is used for its name at
  `src/zmap.c:554` (`InitOutput` ends `"crashed"`), as it is by `--help` (`:847`).
- `-O redis` sets the field `saddr`, and the module's init wants `saddr-raw`;
  the fields of `extended_file` exist for the TCP module only.
- Source ports are cut to 16 bits before their range is enforced
  (`src/zmap.c:999-1002`); 0 or 256 threads leave no send thread, and the scan
  never ends; a seed of 0xFFFFFFFF becomes 0, which stands for a random key; a
  rate above 2^31 is negative.
- `ThrowException` does not end the function: an unknown probe module is used
  all the same, a gateway that was not found is looked up, a thread that was not
  created is joined.
- The binding clears `fsconf` after the probe module's fields are known and never
  sets `success_index` (`src/src/config.cc:293`): index 0 is the field `saddr`, a
  pointer, and every valid response counts as a success.
- The number of shards is read from `shartotal` when `shardtotal` is there
  (`src/src/config.cc:239-240`), and the README's example says `shardotal`: 0
  shards divide by zero in `shard_init` (`SendInit` ends `"crashed"`).
- A second call of the binding ends the process at the assertion of
  `blacklist_init` (`lib/blacklist.c:221`). Nothing resets `recv_ready`,
  `zsend.complete` or `zrecv` either; that no flag is left to another scan
  (`FreshLaunch` in `ScansApart`) holds because of the assertion alone.
- In three cases `zsend.complete` is never set: the scan has no send thread, a
  send thread could not be created and the binding went on, or a thread's
  `send_run_init` failed. The receiver then waits for ever, `max_results` of the
  command line aside. `ScanReturns` is stated for the other scans; `ClosedLast` in
  `ScansApart` says of these that nothing is closed while a thread sends, and that
  a script is not called back as if its scan had been done.
- The callback gets one argument where the README's takes two; the binding's
  cooldown is 0; its `Summary` divides by the number of probes sent.

The network's side:

- Both netlink parsers keep `read_nl_sock`'s -1 in an unsigned
  (`src/get_gateway.c:296`, `:372`) and go on with what is in the buffer; a
  neighbour without a hardware address has that of the one before it; `iface` is
  overwritten by every route, after the source address was taken from the
  interface it named. `GatewayFound` states what is right.
- `get_src_ip` adds a number in host order to one in network order
  (`src/send.c:158`): a range over more than its last byte is left.
  `SourceInRange` covers the others.

Output:

- `redis_parse_connstr` cuts the list off the string it is given, and is called
  twice (`src/output_modules/module_redis.c:48`, `:61`): of a `local://` socket
  the last component is lost, and the connection goes elsewhere (`redis_connect`).
- Filter literals of 2^31 and more become negative and then large; JSON numbers
  go through an `int`; the ICMP branch of the UDP module replaces `saddr` and
  leaves `saddr-raw`; fields with `-` or `_` in their names cannot be filtered.

The banner grabbers: a last line without a newline is never tried; a socket
that `forge-socket` gives up on is not closed.

## 4. What is proved

### Scan (`ScanProofs`)

For any number of send threads, addresses, streams, packets, any limits and any
setting of the options (assumption `ScanAssumption`: the parameters are natural
numbers and Booleans, at least one stream):

- `Invariance` (`ScanInv`), `TypeCorrect`, `MutualExclusion`, `PcapSafe`
  (`PcapNotUsedAfterClose`), `CompletionSound` (`CompleteMeansStopped`),
  `CooldownKept` (`CooldownHonoured`).

The last four are not inductive alone. `ScanInv` adds what the threads know at their program
points: an address is left where one is being sent (`SendFacts`, without which
`left` could go below 0); the packet in `packet_cb` and its marks
(`PacketFacts`); which threads main has not started (`SpawnFacts`); when the
handle is open, and that the monitor is inside the mutex while it uses it
(`HandleFacts`); that a thread in `complete` is past its last probe, that the
one that publishes saw them all, and that `zsend.finish` is not older than the
last probe (`CompletionFacts`). The last is the heart of the cooldown: the
receiver leaves when `now() - zsend.finish` exceeds it, and from
`since_finish <= silence` the silence has lasted as long. Each conjunct has a
lemma for its preservation by `[Next]_vars`; `InvStep` combines them.
`scan_threads` checks `ScanInv` with TLC as well.

Five more results are built on `ScanInv`, each with a strengthening of its own:

- `LateProbesFew` (`FewLateProbes`) from `LateFacts`: a thread that has tested
  `zrecv.complete` but sent nothing of the next address has sent no probe too
  late, and one that is sending at most those before the stream it is at. When it
  is through with the address, its next test finds `zrecv.complete` set.
- `ResultsCorrect` (`ResultsExact`) from `ResultFacts`: hosts seen are hosts probed, the
  packet in hand came from one, and `zrecv.complete` is the receiver's last
  store. `CountStep` is the step that counts: it starts below the limit,
  because `packet_cb` tests it first, and adds at most one host.
- `NothingSkippedCorrect` (`NothingSkipped`) from `SkipFacts`: a thread that
  leaves has done its share unless the results are full or there is a run-time
  limit. `StopReason` shows that `zrecv.complete` cannot be a reason before
  all senders have reported unless the results are full, and `FullStays` that
  they remain so.
- `MainLast` (`MainIsLast`) from `EndFacts`: which threads main has joined, that
  a thread near its end has reported back or failed with `send_mutex` in its
  hand, and that somebody sets `zsend.complete` when all have reported.
- `TotalsCorrect` (`TotalsExact`) from `SentAccounted` and `LagFacts`: the
  totals are the sum over the threads that have reported, whichever order they
  did it in (`SumOneMore`, as one more thread reports), and the two reads of
  `zsend.complete` in `packet_cb` disagree about the packet in hand at most.
- `PromiseSafe`: the threads implement the safety part of `ScanPromise`. Only
  the lemmas `PromiseSender` and `PromiseRecv` have steps that are not stutters;
  the receiver's end rests on `CooldownHonoured`, a result on `ResultsExact`.

`MainLast` and `PromiseSafe` assume `N > 0`: with no send thread nobody reports, and the
receiver has nothing to wait for.

### Shard (`ShardProofs`)

For any group, numbers of instances, threads and addresses, `max_targets`,
generator and offset. `GroupAssumption` says what the table of
`src/cyclic.c` gives: no product of two elements is 0 modulo the prime, the known
root generates the group, and the factors listed divide the order and miss none of
its divisors. `ShardAssumption` bounds the addresses by the prime, as `get_group`
does.

- `GeneratorSound`: what `find_primroot` returns generates the group. A
  candidate coprime with the order has an inverse modulo it (`CoprimeInverse`:
  the smallest positive combination of the two divides both, so by
  `check_coprime` it is 1), and the root is a power of the candidate's power.
- `ShardInvariant`: `ShardInv` has two parts. `ThreadInv` holds of every thread: its
  counters stay within `max_targets`, and what it sends is in range. `WalkInv`
  holds of a regular one: for some index of its residue class it is at that
  element, has been through the elements up to it (`Upto`), has probed the
  eligible ones of those it is done with (`Rest`), each once, and has counted
  the others.
- `ProbedOnce`, `WalksComplete`, `OnePassOnly`, `LookupsSound` and `CapKept` follow
  from it: `OwnOnce`, `WalkComplete`, `OnePass`, `LookupSound`, `CapNearlyKept`.
- `WalksImplemented`: `WalkKept`, if the group has an element for every
  subshard (`EnoughElements`). Without this there is no partition to implement;
  the run keeps it with 6 subshards of 16 elements.
- `VisitedShared`: no two regular threads have been through the same element, and
  every element has been gone through by a regular thread at its end or is of the
  subshard of another thread, which is under way, stopped by its cap or not regular.
  It speaks of what the threads of `Shard` have been through (`walked`), not of
  `IndexWalk`; of what an irregular thread goes through it says nothing. Together
  with `BlacklistIndices` this is how the subshards of a scan share out its addresses.
- `AddressesShared`: with a generator of the whole group and an offset that is
  not 0, each allowed address is an element of one subshard (`ElementExists`,
  `OwnDisjoint`); no regular thread of another
  subshard probes it, and its own thread, if regular and at its end with no limit
  on the targets, has probed it exactly once. This is what remains of "every host
  once" beside what `shard_coverage` refutes: an address is missed only by a
  thread that is stopped by its cap or is not regular. `AddressOwned` is stated in
  `ShardProofs`, not in a run.

The argument is arithmetic, twice. In the exponents: `EndValue` computes the end
index from the remainder of the order modulo the number of subshards,
`LastIndex` shows that the index before it is the last of the residue class. In
the group: powers of a generator differ (`PowersDiffer`), come back to 1 after as
many as the order (`PowersWrap`) and add up (`PowersAdd`), so that an element
has one index (`ElementsDiffer`) and a multiplication by `factor` adds `tot_shards`
to it (`ElementStep`), as long as no product passes 64 bits.

### Constraint, Blacklist (`BlacklistProofs`)

For any lengths of an address and of a radix entry, any values (`blacklist_init`
has two), networks, names
and numbers of lines:

- `ConstraintSafe`, `ConstraintTree`, `ConstraintCounts` and
  `ConstraintIndices`: whatever prefixes are set in whatever order, and
  whenever the tree is painted, `TreeSound`, `CountExact` and `IndexExact` hold.
  `ConstraintInv` says that the leaves partition the addresses, that their values
  are those last set, that no two of them could be one, and that a painting is that of
  the tree it was made from;
- `BlacklistSafe`, `BlacklistTree`, `BlacklistAllows` (`AllowedExact`) and
  `BlacklistIndices` (`IndicesAllowed`): the same for the constraint inside
  `blacklist_init`, and what it allows. `BlacklistInv` says that after each line
  the colours are what the lines so far say.

Three lemmas carry it. `SetFacts`: `set_recurse` changes exactly the addresses of
the prefix and leaves a tree that cannot be made smaller (`PutFacts` for the way
down, `MergeFacts` for the way back up, where only the prefix and its sibling can be
equal). `PaintedFacts`: the indices below the count are, one to one, the
addresses of the value; those of the radix array by `BigIndices` (block and
place in it), those of smaller leaves by `SmallIndices`, along the way down
(`WalkFacts`: what has been passed and what is still to go add up to the
index). `FoldFacts`: the addresses of a host name may be set in any order.

### Response (`ReceiverProofs`)

For any addresses, send threads, page size, width of a word, port range,
streams, limits and filters (`ResponseAssumption`), and whatever the threads do
to each other's encryptions:

- `ResponseTypes`, `UniqueCorrect`, `OneRowCorrect`, `StrayNeverValid` and
  `RepeatCorrect` from `ResponseInv`. Its heart is `BitmapFacts`, the bitmap
  holds the hosts that have succeeded, and the lemma `SetMarksOne`: `pbm_set`
  marks one address and no other, because page and offset together are the
  address (`PlaceUnique`). `CountFacts` adds that a packet is only taken below
  the limit.
- `GenuineCorrect` from `AnswerFacts`: every probe has a port of the window of
  the address it was encrypted for, and the verdict is the module's. The
  arithmetic is `WindowAccepted`: `check_dst_port` takes every port that
  `get_src_port` gives, for every range and word, if nothing wraps round.

### Output (`ReceiverProofs`)

For any packets, source addresses, lists of fields, filters of any length, arguments
and buffer size, and any number of responses. `RecordAssumption` says that an int
and a `uint64_t` have some widths, the first even and below the second, and that an
address is a number of the first; `OutputAssumption` that the modules are those modelled,
that what is asked for are names, and that filters and packets have the form of
`Filters` and `Packets`: a filter has one word fewer than comparisons, and its
literals are numbers or words.

- `RecordsAreSound` (`RecordsSound`), `RowsAreExact` (`RowsExact`) and
  `PushesAreExact` (`PushedExact`) from `OutputInv`: what `Start` has derived
  from the configuration stays so (`ConfFacts`, `StartFacts`), every record is
  that of a packet (`GotFacts`), and the buffer is full only when the program has
  been given up (`RoomFacts`). The two exact properties are conjuncts of it.
- By position is by name: `RecordAligned` goes through the three modules, and in
  the UDP module through both branches, field by field; that no name is declared
  twice (`DefsDistinct`) makes the index of a name and the field of that name the
  same thing (`FoundByName`, `RowIsAsked`).
- The filter: `FilterMeans`, evaluating the tree gives the meaning. `On` is the
  meaning of a stretch of comparisons. Its last operator splits it (`LastIsIn`): a
  `||` into one side or the other (`OnOr`), an `&&`, where there is no `||`, into both
  (`OnAnd`), so that a junction means what its children mean together
  (`JunctionMeans`); `EvaluateIs` is the induction on the length of a stretch.
  A comparison is read as it was written if `validate_filter` has let it through
  and its number fits an int (`CheckedField`, `NumberKept`, `FilterTree`).
- The sequences: `Expected` and `ExpectedPushes` pick from the records (`Picked`),
  and one record more adds one element or none (`PickedGrows`, from what
  `FlattenSeq` computes: `FlattenIsJoin`), as `process_ip` adds a row
  (`MatchGrows`) and `redismodule_process` an address (`PushStep`), whether the
  buffer is flushed or not. A flush that fails leaves the run (`FlushFacts`).

`RowsExact` and `PushedExact` suppose that the numbers of the filter fit an int
(`Fits`); of those that do not, see "Output" in section 3.

### Session (`SessionProofs`)

For any options, interfaces, answers of the kernel, numbers of threads and of
calls. `ArgsAssumption` says what an option's parser can return (numbers of the
width of their variables) and what the kernel can answer (`IsAnswer`: a sequence of
datagrams that hold sequences of messages).

`PrivilegesLastLongEnough` (`RootNeverDenied`), from `SessionInv`. What the
options say plays no part: `ConfigStep` sums up every step of the configuration as staying before or after
`blacklist_init`, or being it. Before it nothing has been started unless the
constraint of an earlier call is there, at which this call then stops; from the
wait on, the receiver is past the opening of its capture when `main` goes on to
the threads and to `drop_privs`.

`SessionsApart` (`ScansApart`), from `SessionInv`, `LaunchInv` and `ReportInv`. That
nothing is closed under a running thread is not a matter of the joins alone: the
join of a thread that was not created goes wrong, and that of one that failed tells
nothing. `ReportInv` counts: no more threads have been created or lost than
`zconf.senders` says, and `complete` means that as many have reported, so that none
was lost and none failed. The receiver of a script leaves only then, and `main`
waits for it.

`LaunchIsSane` (`LaunchSane`) and `SourceStaysInRange` (`SourceInRange`) from
`LaunchInv`: what `main` has made sure of by the paragraph it is at
(`MainFacts`), that the variables of `zconf` are numbers of their widths whatever
was converted to them (`ConfTypes`, `RateFits`), that a range of source addresses
that comes as far as `send_init` is in order (`SourceFacts`), and that no more
threads are started than `zconf` says (`ThreadFacts`). `RangeKept` is the
arithmetic of `get_src_ip`: in a range within one last byte, adding a number in host
order to an address in network order (`SwapFacts`) stays within it.

`GatewayIsFound` (`GatewayFound`) from `MacFacts` and lemmas about the folds over
messages: `read_nl_sock` returns the messages of the datagrams up to the one it
stops at (`ReadType`), `GatewayIsFirst` says which message `get_default_gw` takes its
gateway from, `NeighbourHas` that the hardware address is one of a neighbour with
that address.

### BannerGrab (`BannerGrabProofs`)

For any number of lines and slots (`GrabAssumption`): `GrabCorrect`
(`GrabInv`: slots and statistics are exact, no line waits beside a free slot)
and `GrabPromiseSafe`, the safety part of `GrabPromise`. `LoopInv` adds that
lines are read in order (`LineFacts`), which makes the next line one that is
still unread, that no callback is nested deeper than lines have been tried, and
that stdin is closed only when its pipe is empty (`EndFacts`). The lemma `Moves`
is the arithmetic: a connection that changes its state leaves one set and joins
another, and the counters follow.

### BannerGo (`BannerGoProofs`)

For any number of goroutines and lines (`GoAssumption`): `NothingAfterClose`
(`ClosedAfterLast`) and `GoPromiseSafe`, the safety part of `GrabPromise`. The
heart of `GoInv` is `OrderFacts`: until `resultChan` is closed only grabbers
write to `doneChan`, so that what `main` has counted and what waits there are
the grabbers that have left, and all of them when it has counted `N`.
`LineFacts` says that the lines taken are those before the first in `addrChan`,
and that each is with one grabber, in `resultChan` or printed.

### What they share (`Counting`)

Induction is stated for sets: a set that holds 0 and with each number the next
holds all (`Induction`), and a property of finite sets that fails somewhere fails at a
smallest set (`LeastSet`, `FiniteInduction`). From these come the existence of
recursive functions on numbers (`NumberRecursion`) and on finite sets
(`SetRecursion`), by which the recursive functions and folds of the models are
unfolded, sums over finite sets (`SumOneMore`) and powers of two (`PowerSum`).

### Only model-checked

Liveness (`ScanEnds`, `ScanReturns`, and that part of the three `PromiseKept`) is
beyond the prover. Every other property of a passing run is a theorem.
The statements of the three violation runs are false of the code, and those runs show how.

## 5. What is not modelled

Not modelled:

- rate control: a busy-wait loop tuned by floating-point measurements of real
  time. `Rate` of `ZConf` has the number it aims at;
- the capture library's statistics, read and written without a lock at
  `src/recv.c:222`, for display only;
- the layout of packets, checksums, the payloads of UDP probes and their
  templates;
- the text of CSV, JSON, the summary and the metadata; logging, allocation;
- the parsers of options that gengetopt made, and the configuration file, which
  sets the same options;
- AES (third-party code): a random word is any number, a validation is
  the address it was made from;
- the routing-socket variants for BSD of `send_run_init` and of the gateway;
- the commands of `lib/redis.c` that no output module uses;
- a `socket()` of `forge-socket` that fails, which ends the program
  (`examples/forge-socket/forge-socket.c:249`): its kernel module is taken to be
  loaded.
