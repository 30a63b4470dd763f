------------------------------- MODULE Output -------------------------------
(***************************************************************************)
(* From a valid response to the output: the second half of packet_cb       *)
(* (recv.c), the output modules and lib/redis.c.  main has chosen a probe  *)
(* module, an output module, its fields and a filter; the receiver hands   *)
(* over one response after the other; main closes the module.              *)
(***************************************************************************)
EXTENDS Record, TLC

CONSTANTS
  BUFFER_SIZE,
  Probes,        \* bound: the probe modules considered
  Outputs,       \* bound: the output modules considered
  Requests,      \* bound: values of --output-fields, "*" is <<"*">>
  FiltersOf,     \* bound: the filters for a probe module
  PacketsOf,     \* bound: the valid responses for a probe module
  Args,          \* bound: values of --output-args
  MaxResponses   \* bound: responses in a run

ASSUME OutputAssumption ==
  /\ BUFFER_SIZE \in Nat \ {0} /\ MaxResponses \in Nat
  /\ Probes \subseteq {"tcp_synscan", "icmp_echoscan", "udp"}
  /\ Outputs \subseteq {"csvredis", "redis-packed", "json", "node-json"}
  /\ Requests \subseteq Seq(STRING)
  /\ \A pr \in Probes : FiltersOf[pr] \subseteq Filters /\ PacketsOf[pr] \subseteq Packets

VARIABLES
  pc,            \* "init", "run", "closed", or "fatal": log_fatal was called
  conf,          \* [probe, output, fields, filter, both, args]
  defs, translation, expression, success_index,      \* zconf.fsconf and filter
  file,          \* rows written to the file
  buffer,        \* module_redis.c: what is in the buffer, up to buffer_fill
  pushed,        \* the list in Redis
  socket,        \* what redis_connect connected to, and the name of the list
  got            \* history: the records that were made

outputVars == <<pc, conf, defs, translation, expression, success_index, file,
          buffer, pushed, socket, got>>

NoNode == <<>>
Uses(m) == conf.output \in m
Redis == {"redis-packed", "csvredis"}
Files == {"csvredis", "json"}

OutputInit ==
  /\ pc = "init"
  /\ \E pr \in Probes, out \in Outputs, req \in Requests, both \in BOOLEAN,
        args \in Args : \E f \in FiltersOf[pr] :
       /\ out \notin Redis => args.type = "none"
       /\ conf = [probe |-> pr, output |-> out, fields |-> req, filter |-> f,
                  both |-> both, args |-> args]
  /\ defs = DefsOf(conf.probe)
  /\ success_index = fds_get_index_by_name(defs, "success")
  /\ translation = <<>> /\ expression = NoNode
  /\ file = <<>> /\ buffer = <<>> /\ pushed = <<>> /\ socket = <<>>
  /\ got = <<>>

-----------------------------------------------------------------------------
(* Redis *)

\* local:// and a path whose last part is the list.  Parsing cuts the list off
\* the string, which redis_connect then parses once more.
redis_parse_connstr(args) ==
  CASE args.type = "tcp"   -> [server |-> args.server, list |-> args.list,
                               rest |-> args]
    [] args.type = "local" -> [server |-> Front(args.path),
                               list |-> Last(args.path),
                               rest |-> [args EXCEPT !.path = Front(@)]]
    [] args.type = "none"  -> [server |-> <<"tmp", "redis.sock">>,
                               list |-> "zmap_output", rest |-> args]

redis_connect(args) ==
  LET first == redis_parse_connstr(args)
  IN <<redis_parse_connstr(first.rest).server, first.list>>

\* An RPUSH for each, all sent before the first reply is read; the first error
\* ends the program, whichever of the others have been carried out.
redismodule_flush(b, next) ==
  \/ pushed' = pushed \o b /\ buffer' = <<>> /\ pc' = next
  \/ /\ b # <<>> /\ buffer' = b /\ pc' = "fatal"
     /\ \E done \in SUBSET DOMAIN b :
          pushed' = pushed \o FlattenSeq([i \in DOMAIN b |->
                                          IF i \in done THEN <<b[i]>> ELSE <<>>])

SaddrRaw(row) == Named(row, "saddr-raw").val

redismodule_process(row) ==
  LET b == Append(buffer, SaddrRaw(row))
  IN IF Len(b) = BUFFER_SIZE THEN redismodule_flush(b, "run")
     ELSE buffer' = b /\ UNCHANGED <<pushed, pc>>

-----------------------------------------------------------------------------
(* Setting up: main's choice of fields and the module's init *)

Everything == conf.fields = <<"*">>
Names == IF Everything THEN [i \in DOMAIN defs |-> defs[i].name] ELSE conf.fields
Has(n) == n \in Range(Names)

BadField  == ~Everything
               /\ \E i \in DOMAIN conf.fields :
                    fds_get_index_by_name(defs, conf.fields[i]) = NoIndex
Filtered  == conf.filter.cmp # <<>>
BadFilter == Filtered /\ ~(Parses(conf.filter)
                             /\ validate_filter(filter_expr(conf.filter), defs))
BadModule == \/ Uses(Redis) /\ (~Has("saddr-raw") \/ conf.args.type = "malformed")
             \/ Uses({"csvredis"}) /\ ~(Has("success") /\ Has("repeat"))

\* (a server that does not answer is found out by the first push)
Refuse == /\ pc = "init"
          /\ \/ BadField \/ BadFilter \/ BadModule
             \/ Uses(Files)   \* its file cannot be opened
          /\ pc' = "fatal"
          /\ UNCHANGED <<conf, defs, translation, expression, success_index, file,
                         buffer, pushed, socket, got>>

Start ==
  /\ pc = "init" /\ ~BadField /\ ~BadFilter /\ ~BadModule
  /\ translation' = IF Everything THEN fs_generate_full_fieldset_translation(defs)
                    ELSE fs_generate_fieldset_translation(defs, conf.fields)
  /\ expression' = IF Filtered
                   THEN Resolve(filter_expr(conf.filter), defs) ELSE NoNode
  /\ socket' = IF Uses(Redis) THEN redis_connect(conf.args) ELSE <<>>
  /\ pc' = "run"
  /\ UNCHANGED <<conf, defs, success_index, file, buffer, pushed, got>>

-----------------------------------------------------------------------------
(* packet_cb, from the record on *)

Passes(fs, p) ==
  /\ ~conf.both \/ (fs[success_index].val # 0 /\ p.repeat = 0)
  /\ expression = NoNode \/ evaluate_expression(expression, Root(conf.filter), fs)

\* csvredis writes every row, and sends the addresses of the new successes
Wanted(row) == Uses({"redis-packed"})
                 \/ (Uses({"csvredis"}) /\ Named(row, "success").val # 0
                                        /\ Named(row, "repeat").val = 0)

NotNulls(row) == FlattenSeq([i \in DOMAIN row |->
                               IF row[i].type # "null" THEN <<row[i]>> ELSE <<>>])

\* nulls are left out, and numbers go through an int
json_output_file_ip(row) ==
  LET kept == NotNulls(row)
  IN [i \in DOMAIN kept |-> IF kept[i].type = "int"
                            THEN [kept[i] EXCEPT !.val = T_NUMBER(@)] ELSE kept[i]]

process_ip(row) ==
  /\ file' = CASE Uses({"json"})      -> Append(file, json_output_file_ip(row))
               [] Uses({"csvredis"})  -> Append(file, row)
               [] Uses({"redis-packed", "node-json"}) -> file
  /\ IF Wanted(row) THEN redismodule_process(row)
     ELSE UNCHANGED <<buffer, pushed, pc>>

packet_cb(p) ==
  LET fs == RecordOf(conf.probe, p)
  IN /\ pc = "run" /\ Len(got) < MaxResponses
     /\ got' = Append(got, fs)
     /\ IF Passes(fs, p) THEN process_ip(translate_fieldset(fs, translation))
                         ELSE UNCHANGED <<pc, file, buffer, pushed>>
     /\ UNCHANGED <<conf, defs, translation, expression, success_index, socket>>

\* Mutant: the buffer is forgotten at the end.
CloseOnly == /\ pc = "run" /\ pc' = "closed"
             /\ UNCHANGED <<conf, defs, translation, expression, success_index,
                            file, buffer, pushed, socket, got>>

CloseModule == /\ pc = "run"
               /\ IF Uses(Redis) THEN redismodule_flush(buffer, "closed")
                  ELSE pc' = "closed" /\ UNCHANGED <<buffer, pushed>>
               /\ UNCHANGED <<conf, defs, translation, expression, success_index,
                              file, socket, got>>

Receive == \E p \in PacketsOf[conf.probe] : packet_cb(p)

OutputNext == Refuse \/ Start \/ Receive \/ CloseModule

OutputSpec == OutputInit /\ [][OutputNext]_outputVars

-----------------------------------------------------------------------------
OutputTypeOK ==
  /\ pc \in {"init", "run", "closed", "fatal"}
  /\ success_index \in DOMAIN defs /\ Range(translation) \subseteq DOMAIN defs
  /\ \A fs \in Range(file) : Len(fs) <= Len(translation)
  /\ Len(buffer) <= BUFFER_SIZE /\ Len(got) <= MaxResponses

\* Whichever way process_packet goes, the fields of a record are those declared,
\* in that order and of that type or null: success_index, the filter and the
\* translation all go by position.
FieldsAligned ==
  \A fs \in Range(got) :
    /\ Len(fs) = Len(defs)
    /\ \A i \in DOMAIN defs : /\ fs[i].name = defs[i].name
                              /\ fs[i].type \in {defs[i].type, "null"}

\* A field that the filter compares with a string is one in every record, so
\* that strcmp never gets the pointer of a null.
NeverComparesNull ==
  Filtered /\ pc = "run" =>
    \A i \in DOMAIN conf.filter.cmp, fs \in Range(got) :
      conf.filter.cmp[i].lit.type = "STRING"
        => Named(fs, conf.filter.cmp[i].field).type = "string"

\* Every record that is handed on is one that the filter and the modules can
\* read by position, and the buffer of a module never holds more than fits.
RecordsSound == OutputTypeOK /\ FieldsAligned /\ NeverComparesNull

Chosen(fs) ==
  /\ conf.both => Named(fs, "success").val = 1 /\ Named(fs, "repeat").val = 0
  /\ Filtered => Meaning(conf.filter, fs)
Asked(fs) == [j \in DOMAIN Names |-> Named(fs, Names[j])]
Expected == FlattenSeq([i \in DOMAIN got |->
                          IF Chosen(got[i]) THEN <<Asked(got[i])>> ELSE <<>>])

SameField(x, y) == /\ x.name = y.name /\ x.type = y.type
                   /\ x = y \/ (x.type = "int" /\ y.val >= IntMod \div 2)
RowFor(row, fs) ==
  LET want == IF Uses({"json"}) THEN NotNulls(fs) ELSE fs
  IN Len(row) = Len(want) /\ \A i \in DOMAIN row : SameField(row[i], want[i])

\* The rows are the records that the options and the filter, taken by its
\* meaning, let through, in order, each with the fields asked for (JSON leaves out
\* nulls, and shows a number that does not fit an int as another one).
RowsExact ==
  Uses(Files) /\ pc \in {"run", "closed"} /\ Fits(conf.filter)
    => /\ Len(file) = Len(Expected)
       /\ \A i \in DOMAIN file : RowFor(file[i], Expected[i])

Sent(fs) == /\ Chosen(fs)
            /\ Uses({"csvredis"}) => /\ Named(fs, "success").val = 1
                                     /\ Named(fs, "repeat").val = 0
ExpectedPushes == FlattenSeq([i \in DOMAIN got |->
                     IF Sent(got[i]) THEN <<SaddrRaw(got[i])>> ELSE <<>>])

\* Redis gets every address it should, once and in order: unless the connection
\* fails, what is in the list and what is in the buffer make up the records
\* handed over, the buffer is never left full, and it is empty at the end.
PushedExact ==
  Uses(Redis) /\ pc \in {"run", "closed"} /\ Fits(conf.filter) =>
    /\ pushed \o buffer = ExpectedPushes
    /\ Len(buffer) < BUFFER_SIZE
    /\ pc = "closed" => buffer = <<>>
=============================================================================
