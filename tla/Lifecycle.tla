------------------------------ MODULE Lifecycle ------------------------------
(***************************************************************************)
(* The life of the process: main sets up the configuration, the runtime    *)
(* initialises one part after the other, the pipeline runs, and what was   *)
(* acquired is released.  Each initialisation may fail at each of its      *)
(* steps and jumps to the cleanup label meant for it.                      *)
(*                                                                         *)
(* An object is a pair <<kind, index>>.  An initialisation is the sequence *)
(* of the objects that it acquires.                                        *)
(***************************************************************************)
EXTENDS Integers, Sequences, SequencesExt, FiniteSets

CONSTANTS
  MaxCores,    \* bound: cores asked for
  MaxLcores,   \* bound: lcores of the EAL
  MaxDevs,     \* bound: Ethernet devices
  MaxInst,     \* NB_INSTANCE_PER_PIPELINE_STAGE_MAX
  MaxQp,       \* queue pairs of the regex device
  Queues,      \* NB_QUEUE_PER_PORT
  BatchSize    \* input_batches

ASSUME LifecycleAssumption ==
  /\ MaxCores \in Nat \ {0} /\ MaxLcores \in Nat \ {0} /\ MaxDevs \in Nat
  /\ MaxInst \in Nat /\ MaxQp \in Nat
  /\ Queues \in Nat \ {0} /\ BatchSize \in Nat \ {0}

Live == "dpdk_port"
Preloaded == {"text_file", "pcap_file"}

VARIABLES
  pc,       \* the next call of main or of meili_runtime_init, or the label reached
  conf,     \* the accepted configuration; cores is clamped to the lcores
  machine,  \* lcores of the EAL, Ethernet devices
  held,     \* objects acquired and not released
  freed,    \* history: objects released; the pointers to them keep their values
  twice,    \* history: objects released again
  wild,     \* history: pointers released or followed that were never set
  ret,      \* the result so far: 0 or an error
  selves,   \* entries of rm_stats that point to their stage
  started   \* history: the initialisation was completed

releaseVars == <<held, freed, twice>>
vars == <<pc, conf, machine, releaseVars, wild, ret, selves, started>>

Configurations ==
  [cores : 1 .. MaxCores, mode : {Live, "job_format"} \cup Preloaded,
   dev : {"regex_dpdk", "hyperscan"}, compiled : BOOLEAN, port2 : BOOLEAN]

Init ==
  /\ pc = "setup"
  /\ conf \in Configurations
  /\ machine \in [lcores : 1 .. MaxLcores, devs : 0 .. MaxDevs]
  /\ held = {} /\ freed = {} /\ twice = {} /\ wild = {} /\ ret = 0 /\ selves = {}
  /\ started = FALSE

One(kind) == <<kind, 0>>
Each(kind, n) == {<<kind, i>> : i \in 0 .. n - 1}
Listed(kind, n) == [i \in 1 .. n |-> <<kind, i - 1>>]
FirstOf(objects, k) == {objects[i] : i \in 1 .. k}

\* Operators whose name ends in Bug are variants with a plausible error, put in
\* the place of the operator after them to see that a property notices.

\* `got' is acquired, `gone' released by its pointers.
Exchange(got, gone) ==
  /\ held' = (held \cup got) \ gone
  /\ freed' = freed \cup (gone \cap (held \cup got))
  /\ twice' = twice \cup (gone \cap freed)

\* The call succeeds with all of its objects.
Succeeds(objects, next) ==
  /\ Exchange(ToSet(objects), {})
  /\ pc' = next
  /\ UNCHANGED <<wild, ret>>

\* The call fails when it has `got' and released `gone'.
FailsAfter(got, gone, label) ==
  /\ Exchange(got, gone)
  /\ pc' = label /\ ret' = 1
  /\ UNCHANGED wild
Fails(got, label) == FailsAfter(got, {}, label)

\* A pointer that was never set is followed: the process dies or gets away with it.
Undefined(pointers, next) ==
  /\ wild' = wild \cup pointers
  /\ pc' \in {next, "undefined"}

-----------------------------------------------------------------------------
(* main and meili_runtime_init, call by call                               *)

\* conf_setup; an error ends the process at once.
Setup ==
  /\ pc = "setup"
  /\ \/ Succeeds(<<One("conf")>>, "eal")
     \/ Fails({}, "exit")
  /\ UNCHANGED <<conf, machine, selves, started>>

\* init_dpdk, then the clamp of the number of cores.
InitEal ==
  /\ pc = "eal"
  /\ \/ /\ Succeeds(<<One("eal")>>, "stats")
        /\ conf' = [conf EXCEPT !.cores = IF @ > machine.lcores THEN machine.lcores ELSE @]
     \/ Fails({}, "clean_conf") /\ UNCHANGED conf
  /\ UNCHANGED <<machine, selves, started>>

StatsObjects == <<One("pkt_stats"), One("stats"), One("rm_stats"), One("lat_stats")>>

StatsInitBug ==
  /\ pc = "stats"
  /\ \/ Succeeds(StatsObjects, "input_reg")
     \/ \E k \in 0 .. 3 :
          FailsAfter(FirstOf(StatsObjects, k), FirstOf(StatsObjects, k), "clean_stats")
  /\ UNCHANGED <<conf, machine, selves, started>>

\* stats_init; its labels undo what it has done.
StatsInit ==
  /\ pc = "stats"
  /\ \/ Succeeds(StatsObjects, "input_reg")
     \/ \E k \in 0 .. 3 :
          FailsAfter(FirstOf(StatsObjects, k), FirstOf(StatsObjects, k), "clean_conf")
  /\ UNCHANGED <<conf, machine, selves, started>>

InputRegister ==
  /\ pc = "input_reg"
  /\ \/ conf.mode \in Preloaded \cup {Live} /\ Succeeds(<<One("input_funcs")>>, "input")
     \/ Fails({}, "clean_stats")
  /\ UNCHANGED <<conf, machine, selves, started>>

NumPorts == IF conf.port2 THEN 2 ELSE 1

\* input_dpdk_port_init_ports: the array of pools, a row for each port, then for
\* each device a pool, its queues, and the start.
PortRows == <<One("mbuf_pools")>> \o Listed("row", NumPorts)
PortObjects ==
  LET devs == IF machine.devs < NumPorts THEN machine.devs ELSE NumPorts
  IN PortRows \o [i \in 1 .. 2 * devs |->
                    <<IF i % 2 = 1 THEN "pool" ELSE "port_started", (i - 1) \div 2>>]

PortsReleasedBug == {One("mbuf_pools")} \cup Each("row", NumPorts)

\* input_dpdk_port_clean; mbuf_pools keeps its value.
PortsReleased ==
  {One("mbuf_pools")} \cup Each("row", NumPorts) \cup Each("pool", NumPorts)

\* It visits as many entries of a row as there are cores.
BehindRows == IF conf.cores > Queues THEN {<<"behind_row", i>> : i \in 0 .. NumPorts - 1} ELSE {}

\* input_init.  A row that cannot be allocated is left to nobody; the rows are
\* followed for every device, though there is one for each port that is asked for.
InputInit ==
  /\ pc = "input"
  /\ \/ conf.mode = "pcap_file" /\ Succeeds(<<>>, "regex")
     \/ conf.mode = "text_file" /\ Succeeds(<<One("input_data")>>, "regex")
     \/ conf.mode = "text_file" /\ Fails({}, "clean_stats")
     \/ /\ conf.mode = Live /\ machine.devs \in 1 .. NumPorts
        /\ Succeeds(PortObjects, "regex")
     \/ /\ conf.mode = Live
        /\ \E k \in 0 .. Len(PortRows) - 1 : Fails(FirstOf(PortRows, k), "clean_stats")
     \/ /\ conf.mode = Live /\ machine.devs > 0
        /\ \E k \in Len(PortRows) .. Len(PortObjects) :
             Exchange(FirstOf(PortObjects, k), PortsReleased)
        /\ ret' = 1
        /\ IF BehindRows = {} THEN pc' = "clean_stats" /\ UNCHANGED wild
           ELSE Undefined(BehindRows, "clean_stats")
     \/ /\ conf.mode = Live /\ machine.devs > NumPorts
        /\ Exchange(ToSet(PortObjects), {})
        /\ wild' = wild \cup {<<"row", NumPorts>>} /\ pc' = "undefined"
        /\ UNCHANGED ret
  /\ UNCHANGED <<conf, machine, selves, started>>

Entries == BatchSize * conf.cores

\* regex_dev_init_ops: two arrays and their entries in turn, the pools, the globals.
OpsObjects ==
  <<One("ops_arr_tx"), One("ops_arr_rx")>>
  \o [i \in 1 .. 2 * Entries |->
        <<IF i % 2 = 1 THEN "op_tx" ELSE "op_rx", (i - 1) \div 2>>]
  \o <<One("regex_mbuf_pool")>> \o Listed("regex_pool", conf.cores) \o <<One("core_vars")>>

\* regex_dev_dpdk_bf_clean releases each entry that is not NULL, of arrays that
\* nobody has cleared: the entries that were not reached are wild.
OpsUnset(got) ==
  (IF One("ops_arr_tx") \in got THEN Each("op_tx", Entries) \ got ELSE {})
  \cup (IF One("ops_arr_rx") \in got THEN Each("op_rx", Entries) \ got ELSE {})
  \cup (IF One("regex_mbuf_pool") \in got THEN Each("regex_pool", conf.cores) \ got ELSE {})

\* No memory, a device without an implementation, no rules, or more than one
\* device: the functions, once registered, are left.
RegexRefused ==
  \/ Fails({}, "clean_input")
  \/ conf.dev = "regex_dpdk" /\ Fails({One("regex_funcs")}, "clean_input")

\* The device searches with the compiled rules, whatever raw rules were given.
Configurable == conf.dev = "regex_dpdk" /\ conf.compiled /\ conf.cores <= MaxQp

\* regex_dev_dpdk_bf_config releases the rules when the device or a queue fails.
DeviceFails ==
  \E got \in {{One("rules")}, {One("rules"), One("regex_dev")}} :
    FailsAfter({One("regex_funcs")} \cup got, {One("rules")}, "clean_input")

\* regex_dev_dpdk_bf_init cleans up when the operations fail.
OpsFail ==
  \E k \in 0 .. Len(OpsObjects) - 1 :
    LET got == FirstOf(OpsObjects, k) \cup {One("rules"), One("regex_dev")}
    IN /\ Exchange(got \cup {One("regex_funcs")}, got)
       /\ ret' = 1
       /\ IF OpsUnset(got) = {} THEN pc' = "clean_input" /\ UNCHANGED wild
          ELSE Undefined(OpsUnset(got), "clean_input")

\* meili_regex_init: functions, rules, device, operations.
RegexInit ==
  /\ pc = "regex"
  /\ \/ RegexRefused
     \/ Configurable /\ (DeviceFails \/ OpsFail)
     \/ /\ Configurable
        /\ Succeeds(<<One("regex_funcs"), One("rules"), One("regex_dev")>> \o OpsObjects,
                    "pipeline")
  /\ UNCHANGED <<conf, machine, selves, started>>

NbInstBug == conf.cores

NbInst == conf.cores - 1

\* pipeline_init_safe: instances, timestamp fields, numbering, reordering, rings.
StageObjects ==
  [i \in 1 .. 3 * NbInst |->
     <<<<"stage", "funcs", "state">>[((i - 1) % 3) + 1], (i - 1) \div 3>>]
PreloadObjects == IF conf.mode \in Preloaded THEN <<One("mbuf_pool")>> ELSE <<>>
SpecialObjects ==
  <<<<"ts_field", 1>>, <<"ts_field", 2>>, One("seq_state"), One("reorder_state"),
    One("reorder_buf")>>
RingObjects == Listed("ring_in", NbInst) \o Listed("ring_out", NbInst)
PipelineObjects == PreloadObjects \o StageObjects \o SpecialObjects \o RingObjects

\* The structure of an instance and the reorder buffer are used without a test.
PipelineInit ==
  /\ pc = "pipeline"
  /\ \/ NbInst <= MaxInst /\ Succeeds(PipelineObjects, "run_mode")
     \/ NbInst > MaxInst /\ Fails(ToSet(PreloadObjects), "clean_pipeline")
     \/ \E k \in 0 .. Len(PipelineObjects) - 1 :
          /\ NbInst <= MaxInst \/ k < Len(PreloadObjects)
          /\ IF PipelineObjects[k + 1][1] \in {"stage", "reorder_buf"}
             THEN /\ Exchange(FirstOf(PipelineObjects, k), {})
                  /\ wild' = wild \cup {One("NULL")} /\ pc' = "undefined"
                  /\ UNCHANGED ret
             ELSE Fails(FirstOf(PipelineObjects, k), "clean_pipeline")
  /\ UNCHANGED <<conf, machine, selves, started>>

RunModeRegister ==
  /\ pc = "run_mode"
  /\ \/ Succeeds(<<One("run_funcs")>>, "launch") /\ started' = TRUE
     \/ Fails({}, "clean_pipeline") /\ UNCHANGED started
  /\ UNCHANGED <<conf, machine, selves>>

\* An instance on each worker lcore, until there are no more instances; main's own
\* entry of the statistics is set behind them.  An lcore that cannot be launched
\* ends the run, with a result that the wait for the lcores overwrites.  Without an
\* instance the first worker lcore is given a pointer that was never set.
Launch ==
  /\ pc = "launch"
  /\ \/ /\ NbInst = 0 /\ machine.lcores > 1
        /\ Undefined({<<"stage", 0>>}, "run") /\ selves' = {0, 1}
     \/ /\ NbInst > 0 \/ machine.lcores = 1
        /\ pc' = "run" /\ selves' = 0 .. NbInst /\ UNCHANGED wild
     \/ /\ NbInst > 0
        /\ \E k \in 1 .. NbInst : selves' = 1 .. k
        /\ pc' = "post" /\ UNCHANGED wild
  /\ UNCHANGED <<conf, machine, releaseVars, ret, started>>

\* run_mode_launch; DataPlane models what happens inside.  With worker lcores its
\* result is overwritten by theirs.
Run ==
  /\ pc = "run"
  /\ \E got \in {{}, {One("dpdk_tx")}} :
       (got # {} => conf.mode = Live) /\ Exchange(got, {})
  /\ ret' \in (IF machine.lcores = 1 THEN {0, 1} ELSE {0})
  /\ IF NbInst = 0 /\ conf.mode = Live THEN Undefined({<<"ring_in", 0>>}, "post")
     ELSE pc' = "post" /\ UNCHANGED wild
  /\ UNCHANGED <<conf, machine, selves, started>>

\* pipeline_post_search starts with ring_out[0] and takes an index modulo the
\* number of instances.
PostSearch ==
  /\ pc = "post"
  /\ IF NbInst = 0 THEN Undefined({<<"ring_out", 0>>}, "print")
     ELSE pc' = "print" /\ UNCHANGED wild
  /\ UNCHANGED <<conf, machine, releaseVars, ret, selves, started>>

\* stats_print_end_of_run follows the stage of every core's entry.
StatsPrint ==
  /\ pc = "print"
  /\ LET unset == Each("self", conf.cores) \ {<<"self", i>> : i \in selves}
     IN IF unset = {} THEN pc' = "clean_pipeline" /\ UNCHANGED wild
        ELSE Undefined(unset, "clean_pipeline")
  /\ UNCHANGED <<conf, machine, releaseVars, ret, selves, started>>

-----------------------------------------------------------------------------
(* The cleanup labels, of meili_runtime_init and of main                   *)

LinkedBug(i) == <<"state", i + 1>> \in held

\* An instance is entered in stages[] when its initialisation has succeeded.
Linked(i) == <<"state", i>> \in held

\* pipeline_free: every instance that was to be initialised; one that failed on
\* the way is not in stages[], nor are those behind it.
CleanPipeline ==
  /\ pc = "clean_pipeline"
  /\ Exchange({}, {o \in held : o[1] \in {"stage", "funcs", "state"} /\ Linked(o[2])}
                   \cup {One("seq_state"), One("reorder_state"), One("mbuf_pool")})
  /\ LET unset == {<<"stage", i>> : i \in {j \in 0 .. NbInst - 1 : ~Linked(j)}}
     IN IF unset = {} THEN pc' = "clean_input" /\ UNCHANGED wild
        ELSE Undefined(unset, "clean_input")
  /\ UNCHANGED <<conf, machine, ret, selves, started>>

\* input_clean
CleanInput ==
  /\ pc = "clean_input"
  /\ Exchange({}, {One("input_funcs"), One("input_data")}
                   \cup (IF conf.mode = Live THEN PortsReleased ELSE {}))
  /\ IF conf.mode = Live /\ BehindRows # {} THEN Undefined(BehindRows, "clean_stats")
     ELSE pc' = "clean_stats" /\ UNCHANGED wild
  /\ UNCHANGED <<conf, machine, ret, selves, started>>

\* stats_clean follows the statistics before it releases them.
CleanStats ==
  /\ pc = "clean_stats"
  /\ Exchange({}, {One("rm_stats"), One("stats"), One("pkt_stats")})
  /\ IF One("stats") \in held THEN pc' = "clean_conf" /\ UNCHANGED wild
     ELSE Undefined({One("stats")}, "clean_conf")
  /\ UNCHANGED <<conf, machine, ret, selves, started>>

CleanConf ==
  /\ pc = "clean_conf"
  /\ Exchange({}, {One("conf")})
  /\ pc' = "exit"
  /\ UNCHANGED <<conf, machine, wild, ret, selves, started>>

Next ==
  \/ Setup \/ InitEal \/ StatsInit \/ InputRegister \/ InputInit \/ RegexInit
  \/ PipelineInit \/ RunModeRegister \/ Launch \/ Run \/ PostSearch
  \/ StatsPrint \/ CleanPipeline \/ CleanInput \/ CleanStats \/ CleanConf

Spec == Init /\ [][Next]_vars

-----------------------------------------------------------------------------

Phases == {"setup", "eal", "stats", "input_reg", "input", "regex", "pipeline",
           "run_mode", "launch", "run", "post", "print"}
Labels == {"clean_pipeline", "clean_input", "clean_stats", "clean_conf"}

\* Objects that no cleanup releases; the environment layer ends with the process.
NeverReleased ==
  {"eal", "lat_stats", "port_started", "regex_funcs", "rules", "regex_dev", "ops_arr_tx",
   "ops_arr_rx", "op_tx", "op_rx", "regex_mbuf_pool", "regex_pool", "core_vars",
   "ts_field", "reorder_buf", "ring_in", "ring_out", "run_funcs", "dpdk_tx"}
Released ==
  {"conf", "pkt_stats", "stats", "rm_stats", "input_funcs", "input_data", "mbuf_pools",
   "row", "pool", "mbuf_pool", "stage", "funcs", "state", "seq_state", "reorder_state"}

\* Every variable has a value of its type.
TypeOK ==
  /\ pc \in Phases \cup Labels \cup {"exit", "undefined"}
  /\ conf \in Configurations
  /\ machine \in [lcores : 1 .. MaxLcores, devs : 0 .. MaxDevs]
  /\ \A o \in held : o[1] \in NeverReleased \cup Released /\ o[2] \in Nat
  /\ ret \in {0, 1} /\ selves \subseteq 0 .. MaxCores /\ started \in BOOLEAN

(* When the workers are launched, every instance has its functions, state and
   rings, an lcore besides main's, and a queue of the regex device under its
   queue id; the port has its pool; the compiled rules were given. *)
StartComplete ==
  pc \in {"launch", "run"} =>
    /\ \A i \in 0 .. NbInst - 1 :
         {<<kind, i>> : kind \in {"stage", "funcs", "state", "ring_in", "ring_out"}}
           \cup {<<"regex_pool", i + 1>>} \subseteq held
    /\ NbInst <= MaxInst /\ NbInst < machine.lcores
    /\ conf.mode = Live => <<"pool", 0>> \in held
    /\ conf.compiled

(* Whatever call failed, the process exits with the statistics, the configuration
   and the pipeline released.  A failing start leaves behind at most the input's
   functions and rows, or the one instance at which it failed; a completed one
   leaves nothing that has a cleanup. *)
ReleasedAtExit ==
  pc = "exit" =>
    LET rest == {o \in held : o[1] \in Released}
    IN /\ started => rest = {}
       /\ \/ \A o \in rest : o[1] \in {"input_funcs", "mbuf_pools", "row"}
          \/ \E i \in 0 .. MaxInst - 1 : rest \subseteq {<<"stage", i>>, <<"funcs", i>>}

(* After a completed start with at least one worker, the run, the statistics and the
   cleanup follow no pointer that was never set, with two exceptions: the entries
   behind the rows of the mbuf pools, which are visited by the number of cores, and
   the stages of the statistics when a worker could not be launched. *)
RunFollowsOnlyItsOwn ==
  started /\ NbInst > 0 =>
    wild \subseteq (IF conf.mode = Live THEN BehindRows ELSE {})
                   \cup (IF 0 \in selves THEN {} ELSE Each("self", conf.cores))

(* No path through the labels releases anything twice, though the pointers to what
   is released keep their values: each label undoes only what its callers have not
   undone themselves. *)
NothingReleasedTwice == twice = {}

=============================================================================
