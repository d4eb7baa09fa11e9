---------------------------- MODULE Configuration ----------------------------
(***************************************************************************)
(* The configuration of a run (meili_conf.c): options come from the        *)
(* command line first, then from the configuration file, which is turned   *)
(* into an argument vector and parsed in the same way; what was set first  *)
(* stays.  The result is validated, then options still unset get their     *)
(* defaults.                                                               *)
(*                                                                         *)
(* An argument is a pair of an option and its value; the value of a        *)
(* numeric option is -1 when it is no decimal of 32 bits, that of the EAL  *)
(* options is the list of their words.  A line of the file has an option   *)
(* and, behind a colon, a value, or the option alone.  A value does not    *)
(* look like an option (the EAL options are in quotes).                    *)
(***************************************************************************)
EXTENDS Integers, Sequences, FiniteSets

CONSTANTS
  Args,          \* arguments that the user may give
  MaxCmd,        \* bound: arguments on the command line
  MaxLines,      \* bound: lines of the configuration file
  MaxFileArgs,   \* CONFIG_FILE_MAX_ARGS
  MaxDpdkArgs,   \* MAX_DPDK_ARGS
  MaxWarnings,   \* MAX_WARNINGS
  MaxLcore,      \* RTE_MAX_LCORE
  TxRing,        \* TX_RING_SIZE
  MaxBuf,        \* MAX_REGEX_BUF_SIZE
  UintMax,       \* UINT_MAX
  DefaultBufLen, DefaultBatch, DefaultWindow,
  None           \* the NULL pointer, or the value of an enumeration not given

Num == {"verbose", "cores", "input_duration", "input_iterations",
        "input_packets", "input_bytes", "input_buf_len", "input_len_threshold",
        "input_overlap", "input_batches", "sliding_window"}
Str == {"conf_file", "input_file", "compiled_rules_file", "raw_rules_file",
        "port1", "port2"}
Flag == {"input_app_mode", "latency_mode", "hs_singlematch", "hs_leftmost",
         "force_compile", "single_line", "caseless", "multi_line", "free_space"}
Dev == {"regex_dpdk", "hyperscan", "doca_regex"}
Mode == {"dpdk_port", "pcap_file", "text_file", "job_format", "remote_mmap"}
FileMode == Mode \ {"dpdk_port"}

NeedsValue(o) == o \in Num \cup Str \cup {"regex_dev", "input_mode", "dpdk"}

\* The text of an option, where it is taken for a value.
OptionText == "--option"

ASSUME ConfigurationAssumption ==
  /\ \A a \in Args : /\ a = <<a[1], a[2]>>
                     /\ a[1] \in Num => a[2] \in -1 .. UintMax
                     /\ a[1] \in Str => a[2] # None
                     /\ a[1] = "dpdk" => a[2] \in Seq(STRING) /\ a[2] # None
  /\ None \notin Dev \cup Mode /\ None # OptionText /\ None # <<OptionText>>
  /\ None # "runtime.conf"
  /\ MaxFileArgs \in Nat /\ MaxFileArgs > 2
  /\ MaxDpdkArgs \in Nat /\ MaxWarnings \in Nat \ {0}
  /\ MaxLcore \in Nat /\ MaxLcore > 1
  /\ UintMax \in Nat \ {0}
  /\ TxRing \in 0 .. UintMax /\ MaxBuf \in 0 .. UintMax
  /\ DefaultBufLen \in 1 .. MaxBuf
  /\ DefaultBatch \in 4 .. TxRing
  /\ DefaultWindow \in 1 .. MaxBuf - 1

VARIABLES
  pc,           \* cmdline, readfile, parsefile, validate, done; failed, exit
  num, str, flags, regex_dev, input_mode,       \* the fields of run_conf
  dpdk_argv,    \* words for the EAL, None before they are given
  regex_pcie,
  raw_rule_cmd_line,
  conf_argv,    \* lines read from the file and not yet parsed
  conf_argc,    \* entries of conf_argv[] in use
  warnings,     \* conf_warning[]
  given         \* history: the arguments parsed, <<where, option, value>>

confVars == <<num, str, flags, regex_dev, input_mode, dpdk_argv, regex_pcie>>
fileVars == <<conf_argv, conf_argc>>
vars == <<pc, confVars, raw_rule_cmd_line, fileVars, warnings, given>>

\* main clears run_conf; conf_init marks what the user has to choose.
Init ==
  /\ pc = "cmdline"
  /\ num = [o \in Num |-> 0] /\ str = [o \in Str |-> None] /\ flags = {}
  /\ regex_dev = None /\ input_mode = None
  /\ dpdk_argv = None /\ regex_pcie = None
  /\ raw_rule_cmd_line = FALSE
  /\ conf_argv = <<>> /\ conf_argc = 1
  /\ warnings = <<>> /\ given = <<>>

-----------------------------------------------------------------------------
(* conf_parse_args: one argument of the command line or of the file.       *)

\* conf_set_uint32_t: the first value other than zero stays.
SetNum(o, v) ==
  /\ v >= 0 \/ num[o] # 0
  /\ num' = [num EXCEPT ![o] = IF @ = 0 THEN v ELSE @]
  /\ UNCHANGED <<str, flags, regex_dev, input_mode, dpdk_argv, regex_pcie>>

\* Operators whose name ends in Bug are variants with a plausible error, put in
\* the place of the operator after them to see that a property notices.
SetStrBug(o, v) ==
  /\ str' = [str EXCEPT ![o] = IF @ = None THEN v ELSE @]
  /\ UNCHANGED <<num, flags, regex_dev, input_mode, dpdk_argv, regex_pcie>>

\* conf_set_string; compiled rules of the file yield to raw rules of the command line.
SetStr(o, v) ==
  /\ str' = [str EXCEPT ![o] =
               IF @ = None /\ ~(o = "compiled_rules_file" /\ raw_rule_cmd_line)
               THEN v ELSE @]
  /\ UNCHANGED <<num, flags, regex_dev, input_mode, dpdk_argv, regex_pcie>>

SetFlag(o) ==
  /\ flags' = flags \cup {o}
  /\ UNCHANGED <<num, str, regex_dev, input_mode, dpdk_argv, regex_pcie>>

SetDev(v) ==
  /\ regex_dev # None \/ v \in Dev
  /\ regex_dev' = IF regex_dev = None THEN v ELSE regex_dev
  /\ UNCHANGED <<num, str, flags, input_mode, dpdk_argv, regex_pcie>>

SetModeBug(v) ==
  /\ v \in Mode
  /\ input_mode' = v
  /\ UNCHANGED <<num, str, flags, regex_dev, dpdk_argv, regex_pcie>>

SetMode(v) ==
  /\ input_mode # None \/ v \in Mode
  /\ input_mode' = IF input_mode = None THEN v ELSE input_mode
  /\ UNCHANGED <<num, str, flags, regex_dev, dpdk_argv, regex_pcie>>

\* The words that follow an allow option -a: PCIe addresses, of function 0 or
\* not, or too short to be one.
Addresses(words) ==
  LET isAddress[i \in DOMAIN words] ==
        i > 1 /\ words[i - 1] = "-a" /\ ~isAddress[i - 1]
  IN {i \in DOMAIN words : isAddress[i]}

Function0(words) == {i \in Addresses(words) : words[i] = "fn0"}

EarliestOf(S) == CHOOSE i \in S : \A j \in S : i <= j

TooManyBug(words) == Len(words) > MaxDpdkArgs

\* The vector has to keep an entry behind the last word.
TooMany(words) == Len(words) + 1 >= MaxDpdkArgs

\* An address that is too short is an error until the device is known.
BadAddress(words) ==
  \E i \in Addresses(words) :
    /\ words[i] \in {"short", "-a"}
    /\ \A j \in Function0(words) : i < j

\* conf_parse_dpdk_params; a second set of EAL options is ignored.
SetDpdk(words) ==
  /\ \/ dpdk_argv # None /\ UNCHANGED <<dpdk_argv, regex_pcie>>
     \/ /\ dpdk_argv = None /\ ~TooMany(words) /\ ~BadAddress(words)
        /\ dpdk_argv' = words
        /\ regex_pcie' = IF Function0(words) = {} THEN None
                         ELSE EarliestOf(Function0(words))
  /\ UNCHANGED <<num, str, flags, regex_dev, input_mode>>

Set(o, v) ==
  \/ o \in Num /\ SetNum(o, v)
  \/ o \in Str /\ SetStr(o, v)
  \/ o \in Flag /\ SetFlag(o)
  \/ o = "regex_dev" /\ SetDev(v)
  \/ o = "input_mode" /\ SetMode(v)
  \/ o = "dpdk" /\ SetDpdk(v)

\* The value is refused, the option is unknown, or there is no memory to copy it.
Refused(o, v) ==
  \/ o \in Num /\ num[o] = 0 /\ v < 0
  \/ o \in Str /\ str[o] = None
  \/ o = "regex_dev" /\ regex_dev = None /\ v \notin Dev
  \/ o = "input_mode" /\ input_mode = None /\ v \notin Mode
  \/ o = "dpdk" /\ dpdk_argv = None
  \/ o = "unknown"

\* An argument found at `where' sets its option, or ends the parse.
Parse(where, o, v, next) ==
  \/ Set(o, v) /\ given' = Append(given, <<where, o, v>>) /\ pc' = next
  \/ Refused(o, v) /\ pc' = "failed" /\ UNCHANGED <<confVars, given>>
  \/ o = "help" /\ pc' = "exit" /\ UNCHANGED <<confVars, given>>

-----------------------------------------------------------------------------
(* conf_setup: command line, file, validation, defaults.                   *)

CommandLine ==
  /\ pc = "cmdline" /\ Len(given) < MaxCmd
  /\ \E a \in Args : Parse("cmdline", a[1], a[2], "cmdline")
  /\ UNCHANGED <<raw_rule_cmd_line, fileVars, warnings>>

\* Raw rules of the command line are remembered, the file gets its default name,
\* unless there is no memory for it.  A file that cannot be opened is passed over.
EndCommandLine ==
  /\ pc = "cmdline"
  /\ raw_rule_cmd_line' = (str["raw_rules_file"] # None)
  /\ \/ /\ str' = [str EXCEPT !["conf_file"] = IF @ = None THEN "runtime.conf" ELSE @]
        /\ pc' \in {"readfile", "validate"}
     \/ pc' = "failed" /\ UNCHANGED str
  /\ UNCHANGED <<num, flags, regex_dev, input_mode, dpdk_argv, regex_pcie,
                 fileVars, warnings, given>>

Line(a, colon) == IF colon THEN a ELSE <<a[1]>>

\* A line of the file becomes an option and, if it has a colon, a value.
\* Lines behind the last free pair of entries are not read.
ReadLine ==
  /\ pc = "readfile" /\ Len(conf_argv) < MaxLines
  /\ \/ conf_argc >= MaxFileArgs - 2 /\ pc' = "parsefile" /\ UNCHANGED fileVars
     \/ /\ conf_argc < MaxFileArgs - 2 /\ UNCHANGED pc
        /\ \E a \in Args, colon \in BOOLEAN :
             /\ conf_argv' = Append(conf_argv, Line(a, colon))
             /\ conf_argc' = conf_argc + Len(Line(a, colon))
  /\ UNCHANGED <<confVars, raw_rule_cmd_line, warnings, given>>

\* The end of the file, or a line that cannot be split or copied.
EndFile ==
  /\ pc = "readfile"
  /\ pc' \in {"parsefile", "failed"}
  /\ UNCHANGED <<confVars, raw_rule_cmd_line, fileVars, warnings, given>>

\* An option takes the option of the next line for the value that its own line does
\* not have; the value of that line is passed over, as is one behind a flag.
Taken(o) ==
  CASE o \in Num -> -1
    [] o = "dpdk" -> <<OptionText>>
    [] OTHER -> OptionText

ValueOf(line) == IF Len(line) = 2 THEN line[2] ELSE Taken(line[1])

LinesUsed(line) == IF Len(line) = 1 /\ NeedsValue(line[1]) THEN 2 ELSE 1

\* The next option of the file; one whose value is missing at the end is refused.
ParseFile ==
  /\ pc = "parsefile"
  /\ \/ /\ conf_argv = <<>> /\ pc' = "validate"
        /\ UNCHANGED <<confVars, given, conf_argv>>
     \/ /\ conf_argv # <<>> /\ LinesUsed(Head(conf_argv)) > Len(conf_argv)
        /\ pc' = "failed" /\ UNCHANGED <<confVars, given, conf_argv>>
     \/ /\ conf_argv # <<>> /\ LinesUsed(Head(conf_argv)) <= Len(conf_argv)
        /\ Parse("file", Head(conf_argv)[1], ValueOf(Head(conf_argv)), "parsefile")
        /\ conf_argv' = SubSeq(conf_argv, LinesUsed(Head(conf_argv)) + 1, Len(conf_argv))
  /\ UNCHANGED <<raw_rule_cmd_line, conf_argc, warnings>>

OrDefault(v, default) == IF v = 0 THEN default ELSE v

RejectedBug ==
  \/ num["cores"] >= MaxLcore
  \/ num["input_batches"] > TxRing
  \/ /\ input_mode \in FileMode
     /\ num["input_buf_len"] # 0 /\ num["input_overlap"] >= num["input_buf_len"]
  \/ input_mode = "dpdk_port" /\ num["input_batches"] \in 1 .. 3

\* conf_validate looks at the options before they get their defaults.
Rejected ==
  \/ num["cores"] >= MaxLcore
  \/ num["verbose"] > 3
  \/ num["input_batches"] > TxRing
  \/ /\ input_mode \in FileMode
     /\ \/ num["input_overlap"] >= OrDefault(num["input_buf_len"], DefaultBufLen)
        \/ str["input_file"] = None
  \/ input_mode = "remote_mmap" /\ regex_dev # "doca_regex"
  \/ input_mode = "dpdk_port" /\ (str["port1"] = None \/ num["input_batches"] \in 1 .. 3)
  \/ regex_dev = "hyperscan" /\ input_mode = "job_format"
  \/ regex_dev = "hyperscan" /\ {"hs_singlematch", "hs_leftmost"} \subseteq flags
  \/ num["sliding_window"] >= MaxBuf
  \/ regex_dev # "doca_regex" /\ num["input_buf_len"] > MaxBuf

\* Options that the input mode or the device does not use.
Unused ==
  CASE input_mode \in {"text_file", "remote_mmap"} ->
         {"input_packets", "input_app_mode", "input_len_threshold"}
    [] input_mode = "pcap_file" /\ "input_app_mode" \in flags ->
         {"input_buf_len", "input_overlap"}
    [] input_mode = "job_format" ->
         {"input_buf_len", "input_overlap", "input_app_mode", "input_len_threshold"}
    [] input_mode = "dpdk_port" ->
         {"input_iterations", "input_buf_len", "input_overlap"}
    [] OTHER -> {}
UnusedByDev ==
  (CASE regex_dev = "hyperscan" -> {"free_space", "latency_mode"}
     [] regex_dev \in {"regex_dpdk", "doca_regex"} -> {"hs_singlematch", "hs_leftmost"}
     [] OTHER -> {})
  \cup (IF regex_dev = "doca_regex" THEN {} ELSE {"sliding_window"})

NbWarnings ==
  Cardinality({o \in Unused \cup UnusedByDev : o \in flags \/ (o \in Num /\ num[o] # 0)})
  + (IF /\ input_mode \in FileMode
        /\ num["input_duration"] # 0 /\ num["input_iterations"] # 0 THEN 1 ELSE 0)

\* meili_log_record, n times: the last entry says that there were more.
Recorded(n) ==
  [i \in 1 .. (IF n > MaxWarnings THEN MaxWarnings ELSE n) |->
     IF i = MaxWarnings THEN "suppressed" ELSE "warning"]

DefaultOf(o) ==
  CASE o = "input_iterations" -> IF num["input_duration"] # 0 THEN UintMax ELSE 1
    [] o = "input_buf_len" -> DefaultBufLen
    [] o = "input_batches" -> DefaultBatch
    [] o = "cores" -> 1
    [] o = "sliding_window" -> DefaultWindow
    [] OTHER -> 0

\* conf_validate, then conf_set_defaults.
Validate ==
  /\ pc = "validate"
  /\ IF Rejected
     THEN pc' = "failed" /\ UNCHANGED <<num, warnings>>
     ELSE /\ warnings' = Recorded(NbWarnings)
          /\ num' = [o \in Num |-> OrDefault(num[o], DefaultOf(o))]
          /\ pc' = "done"
  /\ UNCHANGED <<str, flags, regex_dev, input_mode, dpdk_argv, regex_pcie,
                 raw_rule_cmd_line, fileVars, given>>

Next == CommandLine \/ EndCommandLine \/ ReadLine \/ EndFile \/ ParseFile \/ Validate

Spec == Init /\ [][Next]_vars

-----------------------------------------------------------------------------

\* Every variable has a value of its type; the two argument vectors fit in
\* their arrays.
TypeOK ==
  /\ pc \in {"cmdline", "readfile", "parsefile", "validate", "done", "failed", "exit"}
  /\ num \in [Num -> 0 .. UintMax]
  /\ DOMAIN str = Str /\ flags \subseteq Flag
  /\ regex_dev \in Dev \cup {None} /\ input_mode \in Mode \cup {None}
  /\ dpdk_argv # None => 1 + Len(dpdk_argv) < MaxDpdkArgs
  /\ raw_rule_cmd_line \in BOOLEAN
  /\ conf_argc \in 1 .. MaxFileArgs - 1
  /\ Len(warnings) <= MaxWarnings

\* The values of option o among the arguments parsed that count as a setting.
Settings(o) ==
  {i \in DOMAIN given : given[i][2] = o /\ (o \in Num => given[i][3] # 0)}

OnCommandLine(o) == {i \in Settings(o) : given[i][1] = "cmdline"}

\* The value of the first of the settings in S.
FirstOf(S, none) == IF S = {} THEN none ELSE given[EarliestOf(S)][3]

(* Precedence: an option has the first value that it was given, on the command line
   or, failing that, in the file, whatever comes after it: the numbers, for which zero
   is as good as none, the strings, the device, the input mode and the list of EAL
   options.  The file says nothing of its own name, and nothing of compiled rules once
   raw rules were given before it. *)
FirstSettingWins ==
  pc # "done" =>
    /\ \A o \in Num : num[o] = FirstOf(Settings(o), 0)
    /\ \A o \in Str \ {"compiled_rules_file", "conf_file"} :
         str[o] = FirstOf(Settings(o), None)
    /\ regex_dev = FirstOf(Settings("regex_dev"), None)
    /\ input_mode = FirstOf(Settings("input_mode"), None)
    /\ dpdk_argv = FirstOf(Settings("dpdk"), None)
    /\ str["compiled_rules_file"] =
         FirstOf(IF raw_rule_cmd_line THEN OnCommandLine("compiled_rules_file")
                 ELSE Settings("compiled_rules_file"), None)
    /\ \/ pc \in {"cmdline", "failed", "exit"}
          /\ str["conf_file"] = FirstOf(OnCommandLine("conf_file"), None)
       \/ pc # "cmdline"
          /\ str["conf_file"] = FirstOf(OnCommandLine("conf_file"), "runtime.conf")

(* A run that names raw rules on its command line, and no compiled ones, does
   not silently use the compiled rules of the configuration file. *)
RawRulesNotOverridden ==
  (\E i \in Settings("raw_rules_file") : given[i][1] = "cmdline")
    /\ (\A i \in Settings("compiled_rules_file") : given[i][1] = "file")
    => str["compiled_rules_file"] = None

(* What the rest of the program relies on although options are validated before
   they get their defaults: chunks fit in a ring and (live) in a receive queue,
   there is a main lcore, a file has an overlap smaller than its buffers. *)
AcceptedIsUsable ==
  pc = "done" =>
    /\ num["input_batches"] \in 1 .. TxRing
    /\ input_mode = "dpdk_port" => num["input_batches"] >= 4 /\ str["port1"] # None
    /\ num["cores"] \in 1 .. MaxLcore - 1
    /\ input_mode \in FileMode =>
         num["input_overlap"] < num["input_buf_len"] /\ num["input_iterations"] > 0

=============================================================================
