------------------------- MODULE Configuration_proofs -------------------------
(***************************************************************************)
(* Proofs about the configuration, whatever the user gives and however     *)
(* long the command line and the file are.                                 *)
(***************************************************************************)
EXTENDS Configuration, SequenceTheorems, FiniteSetTheorems, TLAPS

-----------------------------------------------------------------------------
\* The limits and the defaults fit each other.
LEMMA LimitsAre ==
  /\ UintMax \in Nat \ {0} /\ TxRing \in 0 .. UintMax /\ MaxBuf \in 0 .. UintMax
  /\ DefaultBufLen \in 1 .. MaxBuf /\ DefaultBatch \in 4 .. TxRing
  /\ DefaultWindow \in 1 .. MaxBuf - 1
  /\ MaxLcore \in Nat /\ MaxLcore > 1
  /\ MaxFileArgs \in Nat /\ MaxFileArgs > 2
BY Zenon, ConfigurationAssumption DEF ConfigurationAssumption

(* The arguments parsed so far.                                            *)

Sources == {"cmdline", "file"}

\* The lines of the file, and what the parser makes of them and of the command line.
Lines == {Line(a, colon) : a \in Args, colon \in BOOLEAN}
Seen == Args \cup {<<a[1], Taken(a[1])>> : a \in Args}

\* Where an argument was found, its option, its value.
Parsed == Sources \X {a[1] : a \in Seen} \X {a[2] : a \in Seen}

\* Before the command line has ended nothing comes from the file.
HistoryInv ==
  /\ conf_argv \in Seq(Lines) /\ given \in Seq(Parsed)
  /\ pc = "cmdline" => /\ \A i \in DOMAIN given : given[i][1] = "cmdline"
                       /\ ~raw_rule_cmd_line

\* What the parser sees has the types of what the user gives.
LEMMA SeenAre ==
  ASSUME NEW a \in Seen
  PROVE  /\ a[1] \in Num => a[2] \in -1 .. UintMax
         /\ a[1] \in Str => a[2] # None
         /\ a[1] = "dpdk" => Len(a[2]) \in Nat /\ a[2] # None
<1>1. CASE a \in Args
  BY <1>1, ConfigurationAssumption, LenProperties
<1>2. ASSUME NEW b \in Args, a = <<b[1], Taken(b[1])>>
      PROVE  /\ a[1] \in Num => a[2] \in -1 .. UintMax
             /\ a[1] \in Str => a[2] # None
             /\ a[1] = "dpdk" => Len(a[2]) \in Nat /\ a[2] # None
  <2>1. a[1] = b[1] /\ a[2] = Taken(a[1])
    BY <1>2
  <2>2. UintMax \in Nat /\ None # OptionText /\ None # <<OptionText>>
    BY ConfigurationAssumption
  <2>3. a[1] \in Num => a[2] \in -1 .. UintMax
    <3>1. a[1] \in Num => a[2] = -1
      BY <2>1 DEF Taken, Num
    <3>2. -1 \in -1 .. UintMax
      BY <2>2
    <3>3. QED
      BY <3>1, <3>2
  <2>4. a[1] \in Str => a[2] # None
    BY <2>1, <2>2 DEF Taken, Num, Str
  <2>5. a[1] = "dpdk" => Len(a[2]) \in Nat /\ a[2] # None
    <3>1. Len(<<OptionText>>) \in Nat
      OBVIOUS
    <3>2. a[1] = "dpdk" => a[2] = <<OptionText>>
      BY <2>1 DEF Taken, Num
    <3>3. QED
      BY <2>2, <3>1, <3>2
  <2>6. QED
    BY <2>3, <2>4, <2>5
<1>3. QED
  BY <1>1, <1>2 DEF Seen

\* A line has one or two fields, and what is parsed of it is seen.
LEMMA LineIs ==
  ASSUME NEW line \in Lines
  PROVE  /\ Len(line) \in {1, 2}
         /\ \E a \in Seen : a[1] = line[1] /\ a[2] = ValueOf(line)
<1>1. PICK a \in Args, colon \in BOOLEAN : line = Line(a, colon)
  BY DEF Lines
<1>2. a = <<a[1], a[2]>>
  BY ConfigurationAssumption
<1>3. CASE colon
  <2>1. line = a
    BY <1>1, <1>3 DEF Line
  <2>2. Len(<<a[1], a[2]>>) = 2
    OBVIOUS
  <2>3. Len(line) = 2
    BY <1>2, <2>1, <2>2
  <2>4. QED
    BY <2>1, <2>3 DEF ValueOf, Seen
<1>4. CASE ~colon
  <2>1. line = <<a[1]>>
    BY <1>1, <1>4 DEF Line
  <2>2. Len(line) = 1 /\ line[1] = a[1]
    BY <2>1
  <2>3. ValueOf(line) = Taken(a[1])
    BY <2>2 DEF ValueOf
  <2>4. <<a[1], Taken(a[1])>> \in Seen
    BY DEF Seen
  <2>5. QED
    BY <2>2, <2>3, <2>4
<1>5. QED
  BY <1>3, <1>4

\* An argument joins the arguments parsed.
LEMMA AppendIs ==
  ASSUME NEW S, NEW h \in Seq(S), NEW x \in S
  PROVE  /\ Append(h, x) \in Seq(S)
         /\ DOMAIN h = 1 .. Len(h) /\ DOMAIN Append(h, x) = 1 .. Len(h) + 1
         /\ Len(h) \in Nat
         /\ \A i \in 1 .. Len(h) : Append(h, x)[i] = h[i]
         /\ Append(h, x)[Len(h) + 1] = x
BY AppendProperties, LenProperties

\* An argument is parsed and sets its option.
SetsOption(w, a) ==
  /\ Set(a[1], a[2])
  /\ given' = Append(given, <<w, a[1], a[2]>>)
  /\ pc' = pc /\ pc \in {"cmdline", "parsefile"} /\ (w = "cmdline" <=> pc = "cmdline")
  /\ UNCHANGED raw_rule_cmd_line

\* A step that leaves the options and the history alone.
SetsNothing ==
  /\ UNCHANGED <<confVars, given, raw_rule_cmd_line>>
  /\ \/ pc' = pc
     \/ pc # "done" /\ pc' \in {"failed", "exit"}
     \/ pc \in {"readfile", "parsefile"} /\ pc' \in {"parsefile", "validate"}

\* An argument that is seen joins the history.
LEMMA HistoryGrows ==
  ASSUME given \in Seq(Parsed), NEW a \in Seen, NEW w \in Sources
  PROVE  /\ <<w, a[1], a[2]>> \in Parsed
         /\ Append(given, <<w, a[1], a[2]>>) \in Seq(Parsed)
         /\ w = "cmdline" /\ (\A i \in DOMAIN given : given[i][1] = "cmdline")
              => \A i \in DOMAIN Append(given, <<w, a[1], a[2]>>) :
                   Append(given, <<w, a[1], a[2]>>)[i][1] = "cmdline"
<1> DEFINE g == Append(given, <<w, a[1], a[2]>>)
<1>1. <<w, a[1], a[2]>> \in Parsed
  BY DEF Parsed
<1>2. /\ g \in Seq(Parsed) /\ DOMAIN given = 1 .. Len(given) /\ DOMAIN g = 1 .. Len(given) + 1
      /\ Len(given) \in Nat
      /\ \A i \in 1 .. Len(given) : g[i] = given[i]
      /\ g[Len(given) + 1] = <<w, a[1], a[2]>>
  BY <1>1, AppendIs
<1> HIDE DEF g
<1>3. \A i \in DOMAIN g : i \in DOMAIN given \/ i = Len(given) + 1
  BY <1>2
<1>4. w = "cmdline" /\ (\A i \in DOMAIN given : given[i][1] = "cmdline")
        => \A i \in DOMAIN g : g[i][1] = "cmdline"
  BY <1>2, <1>3
<1>5. QED
  BY <1>1, <1>2, <1>4 DEF g

\* What a step can be, and that the history keeps its type.
LEMMA StepIs ==
  ASSUME HistoryInv, [Next]_vars
  PROVE  /\ HistoryInv'
         /\ \/ \E a \in Seen, w \in Sources : SetsOption(w, a)
            \/ EndCommandLine \/ Validate \/ SetsNothing
<1> USE DEF HistoryInv
<1>1. CASE CommandLine
  <2>1. PICK a \in Args : Parse("cmdline", a[1], a[2], "cmdline")
    BY <1>1 DEF CommandLine
  <2>2. pc = "cmdline" /\ UNCHANGED <<raw_rule_cmd_line, conf_argv>>
    BY <1>1 DEF CommandLine, fileVars
  <2>3. a \in Seen /\ "cmdline" \in Sources
    BY DEF Seen, Sources
  <2>4. \/ SetsOption("cmdline", a)
        \/ SetsNothing /\ pc' # "cmdline"
    BY <2>1, <2>2 DEF Parse, SetsOption, SetsNothing
  <2>5. CASE SetsOption("cmdline", a)
    <3>1. given' = Append(given, <<"cmdline", a[1], a[2]>>)
      BY <2>5 DEF SetsOption
    <3>2. /\ given' \in Seq(Parsed)
          /\ \A i \in DOMAIN given' : given'[i][1] = "cmdline"
      BY <2>2, <2>3, <3>1, HistoryGrows
    <3>3. QED
      BY <2>2, <2>3, <2>5, <3>2
  <2>6. CASE SetsNothing /\ pc' # "cmdline"
    BY <2>2, <2>6 DEF SetsNothing
  <2>7. QED
    BY <2>4, <2>5, <2>6
<1>2. CASE ParseFile
  <2>1. pc = "parsefile" /\ UNCHANGED raw_rule_cmd_line
    BY <1>2 DEF ParseFile
  <2>2. CASE SetsNothing /\ UNCHANGED conf_argv /\ pc' # "cmdline"
    BY <2>2 DEF SetsNothing
  <2>3. ASSUME conf_argv # <<>>, LinesUsed(Head(conf_argv)) <= Len(conf_argv),
               Parse("file", Head(conf_argv)[1], ValueOf(Head(conf_argv)), "parsefile"),
               conf_argv' = SubSeq(conf_argv, LinesUsed(Head(conf_argv)) + 1, Len(conf_argv))
        PROVE  /\ HistoryInv'
               /\ SetsNothing \/ \E a \in Seen : SetsOption("file", a)
    <3>1. Head(conf_argv) \in Lines
      BY <2>3, HeadTailProperties
    <3>2. PICK a \in Seen : a[1] = Head(conf_argv)[1] /\ a[2] = ValueOf(Head(conf_argv))
      BY <3>1, LineIs
    <3>3. Parse("file", a[1], a[2], "parsefile")
      BY <2>3, <3>2
    <3>4. conf_argv' \in Seq(Lines)
      <4>1. LinesUsed(Head(conf_argv)) \in {1, 2} /\ Len(conf_argv) \in Nat
        BY LenProperties DEF LinesUsed
      <4>2. \A i \in LinesUsed(Head(conf_argv)) + 1 .. Len(conf_argv) : conf_argv[i] \in Lines
        BY <4>1, ElementOfSeq
      <4>3. QED
        BY <2>3, <4>1, <4>2, SubSeqProperties
    <3>5. given' \in Seq(Parsed)
      <4>1. Append(given, <<"file", a[1], a[2]>>) \in Seq(Parsed)
        BY HistoryGrows DEF Sources
      <4>2. QED
        BY <3>3, <4>1 DEF Parse
    <3>6. SetsOption("file", a) \/ SetsNothing
      BY <2>1, <3>3 DEF Parse, SetsOption, SetsNothing
    <3>7. pc' # "cmdline"
      BY <3>3 DEF Parse
    <3>8. QED
      BY <3>4, <3>5, <3>6, <3>7
  <2>4. \/ SetsNothing /\ UNCHANGED conf_argv /\ pc' # "cmdline"
        \/ /\ conf_argv # <<>> /\ LinesUsed(Head(conf_argv)) <= Len(conf_argv)
           /\ Parse("file", Head(conf_argv)[1], ValueOf(Head(conf_argv)), "parsefile")
           /\ conf_argv' = SubSeq(conf_argv, LinesUsed(Head(conf_argv)) + 1, Len(conf_argv))
    BY <1>2 DEF ParseFile, SetsNothing
  <2>5. QED
    BY <2>2, <2>3, <2>4 DEF Sources
<1>3. CASE ReadLine
  <2>1. conf_argv' = conf_argv \/ \E a \in Args, colon \in BOOLEAN :
                                    conf_argv' = Append(conf_argv, Line(a, colon))
    BY <1>3 DEF ReadLine, fileVars
  <2>2. conf_argv' \in Seq(Lines)
    BY <2>1, AppendProperties DEF Lines
  <2>3. SetsNothing /\ pc' # "cmdline"
    BY <1>3 DEF ReadLine, SetsNothing
  <2>4. QED
    BY <2>2, <2>3 DEF SetsNothing
<1>4. CASE EndFile
  <2>1. SetsNothing /\ pc' # "cmdline" /\ UNCHANGED conf_argv
    BY <1>4 DEF EndFile, SetsNothing, fileVars
  <2>2. QED
    BY <2>1 DEF SetsNothing
<1>5. CASE EndCommandLine
  BY <1>5 DEF EndCommandLine, fileVars
<1>6. CASE Validate
  BY <1>6 DEF Validate, fileVars
<1>7. CASE UNCHANGED vars
  BY <1>7 DEF vars, SetsNothing, fileVars
<1>8. QED
  BY <1>1, <1>2, <1>3, <1>4, <1>5, <1>6, <1>7 DEF Next

\* Nothing has been parsed at first.
LEMMA HistoryInit == Init => HistoryInv
BY DEF Init, HistoryInv

-----------------------------------------------------------------------------
(* What was set first stays.                                               *)

\* Settings, of any history and from some sources.
SettingsIn(h, o, W) ==
  {i \in DOMAIN h : h[i][2] = o /\ (o \in Num => h[i][3] # 0) /\ h[i][1] \in W}

\* x is the first setting of o in h from the sources W, or `none'.
First(h, o, W, x, none) ==
  \/ SettingsIn(h, o, W) = {} /\ x = none
  \/ /\ x # none
     /\ \E e \in SettingsIn(h, o, W) : x = h[e][3] /\ \A j \in SettingsIn(h, o, W) : e <= j

\* The settings that the property speaks of.
LEMMA SettingsAre ==
  ASSUME given \in Seq(Parsed), NEW o
  PROVE  /\ Settings(o) = SettingsIn(given, o, Sources)
         /\ OnCommandLine(o) = SettingsIn(given, o, {"cmdline"})
<1>1. \A i \in DOMAIN given : given[i] \in Parsed
  BY ElementOfSeq, LenProperties
<1>2. \A i \in DOMAIN given : given[i][1] \in Sources
  BY <1>1 DEF Parsed
<1>3. Settings(o) = SettingsIn(given, o, Sources)
  BY <1>2 DEF Settings, SettingsIn
<1>4. OnCommandLine(o) = SettingsIn(given, o, {"cmdline"})
  BY DEF OnCommandLine, Settings, SettingsIn
<1>5. QED
  BY <1>3, <1>4

\* The earliest setting is the one that the property names.
LEMMA FirstIs ==
  ASSUME given \in Seq(Parsed), NEW o, NEW W, NEW x, NEW none, First(given, o, W, x, none)
  PROVE  x = FirstOf(SettingsIn(given, o, W), none)
<1> DEFINE S == SettingsIn(given, o, W)
<1>1. S \subseteq Nat
  BY LenProperties DEF SettingsIn
<1>2. CASE S = {}
  BY <1>2 DEF First, FirstOf
<1>3. CASE S # {}
  <2>1. PICK e \in S : x = given[e][3] /\ \A j \in S : e <= j
    BY <1>3 DEF First
  <2> HIDE DEF S
  <2>2. EarliestOf(S) \in S /\ \A j \in S : EarliestOf(S) <= j
    BY <2>1 DEF EarliestOf
  <2>3. EarliestOf(S) = e
    <3>1. e \in Nat /\ EarliestOf(S) \in Nat
      BY <1>1, <2>1, <2>2
    <3>2. e <= EarliestOf(S) /\ EarliestOf(S) <= e
      BY <2>1, <2>2
    <3>3. QED
      BY <3>1, <3>2
  <2>4. QED
    BY <1>3, <2>1, <2>3 DEF FirstOf, S
<1>4. QED
  BY <1>2, <1>3

\* An argument that is parsed changes the option only while it is not set.
LEMMA FirstKept ==
  ASSUME NEW h \in Seq(Parsed), NEW w, NEW p, NEW v, <<w, p, v>> \in Parsed,
         NEW o, NEW W, NEW x, NEW y, NEW none,
         First(h, o, W, x, none),
         p # o \/ w \notin W \/ x # none => y = x,
         p = o /\ w \in W /\ x = none => y = v,
         p = o /\ w \in W /\ x = none => ((o \in Num => v # 0) <=> v # none)
  PROVE  First(Append(h, <<w, p, v>>), o, W, y, none)
<1> DEFINE g == Append(h, <<w, p, v>>)
           n == Len(h) + 1
<1>1. /\ DOMAIN h = 1 .. Len(h) /\ DOMAIN g = 1 .. n /\ Len(h) \in Nat
      /\ \A i \in 1 .. Len(h) : g[i] = h[i]
      /\ g[n] = <<w, p, v>>
  BY AppendIs
<1>2. Len(h) \in Nat /\ g[n][3] = v
  BY <1>1
<1> SUFFICES First(g, o, W, y, none)
  OBVIOUS
<1> HIDE DEF g
<1>3. \A i \in 1 .. Len(h) : i \in SettingsIn(g, o, W) <=> i \in SettingsIn(h, o, W)
  BY <1>1 DEF SettingsIn
<1>4. n \in SettingsIn(g, o, W) <=> p = o /\ w \in W /\ (o \in Num => v # 0)
  BY <1>1 DEF SettingsIn
<1>5. SettingsIn(h, o, W) \subseteq 1 .. Len(h) /\ SettingsIn(g, o, W) \subseteq 1 .. n
  BY <1>1 DEF SettingsIn
<1>6. CASE x # none
  <2>1. PICK e \in SettingsIn(h, o, W) : x = h[e][3] /\ \A j \in SettingsIn(h, o, W) : e <= j
    BY <1>6 DEF First
  <2>2. e \in SettingsIn(g, o, W) /\ g[e] = h[e]
    BY <1>1, <1>3, <1>5, <2>1
  <2>3. ASSUME NEW j \in SettingsIn(g, o, W) PROVE e <= j
    <3>1. e \in 1 .. Len(h) /\ j \in 1 .. n
      BY <1>5, <2>1
    <3>2. CASE j \in 1 .. Len(h)
      BY <1>3, <2>1, <3>2
    <3>3. CASE j = n
      BY <1>1, <3>1, <3>3
    <3>4. j \in 1 .. Len(h) \/ j = n
      BY <1>2, <3>1
    <3>5. QED
      BY <3>2, <3>3, <3>4
  <2>4. QED
    BY <1>6, <2>1, <2>2, <2>3 DEF First
<1>7. CASE x = none
  <2>1. SettingsIn(h, o, W) = {}
    BY <1>7 DEF First
  <2>2. ASSUME NEW j \in SettingsIn(g, o, W) PROVE j = n
    <3>1. j \in 1 .. n /\ j \notin 1 .. Len(h)
      BY <1>3, <1>5, <2>1
    <3>2. QED
      BY <1>2, <3>1
  <2>3. CASE n \notin SettingsIn(g, o, W)
    <3>1. SettingsIn(g, o, W) = {}
      BY <2>2, <2>3
    <3>2. y = none
      <4>1. CASE p = o /\ w \in W
        BY <1>4, <1>7, <2>3, <4>1
      <4>2. CASE p # o \/ w \notin W
        BY <1>7, <4>2
      <4>3. QED
        BY <4>1, <4>2
    <3>3. QED
      BY <3>1, <3>2 DEF First
  <2>4. CASE n \in SettingsIn(g, o, W)
    <3>1. p = o /\ y = v /\ v # none
      BY <1>4, <1>7, <2>4
    <3>2. y = g[n][3]
      BY <1>2, <3>1
    <3>3. \A j \in SettingsIn(g, o, W) : n <= j
      BY <1>1, <2>2
    <3>4. QED
      BY <2>4, <3>1, <3>2, <3>3 DEF First
  <2>5. QED
    BY <2>3, <2>4
<1>8. QED
  BY <1>6, <1>7

\* The strings whose precedence is that of numbers.
PlainStr == Str \ {"compiled_rules_file", "conf_file"}

\* Where compiled rules may come from.
CompiledSources == IF raw_rule_cmd_line THEN {"cmdline"} ELSE Sources

\* The name of the file is the first on the command line, later or the default one.
NameInv ==
  \E x : /\ First(given, "conf_file", {"cmdline"}, x, None)
         /\ \/ pc \in {"cmdline", "failed", "exit"} /\ str["conf_file"] = x
            \/ /\ pc # "cmdline"
               /\ str["conf_file"] = IF x = None THEN "runtime.conf" ELSE x

\* Before the defaults, every option has its first setting.
FirstInv ==
  /\ num \in [Num -> 0 .. UintMax] /\ DOMAIN str = Str
  /\ pc # "done" =>
       /\ \A o \in Num : First(given, o, Sources, num[o], 0)
       /\ \A o \in PlainStr : First(given, o, Sources, str[o], None)
       /\ First(given, "regex_dev", Sources, regex_dev, None)
       /\ First(given, "input_mode", Sources, input_mode, None)
       /\ First(given, "dpdk", Sources, dpdk_argv, None)
       /\ First(given, "compiled_rules_file", CompiledSources, str["compiled_rules_file"], None)
       /\ NameInv

\* The kinds of options do not overlap.
LEMMA KindsDiffer ==
  /\ Num \cap Str = {} /\ Num \cap Flag = {} /\ Str \cap Flag = {}
  /\ {"regex_dev", "input_mode", "dpdk"} \cap (Num \cup Str \cup Flag) = {}
BY DEF Num, Str, Flag

\* What an argument does to the numeric options.
LEMMA NumEffect ==
  ASSUME NEW a \in Seen, Set(a[1], a[2]), num \in [Num -> 0 .. UintMax]
  PROVE  /\ num' \in [Num -> 0 .. UintMax]
         /\ \A q \in Num : /\ a[1] # q \/ num[q] # 0 => num'[q] = num[q]
                           /\ a[1] = q /\ num[q] = 0 => num'[q] = a[2]
<1>1. CASE a[1] \in Num /\ SetNum(a[1], a[2])
  <2>1. a[2] \in -1 .. UintMax /\ UintMax \in Nat
    BY <1>1, SeenAre, ConfigurationAssumption
  <2>2. num' = [num EXCEPT ![a[1]] = IF num[a[1]] = 0 THEN a[2] ELSE num[a[1]]]
    BY <1>1 DEF SetNum
  <2>3. num[a[1]] = 0 => a[2] \in 0 .. UintMax
    BY <1>1, <2>1 DEF SetNum
  <2>4. QED
    BY <1>1, <2>2, <2>3
<1>2. CASE a[1] \notin Num /\ num' = num
  BY <1>2
<1>3. QED
  BY <1>1, <1>2, KindsDiffer DEF Set, SetStr, SetFlag, SetDev, SetMode, SetDpdk

\* What an argument does to the strings.
LEMMA StrEffect ==
  ASSUME NEW a \in Seen, Set(a[1], a[2]), DOMAIN str = Str
  PROVE  /\ DOMAIN str' = Str
         /\ \A q \in Str : a[1] # q \/ str[q] # None => str'[q] = str[q]
         /\ \A q \in Str :
              a[1] = q /\ str[q] = None /\ ~(q = "compiled_rules_file" /\ raw_rule_cmd_line)
                => str'[q] = a[2]
         /\ raw_rule_cmd_line => str'["compiled_rules_file"] = str["compiled_rules_file"]
<1>1. CASE a[1] \in Str /\ SetStr(a[1], a[2])
  <2>1. str' = [str EXCEPT ![a[1]] =
                  IF @ = None /\ ~(a[1] = "compiled_rules_file" /\ raw_rule_cmd_line)
                  THEN a[2] ELSE @]
    BY <1>1 DEF SetStr
  <2>2. DOMAIN str' = Str
    BY <2>1
  <2>3. \A q \in Str : a[1] # q \/ str[q] # None => str'[q] = str[q]
    BY <1>1, <2>1
  <2>4. \A q \in Str :
          a[1] = q /\ str[q] = None /\ ~(q = "compiled_rules_file" /\ raw_rule_cmd_line)
            => str'[q] = a[2]
    BY <1>1, <2>1
  <2>5. raw_rule_cmd_line => str'["compiled_rules_file"] = str["compiled_rules_file"]
    BY <1>1, <2>1 DEF Str
  <2>6. QED
    BY <2>2, <2>3, <2>4, <2>5
<1>2. CASE a[1] \notin Str /\ str' = str
  BY <1>2
<1>3. QED
  BY <1>1, <1>2, KindsDiffer DEF Set, SetNum, SetFlag, SetDev, SetMode, SetDpdk

\* What an argument does to the device.
LEMMA DevEffect ==
  ASSUME NEW a \in Seen, Set(a[1], a[2])
  PROVE  /\ a[1] # "regex_dev" \/ regex_dev # None => regex_dev' = regex_dev
         /\ a[1] = "regex_dev" /\ regex_dev = None => regex_dev' = a[2] /\ a[2] \in Dev
<1>1. CASE a[1] = "regex_dev" /\ SetDev(a[2])
  BY <1>1 DEF SetDev
<1>2. CASE a[1] # "regex_dev" /\ regex_dev' = regex_dev
  BY <1>2
<1>3. QED
  BY <1>1, <1>2, KindsDiffer DEF Set, SetNum, SetStr, SetFlag, SetMode, SetDpdk

\* What an argument does to the input mode.
LEMMA ModeEffect ==
  ASSUME NEW a \in Seen, Set(a[1], a[2])
  PROVE  /\ a[1] # "input_mode" \/ input_mode # None => input_mode' = input_mode
         /\ a[1] = "input_mode" /\ input_mode = None => input_mode' = a[2] /\ a[2] \in Mode
<1>1. CASE a[1] = "input_mode" /\ SetMode(a[2])
  BY <1>1 DEF SetMode
<1>2. CASE a[1] # "input_mode" /\ input_mode' = input_mode
  BY <1>2
<1>3. QED
  BY <1>1, <1>2, KindsDiffer DEF Set, SetNum, SetStr, SetFlag, SetDev, SetDpdk

\* What an argument does to the EAL options.
LEMMA DpdkEffect ==
  ASSUME NEW a \in Seen, Set(a[1], a[2])
  PROVE  /\ a[1] # "dpdk" \/ dpdk_argv # None => dpdk_argv' = dpdk_argv
         /\ a[1] = "dpdk" /\ dpdk_argv = None => dpdk_argv' = a[2]
<1>1. CASE a[1] = "dpdk" /\ SetDpdk(a[2])
  BY <1>1 DEF SetDpdk
<1>2. CASE a[1] # "dpdk" /\ dpdk_argv' = dpdk_argv
  BY <1>2
<1>3. QED
  BY <1>1, <1>2, KindsDiffer DEF Set, SetNum, SetStr, SetFlag, SetDev, SetMode

\* The default of an option is a number of its type.
LEMMA DefaultsIn ==
  ASSUME NEW o \in Num
  PROVE  DefaultOf(o) \in 0 .. UintMax
<1>1. /\ UintMax \in Nat /\ UintMax > 0
      /\ DefaultBufLen \in 0 .. UintMax /\ DefaultBatch \in 0 .. UintMax
      /\ DefaultWindow \in 0 .. UintMax
  BY LimitsAre
<1>2. QED
  BY <1>1 DEF DefaultOf

\* Nothing of the file names the file.
LEMMA NameKept ==
  ASSUME HistoryInv, NEW a \in Seen, NEW w \in Sources, SetsOption(w, a),
         DOMAIN str = Str, NameInv
  PROVE  NameInv'
<1> DEFINE name == "conf_file"
<1>1. /\ Set(a[1], a[2]) /\ given' = Append(given, <<w, a[1], a[2]>>)
      /\ given \in Seq(Parsed) /\ <<w, a[1], a[2]>> \in Parsed
      /\ pc' = pc /\ pc \in {"cmdline", "parsefile"} /\ (w = "cmdline" <=> pc = "cmdline")
  BY HistoryGrows DEF SetsOption, HistoryInv
<1>2. name \in Str /\ name # "compiled_rules_file" /\ name \notin Num
  BY DEF Str, Num
<1>3. /\ a[1] # name \/ str[name] # None => str'[name] = str[name]
      /\ a[1] = name /\ str[name] = None => str'[name] = a[2]
  BY <1>1, <1>2, StrEffect
<1>4. a[1] = name => a[2] # None
  BY <1>2, SeenAre
<1>5. PICK x : /\ First(given, name, {"cmdline"}, x, None)
               /\ \/ pc \in {"cmdline", "failed", "exit"} /\ str[name] = x
                  \/ pc # "cmdline" /\ str[name] = IF x = None THEN "runtime.conf" ELSE x
  BY DEF NameInv
<1>6. CASE pc = "cmdline"
  <2>1. str[name] = x /\ w = "cmdline"
    BY <1>1, <1>5, <1>6
  <2>2. First(given', name, {"cmdline"}, str'[name], None)
    BY <1>1, <1>2, <1>3, <1>4, <1>5, <2>1, FirstKept
  <2>3. QED
    BY <1>1, <1>6, <2>2 DEF NameInv
<1>7. CASE pc = "parsefile"
  <2>1. str[name] = (IF x = None THEN "runtime.conf" ELSE x) /\ w \notin {"cmdline"}
    BY <1>1, <1>5, <1>7
  <2>2. str[name] # None
    BY <2>1, ConfigurationAssumption
  <2>3. First(given', name, {"cmdline"}, x, None)
    BY <1>1, <1>5, <2>1, FirstKept
  <2>4. str'[name] = str[name]
    BY <1>3, <2>2
  <2>5. QED
    BY <1>1, <1>7, <2>1, <2>3, <2>4 DEF NameInv
<1>8. QED
  BY <1>1, <1>6, <1>7

\* No argument displaces an earlier setting.
LEMMA FirstParsed ==
  ASSUME HistoryInv, FirstInv, NEW a \in Seen, NEW w \in Sources, SetsOption(w, a)
  PROVE  FirstInv'
<1> USE DEF FirstInv
<1>1. /\ Set(a[1], a[2]) /\ given' = Append(given, <<w, a[1], a[2]>>)
      /\ pc # "done" /\ given \in Seq(Parsed) /\ <<w, a[1], a[2]>> \in Parsed
      /\ pc \in {"cmdline", "parsefile"} /\ (w = "cmdline" <=> pc = "cmdline")
      /\ raw_rule_cmd_line' = raw_rule_cmd_line
  BY HistoryGrows DEF SetsOption, HistoryInv
<1>2. /\ num' \in [Num -> 0 .. UintMax]
      /\ \A q \in Num : /\ a[1] # q \/ num[q] # 0 => num'[q] = num[q]
                        /\ a[1] = q /\ num[q] = 0 => num'[q] = a[2]
  BY <1>1, NumEffect
<1>3. /\ DOMAIN str' = Str
      /\ \A q \in PlainStr : /\ a[1] # q \/ str[q] # None => str'[q] = str[q]
                             /\ a[1] = q /\ str[q] = None => str'[q] = a[2]
  BY <1>1, StrEffect DEF PlainStr
<1>4. ASSUME NEW q \in Num PROVE First(given', q, Sources, num'[q], 0)
  <2>1. First(given, q, Sources, num[q], 0)
    BY <1>1
  <2>2. a[1] = q /\ num[q] = 0 => ((q \in Num => a[2] # 0) <=> a[2] # 0)
    OBVIOUS
  <2>3. QED
    BY <1>1, <1>2, <2>1, <2>2, FirstKept
<1>5. ASSUME NEW q \in PlainStr PROVE First(given', q, Sources, str'[q], None)
  <2>1. First(given, q, Sources, str[q], None)
    BY <1>1
  <2>2. q \in Str /\ q \notin Num
    BY KindsDiffer DEF PlainStr
  <2>3. a[1] = q /\ str[q] = None => ((q \in Num => a[2] # 0) <=> a[2] # None)
    BY <2>2, SeenAre
  <2>4. QED
    BY <1>1, <1>3, <2>1, <2>3, FirstKept
<1>6. First(given', "regex_dev", Sources, regex_dev', None)
  <2>1. First(given, "regex_dev", Sources, regex_dev, None) /\ "regex_dev" \notin Num
    BY <1>1, KindsDiffer
  <2>2. /\ a[1] # "regex_dev" \/ regex_dev # None => regex_dev' = regex_dev
        /\ a[1] = "regex_dev" /\ regex_dev = None => regex_dev' = a[2] /\ a[2] \in Dev
    BY <1>1, DevEffect
  <2>3. a[1] = "regex_dev" /\ regex_dev = None
          => (("regex_dev" \in Num => a[2] # 0) <=> a[2] # None)
    BY <2>1, <2>2, ConfigurationAssumption
  <2>4. QED
    BY <1>1, <2>1, <2>2, <2>3, FirstKept
<1>7. First(given', "input_mode", Sources, input_mode', None)
  <2>1. First(given, "input_mode", Sources, input_mode, None) /\ "input_mode" \notin Num
    BY <1>1, KindsDiffer
  <2>2. /\ a[1] # "input_mode" \/ input_mode # None => input_mode' = input_mode
        /\ a[1] = "input_mode" /\ input_mode = None => input_mode' = a[2] /\ a[2] \in Mode
    BY <1>1, ModeEffect
  <2>3. a[1] = "input_mode" /\ input_mode = None
          => (("input_mode" \in Num => a[2] # 0) <=> a[2] # None)
    BY <2>1, <2>2, ConfigurationAssumption
  <2>4. QED
    BY <1>1, <2>1, <2>2, <2>3, FirstKept
<1>8. First(given', "dpdk", Sources, dpdk_argv', None)
  <2>1. First(given, "dpdk", Sources, dpdk_argv, None) /\ "dpdk" \notin Num
    BY <1>1, KindsDiffer
  <2>2. /\ a[1] # "dpdk" \/ dpdk_argv # None => dpdk_argv' = dpdk_argv
        /\ a[1] = "dpdk" /\ dpdk_argv = None => dpdk_argv' = a[2]
    BY <1>1, DpdkEffect
  <2>3. a[1] = "dpdk" /\ dpdk_argv = None
          => (("dpdk" \in Num => a[2] # 0) <=> a[2] # None)
    BY <2>1, SeenAre
  <2>4. QED
    BY <1>1, <2>1, <2>2, <2>3, FirstKept
<1>9. First(given', "compiled_rules_file", CompiledSources', str'["compiled_rules_file"], None)
  <2> DEFINE comp == "compiled_rules_file"
  <2>1. First(given, comp, CompiledSources, str[comp], None)
    BY <1>1
  <2>2. comp \in Str /\ comp \notin Num
    BY DEF Str, Num
  <2>3. /\ a[1] # comp \/ str[comp] # None => str'[comp] = str[comp]
        /\ a[1] = comp /\ str[comp] = None /\ ~raw_rule_cmd_line => str'[comp] = a[2]
        /\ raw_rule_cmd_line => str'[comp] = str[comp]
    BY <1>1, <2>2, StrEffect
  <2>4. raw_rule_cmd_line => w \notin {"cmdline"}
    BY <1>1 DEF HistoryInv
  <2>5. w \in CompiledSources <=> ~raw_rule_cmd_line
    BY <2>4 DEF CompiledSources
  <2>6. a[1] = comp => ((comp \in Num => a[2] # 0) <=> a[2] # None)
    BY <2>2, SeenAre
  <2>7. First(given', comp, CompiledSources, str'[comp], None)
    BY <1>1, <2>1, <2>3, <2>5, <2>6, FirstKept
  <2>8. CompiledSources' = CompiledSources
    BY <1>1 DEF CompiledSources
  <2>9. QED
    BY <2>7, <2>8
<1>10. NameInv'
  BY <1>1, NameKept
<1>11. QED
  BY <1>2, <1>3, <1>4, <1>5, <1>6, <1>7, <1>8, <1>9, <1>10

\* The end of the command line changes no option but the name of the file.
LEMMA FirstNamed ==
  ASSUME HistoryInv, FirstInv, EndCommandLine
  PROVE  FirstInv'
<1> USE DEF FirstInv
<1>1. /\ UNCHANGED <<num, regex_dev, input_mode, dpdk_argv, given>> /\ pc = "cmdline"
      /\ \/ /\ str' = [str EXCEPT !["conf_file"] = IF @ = None THEN "runtime.conf" ELSE @]
            /\ pc' \in {"readfile", "validate"}
         \/ pc' = "failed" /\ UNCHANGED str
  BY DEF EndCommandLine
<1>2. DOMAIN str' = Str /\ "conf_file" \in Str
  BY <1>1 DEF Str
<1>3. \A q \in Str \ {"conf_file"} : str'[q] = str[q]
  BY <1>1
<1>4. "compiled_rules_file" \in Str \ {"conf_file"} /\ PlainStr \subseteq Str \ {"conf_file"}
  BY DEF Str, PlainStr
<1>5. First(given', "compiled_rules_file", CompiledSources', str'["compiled_rules_file"], None)
  <2> DEFINE comp == "compiled_rules_file"
  <2>1. SettingsIn(given, comp, CompiledSources') = SettingsIn(given, comp, CompiledSources)
    <3>1. \A i \in DOMAIN given : given[i][1] = "cmdline"
      BY <1>1 DEF HistoryInv
    <3>2. "cmdline" \in CompiledSources /\ "cmdline" \in CompiledSources'
      BY DEF CompiledSources, Sources
    <3>3. QED
      BY <3>1, <3>2 DEF SettingsIn
  <2>2. First(given, comp, CompiledSources', str[comp], None)
    BY <1>1, <2>1 DEF First
  <2>3. QED
    BY <1>1, <1>3, <1>4, <2>2
<1>6. NameInv'
  <2>1. PICK x : /\ First(given, "conf_file", {"cmdline"}, x, None)
                 /\ \/ pc \in {"cmdline", "failed", "exit"} /\ str["conf_file"] = x
                    \/ /\ pc # "cmdline"
                       /\ str["conf_file"] = IF x = None THEN "runtime.conf" ELSE x
    BY <1>1 DEF NameInv
  <2>2. str["conf_file"] = x
    BY <1>1, <2>1
  <2>3. CASE pc' = "failed" /\ UNCHANGED str
    BY <1>1, <2>1, <2>2, <2>3 DEF NameInv
  <2>4. CASE /\ str' = [str EXCEPT !["conf_file"] = IF @ = None THEN "runtime.conf" ELSE @]
             /\ pc' \in {"readfile", "validate"}
    <3>1. str'["conf_file"] = IF x = None THEN "runtime.conf" ELSE x
      BY <1>2, <2>2, <2>4
    <3>2. QED
      BY <1>1, <2>1, <2>4, <3>1 DEF NameInv
  <2>5. QED
    BY <1>1, <2>3, <2>4
<1>7. QED
  BY <1>1, <1>2, <1>3, <1>4, <1>5, <1>6

\* Every step keeps the first settings.
LEMMA FirstStep ==
  ASSUME HistoryInv, FirstInv, [Next]_vars
  PROVE  FirstInv'
<1>1. ASSUME NEW a \in Seen, NEW w \in Sources, SetsOption(w, a)
      PROVE  FirstInv'
  BY <1>1, FirstParsed
<1>2. CASE SetsNothing
  <2>1. /\ UNCHANGED <<num, str, regex_dev, input_mode, dpdk_argv, given, raw_rule_cmd_line>>
        /\ (pc' # "done" => pc # "done")
    BY <1>2 DEF SetsNothing, confVars
  <2>2. pc # "done" /\ NameInv => NameInv'
    <3>1. pc' \in {"failed", "exit"} \/ pc' = pc \/ (pc # "cmdline" /\ pc' # "cmdline"
                                                     /\ pc \notin {"failed", "exit"})
      BY <1>2 DEF SetsNothing
    <3>2. QED
      BY <2>1, <3>1 DEF NameInv
  <2>3. CompiledSources' = CompiledSources
    BY <2>1 DEF CompiledSources
  <2>4. QED
    BY <2>1, <2>2, <2>3 DEF FirstInv
<1>3. CASE EndCommandLine
  BY <1>3, FirstNamed
<1>4. CASE Validate
  <2>1. CASE Rejected
    <3>1. /\ UNCHANGED <<num, str, regex_dev, input_mode, dpdk_argv, given, raw_rule_cmd_line>>
          /\ pc = "validate" /\ pc' = "failed"
      BY <1>4, <2>1 DEF Validate
    <3>2. NameInv => NameInv'
      BY <3>1 DEF NameInv
    <3>3. CompiledSources' = CompiledSources
      BY <3>1 DEF CompiledSources
    <3>4. QED
      BY <3>1, <3>2, <3>3 DEF FirstInv
  <2>2. CASE ~Rejected
    <3>1. pc' = "done" /\ str' = str /\ num' = [o \in Num |-> OrDefault(num[o], DefaultOf(o))]
      BY <1>4, <2>2 DEF Validate
    <3>2. \A o \in Num : OrDefault(num[o], DefaultOf(o)) \in 0 .. UintMax
      BY DefaultsIn DEF FirstInv, OrDefault
    <3>3. QED
      BY <3>1, <3>2 DEF FirstInv
  <2>3. QED
    BY <2>1, <2>2
<1>5. QED
  BY <1>1, <1>2, <1>3, <1>4, StepIs

\* Nothing is given, nothing is set.
LEMMA FirstInit == Init => FirstInv
<1> SUFFICES ASSUME Init PROVE FirstInv
  OBVIOUS
<1>1. UintMax \in Nat
  BY ConfigurationAssumption
<1>2. num \in [Num -> 0 .. UintMax] /\ DOMAIN str = Str
  BY <1>1 DEF Init
<1>3. \A o, W : SettingsIn(given, o, W) = {}
  BY DEF Init, SettingsIn
<1>4. str["conf_file"] = None /\ str["compiled_rules_file"] = None
  BY DEF Init, Str
<1>5. NameInv
  BY <1>3, <1>4 DEF Init, NameInv, First
<1>6. QED
  BY <1>2, <1>3, <1>4, <1>5 DEF Init, FirstInv, First, PlainStr

\* What the invariant says is what the property says.
LEMMA FirstWins == HistoryInv /\ FirstInv => FirstSettingWins
<1> SUFFICES ASSUME HistoryInv, FirstInv, pc # "done" PROVE FirstSettingWins
  BY DEF FirstSettingWins
<1>1. given \in Seq(Parsed)
  BY DEF HistoryInv
<1>2. \A o, x, none : First(given, o, Sources, x, none) => x = FirstOf(Settings(o), none)
  BY <1>1, FirstIs, SettingsAre
<1>3. \A o, x, none : First(given, o, {"cmdline"}, x, none)
                        => x = FirstOf(OnCommandLine(o), none)
  BY <1>1, FirstIs, SettingsAre
<1>4. str["compiled_rules_file"] =
        FirstOf(IF raw_rule_cmd_line THEN OnCommandLine("compiled_rules_file")
                ELSE Settings("compiled_rules_file"), None)
  BY <1>2, <1>3 DEF FirstInv, CompiledSources
<1>5. \/ pc \in {"cmdline", "failed", "exit"}
         /\ str["conf_file"] = FirstOf(OnCommandLine("conf_file"), None)
      \/ pc # "cmdline"
         /\ str["conf_file"] = FirstOf(OnCommandLine("conf_file"), "runtime.conf")
  <2>1. PICK x : /\ First(given, "conf_file", {"cmdline"}, x, None)
                 /\ \/ pc \in {"cmdline", "failed", "exit"} /\ str["conf_file"] = x
                    \/ /\ pc # "cmdline"
                       /\ str["conf_file"] = IF x = None THEN "runtime.conf" ELSE x
    BY DEF FirstInv, NameInv
  <2>2. x = FirstOf(OnCommandLine("conf_file"), None)
    BY <1>3, <2>1
  <2>3. OnCommandLine("conf_file") = {} <=> x = None
    BY <1>1, <2>1, SettingsAre DEF First
  <2>4. FirstOf(OnCommandLine("conf_file"), "runtime.conf")
          = IF x = None THEN "runtime.conf" ELSE x
    BY <2>2, <2>3 DEF FirstOf
  <2>5. QED
    BY <2>1, <2>2, <2>4
<1>6. QED
  BY <1>2, <1>4, <1>5 DEF FirstInv, FirstSettingWins, PlainStr

\* Precedence of the command line, and of earlier arguments, for every history.
THEOREM EarlierWins == Spec => []FirstSettingWins
<1>1. Init => HistoryInv /\ FirstInv
  BY HistoryInit, FirstInit
<1>2. HistoryInv /\ FirstInv /\ [Next]_vars => (HistoryInv /\ FirstInv)'
  BY StepIs, FirstStep
<1>3. HistoryInv /\ FirstInv => FirstSettingWins
  BY FirstWins
<1>4. QED
  BY <1>1, <1>2, <1>3, PTL DEF Spec

-----------------------------------------------------------------------------
(* An accepted configuration is usable.                                    *)

\* The values that the rest of the program relies on.
Usable ==
  /\ num["input_batches"] \in 1 .. TxRing
  /\ input_mode = "dpdk_port" => num["input_batches"] >= 4 /\ str["port1"] # None
  /\ num["cores"] \in 1 .. MaxLcore - 1
  /\ input_mode \in FileMode =>
       num["input_overlap"] < num["input_buf_len"] /\ num["input_iterations"] > 0

\* What the validation accepts is usable once it has its defaults.
LEMMA ValidatedUsable ==
  ASSUME num \in [Num -> 0 .. UintMax], ~Rejected, UNCHANGED <<str, input_mode>>,
         num' = [o \in Num |-> OrDefault(num[o], DefaultOf(o))]
  PROVE  Usable'
<1>1. {"cores", "input_batches", "input_overlap", "input_buf_len", "input_iterations"} \subseteq Num
  BY DEF Num
<1>2. \A o \in Num : num'[o] = OrDefault(num[o], DefaultOf(o)) /\ num[o] \in Nat
  BY ConfigurationAssumption
<1>3. num'["input_batches"] = OrDefault(num["input_batches"], DefaultBatch)
  BY <1>1, <1>2 DEF DefaultOf
<1>4. num'["cores"] = OrDefault(num["cores"], 1)
  BY <1>1, <1>2 DEF DefaultOf
<1>5. /\ num'["input_buf_len"] = OrDefault(num["input_buf_len"], DefaultBufLen)
      /\ num'["input_overlap"] = num["input_overlap"]
  BY <1>1, <1>2 DEF DefaultOf, OrDefault
<1>6. num'["input_iterations"] > 0
  <2>1. UintMax \in Nat \ {0}
    BY ConfigurationAssumption
  <2>2. DefaultOf("input_iterations") \in Nat \ {0}
    BY <2>1 DEF DefaultOf
  <2>3. num["input_iterations"] \in Nat
    BY <1>1, <1>2, Zenon
  <2>4. num'["input_iterations"] = OrDefault(num["input_iterations"], DefaultOf("input_iterations"))
    BY <1>1, <1>2, Zenon
  <2>5. QED
    BY <2>2, <2>3, <2>4 DEF OrDefault
<1>7. num["input_batches"] <= TxRing /\ num["cores"] < MaxLcore
  <2>1. ~(num["input_batches"] > TxRing) /\ ~(num["cores"] >= MaxLcore)
    BY DEF Rejected
  <2>2. /\ num["input_batches"] \in Nat /\ num["cores"] \in Nat
        /\ TxRing \in Nat /\ MaxLcore \in Nat
    <3>1. TxRing \in Nat /\ MaxLcore \in Nat
      BY LimitsAre
    <3>2. QED
      BY ONLY <1>1, <1>2, <3>1
  <2>3. QED
    BY ONLY <2>1, <2>2
<1>8. input_mode = "dpdk_port" => str["port1"] # None /\ num["input_batches"] \notin 1 .. 3
  BY DEF Rejected
<1>9. input_mode \in FileMode => num'["input_overlap"] < num'["input_buf_len"]
  <2>1. OrDefault(num["input_buf_len"], DefaultBufLen) \in Nat /\ num["input_overlap"] \in Nat
    BY <1>1, <1>2, ConfigurationAssumption DEF OrDefault
  <2>2. QED
    BY <1>5, <2>1 DEF Rejected
<1>10. num'["input_batches"] \in 1 .. TxRing
  BY <1>1, <1>2, <1>3, <1>7, LimitsAre DEF OrDefault
<1>11. num'["cores"] \in 1 .. MaxLcore - 1
  <2>1. num["cores"] \in Nat /\ MaxLcore \in Nat /\ MaxLcore > 1
    BY <1>1, <1>2, LimitsAre
  <2>2. QED
    BY ONLY <1>4, <1>7, <2>1 DEF OrDefault
<1>12. input_mode = "dpdk_port" => num'["input_batches"] >= 4
  BY <1>1, <1>2, <1>3, <1>8, LimitsAre DEF OrDefault
<1>13. QED
  BY <1>6, <1>8, <1>9, <1>10, <1>11, <1>12 DEF Usable

\* No configuration that the start accepts lets a chunk overrun its ring or a receive
\* queue, leaves main without an lcore, or has an overlap as large as its buffers.
THEOREM AcceptedUsable == Spec => []AcceptedIsUsable
<1>1. Init => HistoryInv /\ FirstInv /\ AcceptedIsUsable
  BY FirstInit, HistoryInit DEF Init, AcceptedIsUsable
<1>2. HistoryInv /\ FirstInv /\ AcceptedIsUsable /\ [Next]_vars
        => (HistoryInv /\ FirstInv /\ AcceptedIsUsable)'
  <2> SUFFICES ASSUME HistoryInv, FirstInv, AcceptedIsUsable, [Next]_vars
               PROVE  AcceptedIsUsable'
    BY StepIs, FirstStep
  <2>1. AcceptedIsUsable <=> (pc = "done" => Usable)
    BY DEF AcceptedIsUsable, Usable
  <2>2. CASE pc' # "done"
    BY <2>2 DEF AcceptedIsUsable
  <2>3. CASE Validate /\ pc' = "done"
    <3>1. Usable'
      BY <2>3, ValidatedUsable DEF Validate, FirstInv
    <3>2. QED
      BY <3>1 DEF AcceptedIsUsable, Usable
  <2>4. CASE SetsNothing /\ pc' = "done"
    BY <2>4 DEF SetsNothing, confVars, AcceptedIsUsable
  <2>5. CASE pc' = "done" /\ ~Validate /\ ~SetsNothing
    <3>1. \/ EndCommandLine
          \/ \E a \in Seen, w \in Sources : SetsOption(w, a)
      BY <2>5, StepIs
    <3>2. QED
      BY <2>5, <3>1 DEF EndCommandLine, SetsOption
  <2>6. QED
    BY <2>2, <2>3, <2>4, <2>5
<1>3. QED
  BY <1>1, <1>2, PTL DEF Spec

-----------------------------------------------------------------------------
(* Raw rules of the command line.                                          *)

\* The command line gave raw rules; it gave compiled ones.
GaveRaw == \E i \in Settings("raw_rules_file") : given[i][1] = "cmdline"
GaveCompiled == \E i \in Settings("compiled_rules_file") : given[i][1] = "cmdline"

\* The history of the command line is remembered in raw_rule_cmd_line when it ends.
RawInv ==
  /\ Settings("compiled_rules_file") = {} => str["compiled_rules_file"] = None
  /\ pc = "cmdline" /\ GaveRaw => str["raw_rules_file"] # None
  /\ pc \in {"readfile", "parsefile", "validate"} /\ GaveRaw => raw_rule_cmd_line
  /\ GaveRaw /\ ~GaveCompiled => str["compiled_rules_file"] = None

\* It is stronger than the property.
LEMMA RawIs == HistoryInv /\ RawInv => RawRulesNotOverridden
<1> SUFFICES ASSUME HistoryInv, RawInv, GaveRaw,
                    \A i \in Settings("compiled_rules_file") : given[i][1] = "file"
             PROVE  str["compiled_rules_file"] = None
  BY DEF RawRulesNotOverridden, GaveRaw
<1>1. ~GaveCompiled
  BY DEF GaveCompiled
<1>2. QED
  BY <1>1 DEF RawInv

\* How an argument extends the settings of the rules.
LEMMA RulesGrow ==
  ASSUME HistoryInv, NEW a \in Seen, NEW w \in Sources,
         given' = Append(given, <<w, a[1], a[2]>>),
         NEW o \in {"raw_rules_file", "compiled_rules_file"}
  PROVE  /\ Settings(o)' = {} => Settings(o) = {} /\ a[1] # o
         /\ (\E i \in Settings(o)' : given'[i][1] = "cmdline")
              <=> (\E i \in Settings(o) : given[i][1] = "cmdline") \/ (a[1] = o /\ w = "cmdline")
<1>1. o \notin Num
  BY DEF Num
<1>2. <<w, a[1], a[2]>> \in Parsed
  BY HistoryGrows DEF HistoryInv
<1>3. /\ DOMAIN given = 1 .. Len(given) /\ DOMAIN given' = 1 .. Len(given) + 1
      /\ Len(given) \in Nat
      /\ \A i \in 1 .. Len(given) : given'[i] = given[i]
      /\ given'[Len(given) + 1] = <<w, a[1], a[2]>>
  BY <1>2, AppendIs DEF HistoryInv
<1>4. \A i \in 1 .. Len(given) : i \in Settings(o)' <=> i \in Settings(o)
  BY <1>1, <1>3 DEF Settings
<1>5. Len(given) + 1 \in Settings(o)' <=> a[1] = o
  BY <1>1, <1>3 DEF Settings
<1>6. Settings(o) \subseteq 1 .. Len(given) /\ Settings(o)' \subseteq 1 .. Len(given) + 1
  BY <1>3 DEF Settings
<1>7. \A i \in Settings(o)' : i \in 1 .. Len(given) \/ i = Len(given) + 1
  BY <1>3, <1>6
<1>8. Settings(o)' = {} => Settings(o) = {} /\ a[1] # o
  BY <1>4, <1>5, <1>6
<1>9. ASSUME NEW i \in Settings(o)', given'[i][1] = "cmdline"
      PROVE  (\E j \in Settings(o) : given[j][1] = "cmdline") \/ (a[1] = o /\ w = "cmdline")
  <2>1. CASE i \in 1 .. Len(given)
    BY <1>3, <1>4, <1>9, <2>1
  <2>2. CASE i = Len(given) + 1
    BY <1>3, <1>5, <1>9, <2>2
  <2>3. QED
    BY <1>7, <2>1, <2>2
<1>10. ASSUME NEW j \in Settings(o), given[j][1] = "cmdline"
       PROVE  \E i \in Settings(o)' : given'[i][1] = "cmdline"
  BY <1>3, <1>4, <1>6, <1>10
<1>11. ASSUME a[1] = o, w = "cmdline"
       PROVE  \E i \in Settings(o)' : given'[i][1] = "cmdline"
  BY <1>3, <1>5, <1>11
<1>12. QED
  BY <1>8, <1>9, <1>10, <1>11

\* No argument breaks it.
LEMMA RawStep ==
  ASSUME HistoryInv, FirstInv, RawInv, [Next]_vars
  PROVE  RawInv'
<1>1. ASSUME NEW a \in Seen, NEW w \in Sources, SetsOption(w, a)
      PROVE  RawInv'
  <2> DEFINE raw == "raw_rules_file"
             comp == "compiled_rules_file"
  <2>1. /\ Set(a[1], a[2]) /\ given' = Append(given, <<w, a[1], a[2]>>)
        /\ pc' = pc /\ pc \in {"cmdline", "parsefile"} /\ (w = "cmdline" <=> pc = "cmdline")
        /\ raw_rule_cmd_line' = raw_rule_cmd_line
    BY <1>1 DEF SetsOption
  <2>2. /\ Settings(comp)' = {} => Settings(comp) = {} /\ a[1] # comp
        /\ GaveRaw' <=> GaveRaw \/ (a[1] = raw /\ w = "cmdline")
        /\ GaveCompiled' <=> GaveCompiled \/ (a[1] = comp /\ w = "cmdline")
    BY <2>1, RulesGrow DEF GaveRaw, GaveCompiled
  <2>3. /\ \A q \in Str : a[1] # q \/ str[q] # None => str'[q] = str[q]
        /\ \A q \in PlainStr : a[1] = q /\ str[q] = None => str'[q] = a[2]
        /\ raw_rule_cmd_line => str'[comp] = str[comp]
    BY <2>1, StrEffect DEF FirstInv, PlainStr
  <2>4. comp \in Str /\ raw \in Str /\ raw \in PlainStr
    BY DEF Str, PlainStr
  <2>5. Settings(comp)' = {} => str'[comp] = None
    BY <2>2, <2>3, <2>4 DEF RawInv
  <2>6. pc' = "cmdline" => \A i \in DOMAIN given' : given'[i][1] = "cmdline"
    BY StepIs DEF HistoryInv
  <2>7. pc' = "cmdline" /\ GaveRaw' => str'[raw] # None
    <3>1. a[1] = raw => a[2] # None
      BY <2>4, SeenAre
    <3>2. QED
      BY <2>1, <2>2, <2>3, <2>4, <3>1 DEF RawInv
  <2>8. pc' \in {"readfile", "parsefile", "validate"} /\ GaveRaw' => raw_rule_cmd_line'
    BY <2>1, <2>2 DEF RawInv
  <2>9. GaveRaw' /\ ~GaveCompiled' => str'[comp] = None
    <3>1. CASE pc = "cmdline"
      <4>1. ~GaveCompiled' => Settings(comp)' = {}
        <5>1. Settings(comp)' \subseteq DOMAIN given'
          BY DEF Settings
        <5>2. QED
          BY <2>1, <2>6, <3>1, <5>1 DEF GaveCompiled
      <4>2. QED
        BY <2>5, <4>1
    <3>2. CASE pc = "parsefile"
      BY <2>1, <2>2, <2>3, <3>2 DEF RawInv
    <3>3. QED
      BY <2>1, <3>1, <3>2
  <2>10. QED
    BY <2>5, <2>6, <2>7, <2>8, <2>9 DEF RawInv
<1>2. CASE SetsNothing
  BY <1>2 DEF SetsNothing, confVars, RawInv, GaveRaw, GaveCompiled, Settings
<1>3. CASE EndCommandLine
  <2>1. /\ given' = given /\ pc = "cmdline" /\ pc' \in {"readfile", "validate", "failed"}
        /\ raw_rule_cmd_line' = (str["raw_rules_file"] # None)
        /\ \/ str' = str
           \/ str' = [str EXCEPT !["conf_file"] = IF @ = None THEN "runtime.conf" ELSE @]
    BY <1>3 DEF EndCommandLine
  <2>2. str'["compiled_rules_file"] = str["compiled_rules_file"]
    <3>1. "compiled_rules_file" \in DOMAIN str
      BY DEF FirstInv, Str
    <3>2. QED
      BY <2>1, <3>1
  <2>3. QED
    BY <2>1, <2>2 DEF RawInv, GaveRaw, GaveCompiled, Settings
<1>4. CASE Validate
  <2>1. UNCHANGED <<given, str, raw_rule_cmd_line>> /\ pc' \in {"failed", "done"}
    BY <1>4 DEF Validate
  <2>2. QED
    BY <2>1 DEF RawInv, GaveRaw, GaveCompiled, Settings
<1>5. QED
  BY <1>1, <1>2, <1>3, <1>4, StepIs

\* Raw rules given on the command line alone are the rules of the run, whatever the
\* configuration file says.
THEOREM RawRulesStand == Spec => []RawRulesNotOverridden
<1>1. Init => HistoryInv /\ FirstInv /\ RawInv
  <2> SUFFICES ASSUME Init PROVE RawInv
    BY HistoryInit, FirstInit
  <2>1. given = <<>> /\ str["compiled_rules_file"] = None
    BY DEF Init, Str
  <2>2. DOMAIN given = {}
    BY <2>1
  <2>3. QED
    BY <2>1, <2>2 DEF Init, RawInv, GaveRaw, GaveCompiled, Settings
<1>2. HistoryInv /\ FirstInv /\ RawInv /\ [Next]_vars => (HistoryInv /\ FirstInv /\ RawInv)'
  BY StepIs, FirstStep, RawStep
<1>3. HistoryInv /\ RawInv => RawRulesNotOverridden
  BY RawIs
<1>4. QED
  BY <1>1, <1>2, <1>3, PTL DEF Spec

-----------------------------------------------------------------------------
(* Type correctness.                                                       *)

\* There are finitely many options to warn of, so the warnings are counted.
LEMMA WarningsCounted == NbWarnings \in Nat
<1> DEFINE warned == {o \in Unused \cup UnusedByDev : o \in flags \/ (o \in Num /\ num[o] # 0)}
           A == {"input_packets", "input_app_mode", "input_len_threshold"}
           B == {"input_buf_len", "input_overlap", "input_iterations"}
           C == {"free_space", "latency_mode", "hs_singlematch"}
           D == {"hs_leftmost", "sliding_window"}
<1>1. ASSUME NEW x, NEW y, NEW z PROVE IsFiniteSet({x, y, z})
  <2>1. IsFiniteSet({x} \cup {y})
    BY FS_Singleton, FS_Union
  <2>2. IsFiniteSet(({x} \cup {y}) \cup {z})
    BY <2>1, FS_Singleton, FS_Union
  <2>3. {x, y, z} = ({x} \cup {y}) \cup {z}
    OBVIOUS
  <2>4. QED
    BY <2>2, <2>3
<1>2. D = {"hs_leftmost", "sliding_window", "sliding_window"}
  OBVIOUS
<1>3. IsFiniteSet(A) /\ IsFiniteSet(B) /\ IsFiniteSet(C) /\ IsFiniteSet(D)
  BY <1>1, <1>2
<1>4. warned \subseteq (A \cup B) \cup (C \cup D)
  BY DEF Unused, UnusedByDev
<1> HIDE DEF warned, A, B, C, D
<1>5. IsFiniteSet((A \cup B) \cup (C \cup D))
  BY <1>3, FS_Union
<1>6. Cardinality(warned) \in Nat
  BY <1>4, <1>5, FS_Subset, FS_CardinalityType
<1>7. QED
  BY <1>6 DEF NbWarnings, warned

\* The warnings that are recorded fit in their array.
LEMMA RecordedFit ==
  ASSUME NEW n \in Nat
  PROVE  Len(Recorded(n)) <= MaxWarnings
<1>1. MaxWarnings \in Nat
  BY ConfigurationAssumption
<1>2. (IF n > MaxWarnings THEN MaxWarnings ELSE n) \in 0 .. MaxWarnings
  BY <1>1
<1>3. QED
  BY <1>1, <1>2 DEF Recorded

\* What an argument does to the other options.
LEMMA OtherEffect ==
  ASSUME NEW a \in Seen, Set(a[1], a[2]), TypeOK
  PROVE  /\ flags' \subseteq Flag /\ regex_dev' \in Dev \cup {None}
         /\ input_mode' \in Mode \cup {None}
         /\ dpdk_argv' # None => 1 + Len(dpdk_argv') < MaxDpdkArgs
<1> USE DEF TypeOK
<1>1. CASE a[1] \in Num /\ SetNum(a[1], a[2])
  BY <1>1 DEF SetNum
<1>2. CASE a[1] \in Str /\ SetStr(a[1], a[2])
  BY <1>2 DEF SetStr
<1>3. CASE a[1] \in Flag /\ SetFlag(a[1])
  BY <1>3 DEF SetFlag
<1>4. CASE a[1] = "regex_dev" /\ SetDev(a[2])
  BY <1>4 DEF SetDev
<1>5. CASE a[1] = "input_mode" /\ SetMode(a[2])
  BY <1>5 DEF SetMode
<1>6. CASE a[1] = "dpdk" /\ SetDpdk(a[2])
  <2>1. Len(a[2]) \in Nat /\ MaxDpdkArgs \in Nat
    BY <1>6, SeenAre, ConfigurationAssumption
  <2>2. dpdk_argv' = dpdk_argv \/ (dpdk_argv' = a[2] /\ 1 + Len(a[2]) < MaxDpdkArgs)
    BY <1>6, <2>1 DEF SetDpdk, TooMany
  <2>3. UNCHANGED <<flags, regex_dev, input_mode>>
    BY <1>6 DEF SetDpdk
  <2>4. QED
    BY <2>2, <2>3
<1>7. QED
  BY <1>1, <1>2, <1>3, <1>4, <1>5, <1>6 DEF Set

\* An argument that is parsed keeps the types of the fields.
LEMMA ParseTyped ==
  ASSUME TypeOK, NEW a \in Seen, NEW w, NEW next, Parse(w, a[1], a[2], next)
  PROVE  /\ pc' \in {next, "failed", "exit"}
         /\ num' \in [Num -> 0 .. UintMax] /\ DOMAIN str' = Str
         /\ flags' \subseteq Flag /\ regex_dev' \in Dev \cup {None}
         /\ input_mode' \in Mode \cup {None}
         /\ dpdk_argv' # None => 1 + Len(dpdk_argv') < MaxDpdkArgs
<1>1. CASE Set(a[1], a[2]) /\ pc' = next
  BY <1>1, NumEffect, StrEffect, OtherEffect DEF TypeOK
<1>2. CASE UNCHANGED confVars /\ pc' \in {"failed", "exit"}
  BY <1>2 DEF TypeOK, confVars
<1>3. QED
  BY <1>1, <1>2 DEF Parse

\* Every step keeps the types.
LEMMA TypeStep ==
  ASSUME TypeOK, HistoryInv, [Next]_vars
  PROVE  TypeOK'
<1>1. CASE CommandLine
  <2>1. PICK a \in Args : Parse("cmdline", a[1], a[2], "cmdline")
    BY <1>1 DEF CommandLine
  <2>2. UNCHANGED <<raw_rule_cmd_line, conf_argc, warnings>>
    BY <1>1 DEF CommandLine, fileVars
  <2>3. a \in Seen
    BY DEF Seen
  <2>4. QED
    BY <2>1, <2>2, <2>3, ParseTyped DEF TypeOK
<1>2. CASE ParseFile
  <2>1. UNCHANGED <<raw_rule_cmd_line, conf_argc, warnings>>
    BY <1>2 DEF ParseFile
  <2>2. CASE UNCHANGED confVars /\ pc' \in {"validate", "failed"}
    BY <2>1, <2>2 DEF TypeOK, confVars
  <2>3. ASSUME conf_argv # <<>>,
               Parse("file", Head(conf_argv)[1], ValueOf(Head(conf_argv)), "parsefile")
        PROVE  TypeOK'
    <3>1. Head(conf_argv) \in Lines
      BY <2>3, HeadTailProperties DEF HistoryInv
    <3>2. PICK a \in Seen : a[1] = Head(conf_argv)[1] /\ a[2] = ValueOf(Head(conf_argv))
      BY <3>1, LineIs
    <3>3. Parse("file", a[1], a[2], "parsefile")
      BY <2>3, <3>2
    <3>4. QED
      BY <2>1, <3>3, ParseTyped DEF TypeOK
  <2>4. QED
    BY <1>2, <2>2, <2>3 DEF ParseFile
<1>3. CASE EndCommandLine
  BY <1>3 DEF EndCommandLine, TypeOK, fileVars
<1>4. CASE ReadLine
  <2>1. conf_argc' \in 1 .. MaxFileArgs - 1
    <3>1. CASE UNCHANGED fileVars
      BY <3>1 DEF TypeOK, fileVars
    <3>2. ASSUME conf_argc < MaxFileArgs - 2, NEW a \in Args, NEW colon \in BOOLEAN,
                 conf_argc' = conf_argc + Len(Line(a, colon))
          PROVE  conf_argc' \in 1 .. MaxFileArgs - 1
      <4>1. Line(a, colon) \in Lines
        BY DEF Lines
      <4>2. Len(Line(a, colon)) \in {1, 2}
        BY <4>1, LineIs
      <4>3. conf_argc \in 1 .. MaxFileArgs - 1 /\ MaxFileArgs \in Nat
        BY LimitsAre DEF TypeOK
      <4>4. conf_argc' = conf_argc + 1 \/ conf_argc' = conf_argc + 2
        BY <3>2, <4>2
      <4>5. QED
        BY <3>2, <4>3, <4>4
    <3>3. QED
      BY <1>4, <3>1, <3>2 DEF ReadLine
  <2>2. pc' \in {"readfile", "parsefile"} /\ UNCHANGED <<confVars, raw_rule_cmd_line, warnings>>
    BY <1>4 DEF ReadLine
  <2>3. QED
    BY <2>1, <2>2 DEF TypeOK, confVars
<1>5. CASE EndFile
  BY <1>5 DEF EndFile, TypeOK, confVars, fileVars
<1>6. CASE Validate
  <2>1. CASE Rejected
    BY <1>6, <2>1 DEF Validate, TypeOK, fileVars
  <2>2. CASE ~Rejected
    <3>1. \A o \in Num : OrDefault(num[o], DefaultOf(o)) \in 0 .. UintMax
      BY DefaultsIn DEF TypeOK, OrDefault
    <3>2. num' \in [Num -> 0 .. UintMax]
      BY <1>6, <2>2, <3>1 DEF Validate
    <3>3. Len(warnings') <= MaxWarnings
      BY <1>6, <2>2, RecordedFit, WarningsCounted DEF Validate
    <3>4. pc' = "done" /\ UNCHANGED <<str, flags, regex_dev, input_mode, dpdk_argv,
                                      raw_rule_cmd_line, fileVars>>
      BY <1>6, <2>2 DEF Validate
    <3>5. QED
      BY <3>2, <3>3, <3>4 DEF TypeOK, fileVars
  <2>3. QED
    BY <2>1, <2>2
<1>7. CASE UNCHANGED vars
  BY <1>7 DEF vars, TypeOK, confVars, fileVars
<1>8. QED
  BY <1>1, <1>2, <1>3, <1>4, <1>5, <1>6, <1>7 DEF Next

\* However many lines, words and warnings there are: the argument vectors and the
\* warnings fit in their arrays.
THEOREM TypeCorrect == Spec => []TypeOK
<1>1. Init => HistoryInv /\ TypeOK
  <2> SUFFICES ASSUME Init PROVE TypeOK
    BY HistoryInit
  <2>1. num \in [Num -> 0 .. UintMax] /\ DOMAIN str = Str
    BY FirstInit DEF FirstInv
  <2>2. conf_argc \in 1 .. MaxFileArgs - 1 /\ Len(warnings) <= MaxWarnings
    BY ConfigurationAssumption DEF Init
  <2>3. QED
    BY <2>1, <2>2 DEF Init, TypeOK
<1>2. HistoryInv /\ TypeOK /\ [Next]_vars => (HistoryInv /\ TypeOK)'
  BY StepIs, TypeStep
<1>3. QED
  BY <1>1, <1>2, PTL DEF Spec

=============================================================================
