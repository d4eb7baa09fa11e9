--------------------------- MODULE Lifecycle_proofs ---------------------------
(***************************************************************************)
(* Proofs about the start and the end of the process, for every number of  *)
(* cores, lcores, devices, instances and queues.                           *)
(***************************************************************************)
EXTENDS Lifecycle, SequenceTheorems, TLAPS

-----------------------------------------------------------------------------
(* Sequences of objects.                                                   *)

\* Objects of the kinds K.
Objects(K) == K \X Nat

\* The first objects of a sequence are of the kinds of the sequence.
LEMMA FirstKinds ==
  ASSUME NEW K, NEW objects \in Seq(Objects(K)), NEW k \in 0 .. Len(objects)
  PROVE  \A o \in FirstOf(objects, k) : o[1] \in K /\ o[2] \in Nat
<1>1. SUFFICES ASSUME NEW i \in 1 .. k PROVE objects[i][1] \in K /\ objects[i][2] \in Nat
  BY DEF FirstOf
<1>2. i \in 1 .. Len(objects)
  BY LenProperties
<1>3. objects[i] \in Objects(K)
  BY <1>2, ElementOfSeq
<1>4. QED
  BY <1>3 DEF Objects

\* A numbered list of objects of one kind.
LEMMA ListedIs ==
  ASSUME NEW K, NEW kind \in K, NEW n \in Nat
  PROVE  Listed(kind, n) \in Seq(Objects(K))
BY DEF Listed, Objects

\* The cores of a configuration are at least one, the instances one less.
LEMMA CoresIs ==
  ASSUME conf \in Configurations
  PROVE  conf.cores \in 1 .. MaxCores /\ NbInst \in Nat
BY LifecycleAssumption DEF Configurations, NbInst

Kinds == NeverReleased \cup Released
OpsKinds == {"ops_arr_tx", "ops_arr_rx", "op_tx", "op_rx", "regex_mbuf_pool", "regex_pool",
             "core_vars"}

\* The entries of the two arrays of operations, in turn.
LEMMA OpsEntriesAre ==
  ASSUME conf \in Configurations
  PROVE  [i \in 1 .. 2 * Entries |->
            <<IF i % 2 = 1 THEN "op_tx" ELSE "op_rx", (i - 1) \div 2>>] \in Seq(Objects(OpsKinds))
<1>1. Entries \in Nat
  <2>1. \A x, y \in Nat : x * y \in Nat
    OBVIOUS
  <2>2. QED
    BY <2>1, CoresIs, LifecycleAssumption DEF Entries
<1>2. ASSUME NEW i \in 1 .. 2 * Entries
      PROVE  <<IF i % 2 = 1 THEN "op_tx" ELSE "op_rx", (i - 1) \div 2>> \in Objects(OpsKinds)
  BY <1>1 DEF Objects, OpsKinds
<1>3. 2 * Entries \in Nat
  BY <1>1
<1>4. QED
  BY <1>2, <1>3

\* The operations of the regex device: arrays, entries, pools and globals.
LEMMA OpsIs ==
  ASSUME conf \in Configurations
  PROVE  OpsObjects \in Seq(Objects(OpsKinds))
<1> DEFINE a == <<One("ops_arr_tx"), One("ops_arr_rx")>>
           b == [i \in 1 .. 2 * Entries |->
                   <<IF i % 2 = 1 THEN "op_tx" ELSE "op_rx", (i - 1) \div 2>>]
           c == <<One("regex_mbuf_pool")>>
           d == Listed("regex_pool", conf.cores)
           e == <<One("core_vars")>>
<1>2. b \in Seq(Objects(OpsKinds))
  BY OpsEntriesAre
<1>3. a \in Seq(Objects(OpsKinds)) /\ c \in Seq(Objects(OpsKinds)) /\ e \in Seq(Objects(OpsKinds))
  BY DEF One, Objects, OpsKinds
<1>4. d \in Seq(Objects(OpsKinds))
  <2>1. conf.cores \in Nat /\ "regex_pool" \in OpsKinds
    BY CoresIs, LifecycleAssumption DEF OpsKinds
  <2>2. QED
    BY <2>1, ListedIs, Zenon
<1>5. OpsObjects = a \o b \o c \o d \o e
  BY DEF OpsObjects
<1> HIDE DEF a, b, c, d, e
<1>6. a \o b \in Seq(Objects(OpsKinds))
  BY <1>2, <1>3, ConcatProperties
<1>7. a \o b \o c \in Seq(Objects(OpsKinds))
  BY <1>3, <1>6, ConcatProperties
<1>8. a \o b \o c \o d \in Seq(Objects(OpsKinds))
  BY <1>4, <1>7, ConcatProperties
<1>9. QED
  BY <1>3, <1>5, <1>8, ConcatProperties

-----------------------------------------------------------------------------
(* Nothing is released twice.                                              *)

StatsKinds == {"rm_stats", "stats", "pkt_stats"}
InputKinds == {"input_funcs", "input_data", "mbuf_pools", "row", "pool"}

\* No object of the kinds K has been released.
Kept(K) == \A o \in freed : o[1] \notin K

\* While the initialisation and the run go on nothing has been released; at a label,
\* nothing of what that label and those behind it release.
FreedInv ==
  /\ pc \in Phases \cup {"clean_pipeline"} => freed = {}
  /\ pc = "clean_input" => Kept(InputKinds \cup StatsKinds \cup {"conf"})
  /\ pc = "clean_stats" => Kept(StatsKinds \cup {"conf"})
  /\ pc = "clean_conf" => Kept({"conf"})

\* What is released has not been released before: the history grows by it at most.
LEMMA ReleaseOnce ==
  ASSUME NothingReleasedTwice, NEW got, NEW gone, NEW K, Exchange(got, gone),
         Kept(K), \A o \in gone : o[1] \in K
  PROVE  NothingReleasedTwice' /\ freed' \subseteq freed \cup gone
BY DEF NothingReleasedTwice, Exchange, Kept

\* A call that releases nothing leaves the history as it is.
LEMMA ReleaseNone ==
  ASSUME NothingReleasedTwice, NEW got, Exchange(got, {})
  PROVE  NothingReleasedTwice' /\ freed' = freed
BY DEF NothingReleasedTwice, Exchange

\* The first release of all.
LEMMA ReleaseFirst ==
  ASSUME NothingReleasedTwice, NEW got, NEW gone, Exchange(got, gone), freed = {}
  PROVE  NothingReleasedTwice' /\ freed' \subseteq gone
BY DEF NothingReleasedTwice, Exchange

\* What each cleanup releases, by kinds.
LEMMA GoneKinds ==
  /\ \A o \in PortsReleased : o[1] \in {"mbuf_pools", "row", "pool"}
  /\ \A k \in 0 .. 3 : \A o \in FirstOf(StatsObjects, k) : o[1] \in StatsKinds
BY DEF PortsReleased, One, Each, FirstOf, StatsObjects, StatsKinds

\* No step releases twice: what it releases is not in the history, and what the labels
\* that it can reach release is not either.
LEMMA ReleaseStep ==
  conf \in Configurations /\ FreedInv /\ NothingReleasedTwice /\ [Next]_vars
    => FreedInv' /\ NothingReleasedTwice'
<1> SUFFICES ASSUME conf \in Configurations, FreedInv, NothingReleasedTwice, [Next]_vars
             PROVE  FreedInv' /\ NothingReleasedTwice'
  OBVIOUS
<1> USE DEF FreedInv
<1>1. ASSUME freed = {}, freed' = freed, pc' \in Phases \cup Labels \cup {"exit", "undefined"}
      PROVE  FreedInv'
  BY <1>1 DEF Kept
<1>2. CASE Setup
  BY <1>1, <1>2, ReleaseNone DEF Setup, Succeeds, Fails, FailsAfter, Phases, Labels
<1>3. CASE InitEal
  BY <1>1, <1>3, ReleaseNone DEF InitEal, Succeeds, Fails, FailsAfter, Phases, Labels
<1>4. CASE StatsInit
  <2>1. freed = {}
    BY <1>4 DEF StatsInit, Phases
  <2>2. CASE Succeeds(StatsObjects, "input_reg")
    BY <1>1, <2>1, <2>2, ReleaseNone DEF Succeeds, Phases
  <2>3. ASSUME NEW k \in 0 .. 3,
               FailsAfter(FirstOf(StatsObjects, k), FirstOf(StatsObjects, k), "clean_conf")
        PROVE  FreedInv' /\ NothingReleasedTwice'
    <3>1. NothingReleasedTwice' /\ freed' \subseteq FirstOf(StatsObjects, k)
      BY <2>1, <2>3, ReleaseFirst DEF FailsAfter
    <3>2. \A o \in freed' : o[1] \in StatsKinds
      BY <3>1, GoneKinds, Zenon
    <3>3. pc' = "clean_conf"
      BY <2>3 DEF FailsAfter
    <3>4. QED
      BY <3>1, <3>2, <3>3 DEF Kept, Phases, StatsKinds
  <2>4. QED
    BY <1>4, <2>2, <2>3 DEF StatsInit
<1>5. CASE InputRegister
  BY <1>1, <1>5, ReleaseNone DEF InputRegister, Succeeds, Fails, FailsAfter, Phases, Labels
<1>6. CASE InputInit
  <2>1. freed = {}
    BY <1>6 DEF InputInit, Phases
  <2>2. ASSUME NEW got, Exchange(got, {}), pc' \in Phases \cup Labels \cup {"exit", "undefined"}
        PROVE  FreedInv' /\ NothingReleasedTwice'
    BY <1>1, <2>1, <2>2, ReleaseNone
  <2>3. ASSUME NEW got, Exchange(got, PortsReleased), pc' \in {"clean_stats", "undefined"}
        PROVE  FreedInv' /\ NothingReleasedTwice'
    <3>1. NothingReleasedTwice' /\ freed' \subseteq PortsReleased
      BY <2>1, <2>3, ReleaseFirst
    <3>2. Kept(StatsKinds \cup {"conf"})'
      BY <3>1, GoneKinds DEF Kept, StatsKinds
    <3>3. QED
      BY <2>3, <3>1, <3>2 DEF Phases
  <2>4. QED
    BY <1>6, <2>2, <2>3 DEF InputInit, Succeeds, Fails, FailsAfter, Undefined, Phases, Labels
<1>7. CASE RegexInit
  <2>1. freed = {}
    BY <1>7 DEF RegexInit, Phases
  <2>2. ASSUME NEW got, Exchange(got, {}), pc' \in Phases \cup Labels \cup {"exit", "undefined"}
        PROVE  FreedInv' /\ NothingReleasedTwice'
    BY <1>1, <2>1, <2>2, ReleaseNone
  <2>3. ASSUME NEW got, NEW gone, Exchange(got, gone), pc' \in {"clean_input", "undefined"},
               \A o \in gone : o[1] \in OpsKinds \cup {"rules", "regex_dev"}
        PROVE  FreedInv' /\ NothingReleasedTwice'
    <3>1. NothingReleasedTwice' /\ freed' \subseteq gone
      BY <2>1, <2>3, ReleaseFirst
    <3>2. \A o \in freed' : o[1] \in OpsKinds \cup {"rules", "regex_dev"}
      BY <2>3, <3>1, Zenon
    <3>3. Kept(InputKinds \cup StatsKinds \cup {"conf"})'
      BY <3>2 DEF Kept, InputKinds, StatsKinds, OpsKinds
    <3>4. QED
      BY <2>3, <3>1, <3>3 DEF Phases
  <2>4. CASE RegexRefused
    BY <2>2, <2>4 DEF RegexRefused, Fails, FailsAfter, Labels
  <2>5. CASE DeviceFails
    <3>1. PICK got : FailsAfter({One("regex_funcs")} \cup got, {One("rules")}, "clean_input")
      BY <2>5, Zenon DEF DeviceFails
    <3>2. /\ Exchange({One("regex_funcs")} \cup got, {One("rules")})
          /\ pc' = "clean_input"
      BY <3>1 DEF FailsAfter
    <3>3. \A o \in {One("rules")} : o[1] \in OpsKinds \cup {"rules", "regex_dev"}
      BY DEF One
    <3>4. pc' \in {"clean_input", "undefined"}
      BY <3>2
    <3>5. QED
      BY <2>3, <3>2, <3>3, <3>4, Zenon
  <2>6. CASE OpsFail
    <3>1. PICK k \in 0 .. Len(OpsObjects) - 1 :
            LET got == FirstOf(OpsObjects, k) \cup {One("rules"), One("regex_dev")}
            IN /\ Exchange(got \cup {One("regex_funcs")}, got)
               /\ pc' \in {"clean_input", "undefined"}
      BY <2>6, Zenon DEF OpsFail, Undefined
    <3>2. OpsObjects \in Seq(Objects(OpsKinds)) /\ k \in 0 .. Len(OpsObjects)
      BY OpsIs, LenProperties
    <3>3. \A o \in FirstOf(OpsObjects, k) : o[1] \in OpsKinds
      BY <3>2, FirstKinds, Zenon
    <3>4. \A o \in FirstOf(OpsObjects, k) \cup {One("rules"), One("regex_dev")} :
            o[1] \in OpsKinds \cup {"rules", "regex_dev"}
      BY <3>3 DEF One
    <3>5. QED
      BY <2>3, <3>1, <3>4, Zenon
  <2>7. CASE Succeeds(<<One("regex_funcs"), One("rules"), One("regex_dev")>> \o OpsObjects,
                      "pipeline")
    BY <2>2, <2>7 DEF Succeeds, Phases
  <2>8. QED
    BY <1>7, <2>4, <2>5, <2>6, <2>7 DEF RegexInit
<1>8. CASE PipelineInit
  <2>1. freed = {} /\ \E got : Exchange(got, {})
    BY <1>8, Zenon DEF PipelineInit, Phases, Succeeds, Fails, FailsAfter
  <2>2. pc' \in {"run_mode", "clean_pipeline", "undefined"}
    BY <1>8 DEF PipelineInit, Succeeds, Fails, FailsAfter
  <2>3. QED
    BY <1>1, <2>1, <2>2, ReleaseNone DEF Phases, Labels
<1>9. CASE RunModeRegister
  BY <1>1, <1>9, ReleaseNone DEF RunModeRegister, Succeeds, Fails, FailsAfter, Phases, Labels
<1>10. CASE Launch \/ PostSearch \/ StatsPrint
  <2>1. freed = {} /\ freed' = freed /\ twice' = twice
    BY <1>10 DEF Launch, PostSearch, StatsPrint, Phases, releaseVars
  <2>2. pc' \in Phases \cup Labels \cup {"exit", "undefined"}
    BY <1>10 DEF Launch, PostSearch, StatsPrint, Undefined, Phases, Labels
  <2>3. QED
    BY <1>1, <2>1, <2>2 DEF NothingReleasedTwice
<1>11. CASE Run
  <2>1. freed = {} /\ \E got : Exchange(got, {})
    BY <1>11, Zenon DEF Run, Phases
  <2>2. pc' \in Phases \cup Labels \cup {"exit", "undefined"}
    BY <1>11 DEF Run, Undefined, Phases, Labels
  <2>3. QED
    BY <1>1, <2>1, <2>2, ReleaseNone
<1>12. CASE CleanPipeline
  <2> DEFINE gone == {o \in held : o[1] \in {"stage", "funcs", "state"} /\ Linked(o[2])}
                     \cup {One("seq_state"), One("reorder_state"), One("mbuf_pool")}
  <2>1. \A o \in gone : o[1] \in {"stage", "funcs", "state", "seq_state", "reorder_state",
                                  "mbuf_pool"}
    BY DEF One
  <2>2. freed = {} /\ Exchange({}, gone) /\ pc' \in {"clean_input", "undefined"}
    BY <1>12 DEF CleanPipeline, Undefined
  <2> HIDE DEF gone
  <2>3. NothingReleasedTwice' /\ freed' \subseteq gone
    BY <2>2, ReleaseFirst
  <2>4. Kept(InputKinds \cup StatsKinds \cup {"conf"})'
    BY <2>1, <2>3 DEF Kept, InputKinds, StatsKinds
  <2>5. QED
    BY <2>2, <2>3, <2>4 DEF Phases
<1>13. CASE CleanInput
  <2> DEFINE gone == {One("input_funcs"), One("input_data")}
                     \cup (IF conf.mode = Live THEN PortsReleased ELSE {})
  <2>1. \A o \in gone : o[1] \in InputKinds
    BY GoneKinds DEF One, InputKinds
  <2>2. /\ Kept(InputKinds \cup StatsKinds \cup {"conf"}) /\ Exchange({}, gone)
        /\ pc' \in {"clean_stats", "undefined"}
    BY <1>13 DEF CleanInput, Undefined
  <2> HIDE DEF gone
  <2>3. Kept(InputKinds) /\ Kept(StatsKinds \cup {"conf"})
    BY <2>2 DEF Kept
  <2>4. NothingReleasedTwice' /\ freed' \subseteq freed \cup gone
    BY <2>1, <2>2, <2>3, ReleaseOnce
  <2>5. Kept(StatsKinds \cup {"conf"})'
    BY <2>1, <2>3, <2>4 DEF Kept, InputKinds, StatsKinds
  <2>6. QED
    BY <2>2, <2>4, <2>5 DEF Phases
<1>14. CASE CleanStats
  <2> DEFINE gone == {One("rm_stats"), One("stats"), One("pkt_stats")}
  <2>1. \A o \in gone : o[1] \in StatsKinds
    BY DEF One, StatsKinds
  <2>2. /\ Kept(StatsKinds \cup {"conf"}) /\ Exchange({}, gone)
        /\ pc' \in {"clean_conf", "undefined"}
    BY <1>14 DEF CleanStats, Undefined
  <2> HIDE DEF gone
  <2>3. Kept(StatsKinds) /\ Kept({"conf"})
    BY <2>2 DEF Kept
  <2>4. NothingReleasedTwice' /\ freed' \subseteq freed \cup gone
    BY <2>1, <2>2, <2>3, ReleaseOnce
  <2>5. Kept({"conf"})'
    BY <2>1, <2>3, <2>4 DEF Kept, StatsKinds
  <2>6. QED
    BY <2>2, <2>4, <2>5 DEF Phases
<1>15. CASE CleanConf
  <2>1. Kept({"conf"}) /\ Exchange({}, {One("conf")}) /\ pc' = "exit"
    BY <1>15 DEF CleanConf
  <2>2. \A o \in {One("conf")} : o[1] \in {"conf"}
    BY DEF One
  <2>3. NothingReleasedTwice'
    BY <2>1, <2>2, ReleaseOnce
  <2>4. QED
    BY <2>1, <2>3 DEF Phases
<1>16. CASE UNCHANGED vars
  BY <1>16 DEF vars, releaseVars, Kept, NothingReleasedTwice
<1>17. QED
  BY <1>2, <1>3, <1>4, <1>5, <1>6, <1>7, <1>8, <1>9, <1>10, <1>11, <1>12, <1>13,
     <1>14, <1>15, <1>16 DEF Next

\* The configuration and the machine keep their types: the clamp leaves at least one core.
ConfInv ==
  /\ conf \in Configurations
  /\ machine \in [lcores : 1 .. MaxLcores, devs : 0 .. MaxDevs]

\* The configuration that was asked for is one of those accepted.
LEMMA ConfInit == Init => ConfInv
BY DEF Init, ConfInv

\* Only the clamp changes the configuration.
LEMMA OnlyEalClamps ==
  [Next]_vars /\ ~InitEal => UNCHANGED <<conf, machine>>
<1> SUFFICES ASSUME [Next]_vars, ~InitEal PROVE UNCHANGED <<conf, machine>>
  OBVIOUS
<1>1. CASE Setup \/ StatsInit \/ InputRegister \/ InputInit \/ RegexInit
  BY <1>1 DEF Setup, StatsInit, InputRegister, InputInit, RegexInit
<1>2. CASE PipelineInit \/ RunModeRegister \/ Launch \/ Run \/ PostSearch \/ StatsPrint
  BY <1>2 DEF PipelineInit, RunModeRegister, Launch, Run, PostSearch, StatsPrint
<1>3. CASE CleanPipeline \/ CleanInput \/ CleanStats \/ CleanConf
  BY <1>3 DEF CleanPipeline, CleanInput, CleanStats, CleanConf
<1>4. CASE UNCHANGED vars
  BY <1>4 DEF vars
<1>5. QED
  BY <1>1, <1>2, <1>3, <1>4 DEF Next

\* The clamp leaves between one core and as many as there are lcores.
LEMMA ClampIs ==
  ASSUME ConfInv, NEW c,
         c = [conf EXCEPT !.cores = IF @ > machine.lcores THEN machine.lcores ELSE @]
  PROVE  c \in Configurations /\ c.cores <= machine.lcores
<1>1. /\ conf.cores \in 1 .. MaxCores /\ machine.lcores \in 1 .. MaxLcores
      /\ MaxCores \in Nat /\ MaxLcores \in Nat
  BY LifecycleAssumption DEF ConfInv, Configurations
<1>2. c.cores = IF conf.cores > machine.lcores THEN machine.lcores ELSE conf.cores
  BY DEF ConfInv, Configurations
<1>3. c.cores \in 1 .. MaxCores /\ c.cores <= machine.lcores
  BY <1>1, <1>2
<1>4. c \in Configurations
  BY <1>3 DEF ConfInv, Configurations
<1>5. QED
  BY <1>3, <1>4

\* Every step keeps the configuration within its bounds.
LEMMA ConfStep == ConfInv /\ [Next]_vars => ConfInv'
<1> SUFFICES ASSUME ConfInv, [Next]_vars PROVE ConfInv'
  OBVIOUS
<1>1. CASE InitEal
  <2>1. machine' = machine
    BY <1>1 DEF InitEal
  <2>2. conf' \in Configurations
    BY <1>1, ClampIs DEF InitEal, ConfInv
  <2>3. QED
    BY <2>1, <2>2 DEF ConfInv
<1>2. CASE ~InitEal
  BY <1>2, OnlyEalClamps DEF ConfInv
<1>3. QED
  BY <1>1, <1>2

\* Whichever call of the start fails, and whichever label it jumps to, no object is
\* released twice on the way to the exit.
THEOREM ReleasedOnce == Spec => []NothingReleasedTwice
<1>1. Init => ConfInv /\ FreedInv /\ NothingReleasedTwice
  BY ConfInit DEF Init, FreedInv, NothingReleasedTwice
<1>2. ConfInv /\ FreedInv /\ NothingReleasedTwice /\ [Next]_vars
        => (ConfInv /\ FreedInv /\ NothingReleasedTwice)'
  BY ConfStep, ReleaseStep DEF ConfInv
<1>3. QED
  BY <1>1, <1>2, PTL DEF Spec

-----------------------------------------------------------------------------
(* What is there when the workers are launched.                            *)

\* What two sequences of objects acquire one after the other.
LEMMA ConcatAcquires ==
  ASSUME NEW S, NEW s \in Seq(S), NEW t \in Seq(S)
  PROVE  /\ s \o t \in Seq(S)
         /\ ToSet(s) \subseteq ToSet(s \o t) /\ ToSet(t) \subseteq ToSet(s \o t)
<1>1. /\ s \o t \in Seq(S) /\ Len(s \o t) = Len(s) + Len(t)
      /\ \A i \in 1 .. Len(s) + Len(t) :
           (s \o t)[i] = IF i <= Len(s) THEN s[i] ELSE t[i - Len(s)]
  BY ConcatProperties
<1>2. /\ DOMAIN s = 1 .. Len(s) /\ DOMAIN t = 1 .. Len(t)
      /\ DOMAIN (s \o t) = 1 .. Len(s) + Len(t)
      /\ Len(s) \in Nat /\ Len(t) \in Nat
  BY <1>1, LenProperties
<1>3. ASSUME NEW i \in DOMAIN s PROVE s[i] \in ToSet(s \o t)
  <2>1. i \in DOMAIN (s \o t) /\ (s \o t)[i] = s[i]
    BY <1>1, <1>2
  <2>2. QED
    BY <2>1 DEF ToSet
<1>4. ASSUME NEW i \in DOMAIN t PROVE t[i] \in ToSet(s \o t)
  <2>1. Len(s) + i \in DOMAIN (s \o t) /\ (s \o t)[Len(s) + i] = t[i]
    BY <1>1, <1>2
  <2>2. QED
    BY <2>1 DEF ToSet
<1>5. QED
  BY <1>1, <1>3, <1>4 DEF ToSet

\* The objects of a numbered list.
LEMMA ListedAcquires ==
  ASSUME NEW kind, NEW n \in Nat, NEW i \in 0 .. n - 1
  PROVE  <<kind, i>> \in ToSet(Listed(kind, n))
<1>1. i + 1 \in 1 .. n /\ (i + 1) - 1 = i
  OBVIOUS
<1>2. i + 1 \in DOMAIN Listed(kind, n)
  BY <1>1 DEF Listed
<1>3. Listed(kind, n)[i + 1] = <<kind, i>>
  BY <1>1 DEF Listed
<1>4. QED
  BY <1>2, <1>3 DEF ToSet

\* The port's initialisation acquires the pool of the first device.
LEMMA PortsAcquire ==
  ASSUME ConfInv, machine.devs \in 1 .. NumPorts
  PROVE  <<"pool", 0>> \in ToSet(PortObjects)
<1> DEFINE devs == IF machine.devs < NumPorts THEN machine.devs ELSE NumPorts
           each == [i \in 1 .. 2 * devs |->
                      <<IF i % 2 = 1 THEN "pool" ELSE "port_started", (i - 1) \div 2>>]
<1>1. NumPorts \in 1 .. 2 /\ devs \in 1 .. 2
  BY DEF NumPorts
<1>2. each \in Seq(Objects(Kinds))
  <2>1. ASSUME NEW i \in 1 .. 2 * devs
        PROVE  <<IF i % 2 = 1 THEN "pool" ELSE "port_started", (i - 1) \div 2>>
                 \in Objects(Kinds)
    BY <1>1 DEF Objects, Kinds, NeverReleased, Released
  <2>2. 2 * devs \in Nat
    BY <1>1
  <2>3. QED
    BY <2>1, <2>2
<1>3. <<"pool", 0>> \in ToSet(each)
  <2>1. 1 \in DOMAIN each /\ each[1] = <<"pool", 0>>
    BY <1>1
  <2>2. QED
    BY <2>1 DEF ToSet
<1>4. PortRows \in Seq(Objects(Kinds))
  <2>1. <<One("mbuf_pools")>> \in Seq(Objects(Kinds))
    BY DEF One, Objects, Kinds, NeverReleased, Released
  <2>2. Listed("row", NumPorts) \in Seq(Objects(Kinds))
    <3>1. "row" \in Kinds /\ NumPorts \in Nat
      BY <1>1 DEF Kinds, NeverReleased, Released
    <3>2. QED
      BY <3>1, ListedIs, Zenon
  <2>3. QED
    BY <2>1, <2>2, ConcatProperties DEF PortRows
<1>5. PortObjects = PortRows \o each
  BY DEF PortObjects
<1> HIDE DEF each
<1>6. QED
  BY <1>2, <1>3, <1>4, <1>5, ConcatAcquires

\* The operations' initialisation acquires a pool for every core.
LEMMA OpsAcquire ==
  ASSUME conf \in Configurations, NEW c \in 0 .. conf.cores - 1
  PROVE  <<"regex_pool", c>> \in ToSet(OpsObjects)
<1> DEFINE a == <<One("ops_arr_tx"), One("ops_arr_rx")>>
           b == [i \in 1 .. 2 * Entries |->
                   <<IF i % 2 = 1 THEN "op_tx" ELSE "op_rx", (i - 1) \div 2>>]
           p == <<One("regex_mbuf_pool")>>
           d == Listed("regex_pool", conf.cores)
           e == <<One("core_vars")>>
<1>1. b \in Seq(Objects(OpsKinds))
  BY OpsEntriesAre
<1>2. a \in Seq(Objects(OpsKinds)) /\ p \in Seq(Objects(OpsKinds)) /\ e \in Seq(Objects(OpsKinds))
  BY DEF One, Objects, OpsKinds
<1>3. conf.cores \in Nat /\ "regex_pool" \in OpsKinds
  BY CoresIs, LifecycleAssumption DEF OpsKinds
<1>4. d \in Seq(Objects(OpsKinds))
  BY <1>3, ListedIs, Zenon
<1>5. OpsObjects = a \o b \o p \o d \o e
  BY DEF OpsObjects
<1>6. <<"regex_pool", c>> \in ToSet(d)
  BY <1>3, ListedAcquires
<1> HIDE DEF a, b, p, d, e
<1>7. a \o b \o p \in Seq(Objects(OpsKinds))
  BY <1>1, <1>2, ConcatProperties
<1>8. <<"regex_pool", c>> \in ToSet(a \o b \o p \o d) /\ a \o b \o p \o d \in Seq(Objects(OpsKinds))
  BY <1>4, <1>6, <1>7, ConcatAcquires
<1>9. QED
  BY <1>2, <1>5, <1>8, ConcatAcquires

\* The objects of an instance.
InstanceObjects(i) ==
  {<<kind, i>> : kind \in {"stage", "funcs", "state", "ring_in", "ring_out"}}

\* The pipeline's initialisation acquires the objects of every instance.
LEMMA PipelineAcquires ==
  ASSUME conf \in Configurations, NEW i \in 0 .. NbInst - 1
  PROVE  InstanceObjects(i) \subseteq ToSet(PipelineObjects)
<1> DEFINE S == Objects(Kinds)
           in == Listed("ring_in", NbInst)
           out == Listed("ring_out", NbInst)
<1>1. NbInst \in Nat /\ i \in Nat
  BY CoresIs
<1>2. PreloadObjects \in Seq(S) /\ SpecialObjects \in Seq(S)
  <2>1. \A kind \in {"mbuf_pool", "ts_field", "seq_state", "reorder_state", "reorder_buf"} :
          \A n \in 0 .. 2 : <<kind, n>> \in S
    BY DEF Objects, Kinds, NeverReleased, Released
  <2> HIDE DEF S
  <2>2. PreloadObjects \in Seq(S)
    BY <2>1 DEF PreloadObjects, One
  <2>3. SpecialObjects \in Seq(S)
    BY <2>1 DEF SpecialObjects, One
  <2>4. QED
    BY <2>2, <2>3
<1>3. in \in Seq(S) /\ out \in Seq(S)
  <2>1. "ring_in" \in Kinds /\ "ring_out" \in Kinds
    BY DEF Kinds, NeverReleased, Released
  <2>2. QED
    BY <1>1, <2>1, ListedIs, Zenon
<1>4. StageObjects \in Seq(S)
  <2>1. ASSUME NEW j \in 1 .. 3 * NbInst
        PROVE  <<<<"stage", "funcs", "state">>[((j - 1) % 3) + 1], (j - 1) \div 3>> \in S
    <3>1. ((j - 1) % 3) + 1 \in 1 .. 3 /\ (j - 1) \div 3 \in Nat
      BY <1>1
    <3>2. <<"stage", "funcs", "state">>[((j - 1) % 3) + 1] \in Kinds
      BY <3>1 DEF Kinds, NeverReleased, Released
    <3>3. QED
      BY <3>1, <3>2 DEF Objects
  <2>2. 3 * NbInst \in Nat
    BY <1>1
  <2> HIDE DEF S
  <2>3. QED
    BY <2>1, <2>2 DEF StageObjects
<1>5. {<<"stage", i>>, <<"funcs", i>>, <<"state", i>>} \subseteq ToSet(StageObjects)
  <2>1. DOMAIN StageObjects = 1 .. 3 * NbInst
    BY DEF StageObjects
  <2>2. 3 * i + 1 \in 1 .. 3 * NbInst /\ 3 * i + 2 \in 1 .. 3 * NbInst /\ 3 * i + 3 \in 1 .. 3 * NbInst
    BY <1>1
  <2>3. /\ (3 * i + 1 - 1) % 3 = 0 /\ (3 * i + 1 - 1) \div 3 = i
        /\ (3 * i + 2 - 1) % 3 = 1 /\ (3 * i + 2 - 1) \div 3 = i
        /\ (3 * i + 3 - 1) % 3 = 2 /\ (3 * i + 3 - 1) \div 3 = i
    BY <1>1
  <2>4. /\ StageObjects[3 * i + 1] = <<"stage", i>>
        /\ StageObjects[3 * i + 2] = <<"funcs", i>>
        /\ StageObjects[3 * i + 3] = <<"state", i>>
    BY <2>2, <2>3 DEF StageObjects
  <2>5. QED
    BY <2>1, <2>2, <2>4 DEF ToSet
<1>6. <<"ring_in", i>> \in ToSet(in) /\ <<"ring_out", i>> \in ToSet(out)
  BY <1>1, ListedAcquires
<1>7. PipelineObjects = PreloadObjects \o StageObjects \o SpecialObjects \o (in \o out)
  BY DEF PipelineObjects, RingObjects
<1> HIDE DEF in, out, S
<1>8. in \o out \in Seq(S) /\ {<<"ring_in", i>>, <<"ring_out", i>>} \subseteq ToSet(in \o out)
  BY <1>3, <1>6, ConcatAcquires
<1>9. /\ PreloadObjects \o StageObjects \in Seq(S)
      /\ {<<"stage", i>>, <<"funcs", i>>, <<"state", i>>} \subseteq ToSet(PreloadObjects \o StageObjects)
  BY <1>2, <1>4, <1>5, ConcatAcquires
<1>10. /\ PreloadObjects \o StageObjects \o SpecialObjects \in Seq(S)
       /\ {<<"stage", i>>, <<"funcs", i>>, <<"state", i>>}
            \subseteq ToSet(PreloadObjects \o StageObjects \o SpecialObjects)
  <2>1. ToSet(PreloadObjects \o StageObjects) \subseteq ToSet(PreloadObjects \o StageObjects \o SpecialObjects)
    BY <1>2, <1>9, ConcatAcquires
  <2>2. QED
    BY <1>2, <1>9, <2>1, ConcatProperties
<1>11. /\ ToSet(PreloadObjects \o StageObjects \o SpecialObjects) \subseteq ToSet(PipelineObjects)
       /\ ToSet(in \o out) \subseteq ToSet(PipelineObjects)
  BY <1>7, <1>8, <1>10, ConcatAcquires
<1>12. QED
  BY <1>8, <1>10, <1>11 DEF InstanceObjects

\* What each call of the start leaves behind for the launch.
StartInv ==
  /\ pc \in Phases \ {"setup", "eal"} => conf.cores <= machine.lcores
  /\ pc \in {"regex", "pipeline", "run_mode", "launch", "run"} =>
       (conf.mode = Live => <<"pool", 0>> \in held)
  /\ pc \in {"pipeline", "run_mode", "launch", "run"} =>
       /\ conf.compiled
       /\ \A i \in 0 .. NbInst - 1 : <<"regex_pool", i + 1>> \in held
  /\ pc \in {"run_mode", "launch", "run"} =>
       NbInst <= MaxInst /\ \A i \in 0 .. NbInst - 1 : InstanceObjects(i) \subseteq held

\* It is what the launch needs.
LEMMA StartIs == ConfInv /\ StartInv => StartComplete
<1> SUFFICES ASSUME ConfInv, StartInv, pc \in {"launch", "run"}
             PROVE  /\ \A i \in 0 .. NbInst - 1 :
                         InstanceObjects(i) \cup {<<"regex_pool", i + 1>>} \subseteq held
                    /\ NbInst <= MaxInst /\ NbInst < machine.lcores
                    /\ conf.mode = Live => <<"pool", 0>> \in held
                    /\ conf.compiled
  BY DEF StartComplete, InstanceObjects
<1>1. conf.cores <= machine.lcores
  BY DEF StartInv, Phases
<1>2. conf.cores \in Nat /\ machine.lcores \in Nat
  BY LifecycleAssumption DEF ConfInv, Configurations
<1>3. NbInst < machine.lcores
  BY <1>1, <1>2 DEF NbInst
<1>4. QED
  BY <1>3 DEF StartInv

\* Every call of the start keeps what is held, and adds its part.
LEMMA StartStep == ConfInv /\ StartInv /\ [Next]_vars => StartInv'
<1> SUFFICES ASSUME ConfInv, StartInv, [Next]_vars PROVE StartInv'
  OBVIOUS
<1> DEFINE Lcores == conf.cores <= machine.lcores
           Pool == conf.mode = Live => <<"pool", 0>> \in held
           Rules == /\ conf.compiled
                    /\ \A i \in 0 .. NbInst - 1 : <<"regex_pool", i + 1>> \in held
           Instances == /\ NbInst <= MaxInst
                        /\ \A i \in 0 .. NbInst - 1 : InstanceObjects(i) \subseteq held
<1>1. ASSUME pc' \in Labels \cup {"setup", "eal", "exit", "undefined"} PROVE StartInv'
  BY <1>1 DEF StartInv, Phases, Labels
<1>2. ASSUME UNCHANGED <<conf, machine>>, pc \in Phases \ {"setup", "eal"}
      PROVE  (conf.cores <= machine.lcores)'
  BY <1>2 DEF StartInv
<1>3. ASSUME pc' \in {"stats", "input_reg", "input", "post", "print"},
             (conf.cores <= machine.lcores)'
      PROVE  StartInv'
  BY <1>3 DEF StartInv
<1>4. ASSUME UNCHANGED <<conf, machine>>, held \subseteq held'
      PROVE  (Pool => Pool') /\ (Rules => Rules') /\ (Instances => Instances')
  BY <1>4 DEF NbInst, InstanceObjects
<1>5. CASE Setup
  BY <1>1, <1>5 DEF Setup, Succeeds, Fails, FailsAfter, Labels
<1>6. CASE InitEal
  <2>1. CASE pc' = "clean_conf"
    BY <1>1, <2>1 DEF Labels
  <2>2. CASE pc' # "clean_conf"
    <3>1. /\ pc' = "stats" /\ machine' = machine
          /\ conf' = [conf EXCEPT !.cores = IF @ > machine.lcores THEN machine.lcores ELSE @]
      BY <1>6, <2>2 DEF InitEal, Succeeds, Fails, FailsAfter
    <3>2. conf'.cores <= machine.lcores
      BY <3>1, ClampIs
    <3>3. QED
      BY <1>3, <3>1, <3>2
  <2>3. QED
    BY <2>1, <2>2
<1>7. CASE StatsInit \/ InputRegister
  <2>1. /\ UNCHANGED <<conf, machine>> /\ pc \in Phases \ {"setup", "eal"}
        /\ pc' \in Labels \cup {"input_reg", "input"}
    BY <1>7 DEF StatsInit, InputRegister, Succeeds, Fails, FailsAfter, Phases, Labels
  <2>2. QED
    BY <1>1, <1>2, <1>3, <2>1
<1>8. CASE InputInit
  <2>1. CASE pc' # "regex"
    <3>1. pc' \in Labels \cup {"undefined"}
      BY <1>8, <2>1 DEF InputInit, Succeeds, Fails, FailsAfter, Undefined, Labels
    <3>2. QED
      BY <1>1, <3>1
  <2>2. CASE pc' = "regex"
    <3>1. UNCHANGED <<conf, machine>> /\ pc \in Phases \ {"setup", "eal"}
      BY <1>8 DEF InputInit, Phases
    <3>2. \/ conf.mode \in Preloaded
          \/ machine.devs \in 1 .. NumPorts /\ Exchange(ToSet(PortObjects), {})
      BY <1>8, <2>2 DEF InputInit, Succeeds, Fails, FailsAfter, Undefined, Preloaded
    <3>3. Pool'
      BY <3>1, <3>2, PortsAcquire DEF Exchange, Preloaded, Live
    <3>4. QED
      BY <1>2, <2>2, <3>1, <3>3 DEF StartInv, Phases
  <2>3. QED
    BY <2>1, <2>2
<1>9. CASE RegexInit
  <2>1. CASE pc' # "pipeline"
    <3>1. pc' \in Labels \cup {"undefined"}
      BY <1>9, <2>1 DEF RegexInit, RegexRefused, DeviceFails, OpsFail, Succeeds, Fails,
                        FailsAfter, Undefined, Labels
    <3>2. QED
      BY <1>1, <3>1
  <2>2. CASE pc' = "pipeline"
    <3> DEFINE devs == <<One("regex_funcs"), One("rules"), One("regex_dev")>>
    <3>1. UNCHANGED <<conf, machine>> /\ pc = "regex"
      BY <1>9 DEF RegexInit
    <3>2. Configurable /\ Exchange(ToSet(devs \o OpsObjects), {})
      BY <1>9, <2>2 DEF RegexInit, RegexRefused, DeviceFails, OpsFail, Succeeds, Fails,
                        FailsAfter, Undefined
    <3>3. held' = held \cup ToSet(devs \o OpsObjects)
      BY <3>2 DEF Exchange
    <3>4. devs \in Seq(Objects(Kinds)) /\ OpsObjects \in Seq(Objects(Kinds))
      <4>1. devs \in Seq(Objects(Kinds))
        BY DEF One, Objects, Kinds, NeverReleased, Released
      <4>2. OpsObjects \in Seq(Objects(OpsKinds))
        BY OpsIs DEF ConfInv
      <4>3. Objects(OpsKinds) \subseteq Objects(Kinds)
        BY DEF Objects, OpsKinds, Kinds, NeverReleased, Released
      <4>4. QED
        BY <4>1, <4>2, <4>3
    <3> HIDE DEF devs
    <3>5. ToSet(OpsObjects) \subseteq ToSet(devs \o OpsObjects)
      BY <3>4, ConcatAcquires
    <3>6. \A c \in 0 .. conf.cores - 1 : <<"regex_pool", c>> \in held'
      BY <3>3, <3>5, OpsAcquire DEF ConfInv
    <3>7. \A i \in 0 .. NbInst - 1 : <<"regex_pool", i + 1>> \in held'
      BY <3>6, CoresIs DEF ConfInv, NbInst
    <3>8. Rules'
      BY <3>1, <3>2, <3>7 DEF Configurable, NbInst
    <3>9. Pool'
      BY <1>4, <3>1, <3>3 DEF StartInv
    <3>10. Lcores'
      BY <1>2, <3>1 DEF Phases
    <3>11. QED
      BY <2>2, <3>8, <3>9, <3>10 DEF StartInv
  <2>3. QED
    BY <2>1, <2>2
<1>10. CASE PipelineInit
  <2>1. CASE pc' # "run_mode"
    <3>1. pc' \in Labels \cup {"undefined"}
      BY <1>10, <2>1 DEF PipelineInit, Succeeds, Fails, FailsAfter, Labels
    <3>2. QED
      BY <1>1, <3>1
  <2>2. CASE pc' = "run_mode"
    <3>1. UNCHANGED <<conf, machine>> /\ pc = "pipeline"
      BY <1>10 DEF PipelineInit
    <3>2. NbInst <= MaxInst /\ Exchange(ToSet(PipelineObjects), {})
      BY <1>10, <2>2 DEF PipelineInit, Succeeds, Fails, FailsAfter
    <3>3. held' = held \cup ToSet(PipelineObjects)
      BY <3>2 DEF Exchange
    <3>4. \A i \in 0 .. NbInst - 1 : InstanceObjects(i) \subseteq held'
      BY <3>3, PipelineAcquires DEF ConfInv
    <3>5. Instances'
      BY <3>1, <3>2, <3>4 DEF NbInst, InstanceObjects
    <3>6. Pool /\ Rules
      BY <3>1 DEF StartInv
    <3>7. Pool' /\ Rules'
      BY <1>4, <3>1, <3>3, <3>6
    <3>8. Lcores'
      BY <1>2, <3>1 DEF Phases
    <3>9. QED
      BY <2>2, <3>5, <3>7, <3>8 DEF StartInv
  <2>3. QED
    BY <2>1, <2>2
<1>11. CASE RunModeRegister \/ Launch
  <2>1. CASE pc' \notin {"launch", "run"}
    <3>1. UNCHANGED <<conf, machine>> /\ pc \in Phases \ {"setup", "eal"}
      BY <1>11 DEF RunModeRegister, Launch, Phases
    <3>2. pc' \in Labels \cup {"post", "undefined"}
      BY <1>11, <2>1 DEF RunModeRegister, Launch, Succeeds, Fails, FailsAfter, Undefined, Labels
    <3>3. QED
      BY <1>1, <1>2, <1>3, <3>1, <3>2
  <2>2. CASE pc' \in {"launch", "run"}
    <3>1. UNCHANGED <<conf, machine>> /\ pc \in {"run_mode", "launch"} /\ held \subseteq held'
      BY <1>11, <2>2 DEF RunModeRegister, Launch, Succeeds, Fails, FailsAfter, Exchange, releaseVars
    <3>2. Pool /\ Rules /\ Instances
      BY <3>1 DEF StartInv
    <3>3. Pool' /\ Rules' /\ Instances'
      BY <1>4, <3>1, <3>2
    <3>4. Lcores'
      BY <1>2, <3>1 DEF Phases
    <3>5. QED
      BY <2>2, <3>3, <3>4 DEF StartInv
  <2>3. QED
    BY <2>1, <2>2
<1>12. CASE Run \/ PostSearch \/ StatsPrint
  <2>1. /\ UNCHANGED <<conf, machine>> /\ pc \in Phases \ {"setup", "eal"}
        /\ pc' \in Labels \cup {"post", "print", "undefined"}
    BY <1>12 DEF Run, PostSearch, StatsPrint, Undefined, Phases, Labels
  <2>2. QED
    BY <1>1, <1>2, <1>3, <2>1
<1>13. CASE CleanPipeline \/ CleanInput \/ CleanStats \/ CleanConf
  <2>1. pc' \in Labels \cup {"exit", "undefined"}
    BY <1>13 DEF CleanPipeline, CleanInput, CleanStats, CleanConf, Undefined, Labels
  <2>2. QED
    BY <1>1, <2>1
<1>14. CASE UNCHANGED vars
  BY <1>14 DEF vars, releaseVars, StartInv, NbInst, InstanceObjects
<1>15. QED
  BY <1>5, <1>6, <1>7, <1>8, <1>9, <1>10, <1>11, <1>12, <1>13, <1>14 DEF Next

\* However many cores, devices and instances: when the workers are launched, each has
\* its functions, state, rings, queue and lcore, the port its pool, and there are rules.
THEOREM LaunchedComplete == Spec => []StartComplete
<1>1. Init => ConfInv /\ StartInv
  BY ConfInit DEF Init, StartInv, Phases
<1>2. ConfInv /\ StartInv /\ [Next]_vars => (ConfInv /\ StartInv)'
  BY ConfStep, StartStep
<1>3. ConfInv /\ StartInv => StartComplete
  BY StartIs
<1>4. QED
  BY <1>1, <1>2, <1>3, PTL DEF Spec

-----------------------------------------------------------------------------
(* What is left at the exit.                                               *)

\* What is held of the kinds that have a cleanup.
Rest == {o \in held : o[1] \in Released}

\* What the label of the statistics, that of the input and that of the pipeline release.
StatsLeft == {One("conf"), One("pkt_stats"), One("stats"), One("rm_stats")}
InputLeft == {One("input_funcs"), One("input_data")}
             \cup (IF conf.mode = Live THEN PortsReleased ELSE {})
Singles == {One("seq_state"), One("reorder_state"), One("mbuf_pool")}
Parts == {o \in held : o[1] \in {"stage", "funcs", "state"} /\ Linked(o[2])}
PipelineLeft == Singles \cup Parts

\* What may stay: nothing, or the instance at which the initialisation failed; ...
Broken(rest) ==
  rest = {} \/ \E i \in 0 .. MaxInst - 1 : rest \subseteq {<<"stage", i>>, <<"funcs", i>>}

\* ... after a failing start also the rows and functions of the input.
Leftover(rest) ==
  /\ started => rest = {}
  /\ (\A o \in rest : o[1] \in {"input_funcs", "mbuf_pools", "row"}) \/ Broken(rest)

BeforeLaunch == {"setup", "eal", "stats", "input_reg", "input", "regex", "pipeline", "run_mode"}

\* At each call nothing is held but what the calls before it acquire, at each label
\* nothing but what that label and those behind it release, and what may stay.
HeldInv ==
  /\ pc \in BeforeLaunch => ~started
  /\ pc = "setup" => Rest = {}
  /\ pc \in {"eal", "stats"} => Rest \subseteq {One("conf")}
  /\ pc = "input_reg" => Rest \subseteq StatsLeft
  /\ pc = "input" => Rest \subseteq StatsLeft \cup {One("input_funcs")}
  /\ pc \in {"regex", "pipeline"} => Rest \subseteq StatsLeft \cup InputLeft
  /\ pc \in {"run_mode", "launch", "run", "post", "print"} =>
       Rest \subseteq StatsLeft \cup InputLeft \cup PipelineLeft
  /\ pc = "clean_pipeline" =>
       /\ Broken(Rest \ (StatsLeft \cup InputLeft \cup PipelineLeft))
       /\ started => Rest \subseteq StatsLeft \cup InputLeft \cup PipelineLeft
  /\ pc = "clean_input" =>
       /\ Broken(Rest \ (StatsLeft \cup InputLeft))
       /\ started => Rest \subseteq StatsLeft \cup InputLeft
  /\ pc = "clean_stats" => Leftover(Rest \ StatsLeft)
  /\ pc = "clean_conf" => Leftover(Rest \ {One("conf")})
  /\ pc = "exit" => Leftover(Rest)

\* The objects of the pipeline in their order: one position after the other.
LEMMA PipelineObjectAt ==
  ASSUME conf \in Configurations
  PROVE  /\ Len(PreloadObjects) \in 0 .. 1
         /\ \A j \in 1 .. Len(PreloadObjects) : PreloadObjects[j] = One("mbuf_pool")
         /\ PipelineObjects \in Seq(Objects(Kinds))
         /\ Len(PipelineObjects) = Len(PreloadObjects) + 3 * NbInst + 5 + 2 * NbInst
         /\ \A j \in 1 .. Len(PipelineObjects) :
              LET a == Len(PreloadObjects)
                  b == a + 3 * NbInst
              IN PipelineObjects[j] =
                   IF j <= a THEN PreloadObjects[j]
                   ELSE IF j <= b THEN StageObjects[j - a]
                   ELSE IF j <= b + 5 THEN SpecialObjects[j - b]
                   ELSE RingObjects[j - b - 5]
<1> DEFINE S == Objects(Kinds)
           a == Len(PreloadObjects)
           b == a + 3 * NbInst
<1>1. NbInst \in Nat
  BY CoresIs
<1>2. \A kind \in {"mbuf_pool", "ts_field", "seq_state", "reorder_state", "reorder_buf"} :
        \A n \in 0 .. 2 : <<kind, n>> \in S
  BY DEF Objects, Kinds, NeverReleased, Released
<1>3. StageObjects \in Seq(S) /\ Len(StageObjects) = 3 * NbInst
  <2>1. ASSUME NEW j \in 1 .. 3 * NbInst
        PROVE  <<<<"stage", "funcs", "state">>[((j - 1) % 3) + 1], (j - 1) \div 3>> \in S
    <3>1. ((j - 1) % 3) + 1 \in 1 .. 3 /\ (j - 1) \div 3 \in Nat
      BY <1>1
    <3>2. <<"stage", "funcs", "state">>[((j - 1) % 3) + 1] \in Kinds
      BY <3>1 DEF Kinds, NeverReleased, Released
    <3>3. QED
      BY <3>1, <3>2 DEF Objects
  <2>2. 3 * NbInst \in Nat
    BY <1>1
  <2> HIDE DEF S
  <2>3. QED
    BY <2>1, <2>2 DEF StageObjects
<1>4. /\ Listed("ring_in", NbInst) \in Seq(S) /\ Len(Listed("ring_in", NbInst)) = NbInst
      /\ Listed("ring_out", NbInst) \in Seq(S) /\ Len(Listed("ring_out", NbInst)) = NbInst
  <2>1. "ring_in" \in Kinds /\ "ring_out" \in Kinds
    BY DEF Kinds, NeverReleased, Released
  <2>2. Listed("ring_in", NbInst) \in Seq(S) /\ Listed("ring_out", NbInst) \in Seq(S)
    BY <1>1, <2>1, ListedIs, Zenon
  <2>3. Len(Listed("ring_in", NbInst)) = NbInst /\ Len(Listed("ring_out", NbInst)) = NbInst
    BY <1>1 DEF Listed
  <2>4. QED
    BY <2>2, <2>3
<1> HIDE DEF S
<1>5. PreloadObjects \in Seq(S) /\ a \in 0 .. 1 /\ \A j \in 1 .. a : PreloadObjects[j] = One("mbuf_pool")
  BY <1>2 DEF PreloadObjects, One
<1>6. SpecialObjects \in Seq(S) /\ Len(SpecialObjects) = 5
  BY <1>2 DEF SpecialObjects, One
<1>7. RingObjects \in Seq(S) /\ Len(RingObjects) = 2 * NbInst
  BY <1>1, <1>4, ConcatProperties DEF RingObjects
<1> DEFINE s == PreloadObjects \o StageObjects
           t == s \o SpecialObjects
<1>8. /\ s \in Seq(S) /\ Len(s) = b
      /\ \A j \in 1 .. b : s[j] = IF j <= a THEN PreloadObjects[j] ELSE StageObjects[j - a]
  BY <1>3, <1>5, ConcatProperties
<1>12. a \in Nat /\ b \in Nat /\ a <= b
  BY <1>1, <1>5
<1> HIDE DEF s, a, b
<1>9. /\ t \in Seq(S) /\ Len(t) = b + 5
      /\ \A j \in 1 .. b + 5 : t[j] = IF j <= b THEN s[j] ELSE SpecialObjects[j - b]
  <2>1. /\ s \o SpecialObjects \in Seq(S)
        /\ Len(s \o SpecialObjects) = Len(s) + Len(SpecialObjects)
        /\ \A j \in 1 .. Len(s) + Len(SpecialObjects) :
             (s \o SpecialObjects)[j] =
               IF j <= Len(s) THEN s[j] ELSE SpecialObjects[j - Len(s)]
    BY ONLY <1>6, <1>8, ConcatProperties
  <2>2. Len(s) = b /\ Len(SpecialObjects) = 5
    BY <1>6, <1>8
  <2>3. QED
    BY ONLY <2>1, <2>2 DEF t
<1> HIDE DEF t
<1>10. PipelineObjects = t \o RingObjects
  BY DEF PipelineObjects, t, s
<1>11. /\ PipelineObjects \in Seq(S) /\ Len(PipelineObjects) = b + 5 + 2 * NbInst
       /\ \A j \in 1 .. b + 5 + 2 * NbInst :
            PipelineObjects[j] = IF j <= b + 5 THEN t[j] ELSE RingObjects[j - (b + 5)]
  <2>1. /\ t \o RingObjects \in Seq(S)
        /\ Len(t \o RingObjects) = Len(t) + Len(RingObjects)
        /\ \A j \in 1 .. Len(t) + Len(RingObjects) :
             (t \o RingObjects)[j] = IF j <= Len(t) THEN t[j] ELSE RingObjects[j - Len(t)]
    BY ONLY <1>7, <1>9, ConcatProperties
  <2>2. Len(t) = b + 5 /\ Len(RingObjects) = 2 * NbInst
    BY <1>7, <1>9
  <2>3. QED
    BY ONLY <1>10, <2>1, <2>2
<1>13. ASSUME NEW j \in 1 .. Len(PipelineObjects)
       PROVE  PipelineObjects[j] = IF j <= a THEN PreloadObjects[j]
                   ELSE IF j <= b THEN StageObjects[j - a]
                   ELSE IF j <= b + 5 THEN SpecialObjects[j - b]
                   ELSE RingObjects[j - b - 5]
  <2>1. j \in 1 .. b + 5 + 2 * NbInst
    BY <1>11
  <2>2. j - (b + 5) = j - b - 5
    BY <1>12, <2>1
  <2>3. CASE j <= b
    <3>1. j \in 1 .. b /\ j \in 1 .. b + 5 /\ j <= b + 5
      BY <1>1, <1>12, <2>1, <2>3
    <3>2. QED
      BY <1>8, <1>9, <1>11, <2>1, <2>3, <3>1
  <2>4. CASE ~(j <= b) /\ j <= b + 5
    <3>1. j \in 1 .. b + 5 /\ ~(j <= a)
      BY <1>1, <1>12, <2>1, <2>4
    <3>2. QED
      BY <1>9, <1>11, <2>1, <2>4, <3>1
  <2>5. CASE ~(j <= b + 5)
    <3>1. ~(j <= a) /\ ~(j <= b)
      BY <1>1, <1>12, <2>1, <2>5
    <3>2. QED
      BY <1>11, <2>1, <2>2, <2>5, <3>1
  <2>6. QED
    BY <2>3, <2>4, <2>5
<1> QED
  BY <1>5, <1>11, <1>13 DEF S, a, b

\* The objects of the stages in their order.
LEMMA StageObjectAt ==
  ASSUME conf \in Configurations
  PROVE  /\ \A j \in 1 .. 3 * NbInst :
              /\ StageObjects[j][1] \in {"stage", "funcs", "state"}
              /\ StageObjects[j][2] \in 0 .. NbInst - 1
              /\ StageObjects[j][2] = (j - 1) \div 3
              /\ StageObjects[j] = <<StageObjects[j][1], StageObjects[j][2]>>
         /\ \A i \in 0 .. NbInst - 1 :
              3 * i + 3 \in 1 .. 3 * NbInst /\ StageObjects[3 * i + 3] = <<"state", i>>
<1>1. NbInst \in Nat
  BY CoresIs
<1>2. ASSUME NEW j \in 1 .. 3 * NbInst
      PROVE  /\ StageObjects[j][1] \in {"stage", "funcs", "state"}
             /\ StageObjects[j][2] \in 0 .. NbInst - 1
             /\ StageObjects[j][2] = (j - 1) \div 3
             /\ StageObjects[j] = <<StageObjects[j][1], StageObjects[j][2]>>
  <2>1. ((j - 1) % 3) + 1 \in 1 .. 3 /\ (j - 1) \div 3 \in 0 .. NbInst - 1
    BY <1>1
  <2>2. <<"stage", "funcs", "state">>[((j - 1) % 3) + 1] \in {"stage", "funcs", "state"}
    BY <2>1
  <2>3. StageObjects[j] = <<<<"stage", "funcs", "state">>[((j - 1) % 3) + 1], (j - 1) \div 3>>
    BY DEF StageObjects
  <2>4. QED
    BY <2>1, <2>2, <2>3
<1>3. ASSUME NEW i \in 0 .. NbInst - 1
      PROVE  3 * i + 3 \in 1 .. 3 * NbInst /\ StageObjects[3 * i + 3] = <<"state", i>>
  <2>1. 3 * i + 3 \in 1 .. 3 * NbInst
    BY <1>1
  <2>2. (3 * i + 3 - 1) % 3 = 2 /\ (3 * i + 3 - 1) \div 3 = i
    BY <1>1
  <2>3. QED
    BY <2>1, <2>2 DEF StageObjects
<1>4. QED
  BY <1>2, <1>3

\* What a call acquires and releases, of the kinds that have a cleanup.
LEMMA RestIs ==
  ASSUME NEW got, NEW gone, Exchange(got, gone)
  PROVE  Rest' = (Rest \cup {o \in got : o[1] \in Released}) \ gone
BY DEF Exchange, Rest

\* Objects of other kinds do not count.
LEMMA RestSame ==
  ASSUME NEW got, NEW gone, Exchange(got, gone), \A o \in got : o[1] \notin Released
  PROVE  Rest' = Rest \ gone
<1>1. {o \in got : o[1] \in Released} = {}
  OBVIOUS
<1>2. QED
  BY <1>1, RestIs

\* What the input's label releases depends on the configuration only.
LEMMA InputLeftSame == conf' = conf => InputLeft' = InputLeft /\ StatsLeft' = StatsLeft
BY DEF InputLeft, StatsLeft, One, PortsReleased, Each, NumPorts

\* A set of which nothing has to be said is among what may stay.
LEMMA BrokenIs ==
  ASSUME NEW rest, NEW less, Broken(rest), less \subseteq rest
  PROVE  Broken(less)
BY DEF Broken

\* What the first objects of a sequence are, and all of them.
LEMMA FirstIn ==
  ASSUME NEW S, NEW objects \in Seq(S)
  PROVE  /\ \A k \in 0 .. Len(objects) : FirstOf(objects, k) \subseteq S
         /\ ToSet(objects) \subseteq S
<1>1. ASSUME NEW i \in 1 .. Len(objects) PROVE objects[i] \in S
  BY ElementOfSeq
<1>2. ASSUME NEW k \in 0 .. Len(objects) PROVE FirstOf(objects, k) \subseteq S
  <2>1. 1 .. k \subseteq 1 .. Len(objects)
    BY LenProperties
  <2>2. QED
    BY <1>1, <2>1 DEF FirstOf
<1>3. ToSet(objects) \subseteq S
  <2>1. DOMAIN objects = 1 .. Len(objects)
    BY LenProperties
  <2>2. QED
    BY <1>1, <2>1 DEF ToSet
<1>4. QED
  BY <1>2, <1>3

\* The initialisation of the ports acquires rows and pools that its cleanup knows.
LEMMA PortKinds ==
  ASSUME ConfInv
  PROVE  /\ \A k \in 0 .. Len(PortRows) - 1 : \A o \in FirstOf(PortRows, k) :
              o[1] \in {"mbuf_pools", "row"}
         /\ \A k \in Len(PortRows) .. Len(PortObjects) : \A o \in FirstOf(PortObjects, k) :
              o[1] \in Released => o \in PortsReleased
         /\ \A o \in ToSet(PortObjects) : o[1] \in Released => o \in PortsReleased
<1> DEFINE R == {One("mbuf_pools")} \cup Each("row", NumPorts)
           S == PortsReleased \cup ({"port_started"} \X Nat)
           devs == IF machine.devs < NumPorts THEN machine.devs ELSE NumPorts
           each == [i \in 1 .. 2 * devs |->
                      <<IF i % 2 = 1 THEN "pool" ELSE "port_started", (i - 1) \div 2>>]
<1>1. NumPorts \in 1 .. 2 /\ devs \in Nat /\ devs <= NumPorts
  BY LifecycleAssumption DEF NumPorts, ConfInv
<1>2. PortRows \in Seq(R)
  <2>1. <<One("mbuf_pools")>> \in Seq(R)
    OBVIOUS
  <2>2. Listed("row", NumPorts) \in Seq(R)
    <3>1. \A i \in 1 .. NumPorts : <<"row", i - 1>> \in R
      BY <1>1 DEF Each
    <3>2. NumPorts \in Nat
      BY <1>1
    <3> HIDE DEF R
    <3>3. QED
      BY <3>1, <3>2 DEF Listed
  <2> HIDE DEF R
  <2>3. QED
    BY <2>1, <2>2, ConcatProperties DEF PortRows
<1>3. each \in Seq(S)
  <2>1. ASSUME NEW i \in 1 .. 2 * devs
        PROVE  <<IF i % 2 = 1 THEN "pool" ELSE "port_started", (i - 1) \div 2>> \in S
    <3>1. (i - 1) \div 2 \in 0 .. NumPorts - 1 /\ (i - 1) \div 2 \in Nat
      BY <1>1
    <3>2. CASE i % 2 = 1
      <4>1. <<"pool", (i - 1) \div 2>> \in Each("pool", NumPorts)
        BY <3>1 DEF Each
      <4>2. QED
        BY <3>2, <4>1 DEF PortsReleased
    <3>3. CASE i % 2 # 1
      BY <3>1, <3>3
    <3>4. QED
      BY <3>2, <3>3
  <2>2. 2 * devs \in Nat
    BY <1>1
  <2> HIDE DEF S
  <2>3. QED
    BY <2>1, <2>2
<1>4. R \subseteq S
  BY DEF PortsReleased
<1>5. \A o \in R : o[1] \in {"mbuf_pools", "row"}
  BY DEF One, Each
<1>6. \A o \in S : o[1] \in Released => o \in PortsReleased
  BY DEF Released
<1>7. PortObjects = PortRows \o each
  BY DEF PortObjects
<1> HIDE DEF R, S, each
<1>8. PortRows \in Seq(S) /\ Len(PortRows) \in Nat
  BY <1>2, <1>4, LenProperties
<1>9. PortObjects \in Seq(S) /\ Len(PortObjects) \in Nat
  BY <1>3, <1>7, <1>8, ConcatProperties
<1>10. ASSUME NEW k \in 0 .. Len(PortRows) - 1, NEW o \in FirstOf(PortRows, k)
       PROVE  o[1] \in {"mbuf_pools", "row"}
  <2>1. k \in 0 .. Len(PortRows)
    BY <1>8
  <2>2. o \in R
    BY <1>2, <2>1, FirstIn
  <2>3. QED
    BY <1>5, <2>2
<1>11. ASSUME NEW k \in Len(PortRows) .. Len(PortObjects)
       PROVE  \A o \in FirstOf(PortObjects, k) : o[1] \in Released => o \in PortsReleased
  <2>1. k \in 0 .. Len(PortObjects)
    BY <1>8, <1>9
  <2>2. FirstOf(PortObjects, k) \subseteq S
    BY <1>9, <2>1, FirstIn
  <2>3. QED
    BY <1>6, <2>2
<1>12. \A o \in ToSet(PortObjects) : o[1] \in Released => o \in PortsReleased
  BY <1>6, <1>9, FirstIn
<1>13. QED
  BY <1>10, <1>11, <1>12

\* Whatever the operations of the regex device acquire has no cleanup.
LEMMA OpsNotReleased ==
  ASSUME ConfInv
  PROVE  /\ \A k \in 0 .. Len(OpsObjects) - 1 : \A o \in FirstOf(OpsObjects, k) :
              o[1] \notin Released
         /\ \A o \in ToSet(OpsObjects) : o[1] \notin Released
<1>1. OpsObjects \in Seq(Objects(OpsKinds)) /\ Len(OpsObjects) \in Nat
  BY OpsIs, LenProperties DEF ConfInv
<1>2. \A o \in Objects(OpsKinds) : o[1] \notin Released
  BY DEF Objects, OpsKinds, Released
<1>3. ASSUME NEW k \in 0 .. Len(OpsObjects) - 1
      PROVE  FirstOf(OpsObjects, k) \subseteq Objects(OpsKinds)
  <2>1. k \in 0 .. Len(OpsObjects)
    BY <1>1
  <2>2. QED
    BY <1>1, <2>1, FirstIn
<1>4. ToSet(OpsObjects) \subseteq Objects(OpsKinds)
  BY <1>1, FirstIn
<1>5. QED
  BY <1>2, <1>3, <1>4

\* What the pipeline acquires that has a cleanup: single objects and those of instances.
LEMMA PipelineKinds ==
  ASSUME conf \in Configurations, NEW j \in 1 .. Len(PipelineObjects)
  PROVE  LET a == Len(PreloadObjects)
             b == a + 3 * NbInst
             o == PipelineObjects[j]
         IN /\ j <= a => o \in Singles
            /\ j > a /\ j <= b => o = StageObjects[j - a]
            /\ j > b => o \in Singles \/ o[1] \notin Released
            /\ o[1] \in Released /\ o \notin Singles =>
                 o[1] \in {"stage", "funcs", "state"} /\ o[2] \in 0 .. NbInst - 1
<1> DEFINE a == Len(PreloadObjects)
           b == a + 3 * NbInst
<1>1. NbInst \in Nat
  BY CoresIs
<1>2. a \in 0 .. 1 /\ b \in Nat /\ a <= b
  BY <1>1, PipelineObjectAt
<1>3. Len(PipelineObjects) = b + 5 + 2 * NbInst
  BY <1>1, <1>2, PipelineObjectAt
<1>4. j \in 1 .. b + 5 + 2 * NbInst /\ j \in 1 .. Len(PipelineObjects)
  BY <1>1, <1>2, <1>3
<1>5. PipelineObjects[j] = IF j <= a THEN PreloadObjects[j]
                           ELSE IF j <= b THEN StageObjects[j - a]
                           ELSE IF j <= b + 5 THEN SpecialObjects[j - b]
                           ELSE RingObjects[j - b - 5]
  BY <1>4, PipelineObjectAt, Zenon
<1>6. ASSUME j <= a PROVE PipelineObjects[j] \in Singles
  <2>1. j \in 1 .. a
    BY <1>2, <1>6
  <2>2. PreloadObjects[j] = One("mbuf_pool")
    BY <2>1, PipelineObjectAt
  <2>3. QED
    BY <1>5, <1>6, <2>2 DEF Singles
<1>7. ASSUME j > a, j <= b PROVE PipelineObjects[j] = StageObjects[j - a]
  BY <1>2, <1>5, <1>7
<1>8. ASSUME j > b
      PROVE  PipelineObjects[j] \in Singles \/ PipelineObjects[j][1] \notin Released
  <2>1. CASE j <= b + 5
    <3>1. j - b \in 1 .. 5 /\ ~(j <= a) /\ ~(j <= b)
      BY <1>2, <1>4, <1>8, <2>1
    <3>2. PipelineObjects[j] = SpecialObjects[j - b]
      BY <1>5, <2>1, <3>1
    <3>3. \A i \in 1 .. 5 : SpecialObjects[i] \in Singles \/ SpecialObjects[i][1] \notin Released
      BY DEF SpecialObjects, Singles, One, Released
    <3>4. QED
      BY <3>1, <3>2, <3>3
  <2>2. CASE ~(j <= b + 5)
    <3>1. j - b - 5 \in 1 .. 2 * NbInst /\ ~(j <= a) /\ ~(j <= b)
      BY <1>1, <1>2, <1>4, <1>8, <2>2
    <3>2. PipelineObjects[j] = RingObjects[j - b - 5]
      BY <1>5, <2>2, <3>1
    <3>3. RingObjects \in Seq(Objects({"ring_in", "ring_out"})) /\ Len(RingObjects) = 2 * NbInst
      <4>1. /\ Listed("ring_in", NbInst) \in Seq(Objects({"ring_in", "ring_out"}))
            /\ Listed("ring_out", NbInst) \in Seq(Objects({"ring_in", "ring_out"}))
        BY <1>1, ListedIs
      <4>2. Len(Listed("ring_in", NbInst)) = NbInst /\ Len(Listed("ring_out", NbInst)) = NbInst
        BY <1>1 DEF Listed
      <4>3. /\ RingObjects \in Seq(Objects({"ring_in", "ring_out"}))
            /\ Len(RingObjects) = Len(Listed("ring_in", NbInst)) + Len(Listed("ring_out", NbInst))
        BY ONLY <4>1, ConcatProperties DEF RingObjects
      <4>4. QED
        BY <1>1, <4>2, <4>3
    <3>4. RingObjects[j - b - 5] \in Objects({"ring_in", "ring_out"})
      BY <3>1, <3>3, ElementOfSeq
    <3>5. QED
      BY <3>2, <3>4 DEF Objects, Released
  <2>3. QED
    BY <2>1, <2>2
<1>9. ASSUME PipelineObjects[j][1] \in Released, PipelineObjects[j] \notin Singles
      PROVE  PipelineObjects[j][1] \in {"stage", "funcs", "state"}
             /\ PipelineObjects[j][2] \in 0 .. NbInst - 1
  <2>1. j > a /\ j <= b
    BY <1>2, <1>4, <1>6, <1>8, <1>9
  <2>2. j - a \in 1 .. 3 * NbInst
    BY <1>1, <1>2, <2>1
  <2>3. QED
    BY <1>7, <2>1, <2>2, StageObjectAt
<1>10. QED
  BY <1>6, <1>7, <1>8, <1>9

\* A pipeline that fails at some object has one instance at most that is not complete.
LEMMA PipelineFails ==
  ASSUME conf \in Configurations, NbInst <= MaxInst,
         NEW k \in 0 .. Len(PipelineObjects) - 1,
         NEW rest, rest = {o \in FirstOf(PipelineObjects, k) : o[1] \in Released}
  PROVE  LET parts == {o \in rest : o[1] \in {"stage", "funcs", "state"}
                                     /\ <<"state", o[2]>> \in rest}
         IN Broken(rest \ (Singles \cup parts))
<1> DEFINE a == Len(PreloadObjects)
           b == a + 3 * NbInst
           parts == {o \in rest : o[1] \in {"stage", "funcs", "state"}
                                  /\ <<"state", o[2]>> \in rest}
           last == (k - a) \div 3
<1>1. NbInst \in Nat /\ MaxInst \in Nat
  BY CoresIs, LifecycleAssumption
<1>2. a \in 0 .. 1 /\ b \in Nat /\ a <= b
  BY <1>1, PipelineObjectAt
<1>3. Len(PipelineObjects) = b + 5 + 2 * NbInst /\ k \in Nat
  BY <1>1, <1>2, PipelineObjectAt
<1>4. ASSUME NEW j \in 1 .. k
      PROVE  /\ j <= a => PipelineObjects[j] \in Singles
             /\ j > a /\ j <= b => PipelineObjects[j] = StageObjects[j - a]
             /\ j > b => PipelineObjects[j] \in Singles \/ PipelineObjects[j][1] \notin Released
  <2>1. j \in 1 .. Len(PipelineObjects)
    BY <1>1, <1>2, <1>3
  <2>2. QED
    BY <2>1, PipelineKinds
<1>5. ASSUME NEW o \in rest \ (Singles \cup parts)
      PROVE  o \in {<<"stage", last>>, <<"funcs", last>>} /\ last \in 0 .. MaxInst - 1
  <2>1. PICK j \in 1 .. k : o = PipelineObjects[j]
    BY DEF FirstOf
  <2>2. j > a /\ j <= b /\ o = StageObjects[j - a]
    BY <1>2, <1>4, <2>1
  <2>3. j - a \in 1 .. 3 * NbInst
    BY <1>1, <1>2, <2>2
  <2>4. /\ o[1] \in {"stage", "funcs", "state"} /\ o[2] \in 0 .. NbInst - 1
        /\ o[2] = ((j - a) - 1) \div 3 /\ o = <<o[1], o[2]>>
    BY <2>2, <2>3, StageObjectAt
  <2>5. /\ 3 * o[2] + 3 \in 1 .. 3 * NbInst
        /\ StageObjects[3 * o[2] + 3] = <<"state", o[2]>>
    BY <2>4, StageObjectAt
  <2>6. <<"state", o[2]>> \notin rest
    BY <2>4
  <2>7. ~(3 * o[2] + 3 + a <= k)
    <3>1. SUFFICES ASSUME 3 * o[2] + 3 + a <= k PROVE FALSE
      OBVIOUS
    <3> DEFINE l == 3 * o[2] + 3 + a
    <3>2. l \in 1 .. k /\ l > a /\ l <= b /\ l - a = 3 * o[2] + 3
      <4>1. \A x, y, m, i \in Nat : 3 * i + 3 \in 1 .. 3 * m /\ 3 * i + 3 + x <= y =>
              /\ 3 * i + 3 + x \in 1 .. y /\ 3 * i + 3 + x > x /\ 3 * i + 3 + x <= x + 3 * m
              /\ 3 * i + 3 + x - x = 3 * i + 3
        OBVIOUS
      <4>2. o[2] \in Nat /\ a \in Nat
        BY <1>1, <1>2, <2>4
      <4> HIDE DEF a
      <4>3. QED
        BY <1>1, <1>3, <2>5, <3>1, <4>1, <4>2
    <3>3. PipelineObjects[l] = <<"state", o[2]>>
      BY <1>4, <2>5, <3>2
    <3> HIDE DEF l
    <3>4. <<"state", o[2]>> \in FirstOf(PipelineObjects, k)
      BY <3>2, <3>3 DEF FirstOf
    <3>5. QED
      BY <2>6, <3>4 DEF Released
  <2>8. last = o[2]
    <3>1. o[2] \in Nat /\ 3 * o[2] <= j - a - 1 /\ j <= k /\ k < 3 * o[2] + 3 + a
      BY <1>1, <1>2, <1>3, <2>2, <2>4, <2>7
    <3>2. \A x, i \in Nat : 3 * i <= x /\ x < 3 * i + 3 => x \div 3 = i
      OBVIOUS
    <3>3. k - a \in Nat /\ 3 * o[2] <= k - a /\ k - a < 3 * o[2] + 3
      <4> DEFINE i == o[2]
      <4>1. /\ i \in Nat /\ j \in Nat /\ a \in Nat /\ k \in Nat /\ j > a
            /\ 3 * i <= j - a - 1 /\ j <= k /\ k < 3 * i + 3 + a
        BY <1>2, <1>3, <2>2, <3>1
      <4> HIDE DEF a, i
      <4>2. k - a \in Nat /\ 3 * i <= k - a /\ k - a < 3 * i + 3
        BY ONLY <4>1
      <4>3. QED
        BY <4>2, Zenon DEF i
    <3>4. QED
      BY <3>1, <3>2, <3>3
  <2>9. o[1] # "state"
    BY <2>4, <2>6
  <2>10. QED
    BY <1>1, <2>4, <2>8, <2>9
<1> HIDE DEF last, parts
<1>6. rest \ (Singles \cup parts) = {}
      \/ /\ last \in 0 .. MaxInst - 1
         /\ rest \ (Singles \cup parts) \subseteq {<<"stage", last>>, <<"funcs", last>>}
  BY <1>5
<1>7. QED
  BY <1>6 DEF Broken, parts

\* The start up to the input's initialisation keeps to what it acquires.
LEMMA HeldStart ==
  ASSUME ConfInv, HeldInv, Setup \/ InitEal \/ StatsInit \/ InputRegister
  PROVE  HeldInv'
<1> USE DEF BeforeLaunch
<1>1. ~started /\ started' = started
  BY DEF HeldInv, Setup, InitEal, StatsInit, InputRegister
<1>2. StatsLeft' = StatsLeft
  BY DEF StatsLeft, One
<1>3. \A rest : rest = {} => Leftover(rest)'
  BY <1>1 DEF Leftover
<1>4. CASE Setup
  <2>1. CASE Succeeds(<<One("conf")>>, "eal")
    <3>1. pc' = "eal" /\ Exchange(ToSet(<<One("conf")>>), {})
      BY <2>1 DEF Succeeds
    <3>2. ToSet(<<One("conf")>>) = {One("conf")}
      BY DEF ToSet
    <3>3. Rest' \subseteq {One("conf")}
      BY <1>4, <3>1, <3>2, RestIs DEF HeldInv, Setup
    <3>4. QED
      BY <1>1, <3>1, <3>3 DEF HeldInv
  <2>2. CASE Fails({}, "exit")
    <3>1. pc' = "exit" /\ Exchange({}, {})
      BY <2>2 DEF Fails, FailsAfter
    <3>2. Rest' = {}
      BY <1>4, <3>1, RestIs DEF HeldInv, Setup
    <3>3. QED
      BY <1>1, <3>1, <3>2 DEF HeldInv, Leftover
  <2>3. QED
    BY <1>4, <2>1, <2>2 DEF Setup
<1>5. CASE InitEal
  <2>1. pc' \in {"stats", "clean_conf"}
        /\ (Exchange(ToSet(<<One("eal")>>), {}) \/ Exchange({}, {}))
    BY <1>5 DEF InitEal, Succeeds, Fails, FailsAfter
  <2>2. ToSet(<<One("eal")>>) = {One("eal")} /\ One("eal")[1] \notin Released
    BY DEF ToSet, One, Released
  <2>3. Rest' = Rest
    BY <2>1, <2>2, RestSame
  <2>4. Rest' \subseteq {One("conf")}
    BY <1>5, <2>3 DEF HeldInv, InitEal
  <2>5. QED
    BY <1>1, <2>1, <2>4 DEF HeldInv, Leftover
<1>6. CASE StatsInit
  <2>1. Rest \subseteq {One("conf")}
    BY <1>6 DEF HeldInv, StatsInit
  <2>2. CASE Succeeds(StatsObjects, "input_reg")
    <3>1. pc' = "input_reg" /\ Exchange(ToSet(StatsObjects), {})
      BY <2>2 DEF Succeeds
    <3>2. ToSet(StatsObjects) = {One("pkt_stats"), One("stats"), One("rm_stats"), One("lat_stats")}
      BY DEF ToSet, StatsObjects
    <3>3. Rest' \subseteq StatsLeft
      BY <2>1, <3>1, <3>2, RestIs DEF StatsLeft, One, Released
    <3>4. QED
      BY <1>1, <1>2, <3>1, <3>3 DEF HeldInv
  <2>3. ASSUME NEW k \in 0 .. 3,
               FailsAfter(FirstOf(StatsObjects, k), FirstOf(StatsObjects, k), "clean_conf")
        PROVE  HeldInv'
    <3>1. pc' = "clean_conf" /\ Rest' \subseteq {One("conf")}
      BY <2>1, <2>3, RestIs DEF FailsAfter
    <3>2. QED
      BY <1>1, <3>1 DEF HeldInv, Leftover
  <2>4. QED
    BY <1>6, <2>2, <2>3 DEF StatsInit
<1>7. CASE InputRegister
  <2>1. Rest \subseteq StatsLeft
    BY <1>7 DEF HeldInv, InputRegister
  <2>2. CASE Succeeds(<<One("input_funcs")>>, "input")
    <3>1. pc' = "input" /\ Exchange(ToSet(<<One("input_funcs")>>), {})
      BY <2>2 DEF Succeeds
    <3>2. ToSet(<<One("input_funcs")>>) = {One("input_funcs")}
      BY DEF ToSet
    <3>3. Rest' \subseteq StatsLeft \cup {One("input_funcs")}
      BY <2>1, <3>1, <3>2, RestIs
    <3>4. One("input_funcs")' = One("input_funcs")
      BY DEF One
    <3>5. QED
      BY <1>1, <1>2, <3>1, <3>3, <3>4 DEF HeldInv
  <2>3. CASE Fails({}, "clean_stats")
    <3>1. pc' = "clean_stats" /\ Rest' \subseteq StatsLeft
      BY <2>1, <2>3, RestIs DEF Fails, FailsAfter
    <3>2. QED
      BY <1>1, <1>2, <3>1 DEF HeldInv, Leftover
  <2>4. QED
    BY <1>7, <2>2, <2>3 DEF InputRegister
<1>8. QED
  BY <1>4, <1>5, <1>6, <1>7

\* So does the input's initialisation; what it leaves to nobody are its rows.
LEMMA HeldInput ==
  ASSUME ConfInv, HeldInv, InputInit
  PROVE  HeldInv'
<1> USE DEF BeforeLaunch
<1>1. ~started /\ started' = started /\ conf' = conf /\ pc = "input"
  BY DEF HeldInv, InputInit
<1>2. StatsLeft' = StatsLeft /\ InputLeft' = InputLeft
  BY <1>1, InputLeftSame
<1>3. Rest \subseteq StatsLeft \cup {One("input_funcs")}
  BY <1>1 DEF HeldInv
<1>4. ASSUME pc' = "regex", Rest' \subseteq StatsLeft \cup InputLeft PROVE HeldInv'
  BY <1>1, <1>2, <1>4 DEF HeldInv
<1>5. ASSUME pc' = "clean_stats",
             \A o \in Rest' \ StatsLeft : o[1] \in {"input_funcs", "mbuf_pools", "row"}
      PROVE  HeldInv'
  BY <1>1, <1>2, <1>5 DEF HeldInv, Leftover
<1>6. ASSUME pc' = "undefined" PROVE HeldInv'
  BY <1>6 DEF HeldInv
<1>7. One("input_funcs") \in InputLeft /\ One("input_data") \in InputLeft
      /\ One("input_funcs")[1] = "input_funcs"
  BY DEF InputLeft, One
<1>8. CASE conf.mode = "pcap_file" /\ Succeeds(<<>>, "regex")
  <2>1. ToSet(<<>>) = {}
    BY DEF ToSet
  <2>2. QED
    BY <1>3, <1>4, <1>7, <1>8, <2>1, RestIs DEF Succeeds
<1>9. CASE conf.mode = "text_file" /\ Succeeds(<<One("input_data")>>, "regex")
  <2>1. ToSet(<<One("input_data")>>) = {One("input_data")}
    BY DEF ToSet
  <2>2. QED
    BY <1>3, <1>4, <1>7, <1>9, <2>1, RestIs DEF Succeeds
<1>10. CASE conf.mode = "text_file" /\ Fails({}, "clean_stats")
  BY <1>3, <1>5, <1>7, <1>10, RestIs DEF Fails, FailsAfter
<1>11. CASE conf.mode = Live /\ machine.devs \in 1 .. NumPorts /\ Succeeds(PortObjects, "regex")
  <2>1. \A o \in ToSet(PortObjects) : o[1] \in Released => o \in InputLeft
    BY <1>11, PortKinds DEF InputLeft
  <2>2. pc' = "regex" /\ Exchange(ToSet(PortObjects), {})
    BY <1>11 DEF Succeeds
  <2>3. Rest' \subseteq StatsLeft \cup InputLeft
    BY <1>3, <1>7, <2>1, <2>2, RestIs
  <2>4. QED
    BY <1>4, <2>2, <2>3
<1>12. ASSUME NEW k \in 0 .. Len(PortRows) - 1, Fails(FirstOf(PortRows, k), "clean_stats")
       PROVE  HeldInv'
  <2>1. \A o \in FirstOf(PortRows, k) : o[1] \in {"mbuf_pools", "row"}
    BY PortKinds
  <2>2. pc' = "clean_stats" /\ Exchange(FirstOf(PortRows, k), {})
    BY <1>12 DEF Fails, FailsAfter
  <2>3. Rest' \subseteq Rest \cup FirstOf(PortRows, k)
    BY <2>2, RestIs
  <2>4. QED
    BY <1>3, <1>5, <1>7, <2>1, <2>2, <2>3
<1>13. ASSUME NEW k \in Len(PortRows) .. Len(PortObjects),
              Exchange(FirstOf(PortObjects, k), PortsReleased), pc' \in {"clean_stats", "undefined"}
       PROVE  HeldInv'
  <2>1. \A o \in FirstOf(PortObjects, k) : o[1] \in Released => o \in PortsReleased
    BY PortKinds
  <2>2. Rest' = (Rest \cup {o \in FirstOf(PortObjects, k) : o[1] \in Released}) \ PortsReleased
    BY <1>13, RestIs
  <2>3. Rest' \subseteq Rest
    BY <2>1, <2>2
  <2>4. QED
    BY <1>3, <1>5, <1>6, <1>7, <1>13, <2>3
<1>14. \/ conf.mode = "pcap_file" /\ Succeeds(<<>>, "regex")
       \/ conf.mode = "text_file" /\ Succeeds(<<One("input_data")>>, "regex")
       \/ conf.mode = "text_file" /\ Fails({}, "clean_stats")
       \/ conf.mode = Live /\ machine.devs \in 1 .. NumPorts /\ Succeeds(PortObjects, "regex")
       \/ \E k \in 0 .. Len(PortRows) - 1 : Fails(FirstOf(PortRows, k), "clean_stats")
       \/ \E k \in Len(PortRows) .. Len(PortObjects) :
            Exchange(FirstOf(PortObjects, k), PortsReleased) /\ pc' \in {"clean_stats", "undefined"}
       \/ pc' = "undefined"
  BY DEF InputInit, Undefined
<1>15. QED
  BY <1>6, <1>8, <1>9, <1>10, <1>11, <1>12, <1>13, <1>14

\* The regex device acquires nothing that has a cleanup.
LEMMA HeldRegex ==
  ASSUME ConfInv, HeldInv, RegexInit
  PROVE  HeldInv'
<1> USE DEF BeforeLaunch
<1>1. ~started /\ started' = started /\ conf' = conf /\ pc = "regex"
  BY DEF HeldInv, RegexInit
<1>2. StatsLeft' = StatsLeft /\ InputLeft' = InputLeft
  BY <1>1, InputLeftSame
<1>3. Rest \subseteq StatsLeft \cup InputLeft
  BY <1>1 DEF HeldInv
<1>4. ASSUME NEW got, NEW gone, Exchange(got, gone), \A o \in got : o[1] \notin Released,
             pc' \in {"pipeline", "clean_input", "undefined"}
      PROVE  HeldInv'
  <2>1. Rest' \subseteq StatsLeft \cup InputLeft
    BY <1>3, <1>4, RestSame
  <2>2. QED
    BY <1>1, <1>2, <1>4, <2>1 DEF HeldInv, Broken
<1>5. \A kind \in {"regex_funcs", "rules", "regex_dev"} : One(kind)[1] \notin Released
  BY DEF One, Released
<1>6. CASE RegexRefused
  BY <1>4, <1>5, <1>6 DEF RegexRefused, Fails, FailsAfter
<1>7. CASE DeviceFails
  <2>1. PICK got \in {{One("rules")}, {One("rules"), One("regex_dev")}} :
          FailsAfter({One("regex_funcs")} \cup got, {One("rules")}, "clean_input")
    BY <1>7 DEF DeviceFails
  <2>2. \A o \in {One("regex_funcs")} \cup got : o[1] \notin Released
    BY <1>5, <2>1
  <2>3. QED
    BY <1>4, <2>1, <2>2 DEF FailsAfter
<1>8. CASE OpsFail
  <2>1. PICK k \in 0 .. Len(OpsObjects) - 1 :
          LET got == FirstOf(OpsObjects, k) \cup {One("rules"), One("regex_dev")}
          IN /\ Exchange(got \cup {One("regex_funcs")}, got)
             /\ pc' \in {"clean_input", "undefined"}
    BY <1>8, Zenon DEF OpsFail, Undefined
  <2> DEFINE got == FirstOf(OpsObjects, k) \cup {One("rules"), One("regex_dev")}
  <2>2. \A o \in got \cup {One("regex_funcs")} : o[1] \notin Released
    BY <1>5, OpsNotReleased
  <2> HIDE DEF got
  <2>3. /\ Exchange(got \cup {One("regex_funcs")}, got)
        /\ pc' \in {"pipeline", "clean_input", "undefined"}
    BY <2>1 DEF got
  <2>4. QED
    BY <1>4, <2>2, <2>3
<1>9. CASE Succeeds(<<One("regex_funcs"), One("rules"), One("regex_dev")>> \o OpsObjects, "pipeline")
  <2> DEFINE devs == <<One("regex_funcs"), One("rules"), One("regex_dev")>>
             S == Objects(OpsKinds \cup {"regex_funcs", "rules", "regex_dev"})
  <2>1. devs \in Seq(S)
    BY DEF One, Objects
  <2>2. OpsObjects \in Seq(S)
    <3>1. OpsObjects \in Seq(Objects(OpsKinds)) /\ Objects(OpsKinds) \subseteq S
      BY OpsIs DEF ConfInv, Objects
    <3> HIDE DEF S
    <3>2. QED
      BY <3>1
  <2>3. \A o \in S : o[1] \notin Released
    BY DEF Objects, OpsKinds, Released
  <2> HIDE DEF devs, S
  <2>4. devs \o OpsObjects \in Seq(S)
    BY <2>1, <2>2, ConcatProperties
  <2>5. ToSet(devs \o OpsObjects) \subseteq S
    BY <2>4, FirstIn
  <2>6. Exchange(ToSet(devs \o OpsObjects), {}) /\ pc' \in {"pipeline", "clean_input", "undefined"}
    BY <1>9 DEF Succeeds, devs
  <2>7. QED
    BY <1>4, <2>3, <2>5, <2>6
<1>10. QED
  BY <1>6, <1>7, <1>8, <1>9 DEF RegexInit

\* The pipeline's initialisation enters an instance when it is complete: where it fails
\* one instance at most is held and not entered.
LEMMA HeldPipeline ==
  ASSUME ConfInv, HeldInv, PipelineInit
  PROVE  HeldInv'
<1> USE DEF BeforeLaunch
<1>1. ~started /\ started' = started /\ conf' = conf /\ pc = "pipeline"
  BY DEF HeldInv, PipelineInit
<1>2. StatsLeft' = StatsLeft /\ InputLeft' = InputLeft /\ Singles' = Singles
  BY <1>1, InputLeftSame DEF Singles, One
<1>3. Rest \subseteq StatsLeft \cup InputLeft
  BY <1>1 DEF HeldInv
<1>4. PipelineLeft' = Singles \cup {o \in held' : o[1] \in {"stage", "funcs", "state"}
                                                 /\ <<"state", o[2]>> \in held'}
  BY <1>2 DEF PipelineLeft, Parts, Linked
<1>5. CASE NbInst <= MaxInst /\ Succeeds(PipelineObjects, "run_mode")
  <2>1. pc' = "run_mode" /\ Exchange(ToSet(PipelineObjects), {})
    BY <1>5 DEF Succeeds
  <2>2. held' = held \cup ToSet(PipelineObjects)
    BY <2>1 DEF Exchange
  <2>3. ASSUME NEW o \in ToSet(PipelineObjects), o[1] \in Released
        PROVE  o \in PipelineLeft'
    <3>1. PICK j \in 1 .. Len(PipelineObjects) : o = PipelineObjects[j]
      <4>1. DOMAIN PipelineObjects = 1 .. Len(PipelineObjects)
        BY PipelineObjectAt, LenProperties DEF ConfInv
      <4>2. QED
        BY <4>1 DEF ToSet
    <3>2. CASE o \in Singles
      BY <1>4, <3>2
    <3>3. CASE o \notin Singles
      <4>1. o[1] \in {"stage", "funcs", "state"} /\ o[2] \in 0 .. NbInst - 1
        BY <2>3, <3>1, <3>3, PipelineKinds DEF ConfInv
      <4>2. <<"state", o[2]>> \in held'
        BY <2>2, <4>1, PipelineAcquires DEF ConfInv, InstanceObjects
      <4>3. QED
        BY <1>4, <2>2, <4>1, <4>2
    <3>4. QED
      BY <3>2, <3>3
  <2>4. Rest' \subseteq StatsLeft \cup InputLeft \cup PipelineLeft'
    BY <1>3, <2>1, <2>3, RestIs
  <2>5. QED
    BY <1>1, <1>2, <2>1, <2>4 DEF HeldInv
<1>6. ASSUME NEW got, Exchange(got, {}), pc' = "clean_pipeline",
             NEW rest, rest = {o \in got : o[1] \in Released},
             Broken(rest \ (Singles \cup {o \in rest : o[1] \in {"stage", "funcs", "state"}
                                                       /\ <<"state", o[2]>> \in rest}))
      PROVE  HeldInv'
  <2> DEFINE parts == {o \in rest : o[1] \in {"stage", "funcs", "state"}
                                    /\ <<"state", o[2]>> \in rest}
  <2>1. Rest' = Rest \cup rest /\ held' = held \cup got
    <3>1. Rest' = (Rest \cup rest) \ {}
      BY <1>6, RestIs
    <3>2. held' = held \cup got
      BY <1>6 DEF Exchange
    <3>3. QED
      BY <3>1, <3>2
  <2>2. parts \subseteq PipelineLeft'
    BY <1>4, <1>6, <2>1
  <2>3. Singles \subseteq PipelineLeft'
    BY <1>4
  <2> HIDE DEF parts
  <2>4. Rest' \ (StatsLeft \cup InputLeft \cup PipelineLeft') \subseteq rest \ (Singles \cup parts)
    BY <1>3, <2>1, <2>2, <2>3
  <2>5. Broken(rest \ (Singles \cup parts))
    BY <1>6 DEF parts
  <2>6. Broken(Rest' \ (StatsLeft \cup InputLeft \cup PipelineLeft'))
    BY <2>4, <2>5, BrokenIs
  <2>7. QED
    BY <1>1, <1>2, <1>6, <2>6 DEF HeldInv, Broken
<1>7. CASE NbInst > MaxInst /\ Fails(ToSet(PreloadObjects), "clean_pipeline")
  <2>1. Exchange(ToSet(PreloadObjects), {}) /\ pc' = "clean_pipeline"
    BY <1>7 DEF Fails, FailsAfter
  <2>2. ToSet(PreloadObjects) \subseteq Singles
    BY DEF ToSet, PreloadObjects, Singles
  <2> DEFINE rest == {o \in ToSet(PreloadObjects) : o[1] \in Released}
  <2>3. rest \ (Singles \cup {o \in rest : o[1] \in {"stage", "funcs", "state"}
                                             /\ <<"state", o[2]>> \in rest}) = {}
    BY <2>2
  <2>4. QED
    BY <1>6, <2>1, <2>3 DEF Broken
<1>8. ASSUME NEW k \in 0 .. Len(PipelineObjects) - 1,
             NbInst <= MaxInst \/ k < Len(PreloadObjects),
             Fails(FirstOf(PipelineObjects, k), "clean_pipeline")
      PROVE  HeldInv'
  <2>1. Exchange(FirstOf(PipelineObjects, k), {}) /\ pc' = "clean_pipeline"
    BY <1>8 DEF Fails, FailsAfter
  <2> DEFINE rest == {o \in FirstOf(PipelineObjects, k) : o[1] \in Released}
             parts == {o \in rest : o[1] \in {"stage", "funcs", "state"}
                                    /\ <<"state", o[2]>> \in rest}
  <2>2. Broken(rest \ (Singles \cup parts))
    <3>1. CASE NbInst <= MaxInst
      BY <3>1, PipelineFails DEF ConfInv
    <3>2. CASE k < Len(PreloadObjects)
      <4>1. Len(PreloadObjects) \in 0 .. 1
        BY PipelineObjectAt DEF ConfInv
      <4>2. k = 0
        <5>1. PipelineObjects \in Seq(Objects(Kinds))
          BY PipelineObjectAt DEF ConfInv
        <5>2. k \in Nat
          BY <5>1, LenProperties
        <5>3. \A m \in Nat : \A n \in 0 .. 1 : m < n => m = 0
          OBVIOUS
        <5>4. QED
          BY ONLY <3>2, <4>1, <5>2, <5>3
      <4>3. FirstOf(PipelineObjects, k) = {}
        BY <4>2 DEF FirstOf
      <4>4. rest \ (Singles \cup parts) = {}
        BY <4>3
      <4>5. QED
        BY <4>4 DEF Broken
    <3>3. QED
      BY <1>8, <3>1, <3>2
  <2>3. QED
    BY <1>6, <2>1, <2>2
<1>9. \/ NbInst <= MaxInst /\ Succeeds(PipelineObjects, "run_mode")
      \/ NbInst > MaxInst /\ Fails(ToSet(PreloadObjects), "clean_pipeline")
      \/ \E k \in 0 .. Len(PipelineObjects) - 1 :
           /\ NbInst <= MaxInst \/ k < Len(PreloadObjects)
           /\ Fails(FirstOf(PipelineObjects, k), "clean_pipeline")
      \/ pc' = "undefined"
  BY DEF PipelineInit
<1>10. QED
  BY <1>5, <1>7, <1>8, <1>9 DEF HeldInv

\* The run acquires nothing that has a cleanup.
LEMMA HeldRun ==
  ASSUME ConfInv, HeldInv, RunModeRegister \/ Launch \/ Run \/ PostSearch \/ StatsPrint
  PROVE  HeldInv'
<1> USE DEF BeforeLaunch
<1>1. conf' = conf /\ pc \in {"run_mode", "launch", "run", "post", "print"}
  BY DEF RunModeRegister, Launch, Run, PostSearch, StatsPrint
<1>2. StatsLeft' = StatsLeft /\ InputLeft' = InputLeft /\ Singles' = Singles
  BY <1>1, InputLeftSame DEF Singles, One
<1>3. Rest \subseteq StatsLeft \cup InputLeft \cup PipelineLeft
  BY <1>1 DEF HeldInv
<1>4. held \subseteq held' /\ Rest' = Rest
  <2>1. CASE RunModeRegister
    <3>1. Exchange(ToSet(<<One("run_funcs")>>), {}) \/ Exchange({}, {})
      BY <2>1 DEF RunModeRegister, Succeeds, Fails, FailsAfter
    <3>2. ToSet(<<One("run_funcs")>>) = {One("run_funcs")} /\ One("run_funcs")[1] \notin Released
      BY DEF ToSet, One, Released
    <3>3. Rest' = Rest \ {}
      BY <3>1, <3>2, RestSame
    <3>4. held \subseteq held'
      BY <3>1 DEF Exchange
    <3>5. QED
      BY <3>3, <3>4
  <2>2. CASE Launch \/ PostSearch \/ StatsPrint
    BY <2>2 DEF Launch, PostSearch, StatsPrint, releaseVars, Rest
  <2>3. CASE Run
    <3>1. PICK got \in {{}, {One("dpdk_tx")}} : Exchange(got, {})
      BY <2>3 DEF Run
    <3>2. \A o \in got : o[1] \notin Released
      BY <3>1 DEF One, Released
    <3>3. Rest' = Rest \ {}
      BY <3>1, <3>2, RestSame
    <3>4. held \subseteq held'
      BY <3>1 DEF Exchange
    <3>5. QED
      BY <3>3, <3>4
  <2>4. QED
    BY <2>1, <2>2, <2>3
<1>5. PipelineLeft \subseteq PipelineLeft'
  BY <1>2, <1>4 DEF PipelineLeft, Parts, Linked
<1>6. Rest' \subseteq StatsLeft \cup InputLeft \cup PipelineLeft'
  BY <1>3, <1>4, <1>5
<1>7. pc' \in {"launch", "run", "post", "print", "clean_pipeline", "undefined"}
  BY DEF RunModeRegister, Launch, Run, PostSearch, StatsPrint, Succeeds, Fails, FailsAfter, Undefined
<1>8. Rest' \ (StatsLeft \cup InputLeft \cup PipelineLeft') = {}
  BY <1>6
<1>9. QED
  BY <1>2, <1>6, <1>7, <1>8 DEF HeldInv, Broken

\* Each label releases its part.
LEMMA HeldClean ==
  ASSUME ConfInv, HeldInv, CleanPipeline \/ CleanInput \/ CleanStats \/ CleanConf
  PROVE  HeldInv'
<1> USE DEF BeforeLaunch
<1>1. conf' = conf /\ started' = started
  BY DEF CleanPipeline, CleanInput, CleanStats, CleanConf
<1>2. StatsLeft' = StatsLeft /\ InputLeft' = InputLeft
  BY <1>1, InputLeftSame
<1>3. CASE CleanPipeline
  <2>1. Exchange({}, Parts \cup Singles) /\ pc' \in {"clean_input", "undefined"} /\ pc = "clean_pipeline"
    BY <1>3 DEF CleanPipeline, Parts, Singles, Undefined
  <2>2. Rest' = Rest \ PipelineLeft
    BY <2>1, RestSame DEF PipelineLeft
  <2>3. Rest' \ (StatsLeft \cup InputLeft) = Rest \ (StatsLeft \cup InputLeft \cup PipelineLeft)
    BY <2>2
  <2>4. Broken(Rest' \ (StatsLeft \cup InputLeft))
        /\ (started => Rest' \subseteq StatsLeft \cup InputLeft)
    BY <2>1, <2>2, <2>3 DEF HeldInv
  <2>5. QED
    BY <1>1, <1>2, <2>1, <2>4 DEF HeldInv, Broken
<1>4. CASE CleanInput
  <2>1. Exchange({}, InputLeft) /\ pc' \in {"clean_stats", "undefined"} /\ pc = "clean_input"
    BY <1>4 DEF CleanInput, InputLeft, Undefined
  <2>2. Rest' = Rest \ InputLeft
    BY <2>1, RestSame
  <2>3. Rest' \ StatsLeft = Rest \ (StatsLeft \cup InputLeft)
    BY <2>2
  <2>4. Broken(Rest' \ StatsLeft) /\ (started => Rest' \ StatsLeft = {})
    BY <2>1, <2>3 DEF HeldInv
  <2>5. QED
    BY <1>1, <1>2, <2>1, <2>4 DEF HeldInv, Leftover, Broken
<1>5. CASE CleanStats
  <2>1. /\ Exchange({}, {One("rm_stats"), One("stats"), One("pkt_stats")})
        /\ pc' \in {"clean_conf", "undefined"} /\ pc = "clean_stats"
    BY <1>5 DEF CleanStats, Undefined
  <2>2. Rest' = Rest \ {One("rm_stats"), One("stats"), One("pkt_stats")}
    BY <2>1, RestSame
  <2>3. Rest' \ {One("conf")} = Rest \ StatsLeft
    BY <2>2 DEF StatsLeft
  <2>4. Leftover(Rest' \ {One("conf")})
    BY <2>1, <2>3 DEF HeldInv
  <2>5. One("conf")' = One("conf")
    BY DEF One
  <2>6. QED
    BY <1>1, <2>1, <2>4, <2>5 DEF HeldInv, Leftover, Broken
<1>6. CASE CleanConf
  <2>1. Exchange({}, {One("conf")}) /\ pc' = "exit" /\ pc = "clean_conf"
    BY <1>6 DEF CleanConf
  <2>2. Rest' = Rest \ {One("conf")}
    BY <2>1, RestSame
  <2>3. Leftover(Rest')
    BY <2>1, <2>2 DEF HeldInv
  <2>4. QED
    BY <1>1, <2>1, <2>3 DEF HeldInv, Leftover, Broken
<1>7. QED
  BY <1>3, <1>4, <1>5, <1>6

\* Whatever call fails, at the exit nothing is held that has a cleanup but the input's
\* rows and functions, or the one instance at which the start failed; after a completed
\* start nothing is.
THEOREM NothingLeftAtExit == Spec => []ReleasedAtExit
<1>1. Init => ConfInv /\ HeldInv
  BY ConfInit DEF Init, HeldInv, Rest, BeforeLaunch
<1>2. ConfInv /\ HeldInv /\ [Next]_vars => (ConfInv /\ HeldInv)'
  <2> SUFFICES ASSUME ConfInv, HeldInv, [Next]_vars PROVE HeldInv'
    BY ConfStep
  <2>1. CASE UNCHANGED vars
    <3>1. StatsLeft' = StatsLeft /\ InputLeft' = InputLeft
      BY <2>1, InputLeftSame DEF vars
    <3>2. Rest' = Rest /\ PipelineLeft' = PipelineLeft /\ One("conf")' = One("conf")
          /\ One("input_funcs")' = One("input_funcs")
      BY <2>1 DEF vars, releaseVars, Rest, PipelineLeft, Singles, Parts, Linked, One
    <3>3. pc' = pc /\ started' = started
      BY <2>1 DEF vars
    <3>4. QED
      BY <3>1, <3>2, <3>3 DEF HeldInv, Leftover, Broken
  <2>2. QED
    BY <2>1, HeldStart, HeldInput, HeldRegex, HeldPipeline, HeldRun, HeldClean DEF Next
<1>3. HeldInv => ReleasedAtExit
  BY DEF HeldInv, ReleasedAtExit, Leftover, Broken, Rest
<1>4. QED
  BY <1>1, <1>2, <1>3, PTL DEF Spec

-----------------------------------------------------------------------------
(* What the run and the cleanup follow.                                    *)

AfterLaunch == {"run", "post", "print"}
Counting == {"input_reg", "input", "regex", "pipeline", "run_mode", "launch", "run", "post",
             "print", "clean_pipeline", "clean_input", "clean_stats"}

\* Nothing is followed wrongly before the launch; the statistics are there while they
\* are used, every instance is entered when the pipeline is complete, and main's entry
\* of the statistics is set when all workers were launched.
FollowInv ==
  /\ pc \in BeforeLaunch => ~started
  /\ pc \in BeforeLaunch \cup {"launch"} => wild = {} /\ selves = {}
  /\ pc \in Counting => One("stats") \in held
  /\ pc = "run_mode" \/ (started /\ pc \in AfterLaunch \cup {"launch", "clean_pipeline"}) =>
       \A i \in 0 .. NbInst - 1 : Linked(i)
  /\ started /\ NbInst > 0 =>
       /\ pc \in AfterLaunch => wild = {}
       /\ 0 \in selves => selves = 0 .. NbInst
  /\ RunFollowsOnlyItsOwn

\* What is not released stays held.
LEMMA HeldStays ==
  ASSUME NEW got, NEW gone, Exchange(got, gone), NEW o \in held, o \notin gone
  PROVE  o \in held'
BY DEF Exchange

\* What the configuration determines.
LEMMA SameConf == conf' = conf => NbInst' = NbInst /\ BehindRows' = BehindRows
BY DEF NbInst, BehindRows, NumPorts

\* Before the launch nothing is started; the pipeline enters its instances.
LEMMA FollowStart ==
  ASSUME ConfInv, FollowInv,
         Setup \/ InitEal \/ StatsInit \/ InputRegister \/ InputInit \/ RegexInit \/ PipelineInit
  PROVE  FollowInv'
<1> USE DEF BeforeLaunch, AfterLaunch, Counting
<1>1. ~started /\ started' = started /\ selves' = selves /\ selves = {} /\ wild = {}
  BY DEF FollowInv, Setup, InitEal, StatsInit, InputRegister, InputInit, RegexInit, PipelineInit
<1>2. ASSUME pc' \in {"input_reg", "input", "regex", "pipeline", "run_mode", "clean_stats",
                      "clean_input", "clean_pipeline"} => One("stats") \in held',
             pc' \in BeforeLaunch => wild' = {},
             pc' = "run_mode" => \A i \in 0 .. NbInst' - 1 : Linked(i)',
             pc' \in BeforeLaunch \cup {"exit", "undefined", "clean_conf", "clean_stats",
                                       "clean_input", "clean_pipeline"}
      PROVE  FollowInv'
  BY <1>1, <1>2 DEF FollowInv, RunFollowsOnlyItsOwn
<1>3. One("stats")' = One("stats") /\ One("stats") = <<"stats", 0>>
  BY DEF One
<1>4. CASE Setup \/ InitEal
  BY <1>1, <1>2, <1>4 DEF Setup, InitEal, Succeeds, Fails, FailsAfter
<1>5. CASE StatsInit
  <2>1. CASE Succeeds(StatsObjects, "input_reg")
    <3>1. One("stats") \in ToSet(StatsObjects)
      BY DEF StatsObjects, ToSet
    <3>2. pc' = "input_reg" /\ wild' = wild /\ One("stats") \in held'
      BY <2>1, <3>1 DEF Succeeds, Exchange
    <3>3. QED
      BY <1>1, <1>2, <3>2
  <2>2. CASE pc' = "clean_conf"
    BY <1>2, <2>2
  <2>3. QED
    BY <1>5, <2>1, <2>2 DEF StatsInit, FailsAfter
<1>6. CASE InputRegister
  <2>1. One("stats") \in held
    BY <1>6 DEF FollowInv, InputRegister
  <2>2. One("stats") \in held' /\ wild' = wild /\ pc' \in {"input", "clean_stats"}
    BY <1>6, <2>1 DEF InputRegister, Succeeds, Fails, FailsAfter, Exchange
  <2>3. QED
    BY <1>1, <1>2, <2>2
<1>7. CASE InputInit
  <2>1. One("stats") \in held
    BY <1>7 DEF FollowInv, InputInit
  <2>2. One("stats") \notin PortsReleased
    BY DEF PortsReleased, One, Each
  <2>3. One("stats") \in held'
    BY <1>7, <2>1, <2>2 DEF InputInit, Succeeds, Fails, FailsAfter, Exchange
  <2>4. pc' \in {"regex", "clean_stats", "undefined"} /\ (pc' = "regex" => wild' = wild)
    BY <1>7 DEF InputInit, Succeeds, Fails, FailsAfter, Undefined
  <2>5. QED
    BY <1>1, <1>2, <2>3, <2>4
<1>8. CASE RegexInit
  <2>1. One("stats") \in held
    BY <1>8 DEF FollowInv, RegexInit
  <2>2. One("stats")[1] \in Released /\ One("stats") # One("rules") /\ One("stats") # One("regex_dev")
    BY DEF One, Released
  <2>3. One("stats") \in held'
    <3>1. CASE RegexRefused
      BY <2>1, <3>1 DEF RegexRefused, Fails, FailsAfter, Exchange
    <3>2. CASE DeviceFails
      BY <2>1, <2>2, <3>2 DEF DeviceFails, FailsAfter, Exchange
    <3>3. CASE OpsFail
      <4>1. PICK k \in 0 .. Len(OpsObjects) - 1 :
              Exchange(FirstOf(OpsObjects, k) \cup {One("rules"), One("regex_dev")}
                         \cup {One("regex_funcs")},
                       FirstOf(OpsObjects, k) \cup {One("rules"), One("regex_dev")})
        BY <3>3, Zenon DEF OpsFail
      <4>2. One("stats") \notin FirstOf(OpsObjects, k) \cup {One("rules"), One("regex_dev")}
        BY <2>2, OpsNotReleased
      <4>3. QED
        BY <2>1, <4>1, <4>2, HeldStays
    <3>4. CASE Succeeds(<<One("regex_funcs"), One("rules"), One("regex_dev")>> \o OpsObjects,
                        "pipeline")
      BY <2>1, <3>4 DEF Succeeds, Exchange
    <3>5. QED
      BY <1>8, <3>1, <3>2, <3>3, <3>4 DEF RegexInit
  <2>4. pc' \in {"pipeline", "clean_input", "undefined"} /\ (pc' = "pipeline" => wild' = wild)
    BY <1>8 DEF RegexInit, RegexRefused, DeviceFails, OpsFail, Succeeds, Fails, FailsAfter,
                Undefined
  <2>5. QED
    BY <1>1, <1>2, <2>3, <2>4
<1>9. CASE PipelineInit
  <2>1. One("stats") \in held /\ conf' = conf
    BY <1>9 DEF FollowInv, PipelineInit
  <2>2. One("stats") \in held'
    BY <1>9, <2>1 DEF PipelineInit, Succeeds, Fails, FailsAfter, Exchange
  <2>3. /\ pc' \in {"run_mode", "clean_pipeline", "undefined"}
        /\ pc' = "run_mode" => wild' = wild /\ Exchange(ToSet(PipelineObjects), {})
    BY <1>9 DEF PipelineInit, Succeeds, Fails, FailsAfter
  <2>4. ASSUME pc' = "run_mode", NEW i \in 0 .. NbInst' - 1 PROVE Linked(i)'
    <3>1. i \in 0 .. NbInst - 1
      BY <2>1, <2>4, SameConf
    <3>2. <<"state", i>> \in ToSet(PipelineObjects)
      BY <3>1, PipelineAcquires DEF ConfInv, InstanceObjects
    <3>3. QED
      BY <2>3, <2>4, <3>2 DEF Linked, Exchange
  <2>5. QED
    BY <1>1, <1>2, <2>2, <2>3, <2>4
<1>10. QED
  BY <1>4, <1>5, <1>6, <1>7, <1>8, <1>9

\* The run follows what the start has set.
LEMMA FollowRun ==
  ASSUME ConfInv, FollowInv, RunModeRegister \/ Launch \/ Run \/ PostSearch \/ StatsPrint
  PROVE  FollowInv'
<1> USE DEF BeforeLaunch, AfterLaunch, Counting
<1>1. conf' = conf /\ NbInst' = NbInst /\ NbInst \in Nat /\ BehindRows' = BehindRows
      /\ NbInst = conf.cores - 1
  <2>1. conf' = conf
    BY DEF RunModeRegister, Launch, Run, PostSearch, StatsPrint
  <2>2. QED
    BY <2>1, SameConf, CoresIs DEF ConfInv, NbInst
<1>2. held \subseteq held'
  BY DEF RunModeRegister, Launch, Run, PostSearch, StatsPrint, Succeeds, Fails, FailsAfter,
         Exchange, releaseVars
<1>3. One("stats") \in held'
  BY <1>2 DEF FollowInv, RunModeRegister, Launch, Run, PostSearch, StatsPrint
<1>4. (started \/ pc = "run_mode") => \A i \in 0 .. NbInst - 1 : Linked(i)'
  BY <1>2 DEF FollowInv, RunModeRegister, Launch, Run, PostSearch, StatsPrint, Linked
<1>5. One("stats")' = One("stats")
  BY DEF One
<1>6. CASE RunModeRegister
  <2>1. /\ wild' = {} /\ selves' = {} /\ pc' \in {"launch", "clean_pipeline"}
        /\ pc' = "clean_pipeline" => ~started'
    BY <1>6 DEF FollowInv, RunModeRegister, Succeeds, Fails, FailsAfter
  <2>2. QED
    BY <1>1, <1>3, <1>4, <1>5, <1>6, <2>1 DEF FollowInv, RunFollowsOnlyItsOwn, RunModeRegister
<1>7. CASE Launch
  <2>1. started' = started /\ pc' \in {"run", "post", "undefined"} /\ wild = {}
    BY <1>7 DEF FollowInv, Launch, Undefined
  <2>2. NbInst > 0 => wild' = {} /\ (0 \in selves' => selves' = 0 .. NbInst)
    <3>1. \A k \in 1 .. NbInst : 0 \notin 1 .. k
      OBVIOUS
    <3>2. QED
      BY <1>7, <2>1, <3>1 DEF Launch
  <2>3. QED
    BY <1>1, <1>3, <1>4, <1>5, <2>1, <2>2 DEF FollowInv, RunFollowsOnlyItsOwn
<1>8. CASE Run \/ PostSearch
  <2>1. /\ started' = started /\ selves' = selves /\ pc' \in {"post", "print", "undefined"}
        /\ NbInst > 0 => wild' = wild
    BY <1>1, <1>8 DEF Run, PostSearch, Undefined
  <2>2. started /\ NbInst > 0 => wild = {} /\ (0 \in selves => selves = 0 .. NbInst)
    BY <1>8 DEF FollowInv, Run, PostSearch
  <2>3. QED
    BY <1>1, <1>3, <1>4, <1>5, <2>1, <2>2 DEF FollowInv, RunFollowsOnlyItsOwn
<1>9. CASE StatsPrint
  <2> DEFINE unset == Each("self", conf.cores) \ {<<"self", i>> : i \in selves}
  <2>1. /\ started' = started /\ selves' = selves /\ pc' \in {"clean_pipeline", "undefined"}
        /\ wild' \subseteq wild \cup unset
    BY <1>9 DEF StatsPrint, Undefined
  <2>2. started /\ NbInst > 0 => wild = {} /\ (0 \in selves => selves = 0 .. NbInst)
    BY <1>9 DEF FollowInv, StatsPrint
  <2>3. selves = 0 .. NbInst => unset = {}
    BY <1>1 DEF Each
  <2>4. unset \subseteq Each("self", conf.cores)
    OBVIOUS
  <2>5. Each("self", conf.cores)' = Each("self", conf.cores)
    BY <1>1 DEF Each
  <2> HIDE DEF unset
  <2>6. started /\ NbInst > 0 =>
          wild' \subseteq (IF 0 \in selves THEN {} ELSE Each("self", conf.cores))
    BY <2>1, <2>2, <2>3, <2>4
  <2>7. RunFollowsOnlyItsOwn'
    BY <1>1, <2>1, <2>5, <2>6 DEF RunFollowsOnlyItsOwn
  <2>8. QED
    BY <1>1, <1>3, <1>4, <1>5, <2>1, <2>2, <2>7 DEF FollowInv
<1>10. QED
  BY <1>6, <1>7, <1>8, <1>9

\* The labels follow what is still there, and the entries behind the rows.
LEMMA FollowClean ==
  ASSUME ConfInv, FollowInv, CleanPipeline \/ CleanInput \/ CleanStats \/ CleanConf
  PROVE  FollowInv'
<1> USE DEF BeforeLaunch, AfterLaunch, Counting
<1>1. /\ conf' = conf /\ NbInst' = NbInst /\ BehindRows' = BehindRows
      /\ started' = started /\ selves' = selves
  <2>1. conf' = conf /\ started' = started /\ selves' = selves
    BY DEF CleanPipeline, CleanInput, CleanStats, CleanConf
  <2>2. QED
    BY <2>1, SameConf
<1>2. Each("self", conf.cores)' = Each("self", conf.cores) /\ One("stats")' = One("stats")
  BY <1>1 DEF Each, One
<1>3. ASSUME started /\ NbInst > 0 =>
               wild' \subseteq wild \cup (IF conf.mode = Live THEN BehindRows ELSE {})
      PROVE  RunFollowsOnlyItsOwn'
  <2>1. started /\ NbInst > 0 =>
          wild \subseteq (IF conf.mode = Live THEN BehindRows ELSE {})
                         \cup (IF 0 \in selves THEN {} ELSE Each("self", conf.cores))
    BY DEF FollowInv, RunFollowsOnlyItsOwn
  <2>2. QED
    BY <1>1, <1>2, <1>3, <2>1 DEF RunFollowsOnlyItsOwn
<1>4. ASSUME RunFollowsOnlyItsOwn', pc' \in {"clean_input", "clean_stats"} => One("stats") \in held',
             pc' \in {"clean_input", "clean_stats", "clean_conf", "exit", "undefined"}
      PROVE  FollowInv'
  BY <1>1, <1>2, <1>4 DEF FollowInv
<1>5. CASE CleanPipeline
  <2>1. PICK gone : Exchange({}, gone) /\ One("stats") \notin gone
    BY <1>5 DEF CleanPipeline, One
  <2>2. One("stats") \in held'
    BY <1>5, <2>1, HeldStays DEF FollowInv, CleanPipeline
  <2>3. pc' \in {"clean_input", "undefined"} /\ (started => wild' = wild)
    <3>1. started => {<<"stage", i>> : i \in {j \in 0 .. NbInst - 1 : ~Linked(j)}} = {}
      BY <1>5 DEF FollowInv, CleanPipeline
    <3>2. QED
      BY <1>5, <3>1 DEF CleanPipeline, Undefined
  <2>4. QED
    BY <1>3, <1>4, <2>2, <2>3
<1>6. CASE CleanInput
  <2>1. PICK gone : Exchange({}, gone) /\ One("stats") \notin gone
    BY <1>6 DEF CleanInput, One, PortsReleased, Each
  <2>2. One("stats") \in held'
    BY <1>6, <2>1, HeldStays DEF FollowInv, CleanInput
  <2>3. /\ pc' \in {"clean_stats", "undefined"}
        /\ wild' \subseteq wild \cup (IF conf.mode = Live THEN BehindRows ELSE {})
    BY <1>6 DEF CleanInput, Undefined
  <2>4. QED
    BY <1>3, <1>4, <2>2, <2>3
<1>7. CASE CleanStats
  <2>1. One("stats") \in held
    BY <1>7 DEF FollowInv, CleanStats
  <2>2. pc' = "clean_conf" /\ wild' = wild
    BY <1>7, <2>1 DEF CleanStats
  <2>3. QED
    BY <1>3, <1>4, <2>2
<1>8. CASE CleanConf
  BY <1>3, <1>4, <1>8 DEF CleanConf
<1>9. QED
  BY <1>5, <1>6, <1>7, <1>8

\* After a completed start with a worker, the run, its statistics and its cleanup follow
\* only pointers that were set, but for the entries behind the rows and, when a worker
\* was not launched, the stages of the statistics.
THEOREM RunFollowsItsOwn == Spec => []RunFollowsOnlyItsOwn
<1>1. Init => ConfInv /\ FollowInv
  BY ConfInit DEF Init, FollowInv, RunFollowsOnlyItsOwn, BeforeLaunch, AfterLaunch, Counting
<1>2. ConfInv /\ FollowInv /\ [Next]_vars => (ConfInv /\ FollowInv)'
  <2> SUFFICES ASSUME ConfInv, FollowInv, [Next]_vars PROVE FollowInv'
    BY ConfStep
  <2>1. CASE UNCHANGED vars
    <3>1. /\ NbInst' = NbInst /\ BehindRows' = BehindRows /\ One("stats")' = One("stats")
          /\ Each("self", conf.cores)' = Each("self", conf.cores)
          /\ \A i \in 0 .. NbInst - 1 : Linked(i)' = Linked(i)
      BY <2>1, SameConf DEF vars, releaseVars, One, Each, Linked
    <3>2. QED
      BY <2>1, <3>1 DEF vars, releaseVars, FollowInv, RunFollowsOnlyItsOwn
  <2>2. QED
    BY <2>1, FollowStart, FollowRun, FollowClean DEF Next
<1>3. FollowInv => RunFollowsOnlyItsOwn
  BY DEF FollowInv
<1>4. QED
  BY <1>1, <1>2, <1>3, PTL DEF Spec

=============================================================================
