----------------------------- MODULE CommandLine -----------------------------
(***************************************************************************)
(* A pipeline binary's command line (crates/cli: contract.rs, registry.rs, *)
(* config.rs, config_file.rs, the *_from_env builders of driver.rs): the   *)
(* verb, the flow it selects, and, for `run', the settings the run starts  *)
(* with, each taken from the flag, else the environment, else the file's   *)
(* selected profile, else its default profile, else the built-in default.  *)
(*                                                                         *)
(* Every flag is looked for by a scan of its own over all the tokens, and  *)
(* the flow's name by another.  A text stands for itself: "0" is a         *)
(* duration below every bound, "2" a fraction above its range.  What       *)
(* assembly and the run loop answer is any of their answers (Assembly,     *)
(* RunLoop); between the two, the run is refused where the machine cannot  *)
(* hold it (Bootstrap).                                                    *)
(***************************************************************************)
EXTENDS Bootstrap, Sequences, FiniteSets, TLC

CONSTANTS
    Flow,           \* the flows the binary registers
    Verb,           \* the first words typed
    Token,          \* the tokens typed after one: [flag, text]
    Env,            \* the environments: knob -> text, "" where unset
    Files,          \* the file systems: path -> [legible, profiles]
    Build,          \* the builds: the optional parts each has
    MaxTokens       \* bound: tokens typed after the verb

\* The runtime knobs, by the way their text is read.
Strings == {"store", "config", "profile"}
Toggles == {"force-roundtrip", "metastore"}
Durations == {"grace", "teardown-deadline"}
Pins == {"compute-threads", "blocking-threads", "memory"}
Knob == Strings \cup Toggles \cup Durations \cup Pins \cup
        {"executor", "max-pods", "failure-mode", "log-format", "headroom"}

\* The knobs a file may set; any other key in it is refused.
FileKey == Knob \ {"config", "profile"}

ASSUME TokenAssumption ==
    /\ Token \subseteq [flag : Knob \cup {"", "no-banner"}, text : STRING]
    /\ Env \subseteq [Knob -> STRING]
    /\ Build \subseteq SUBSET {"k8s", "metastore", "blob"}

\* The verbs, a first word that is none, and no first word.
ASSUME VerbAssumption ==
    Verb \subseteq {"run", "list", "none", "bogus", "render", "resume", "fold", "graph",
                    "validate", "exec-node", "single-node", "prune"}

\* "default" stands for a knob that nothing sets: it is no text.
ASSUME TextAssumption ==
    /\ \A token \in Token : token.text # "default"
    /\ \A e \in Env : \A k \in Knob : e[k] # "default"
    /\ \A fs \in Files : \A path \in DOMAIN fs : \A p \in DOMAIN fs[path].profiles :
          \A k \in DOMAIN fs[path].profiles[p] : fs[path].profiles[p][k] # "default"

VARIABLES
    argv,       \* the tokens after the verb
    verb, env, files, build,    \* what the process is started with
    pc,         \* the step the process is at
    flow,       \* the flow selected
    tier,       \* the file's settings: a function of the keys it sets
    config,     \* the settings resolved so far
    machine,    \* what the probe read of the machine, if it did
    totals,     \* the capacity of each pool
    created,    \* the run's event stream has been opened
    pipeline,   \* the pipeline assembled
    result,     \* the run's outcome and the origin of its cancellation
    exit        \* the exit code

started == <<argv, verb, env, files, build>>
settled == <<flow, tier, config, machine, totals>>
commandVars == <<started, pc, settled, created, pipeline, result, exit>>

Shutdown == INSTANCE TriggerRules

------------------------------------------------------------------------------
(* Reading text *)

ReadsAs(k, t) ==
    CASE k \in Strings               -> t # "missing"
      [] k \in Toggles               -> t \in {"0", "1"}
      [] k \in Durations             -> t \in {"0", "1", "2"}
      [] k \in Pins \cup {"max-pods"} -> t \in {"0", "1", "2"}
      [] k = "headroom"              -> t \in {"0", "1", "2"}
      [] k = "executor"              -> t \in {"local", "k8s"}
      [] k = "failure-mode"          -> t = "stop-on-first-failure"
      [] k = "log-format"            -> t = "human"

\* Read, and then refused for its value: the bounds of the two durations and
\* of the fraction.
OutOfRange(k, t) == (k \in Durations /\ t = "0") \/ (k = "headroom" /\ t = "2")

\* A token as the next flag's scan sees it.
TextOf(token) == IF token.flag = "" THEN token.text ELSE "--"

At(k) == {i \in 1..Len(argv) : argv[i].flag = k}

Given(k) == At(k) # {}

First(k) == CHOOSE i \in At(k) : \A j \in At(k) : i <= j

Following(i) == IF i < Len(argv) THEN TextOf(argv[i + 1]) ELSE "missing"

\* `--flag=value' or `--flag value': the first occurrence counts, and the value
\* is whatever token comes next.
ValuedFlag(k) ==
    IF argv[First(k)].text # "none" THEN argv[First(k)].text ELSE Following(First(k))

\* A toggle alone is on; a next token that reads as a boolean is its value.
ToggleFlag(k) ==
    IF argv[First(k)].text # "none" THEN argv[First(k)].text
    ELSE IF Following(First(k)) \in {"0", "1"} THEN Following(First(k)) ELSE "1"

FlagText(k) == IF k \in Toggles THEN ToggleFlag(k) ELSE ValuedFlag(k)

\* The flags whose next token is passed over when the flow's name is looked for.
TakesValue == Knob \ (Toggles \cup {"executor", "max-pods"})

\* The tokens without the banner's flag, wherever it stands.
Unbannered == SelectSeq(argv, LAMBDA t : t.flag # "no-banner")

\* The first token that is no flag, nor the value of one known to take one.
FlowName ==
    LET toks == Unbannered
        from[i \in 1..(Len(toks) + 2)] ==
            IF i > Len(toks) THEN "none"
            ELSE IF toks[i].flag = "" THEN toks[i].text
            ELSE IF toks[i].text = "none" /\ toks[i].flag \in TakesValue
                 THEN from[i + 2]
            ELSE from[i + 1]
    IN  from[1]

\* One registered flow need not be named.
Selected ==
    IF FlowName \in Flow THEN FlowName
    ELSE IF FlowName = "none" /\ Cardinality(Flow) = 1 THEN CHOOSE f \in Flow : TRUE
    ELSE "none"

------------------------------------------------------------------------------
(* The file *)

ProfileAsked ==
    IF Given("profile") THEN ValuedFlag("profile")
    ELSE IF env["profile"] # "" THEN env["profile"] ELSE "none"

Path == IF Given("config") THEN ValuedFlag("config") ELSE "dagr.toml"

Found == Path \in DOMAIN files

Profiles == files[Path].profiles

\* No profile may set a key that is not a knob, selected or not.
Legible ==
    /\ files[Path].legible
    /\ \A p \in DOMAIN Profiles : DOMAIN Profiles[p] \subseteq FileKey

FileRefused ==
    \/ Given("config") /\ (Path = "missing" \/ ~Found)
    \/ ProfileAsked = "missing"
    \/ ~Found /\ ProfileAsked # "none"
    \/ /\ Found
       /\ \/ ~Legible
          \/ ProfileAsked # "none" /\ ProfileAsked \notin DOMAIN Profiles

SettingsOf(p) == IF Found /\ p \in DOMAIN Profiles THEN Profiles[p] ELSE <<>>

\* What f sets, and what g sets where f does not.  (f @@ g, spelled out for the
\* provers.)
Over(f, g) ==
    [k \in DOMAIN f \cup DOMAIN g |-> IF k \in DOMAIN f THEN f[k] ELSE g[k]]

\* Mutant: the default profile is laid over the selected one.
DefaultOverSelected == Over(SettingsOf("default"), SettingsOf(ProfileAsked))

\* The selected profile's settings are laid over the default profile's.
Overlaid == Over(SettingsOf(ProfileAsked), SettingsOf("default"))

------------------------------------------------------------------------------
(* Steps *)

CommandInit ==
    /\ argv = <<>>
    /\ verb \in Verb
    /\ env \in Env
    /\ files \in Files
    /\ build \in Build
    /\ pc = "typing"
    /\ flow = "none"
    /\ tier = <<>>
    /\ config = [k \in FileKey |-> "default"]
    /\ machine = <<>> /\ totals = <<>>
    /\ created = FALSE
    /\ pipeline = <<>> /\ result = <<>>
    /\ exit = "none"

Type(token) ==
    /\ pc = "typing"
    /\ Len(argv) < MaxTokens
    /\ argv' = Append(argv, token)
    /\ UNCHANGED <<verb, env, files, build, pc, settled, created, pipeline, result, exit>>

End(code) ==
    /\ exit' = code
    /\ pc' = "ended"
    /\ UNCHANGED <<started, settled, created, pipeline, result>>

GoTo(next) ==
    /\ pc' = next
    /\ UNCHANGED <<started, settled, created, pipeline, result, exit>>

\* `list' and a bare invocation answer at once; a word that is no verb, and a
\* verb the registry does not route, are refused.
Parse ==
    /\ pc = "typing"
    /\ IF verb = "list" \/ (verb = "none" /\ Unbannered = <<>>) THEN End("success")
       ELSE IF verb \in {"none", "bogus", "render", "resume", "fold"}
            THEN End("invalid usage")
       ELSE GoTo("select")

\* The flow is selected, and its factory builds it anew.
Select ==
    /\ pc = "select"
    /\ IF Selected = "none" THEN End("invalid usage")
       ELSE /\ flow' = Selected
            /\ pc' = verb
            /\ UNCHANGED <<started, tier, config, machine, totals, created, pipeline,
                           result, exit>>

\* `single-node' and `prune' want a body of the pipeline's own.
Unwired == pc \in {"single-node", "prune"} /\ End("invalid usage")

\* `graph' and `validate' only assemble.
Inspect ==
    /\ pc \in {"graph", "validate"}
    /\ \E code \in {"success", "assembly failure"} : End(code)

ExecNode ==
    /\ pc = "exec-node"
    /\ IF "blob" \in build
         THEN \E code \in {"success", "run failure", "invalid usage", "bootstrap failure",
                           "cancelled", "sink failure"} : End(code)
         ELSE End("invalid usage")

LoadFile ==
    /\ pc = "run"
    /\ IF FileRefused THEN End("invalid usage")
       ELSE /\ tier' = Overlaid
            /\ pc' = "force-roundtrip"
            /\ UNCHANGED <<started, flow, config, machine, totals, created, pipeline,
                           result, exit>>

\* A flag over the environment, an empty variable being unset, over the file.
Setting(k) ==
    IF Given(k) THEN FlagText(k)
    ELSE IF env[k] # "" THEN env[k]
    ELSE IF k \in DOMAIN tier THEN tier[k] ELSE "default"

\* One knob is resolved: a text that cannot be read is a usage error, one out
\* of its range a bootstrap failure.
Resolve(k, next) ==
    /\ pc = k
    /\ IF Setting(k) # "default" /\ ~ReadsAs(k, Setting(k)) THEN End("invalid usage")
       ELSE IF OutOfRange(k, Setting(k)) THEN End("bootstrap failure")
       ELSE /\ config' = [config EXCEPT ![k] = Setting(k)]
            /\ pc' = next
            /\ UNCHANGED <<started, flow, tier, machine, totals, created, pipeline,
                           result, exit>>

ResolveForceRoundtrip == Resolve("force-roundtrip", "executor")

ResolveExecutor == Resolve("executor", "max-pods")

ResolveMaxPods == Resolve("max-pods", "available")

Remote == (config["executor"] = "k8s")

\* The remote executor is refused in a build without it, never replaced.
EnsureAvailable ==
    /\ pc = "available"
    /\ IF Remote /\ "k8s" \notin build THEN End("bootstrap failure")
                                                   ELSE GoTo("flags")

\* The remaining flags are all read before any of them is resolved.
ParseFlags ==
    /\ pc = "flags"
    /\ IF \E k \in Durations \cup Pins \cup
                   {"store", "failure-mode", "headroom", "log-format"} :
              Given(k) /\ ~ReadsAs(k, FlagText(k))
         THEN End("invalid usage")
         ELSE GoTo("store")

ResolveStore == Resolve("store", "compute-threads")

ResolvePins ==
    \/ Resolve("compute-threads", "blocking-threads")
    \/ Resolve("blocking-threads", "memory")
    \/ Resolve("memory", "headroom")

ResolveHeadroom == Resolve("headroom", "capacity")

Number == [t \in {"0", "1", "2"} |-> CASE t = "0" -> 0 [] t = "1" -> 1 [] t = "2" -> 2]

\* The pools by the flag that pins each.
PinOf == [p \in Pool \ {"remote"} |->
             CASE p = "memory" -> "memory"
               [] p = "compute" -> "compute-threads"
               [] p = "blocking" -> "blocking-threads"]

\* The fraction is a fifth unless set; "0" is none of it and "1" the whole.
Percent(text) == IF text = "default" THEN 20 ELSE 100 * Number[text]

SizingKnob == Pins \cup {"headroom"}

\* The machine is probed only where a pin or the fraction is set; no pool but the
\* remote one is constrained otherwise.
DetectCapacity ==
    /\ pc = "capacity"
    /\ LET slots == IF config["max-pods"] = "default" THEN Plenty ELSE Number[config["max-pods"]]
           pin == [p \in DOMAIN PinOf |->
                      IF config[PinOf[p]] = "default" THEN Absent ELSE Number[config[PinOf[p]]]]
       IN  IF \A k \in SizingKnob : config[k] = "default"
             THEN /\ totals' = Unconstrained(slots)
                  /\ UNCHANGED machine
             ELSE \E m \in Machine :
                     /\ machine' = m
                     /\ totals' = Detected(m, pin, Percent(config["headroom"]), slots)
    /\ pc' = "grace"
    /\ UNCHANGED <<started, flow, tier, config, created, pipeline, result, exit>>

ResolveDurations ==
    \/ Resolve("grace", "teardown-deadline")
    \/ Resolve("teardown-deadline", "failure-mode")

ResolveFailureMode == Resolve("failure-mode", "log-format")

ResolveLogFormat == Resolve("log-format", "sink")

OpenSink ==
    /\ pc = "sink"
    /\ \/ /\ created' = TRUE
          /\ pc' = IF "metastore" \in build THEN "metastore" ELSE "assemble"
          /\ UNCHANGED <<started, settled, pipeline, result, exit>>
       \/ End("sink failure")

\* The toggle of the live index is read after the stream is open.
ResolveMetastore == Resolve("metastore", "index")

OpenIndex ==
    /\ pc = "index"
    /\ \/ GoTo("assemble")
       \/ config["metastore"] = "1" /\ End("sink failure")

Assemble ==
    /\ pc = "assemble"
    /\ \/ End("assembly failure")
       \/ /\ pipeline' \in Pipeline
          /\ pc' = "start"
          /\ UNCHANGED <<started, settled, created, result, exit>>

Conclude(outcome, origin, next) ==
    /\ result' = [outcome |-> outcome, origin |-> origin]
    /\ pc' = next
    /\ UNCHANGED <<started, settled, created, pipeline, exit>>

\* The run has begun.  The remote executor wants a cluster for the nodes placed
\* there, and this path has none to give it; a node must fit every pool.
StartRun ==
    /\ pc = "start"
    /\ IF \/ Remote /\ PlacedNodes(pipeline) # {}
          \/ TooBig(pipeline, Remote, totals) # {}
         THEN Conclude("bootstrap-failed", "none", "flush")
         ELSE GoTo("loop")

\* The loop is left by any outcome and origin; only a failure under that mode
\* stops the run by itself.
RunLoopEnds ==
    /\ pc = "loop"
    /\ \E outcome \in {"succeeded", "failed", "cancelled"},
          origin \in {"none", "external-interrupt", "failure-under-stop"} :
          /\ origin = "failure-under-stop" =>
                outcome = "failed" /\ config["failure-mode"] = "stop-on-first-failure"
          /\ Conclude(outcome, origin, "flush")

CodeOf(shutdown) ==
    CASE shutdown = "run-failure" -> "run failure"
      [] shutdown = "sink-failure" -> "sink failure"
      [] OTHER -> shutdown

\* The stream is flushed for the last time.  A run that never began is told
\* apart from one that did, whatever the flush said.
FlushAndExit ==
    /\ pc = "flush"
    /\ \E flushed \in BOOLEAN :
          End(IF result.outcome = "bootstrap-failed" THEN "bootstrap failure"
              ELSE CodeOf(Shutdown!SelectShutdownExit(result.outcome, result.origin, flushed)))

CommandNext ==
    \/ \E token \in Token : Type(token)
    \/ Parse \/ Select \/ Unwired \/ Inspect \/ ExecNode
    \/ LoadFile
    \/ ResolveForceRoundtrip \/ ResolveExecutor \/ ResolveMaxPods \/ EnsureAvailable
    \/ ParseFlags
    \/ ResolveStore \/ ResolvePins \/ ResolveHeadroom \/ DetectCapacity
    \/ ResolveDurations \/ ResolveFailureMode \/ ResolveLogFormat
    \/ OpenSink \/ ResolveMetastore \/ OpenIndex
    \/ Assemble \/ StartRun \/ RunLoopEnds \/ FlushAndExit

CommandSpec == CommandInit /\ [][CommandNext]_commandVars

------------------------------------------------------------------------------
(* Properties *)

\* The first of the places that holds something.
Strongest(places) ==
    LET set == {i \in 1..Len(places) : places[i] # "default"}
    IN  IF set = {} THEN "default"
        ELSE places[CHOOSE i \in set : \A j \in set : i <= j]

\* The places a knob may be set at, the strongest first.
Asked(k) ==
    Strongest(<<IF Given(k) THEN FlagText(k) ELSE "default",
                IF env[k] = "" THEN "default" ELSE env[k],
                IF k \in DOMAIN SettingsOf(ProfileAsked)
                  THEN SettingsOf(ProfileAsked)[k] ELSE "default",
                IF k \in DOMAIN SettingsOf("default")
                  THEN SettingsOf("default")[k] ELSE "default">>)

Unreadable(k) == Asked(k) # "default" /\ ~ReadsAs(k, Asked(k))

\* The knobs this build reads.
ReadKnob == IF "metastore" \in build THEN FileKey ELSE FileKey \ {"metastore"}

\* A run begins with every knob as the strongest place that sets it says,
\* readable and in range: a bad setting is never passed over for a weaker one.
SettingsHonoured ==
    pc = "start" =>
        \A k \in ReadKnob :
           config[k] = Asked(k) /\ ~Unreadable(k) /\ ~OutOfRange(k, Asked(k))

\* A run refused as invalid usage has a bad setting, and has left nothing behind,
\* unless the bad one is the live index's toggle alone, which is read when the
\* stream is open.
UsageHasCause ==
    flow # "none" /\ verb = "run" /\ exit = "invalid usage" =>
        /\ FileRefused \/ \E k \in ReadKnob : Unreadable(k)
        /\ created => \A k \in ReadKnob : Unreadable(k) => k = "metastore"

\* The most a pool can offer: the pin asked for, else, where anything about the
\* pools was asked for, the limit of the innermost group that has one.
Offer(p) ==
    IF Asked(PinOf[p]) # "default" THEN Number[Asked(PinOf[p])]
    ELSE IF machine = <<>> THEN Plenty
    ELSE LET m == machine
             v2 == IF p = "memory" THEN m.v2.memory ELSE Threads(m.v2)
             v1 == IF p = "memory" THEN FirstMemory(m.v1) ELSE Threads(m.v1)
         IN  CASE v2 # Absent -> v2
               [] v2 = Absent /\ v1 # Absent -> v1
               [] v2 = Absent /\ v1 = Absent -> IF p = "memory" THEN HostMemory(m) ELSE m.cores

\* No node enters the loop that this process could only hold by going over what
\* the machine offers; a pool has a unit even where the machine offers none.
FitsMachine ==
    pc = "loop" =>
        \A n \in DOMAIN pipeline, p \in DOMAIN PinOf :
           \/ Asked("executor") = "k8s" /\ pipeline[n].placed
           \/ pipeline[n].cost[p] <= Offer(p)
           \/ Asked(PinOf[p]) = "default" /\ pipeline[n].cost[p] = 1

\* A pool is empty only where it was pinned so.
NoEmptyPool ==
    pc = "loop" =>
        \A p \in DOMAIN PinOf : totals[p] = 0 => Asked(PinOf[p]) = "0"

\* A run refused at bootstrap has a setting out of range, an executor this build
\* or this path cannot give it, or a node larger than what it was told to keep to.
BootstrapHasCause ==
    verb = "run" /\ exit = "bootstrap failure" =>
        \/ ~created /\ \E k \in ReadKnob : OutOfRange(k, Asked(k))
        \/ ~created /\ Asked("executor") = "k8s" /\ "k8s" \notin build
        \/ created /\ Asked("executor") = "k8s" /\ PlacedNodes(pipeline) # {}
        \/ /\ created
           /\ \E k \in SizingKnob : Asked(k) # "default"
           /\ \E n \in DOMAIN pipeline, p \in DOMAIN PinOf :
                 100 * pipeline[n].cost[p] > (100 - Percent(Asked("headroom"))) * Offer(p)

\* The exit of a run whose loop was entered says what happened in it.
ExitSaysWhy ==
    result # <<>> =>
        /\ exit = "success" => result = [outcome |-> "succeeded", origin |-> "none"]
        /\ exit = "run failure" => result.outcome = "failed"
        /\ exit = "cancelled" => result.outcome # "failed"

\* A run starts, and is refused, as its command line, environment, file and
\* machine say.
RunsAsAsked ==
    /\ SettingsHonoured
    /\ UsageHasCause
    /\ FitsMachine
    /\ NoEmptyPool
    /\ BootstrapHasCause
    /\ ExitSaysWhy

\* The flow that runs is the one named: the first token that is neither a flag
\* nor read as the value of one.
RunsTheFlowNamed ==
    pc = "select" =>
        LET values == {First(k) + 1 : k \in {j \in Knob :
                          /\ Given(j)
                          /\ argv[First(j)].text = "none"
                          /\ j \in Toggles => Following(First(j)) \in {"0", "1"}}}
            words == {i \in 1..Len(argv) : argv[i].flag = "" /\ i \notin values}
        IN  FlowName = IF words = {} THEN "none"
                       ELSE argv[CHOOSE i \in words : \A j \in words : i <= j].text
==============================================================================
