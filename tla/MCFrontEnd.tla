------------------------------ MODULE MCFrontEnd ------------------------------
(***************************************************************************)
(* The front end: a flow being built and assembled (Assembly), and a       *)
(* command line read and acted on (CommandLine).  A behaviour is of one of *)
(* them; what the command line's assembly answers is either answer.        *)
(***************************************************************************)
EXTENDS Assembly, CommandLine

\* The flow.
Rules == {"all-terminal"}
N3 == 1..3
OneWork == {[class |-> "await", unit |-> FALSE]}
Policies == {DefaultPolicy,
             [DefaultPolicy EXCEPT !.retries = 1, !.cost = 1],
             [DefaultPolicy EXCEPT !.override = "blocking"]}
Wirings == {<<"owned">>, <<"shared">>, <<"owned", "shared">>, <<"shared", "clone">>}

\* The command line: a file holds what the tests of the config file hold, a
\* default profile, one that overrides it, and one with a bad value.
OneFlow == {"etl"}
Verbs == {"run", "list", "none", "bogus", "graph", "exec-node", "prune"}
Typed == {"grace", "headroom", "executor", "force-roundtrip", "metastore", "store"}
Words == [flag : {""}, text : {"etl", "0", "1", "2"}]
         \cup [flag : Typed \cup {"profile", "config"}, text : {"none"}]
         \cup {[flag |-> "profile", text |-> "prod"],
                [flag |-> "profile", text |-> "bad"],
                [flag |-> "executor", text |-> "local"],
                [flag |-> "no-banner", text |-> "none"]}
Unset == [k \in Knob |-> ""]
Envs == {Unset,
         [Unset EXCEPT !["grace"] = "2"],
         [Unset EXCEPT !["profile"] = "prod", !["headroom"] = "2"],
         [Unset EXCEPT !["executor"] = "k8s", !["metastore"] = "bad"],
         [Unset EXCEPT !["executor"] = "k8s", !["max-pods"] = "0", !["memory"] = "2",
                       !["failure-mode"] = "stop-on-first-failure"]}
Builds == {{"metastore"}, {"k8s", "blob"}}
Profiled == ("default" :> ("grace" :> "1" @@ "headroom" :> "1"))
            @@ ("prod" :> ("grace" :> "2"))
            @@ ("bad" :> ("grace" :> "0" @@ "executor" :> "bad"))
FileSystems == {<<>>,
                "dagr.toml" :> [legible |-> TRUE, profiles |-> Profiled],
                "dagr.toml" :> [legible |-> FALSE, profiles |-> <<>>],
                "dagr.toml" :> [legible |-> TRUE,
                                profiles |-> "default" :> ("cluster" :> "1")]}

\* The machines: bare, with either generation of groups, with both, and with
\* nothing that can be read; one group allows less than a processor, and one sets
\* no limit in the first generation's way.
NoGroup == [memory |-> Absent, quota |-> Absent, period |-> Absent]
Machines == {[v2 |-> NoGroup, v1 |-> NoGroup, cores |-> 4, ram |-> 4],
             [v2 |-> NoGroup, v1 |-> NoGroup, cores |-> 1, ram |-> Absent],
             [v2 |-> [memory |-> 2, quota |-> 1, period |-> 2],
              v1 |-> [memory |-> 8, quota |-> 3, period |-> 0], cores |-> 4, ram |-> 9],
             [v2 |-> NoGroup, v1 |-> [NoGroup EXCEPT !.memory = 100], cores |-> 2, ram |-> 4],
             [v2 |-> [NoGroup EXCEPT !.memory = 5],
              v1 |-> [memory |-> 1, quota |-> 5, period |-> 2], cores |-> 1, ram |-> 9]}

Cost(m, b, c) == "memory" :> m @@ "blocking" :> b @@ "compute" :> c
Pipelines == {<<[cost |-> Cost(1, 0, 1), placed |-> FALSE]>>,
              <<[cost |-> Cost(0, 0, 0), placed |-> FALSE],
                [cost |-> Cost(4, 2, 0), placed |-> FALSE]>>,
              <<[cost |-> Cost(9, 0, 9), placed |-> TRUE]>>}

NoCommand ==
    /\ argv = <<>> /\ verb = "none" /\ env = Unset /\ files = <<>> /\ build = {}
    /\ pc = "off" /\ flow = "none" /\ tier = <<>> /\ config = <<>>
    /\ machine = <<>> /\ totals = <<>> /\ created = FALSE
    /\ pipeline = <<>> /\ result = <<>> /\ exit = "none"

NoFlow ==
    /\ nodes = <<>> /\ declared = <<>> /\ phase = "off"
    /\ problems = {} /\ indegree = <<>> /\ order = <<>>

FrontInit == (Init /\ NoCommand) \/ (NoFlow /\ CommandInit)

FrontNext ==
    \/ Next /\ UNCHANGED commandVars
    \/ CommandNext /\ UNCHANGED vars

FrontSpec == FrontInit /\ [][FrontNext]_<<vars, commandVars>>
==============================================================================
