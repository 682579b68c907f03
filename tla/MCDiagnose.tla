----------------------------- MODULE MCDiagnose -----------------------------
(* Robots that differ from a healthy one in a facet at a time, and calls   *)
(* with room for everything and with hardly any.                           *)
EXTENDS Diagnose

MCAlphabet ==
  <<None, "/a", "/b", "/c", "/imu", "/map", "/odom", "/points", "/scan", "Reliability", "base",
    "camera", "dds", "environment", "g1", "logs", "map", "nodes", "partition",
    "responsiveness", "tf", "topics">>

Quick == [kind |-> "answers", after |-> 2]
Slow  == [kind |-> "answers", after |-> 4]
Mute  == [kind |-> "answers", after |-> 99]
Fails == [kind |-> "fails", after |-> 1]
Plain == [kind |-> "no service", after |-> 0]
Reads(a, b, c) == [n \in {"/a", "/b", "/c"} |->
                     IF n = "/a" THEN a ELSE IF n = "/b" THEN b ELSE c]

Topic(name, pubs, subs, unknown, rank, frame) ==
  [name |-> name, pubs |-> pubs, subs |-> subs, unknown |-> unknown, rank |-> rank,
   frame |-> frame]
Part(guid, nodes, name, status, events, seen) ==
  [guid |-> guid, nodes |-> nodes, name |-> name, status |-> status, events |-> events,
   seenInWindow |-> seen, cli |-> FALSE, observer |-> FALSE]

Healthy ==
  [mode |-> "live", ros |-> "cli", dds |-> "cyclone", sros2 |-> FALSE,
   nodes |-> {"/a", "/b", "/c"}, duplicates |-> {}, lifecycle |-> {"/c"}, cliNodes |-> {},
   topics |-> {Topic("/scan", 1, 1, FALSE, 1, "base")},
   mismatches |-> {}, unmatched |-> {}, typos |-> {}, endpointless |-> FALSE,
   participants |-> {Part("g1", <<"/a", "/b">>, None, "active", {}, TRUE)},
   tf |-> [faults |-> {}, missing |-> {}, roots |-> 1, urdfNote |-> FALSE,
           frames |-> {"map", "base"}, truncated |-> FALSE],
   loggers |-> {}, params |-> "same", reads |-> Reads({Quick}, {Quick}, {Quick})]

OtherBackends ==
  {[Healthy EXCEPT !.mode = "mock", !.sros2 = TRUE], [Healthy EXCEPT !.ros = "none"],
   [Healthy EXCEPT !.dds = "none"]}
OtherNodes ==
  {[Healthy EXCEPT !.nodes = {}, !.lifecycle = {}, !.reads = <<>>],
   [Healthy EXCEPT !.duplicates = {"/a"}], [Healthy EXCEPT !.cliNodes = {"/b"}]}
OtherTopics ==
  {[Healthy EXCEPT !.topics = {Topic("/imu", 1, 0, FALSE, 5, "camera"),
                               Topic("/odom", 0, 1, FALSE, 6, "base"),
                               Topic("/points", 1, 1, FALSE, 2, "base"),
                               Topic("/map", 1, 1, TRUE, 0, None),
                               Topic("/scan", 1, 1, FALSE, 1, None)}]}
Mismatch(topic, writer, reader, severity) ==
  [topic |-> topic, writer |-> writer, reader |-> reader, severity |-> severity,
   policies |-> "Reliability"]
OtherPairs ==
  {[Healthy EXCEPT
      !.mismatches = {Mismatch("/scan", "/a", "/b", "incompatible"),
                      Mismatch("/scan", "/a", "/c", "incompatible"),
                      Mismatch("/map", "/b", "/c", "risky")}],
   [Healthy EXCEPT
      !.duplicates = {"/b"},
      !.unmatched = {[topic |-> "/scan", reason |-> "partition", writer |-> "/b", reader |-> "/a"]},
      !.typos = {"/odom"}, !.endpointless = TRUE]}
OtherTf ==
  {[Healthy EXCEPT !.tf.faults = {[kind |-> "stale", subject |-> "map", needs |-> n]}] :
     n \in {1, 4, 9}}
  \cup {[Healthy EXCEPT !.tf.missing = {"camera"}, !.tf.roots = 2, !.tf.urdfNote = TRUE],
        [Healthy EXCEPT !.tf.frames = {}], [Healthy EXCEPT !.tf.truncated = TRUE]}
OtherLogs == {[Healthy EXCEPT !.loggers = {[node |-> "/a", every |-> n]}] : n \in {1, 4, 9}}
OtherReads ==
  {[Healthy EXCEPT !.reads = Reads(a, b, {Quick}), !.params = p] :
     a \in {{Quick, Slow}, {Mute}, {Fails}, {Plain}}, b \in {{Mute}, {Quick, Slow}},
     p \in {"differ"}}
  \cup {[Healthy EXCEPT !.reads = Reads({Mute}, {Fails}, {Fails}), !.params = "gaps"],
        [Healthy EXCEPT !.reads = Reads({Slow}, {Mute}, {Mute}), !.params = "differ and gaps"]}

(* Three participants under two node names and a name of their own. *)
Lifes(guid) ==
  {Part(guid, nodes, name, life[1], life[2], life[3]) :
     nodes \in {<<>>, <<"/a">>, <<"/b", "/a">>}, name \in {None, "/c"},
     life \in {<<"active", {}, TRUE>>, <<"left", {"lost"}, FALSE>>, <<"left", {}, FALSE>>}}
OtherParticipants ==
  {[Healthy EXCEPT !.participants = {p, q, r}] :
     p \in Lifes("g1"), q \in Lifes("base"), r \in Lifes("camera")}

Others ==
  OtherBackends \cup OtherNodes \cup OtherTopics \cup OtherPairs \cup OtherTf \cup OtherLogs
  \cup OtherReads

Ask(scope, node, budget) ==
  [scope |-> scope, node |-> node, params |-> node # None /\ scope \in {"all", "graph"},
   budget |-> budget, guard |-> 45]
Calls(scopes) == {Ask(s, n, b) : s \in scopes, n \in {None, "/a"}, b \in {14, 30}}
             \cup {[Ask("all", "/map", 40) EXCEPT !.guard = 20]}

Of(robots, asks) == {[robot |-> r, ask |-> a] : r \in robots, a \in asks}
MCSweeps ==
  Of({Healthy} \cup Others, Calls({"all", "graph"}))
  \cup Of(Others, {Ask("tf", "/a", 10), Ask("logs", None, 10), Ask("dds", "/b", 10)})
  \cup Of(OtherParticipants, {Ask("dds", None, 10)})
ReadSweeps == Of(OtherReads, {Ask("graph", None, 14)})
=============================================================================
