------------------------------ MODULE CliText ------------------------------
(***************************************************************************)
(* ros2_live/parsers.py, node_parsers.py and common/nodes.py: what the ros2*)
(* command printed, line by line, and what is made of it.  A line is       *)
(* [is, says]: which of the formats it matches and what it carries; a      *)
(* warning or a blank line is of no format.                                *)
(***************************************************************************)
EXTENDS Integers, Sequences, FiniteSets
LOCAL INSTANCE SequencesExt
LOCAL INSTANCE FiniteSetsExt

CONSTANT Unsaid   \* what the text does not say

CliLine(is, says) == [is |-> is, says |-> says]
LinesOf(lines, is) == SelectSeq(lines, LAMBDA l : l.is = is)
LastOf(lines, is, otherwise) ==
  LET of == LinesOf(lines, is) IN IF of = <<>> THEN otherwise ELSE Last(of).says

-----------------------------------------------------------------------------
(* parse_topic_endpoint_qos: a block begins at its node name and counts    *)
(* when it gave an endpoint type.                                          *)
EndpointQos(name) ==
  [name |-> name, node |-> Unsaid, type |-> Unsaid, reliability |-> Unsaid, durability |-> Unsaid]
NoBlock == EndpointQos(Unsaid)
QualifiedNodeName(namespace, name) == IF name = Unsaid THEN Unsaid ELSE <<namespace, name>>
Closed(blocks, open, current) ==
  IF open /\ current.type # Unsaid THEN Append(blocks, current) ELSE blocks
EndpointLine(state, l) ==
  CASE l.is = "node name" ->
         [blocks |-> Closed(state.blocks, state.open, state.current), open |-> TRUE,
          current |-> EndpointQos(l.says)]
    [] state.open /\ l.is = "node namespace" ->
         [state EXCEPT !.current.node = QualifiedNodeName(l.says, state.current.name)]
    [] state.open /\ l.is = "endpoint type" -> [state EXCEPT !.current.type = l.says]
    [] state.open /\ l.is = "reliability" -> [state EXCEPT !.current.reliability = l.says]
    [] state.open /\ l.is = "durability" -> [state EXCEPT !.current.durability = l.says]
    [] OTHER -> state
EndpointLines(lines) ==
  FoldLeft(EndpointLine, [blocks |-> <<>>, open |-> FALSE, current |-> NoBlock], lines)
ParseTopicEndpointQos_unclosed(lines) == EndpointLines(lines).blocks
ParseTopicEndpointQos(lines) ==
  LET end == EndpointLines(lines) IN Closed(end.blocks, end.open, end.current)

Side(endpoints, type) == SelectSeq(endpoints, LAMBDA e : e.type = type)
(* side_nodes: the distinct names, in order.                               *)
SideNodes(endpoints, type) ==
  LET names == [i \in DOMAIN Side(endpoints, type) |-> Side(endpoints, type)[i].node]
  IN  FoldLeft(LAMBDA seen, n : IF n = Unsaid \/ Contains(seen, n) THEN seen ELSE Append(seen, n),
               <<>>, names)
AgreedPolicy(values) ==
  LET known == values \ {Unsaid}
  IN  IF known = {} THEN Unsaid ELSE IF Cardinality(known) = 1 THEN CHOOSE v \in known : TRUE ELSE "mixed"
SideQos(reliability, durability, count, note) ==
  [reliability |-> reliability, durability |-> durability, endpoint_count |-> count, note |-> note]
SummarizeSideQos(endpoints, type, declared) ==
  LET side        == Side(endpoints, type)
      reliability == AgreedPolicy({side[i].reliability : i \in DOMAIN side})
      durability  == AgreedPolicy({side[i].durability : i \in DOMAIN side})
  IN  CASE side = <<>> /\ declared = 0 -> SideQos(Unsaid, Unsaid, 0, "nobody")
        [] side = <<>> /\ declared # 0 -> SideQos(Unsaid, Unsaid, 0, "not listed")
        [] OTHER -> IF Unsaid \in {reliability, durability}
                      THEN SideQos(Unsaid, Unsaid, 0, "not reported")
                      ELSE SideQos(reliability, durability, Len(side), "none")

(* parse_pub_sub_counts and parse_topic_info.                              *)
PubSubCounts(lines) == <<LastOf(lines, "publisher count", 0), LastOf(lines, "subscription count", 0)>>
TopicInfo(type, counts, endpoints) ==
  [message_type |-> type, publisher_count |-> counts[1], subscriber_count |-> counts[2],
   publisher_qos |-> SummarizeSideQos(endpoints, "PUBLISHER", counts[1]),
   subscription_qos |-> SummarizeSideQos(endpoints, "SUBSCRIPTION", counts[2]),
   publisher_nodes |-> SideNodes(endpoints, "PUBLISHER"),
   subscriber_nodes |-> SideNodes(endpoints, "SUBSCRIPTION")]
NoInfo == [message_type |-> Unsaid]
ParseTopicInfo(lines) ==
  LET type == LastOf(lines, "type", Unsaid)
  IN  IF type = Unsaid THEN NoInfo
      ELSE TopicInfo(type, PubSubCounts(lines), ParseTopicEndpointQos(lines))

(* echo_qos_args: what sample_messages asks of the publishers.             *)
EchoQosArgs(info) ==
  LET qos == info.publisher_qos
  IN  [reliability |-> IF qos.reliability = "reliable" THEN "reliable" ELSE "best_effort",
       durability |-> IF qos.durability = "transient_local" THEN "transient_local" ELSE "volatile"]

(* parse_topic_list_verbose: the counts of two sections; without a header  *)
(* the output is not of this format.                                       *)
NoCounts == [read |-> FALSE]
ParseTopicListVerbose(lines) ==
  LET step(s, l) ==
        CASE l.is = "section" -> [s EXCEPT !.side = l.says]
          [] l.is = "item" /\ s.side # 0 ->
               [s EXCEPT !.counts =
                  [t \in DOMAIN @ \cup {l.says.topic} |->
                     LET old == IF t \in DOMAIN @ THEN @[t] ELSE <<0, 0>>
                     IN  IF t = l.says.topic THEN [old EXCEPT ![s.side] = l.says.n] ELSE old]]
          [] OTHER -> s
      end == FoldLeft(step, [side |-> 0, counts |-> <<>>], lines)
  IN  IF LinesOf(lines, "section") = <<>> THEN NoCounts ELSE [read |-> TRUE, counts |-> end.counts]

(* list_topics of the adapter: the counts of one verbose list, or of the   *)
(* topic alone.  A command that fails prints NoLines.                      *)
NoLines == <<CliLine("failed", Unsaid)>>
ParseTopicList(lines) ==
  LET of == LinesOf(lines, "topic") IN [i \in DOMAIN of |-> of[i].says]
TopicListItem(topic, counts) ==
  [name |-> topic, counts_unknown |-> counts = Unsaid,
   counts |-> IF counts = Unsaid THEN <<0, 0>> ELSE counts]
SafeCounts_zero(lines) == PubSubCounts(lines)
SafeCounts(lines) == IF lines = NoLines THEN Unsaid ELSE PubSubCounts(lines)
GraphCounts(lines) == IF lines = NoLines THEN NoCounts ELSE ParseTopicListVerbose(lines)
ListTopics(listed, verbose, alone) ==
  LET graph == GraphCounts(verbose)
      counts(t) == IF graph.read /\ t \in DOMAIN graph.counts THEN graph.counts[t] ELSE SafeCounts(alone[t])
      topics == ParseTopicList(listed)
  IN  [i \in DOMAIN topics |-> TopicListItem(topics[i], counts(topics[i]))]

-----------------------------------------------------------------------------
(* parse_node_list, parse_service_list and build_node_listing.             *)
ParseNodeList(lines) ==
  LET of == LinesOf(lines, "node") IN [i \in DOMAIN of |-> of[i].says]
ParseServiceList(lines) ==
  LET of == LinesOf(lines, "service")
  IN  [name \in {of[i].says.name : i \in DOMAIN of} |->
         LastOf(SelectSeq(of, LAMBDA l : l.says.name = name), "service", [types |-> {}]).types]
GetState(node) == <<node, "get_state">>
LifecycleNodeNames(names, services) ==
  {n \in ToSet(names) : GetState(n) \in DOMAIN services /\ "GetState" \in services[GetState(n)]}
NodeListing(names, lifecycle, note) ==
  LET counted(n) == Len(SelectSeq(names, LAMBDA m : m = n))
      all        == ToSet(names)
  IN  [nodes |-> [n \in all |-> [duplicate_count |-> counted(n), lifecycle |-> n \in lifecycle]],
       duplicates |-> {n \in all : counted(n) > 1},
       by_namespace |-> [s \in {n[1] : n \in all} |-> Cardinality({n \in all : n[1] = s})],
       lifecycle_count |-> Cardinality(lifecycle), lifecycle_note |-> note,
       note |-> IF all = {} THEN "no node"
                ELSE IF \E n \in all : counted(n) > 1 THEN "duplicate names" ELSE "none"]
(* list_nodes of the adapter: the second command may fail.                 *)
ListNodes(nodeLines, serviceLines, failed) ==
  LET names    == ParseNodeList(nodeLines)
      services == ParseServiceList(serviceLines)
  IN  IF failed THEN NodeListing(names, {}, "service list failed")
      ELSE NodeListing(names, LifecycleNodeNames(names, services),
                       IF names # <<>> /\ DOMAIN services = {} THEN "no service printed" ELSE "none")

(* parse_node_info, offers_parameter_services, use_sim_time_of and         *)
(* build_node_info.                                                        *)
Interfaces == {"publishers", "subscribers", "service_servers", "service_clients",
               "action_servers", "action_clients"}
ParseNodeInfo(lines) ==
  LET step(s, l) ==
        CASE l.is = "header" -> [s EXCEPT !.current = l.says]
          [] l.is = "entry" /\ s.current \in Interfaces ->
               [s EXCEPT !.of = [@ EXCEPT ![s.current] = Append(@, l.says)]]
          [] OTHER -> s
      start == [current |-> Unsaid, of |-> [k \in Interfaces |-> <<>>]]
  IN  [read |-> LinesOf(lines, "header") # <<>>, of |-> FoldLeft(step, start, lines).of]
UseSimTime(parameters) ==
  CASE parameters = Unsaid -> "parameters not read"
    [] parameters # Unsaid /\ "use_sim_time" \notin DOMAIN parameters -> "not declared"
    [] OTHER -> IF parameters["use_sim_time"] \in {"true", "false"} THEN parameters["use_sim_time"]
                ELSE "not a boolean"
NodeInfo(node, of, parameters, duplicates) ==
  [full_name |-> node, interfaces |-> of, use_sim_time |-> UseSimTime(parameters),
   lifecycle |-> [name |-> GetState(node), type |-> "GetState"] \in ToSet(of["service_servers"]),
   duplicate_count |-> duplicates, note |-> IF duplicates < 2 THEN "none" ELSE "shared name"]

OffersParameterServices(node, of) ==
  <<node, "list_parameters">> \in {s.name : s \in ToSet(of["service_servers"])}
(* The interfaces get_node_info reads of a node that was listed, and its   *)
(* parameters when it offers to tell them.                                 *)
NoNode == [full_name |-> Unsaid]
ReadNode(node, names, lines, parameters) ==
  LET of == ParseNodeInfo(lines)
  IN  IF ~Contains(names, node) \/ ~of.read THEN NoNode
      ELSE NodeInfo(node, of.of, IF OffersParameterServices(node, of.of) THEN parameters ELSE Unsaid,
                    Len(SelectSeq(names, LAMBDA n : n = node)))

-----------------------------------------------------------------------------
(* What ros2 prints of the graph, warnings or not between the lines.       *)
Noisy(lines, noise) ==
  FlattenSeq([i \in DOMAIN lines |-> IF noise THEN <<CliLine("warning", Unsaid), lines[i]>> ELSE <<lines[i]>>])
SaidOr(is, says) == IF says = Unsaid THEN <<>> ELSE <<CliLine(is, says)>>
PrintedEndpoint(e) ==
  <<CliLine("node name", e.name)>> \o SaidOr("node namespace", e.namespace)
  \o <<CliLine("endpoint type", e.type)>> \o SaidOr("reliability", e.reliability)
  \o SaidOr("durability", e.durability)
PrintedInfo(topic) ==
  LET of(type) == Side(topic.endpoints, type)
      blocks(type) == FlattenSeq([i \in DOMAIN of(type) |-> PrintedEndpoint(of(type)[i])])
  IN  Noisy(SaidOr("type", topic.type)
            \o <<CliLine("publisher count", Len(of("PUBLISHER")))>> \o blocks("PUBLISHER")
            \o <<CliLine("subscription count", Len(of("SUBSCRIPTION")))>> \o blocks("SUBSCRIPTION"),
            topic.noise)

(* A graph is [nodes, odd, bare, noise]: nodes are [id, name, managed], odd*)
(* ones also offer get_state of another type, and in a bare graph no node  *)
(* offers to tell its parameters.                                          *)
ServicesOf(graph, node) ==
  LET of == {n \in graph.nodes : n.name = node}
      state(type) == [name |-> GetState(node), type |-> type]
  IN  (IF graph.bare THEN {} ELSE {[name |-> <<node, "list_parameters">>, type |-> "ListParameters"]})
      \cup {state("GetState") : n \in {m \in of : m.managed}}
      \cup {state("Other") : n \in {m \in of : node \in graph.odd}}
PrintedNodes(graph) ==
  LET all == SetToSeq(graph.nodes)
  IN  Noisy([i \in DOMAIN all |-> CliLine("node", all[i].name)], graph.noise)
PrintedServices(graph) ==
  LET all == UNION {ServicesOf(graph, n.name) : n \in graph.nodes}
      typed(name) == {s.type : s \in {t \in all : t.name = name}}
  IN  Noisy(SetToSeq({CliLine("service", [name |-> s.name, types |-> typed(s.name)]) : s \in all}),
            graph.noise)
PrintedNode(graph, node) ==
  Noisy(<<CliLine("header", "publishers"), CliLine("header", "service_servers")>>
        \o SetToSeq({CliLine("entry", s) : s \in ServicesOf(graph, node)})
        \o <<CliLine("header", "service_clients")>>, graph.noise)
(* counts: topic -> <<publishers, subscribers>>, a side of none left out.  *)
PrintedVerbose(counts) ==
  LET side(i) == SetToSeq({CliLine("item", [topic |-> t, n |-> counts[t][i]]) :
                             t \in {u \in DOMAIN counts : counts[u][i] > 0}})
  IN  <<CliLine("section", 1)>> \o side(1) \o <<CliLine("section", 2)>> \o side(2)
PrintedAlone(counts, topic) ==
  IF topic \notin DOMAIN counts THEN <<CliLine("warning", Unsaid)>>
  ELSE <<CliLine("type", "T"), CliLine("publisher count", counts[topic][1]),
         CliLine("subscription count", counts[topic][2])>>

(* list_topics: a topic is listed once, with counts it had while the list  *)
(* was read, or says that they are not known.                              *)
TopicsReadBack(asked, given) ==
  LET at(moment, t) == IF t \in DOMAIN moment THEN moment[t] ELSE <<0, 0>>
  IN  /\ Len(given) = Cardinality(DOMAIN asked.before)
      /\ {given[i].name : i \in DOMAIN given} = DOMAIN asked.before
      /\ \A i \in DOMAIN given : ~given[i].counts_unknown =>
           given[i].counts \in {at(asked.then, given[i].name), at(asked.after, given[i].name)}
      /\ \A i \in DOMAIN given : given[i].counts_unknown =>
           /\ asked.broken /\ (asked.unread \/ given[i].name \notin DOMAIN asked.then)

(* get_topic_info: a side's reliability and durability are those its       *)
(* endpoints share, mixed exactly where two of them differ, unknown        *)
(* exactly where none told; every named node of the side is listed once,   *)
(* and the endpoints of the two sides are those the command counted.  An   *)
(* echo asks for no more than each publisher that told its QoS offers, and *)
(* for all that they offer when all agree.                                 *)
TopicReadBack(topic, given) ==
  LET of(type) == {i \in DOMAIN topic.endpoints : topic.endpoints[i].type = type}
      told(type, p) == {topic.endpoints[i][p] : i \in of(type)} \ {Unsaid}
      named(type) == {<<topic.endpoints[i].namespace, topic.endpoints[i].name>> :
                        i \in {k \in of(type) : Unsaid \notin {topic.endpoints[k].namespace,
                                                               topic.endpoints[k].name}}}
      holds(type, qos, nodes, count) ==
        /\ count = Cardinality(of(type))
        /\ qos.note = "none" => qos.endpoint_count = count
        /\ qos.note = "none" <=> told(type, "reliability") # {} /\ told(type, "durability") # {}
        /\ qos.note = "none" =>
             /\ qos.reliability = "mixed" <=> Cardinality(told(type, "reliability")) > 1
             /\ qos.durability = "mixed" <=> Cardinality(told(type, "durability")) > 1
             /\ qos.reliability # "mixed" => told(type, "reliability") = {qos.reliability}
        /\ qos.note = "nobody" <=> of(type) = {}
        /\ ToSet(nodes) = named(type) /\ Len(nodes) = Cardinality(named(type))
  IN  IF topic.type = Unsaid THEN given = NoInfo
      ELSE /\ holds("PUBLISHER", given.publisher_qos, given.publisher_nodes, given.publisher_count)
           /\ holds("SUBSCRIPTION", given.subscription_qos, given.subscriber_nodes,
                    given.subscriber_count)
           /\ \A p \in {<<"reliability", "reliable">>, <<"durability", "transient_local">>} :
                EchoQosArgs(given)[p[1]] = p[2]
                  <=> told("PUBLISHER", p[1]) = {p[2]} /\ given.publisher_qos.note = "none"

(* list_nodes and get_node_info: each node that runs is listed with how    *)
(* many carry its name; it is called managed exactly when the services     *)
(* were read and it offers get_state, and the two tools agree on it.       *)
NodesReadBack(graph, listing, infos) ==
  /\ DOMAIN listing.nodes = {n.name : n \in graph.nodes}
  /\ MapThenSumSet(LAMBDA n : listing.nodes[n].duplicate_count, DOMAIN listing.nodes)
       = Cardinality(graph.nodes)
  /\ MapThenSumSet(LAMBDA s : listing.by_namespace[s], DOMAIN listing.by_namespace)
       = Cardinality(DOMAIN listing.nodes)
  /\ \A n \in DOMAIN listing.nodes :
       LET managed == \E m \in graph.nodes : m.name = n /\ m.managed
       IN  /\ listing.nodes[n].lifecycle => managed
           /\ listing.lifecycle_note = "none" => (listing.nodes[n].lifecycle <=> managed)
           /\ listing.nodes[n].duplicate_count > 1 <=> infos[n].note = "shared name"
           /\ infos[n].lifecycle <=> managed
           /\ infos[n].use_sim_time = "parameters not read" <=>
                graph.bare \/ graph.parameters = Unsaid
=============================================================================
