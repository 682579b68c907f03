-------------------------------- MODULE Tools --------------------------------
(***************************************************************************)
(* The answers of the tools together: the server that routes a call, and   *)
(* what makes the answer of the bag tools, of the tools that read the      *)
(* graph or a stream, and what is decoded or listed on the way.  One       *)
(* behaviour follows one of them: about says which, question holds what a  *)
(* call without state is asked.                                            *)
(***************************************************************************)
EXTENDS Server, BagReads, ParamRules, EndpointRules, MetricsRing, RateRules, CliText

LOCAL INSTANCE SequencesExt

CONSTANT Windows   \* the windows topic_metrics is asked for

VARIABLES about, question, given

toolvars == <<about, question, given>>
allvars == <<servervars, bagvars, ringvars, toolvars>>

NoQuestion == [none |-> TRUE]
NotGiven == [given |-> FALSE]

(* analyze_bag and peek_bag_samples of the half the call is routed to: the *)
(* adapter of the ros2 command asks ros2 bag info first.                   *)
ReaderOf == IF adapter.ros = "ros2_cli" THEN "ros2_cli" ELSE "rosbags"
RoutedToBag == SourceOf(call.tool) = "bag" /\ call.adapter = ReaderOf /\ (call.cli => host.ros2)

Asked(topic) ==
  /\ about = topic /\ given = NotGiven
  /\ UNCHANGED <<servervars, bagvars, ringvars, about, question>>
Gives(topic, is) == Asked(topic) /\ given' = [given |-> TRUE, is |-> is]
AnswerNodeInfo == Gives("get_node_info", GetNodeInfo(question.node, question.file))
AnswerListing ==
  /\ Asked("list_endpoints")
  /\ given' = [given |-> TRUE, is |-> BuildEndpointListing(question.view, question.ask),
               endpointless |-> {p \in question.view.participants : Endpointless(question.view, p)},
               restarts |-> RestartsByName(question.view.participants)]
AnswerSamples ==
  LET view == question.view
  IN  /\ Asked("builtin samples")
      /\ given' = [given |-> TRUE, listing |-> ListingFromSamples(view, question.ask),
                   counts |-> [g \in {GuidOf(p) : p \in ToSet(view.participants)} |->
                                 EndpointCount([live |-> EndpointInfosFromSamples(view)], g)],
                   peeked |-> [s \in view.writers \cup view.readers |-> BuiltinPayload(s, "endpoint", view)]
                              @@ [p \in ToSet(view.participants) |-> BuiltinPayload(p, "participant", view)]]
AnswerSearch == Gives("topic search", Levenshtein(question.typed, question.known, question.most))
AnswerHints == Gives("hints", OrphanHints(question.byTopic, question.scope))
AnswerPeek == Gives("peek_dds_samples", PeekDdsSamples(question.caches, question.topic, question.count))

(* The figures of a stream or of a scan that was read.                     *)
AnswerRate == Gives("rate", ComputeRate(question))
AnswerScan == Gives("scan", LaserScanSummary(question))

(* What is read back of the text of ros2, of the bytes of                  *)
(* ros_discovery_info, of the schemas that are listed, and of a message.   *)
AnswerTopics ==
  LET alone == [t \in DOMAIN question.before |->
                  IF question.broken THEN NoLines ELSE PrintedAlone(question.after, t)]
      listed == [i \in 1 .. Cardinality(DOMAIN question.before) |->
                   CliLine("topic", SetToSeq(DOMAIN question.before)[i])]
  IN  Gives("list_topics",
             ListTopics(listed, IF question.unread THEN NoLines ELSE PrintedVerbose(question.then), alone))
AnswerTopicInfo == Gives("get_topic_info", ParseTopicInfo(PrintedInfo(question)))
AnswerNodes ==
  /\ Asked("list_nodes")
  /\ given' = [given |-> TRUE,
               is |-> ListNodes(PrintedNodes(question), PrintedServices(question), question.failed),
               infos |-> [n \in {m.name : m \in question.nodes} |->
                            ReadNode(n, ParseNodeList(PrintedNodes(question)),
                                     PrintedNode(question, n), question.parameters)]]
ToolsNext ==
  \/ about = "server" /\ ServerNext /\ UNCHANGED <<bagvars, ringvars, toolvars>>
  \/ about = "bag" /\ BagNext /\ UNCHANGED <<servervars, ringvars, toolvars>>
  \/ about = "topic_metrics" /\ RingNext /\ UNCHANGED <<servervars, bagvars, toolvars>>
  \/ AnswerNodeInfo \/ AnswerListing \/ AnswerSamples \/ AnswerSearch \/ AnswerHints \/ AnswerPeek
  \/ AnswerRate \/ AnswerScan
  \/ AnswerTopics \/ AnswerTopicInfo \/ AnswerNodes

(* A case begins with its question.                                        *)
ToolsInit ==
  /\ BagInit /\ RingInit /\ given = NotGiven
  /\ about # "bag" => ServerInit
  /\ about = "bag" => IsBagCall
  /\ about = "get_node_info" => IsNode(question.node) /\ IsFile(question.file)
ToolsSpec == ToolsInit /\ [][ToolsNext]_allvars

-----------------------------------------------------------------------------
Says(topic) == about = topic /\ given # NotGiven

(* get_node_info(params_file): the comparison is true of the node.         *)
ParamVerdictsAreTrue == Says("get_node_info") => VerdictsAgree(question.node, question.file, given.is)

(* The counts of list_endpoints, list_participants, topic_metrics, the     *)
(* hints of detect_qos_mismatches and peek_dds_samples add up to what was  *)
(* discovered, departed or received, listings and peeks tell the samples of*)
(* discovery alike, and the distance that suggests a topic is the edit     *)
(* distance.                                                               *)
CountsAddUp ==
  /\ Says("list_endpoints") =>
       /\ ListingAddsUp(question.view, question.ask, given.is)
       /\ \A p \in given.endpointless : {r \in question.view.live : r.participant = p.guid} = {}
       /\ \A name \in DOMAIN given.restarts :
            given.restarts[name].departures <= given.restarts[name].lives
  /\ Says("builtin samples") => SamplesToldAlike(question.view, given)
  /\ Says("topic search") =>
       given.is = MinOf({EditDistance(question.typed, question.known), question.most + 1})
  /\ Says("hints") => HintsTellOrphans(question.byTopic, question.scope, given.is)
  /\ Says("peek_dds_samples") => PeekIsHonest(question.caches, question.topic, question.count, given.is)
  /\ (about = "topic_metrics" /\ heard # <<>>) =>
       \A s \in Heard, w \in Windows : GapsAreCounted(s.topic, w, heard[Len(heard)].at, s.domain)

(* The rate of sample_messages and the sectors of a laser scan say what    *)
(* arrived.                                                                *)
RatesAreTrue ==
  /\ Says("rate") => RateIsTrue(question, given.is)
  /\ Says("scan") => ScanAddsUp(question, given.is)
=============================================================================
