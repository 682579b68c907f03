------------------------------- MODULE MCTools -------------------------------
(* One case of a tool per initial state; everything else is at rest.       *)
EXTENDS WireRules
LOCAL INSTANCE SequencesExt

-----------------------------------------------------------------------------
(* The server *)
MCAsk(tool, name, count, domain, ok, sizes) ==
  [tool |-> tool, name |-> name, count |-> count, domain |-> domain, inRange |-> ok,
   sizes |-> sizes, per |-> 2]
MCName(is, shape) == [is |-> is, shape |-> shape]
OnClock == MCName("/clock", "ros")
MCAsks ==
  {MCAsk(t, OnClock, 2, 0, TRUE, <<>>) : t \in RosTools \cup BagTools \cup DdsTools}
  \cup {MCAsk(t, OnClock, 2, d, TRUE, <<>>) :
          t \in {"list_participants", "participant_events"}, d \in 1 .. 3}
  \cup {MCAsk("sample_messages", n, c, 0, TRUE, s) :
          n \in {MCName("/x", "ros"), MCName("rt/x", "dds")}, c \in {-1, 2, 4},
          s \in {<<1, 3, 2>>, <<2, 2, 1>>, <<3, 1, 1, 1>>}}
  \cup {MCAsk("peek_bag_samples", n, 3, 0, r, <<2, 1, 2>>) :
          n \in {MCName("rt/x", "dds"), MCName("-", "bad")}, r \in BOOLEAN}

AnyEnv == [mode : {"auto", "live", "mock", "junk"}, dds : {"auto", "mock", "cyclone", "fast"},
           domain : {2, 9}, rmw : {TRUE}, distro : {TRUE}, secured : {FALSE}]
AnyHost == [ros2 : BOOLEAN, binding : BOOLEAN, starts : BOOLEAN]
PlainEnv == [mode |-> "auto", dds |-> "mock", domain |-> 0, rmw |-> TRUE, distro |-> FALSE,
             secured |-> TRUE]
PlainHost == [ros2 |-> TRUE, binding |-> FALSE, starts |-> FALSE]

ServerRests == env = PlainEnv /\ host = PlainHost /\ clock = FALSE
ToolsRest == question = NoQuestion

-----------------------------------------------------------------------------
(* Bags: three series with holes; one with a clock, a transform tree and   *)
(* stamps; a log.                                                          *)
MCThresholds ==
  [intervals |-> 3, gapFactor |-> 2, gapFloor |-> 1, gapsPerSeries |-> 2, edgeIntervals |-> 3,
   edgeFactor |-> 2, edgeFloor |-> 1, clockBack |-> 0, clockFactor |-> 3, clockFloor |-> 2,
   clockSteps |-> 3, stampFloor |-> 1, stampFactor |-> 2, stampSamples |-> 3, perSeries |-> 1,
   listed |-> 3, stampsPerTopic |-> 8, second |-> 2, samples |-> 3]
LastTick == 14
Kind(steady, latched, log) ==
  [steady |-> steady, latched |-> latched, publishers |-> 1, log |-> log]
Plain(t, ts) == [topic |-> t, ts |-> ts, sim |-> None, edges |-> <<>>, stamp |-> None,
                 frame |-> "f", level |-> None, name |-> <<>>]
Outside(holes) == {t \in 0 .. LastTick : \A i \in DOMAIN holes : ~(holes[i][1] < t /\ t < holes[i][2])}
MCBag(order, kinds, ticks, message(_, _), storage, file) ==
  LET at(t) == SelectSeq(order, LAMBDA n : t \in ticks[n])
  IN  [order |-> order, topic |-> kinds, start |-> 0, end |-> LastTick, file |-> file,
       storage |-> storage,
       messages |-> FlattenSeq([t \in 1 .. LastTick + 1 |->
                      [i \in DOMAIN at(t - 1) |-> message(at(t - 1)[i], t - 1)]])]

HoleSets == {<<>>, <<<<2, 6>>>>, <<<<5, 8>>, <<8, 12>>>>, <<<<1, 4>>, <<5, 8>>, <<10, 14>>>>,
             <<<<9, 99>>>>, <<<<4, 9>>>>}
Sensors(a, b, c, latched, storage, file) ==
  MCBag(<<"a", "b", "c">>, [n \in {"a", "b", "c"} |-> Kind(TRUE, latched, FALSE)],
        [n \in {"a", "b", "c"} |-> Outside(CASE n = "a" -> a [] n = "b" -> b [] n = "c" -> c)],
        Plain, storage, file)

(* e2 is away in its hole, the clock jumps and the stamps go back at ticks.*)
Robot(hole, scan, jump, by, back) ==
  LET message(n, t) ==
        CASE n = "/clock" -> [Plain(n, t) EXCEPT !.sim = IF t >= jump THEN t + by ELSE t]
          [] n = "/tf" -> [Plain(n, t) EXCEPT
                             !.edges = IF t \in Outside(<<hole>>) THEN <<"e1", "e2">> ELSE <<"e1">>]
          [] n = "scan" -> [Plain(n, t) EXCEPT !.stamp = IF t >= back THEN t - 5 ELSE t + 10]
      topics == {"/clock", "/tf", "scan"}
  IN  MCBag(<<"/clock", "/tf", "scan">>, [n \in topics |-> Kind(TRUE, "no", FALSE)],
            [n \in topics |-> IF n = "scan" THEN Outside(<<scan>>) ELSE 0 .. LastTick],
            message, "mcap", "plain")
Log ==
  LET message(n, t) == [Plain(n, t) EXCEPT !.level = t % 3,
                                           !.name = IF t % 2 = 0 THEN <<"n">> ELSE <<"n", "child">>]
  IN  MCBag(<<"/rosout", "a">>,
            [n \in {"/rosout", "a"} |-> Kind(FALSE, "yes", n = "/rosout")],
            [n \in {"/rosout", "a"} |-> IF n = "a" THEN {0} ELSE 3 .. 9], message, "mcap", "plain")

Analyze(adapterName, cli, rosbags, b) ==
  [tool |-> "analyze_bag", adapter |-> adapterName, cli |-> cli, rosbags |-> rosbags, bag |-> b]
Readers == {<<"ros2_cli", TRUE, TRUE>>, <<"ros2_cli", FALSE, TRUE>>, <<"ros2_cli", TRUE, FALSE>>,
            <<"rosbags", FALSE, TRUE>>}
AnalyzeCalls ==
  {Analyze("ros2_cli", TRUE, TRUE, Sensors(x, y, z, "no", "mcap", "plain")) :
     x \in HoleSets, y \in HoleSets, z \in HoleSets}
  \cup {Analyze(r[1], r[2], r[3], Sensors(<<>>, x, <<<<9, 99>>>>, l, s, f)) :
     r \in Readers, x \in {<<>>, <<<<0, 98>>>>}, l \in {"yes", "no"}, s \in {"mcap", "sqlite3"},
     f \in {"plain", "small compressed", "big compressed", "unreadable", "not a bag", "missing"}}
  \cup {Analyze("rosbags", FALSE, TRUE, Robot(h, s, j, by, back)) :
     h \in {<<0, 0>>, <<4, 9>>}, s \in {<<0, 0>>, <<4, 9>>, <<10, 13>>}, j \in {5, 99}, by \in {-3, 6},
     back \in {6, 99}}

Peek(topic, from, to, level, node, count, rosbags, file) ==
  [tool |-> "peek_bag_samples", adapter |-> "ros2_cli", cli |-> TRUE, rosbags |-> rosbags,
   bag |-> [Log EXCEPT !.file = file], topic |-> topic, from |-> from, to |-> to,
   level |-> level, node |-> node, count |-> count]
PeekCalls ==
  {Peek(t, f, to, l, n, c, TRUE, "plain") :
     t \in {"/rosout", "a", "zz"}, f \in {None, 0, 4, 15}, to \in {None, 4, 7}, l \in {None, 1, 2},
     n \in {<<>>, <<"n", "child">>, <<"m">>}, c \in {0, 2, 5}}
  \cup {Peek("a", None, None, None, <<>>, 1, r, f) : r \in BOOLEAN, f \in {"plain", "missing", "big compressed"}}

BagCases ==
  /\ about = "bag" /\ call \in AnalyzeCalls \cup PeekCalls /\ BagInit
  /\ host \in {[PlainHost EXCEPT !.ros2 = r] : r \in BOOLEAN}
  /\ env = PlainEnv /\ clock = FALSE /\ adapter = BuildAdapter /\ RoutedToBag
  /\ now = 0 /\ hint = NoHint /\ reply = NoReply /\ truth = [t \in {0} |-> {FALSE}]
  /\ RingInit /\ ToolsRest

-----------------------------------------------------------------------------
(* Parameters: 1 and 2 are names, 3 looks like a secret.                   *)
MCCaps == [chars |-> 2, elements |-> 2, parameters |-> 2, entries |-> 1, minWait |-> 2]
Value(kind, ns) ==
  [kind |-> kind, items |-> [i \in DOMAIN ns |-> [n |-> ns[i], kind |-> IF kind = "list" THEN "int" ELSE kind]]]
One == Value("int", <<1>>)
OneFloat == Value("float", <<1>>)
LongA == Value("list", <<1, 2, 1>>)
LongB == Value("list", <<1, 2, 2>>)
Key(parts, rooted, deep, odd) == [parts |-> parts, rooted |-> rooted, deep |-> deep, odd |-> odd]
ParamKeys == {Key(<<>>, TRUE, TRUE, FALSE), Key(<<"ns">>, TRUE, TRUE, FALSE), Key(<<"n">>, FALSE, FALSE, FALSE),
         Key(<<"ns", "n">>, TRUE, FALSE, FALSE), Key(<<"ns">>, TRUE, FALSE, TRUE)}
Sections ==
  {[key |-> k, mapping |-> FALSE, params |-> <<>>] : k \in ParamKeys}
  \cup {[key |-> k, mapping |-> TRUE, params |-> p] : k \in ParamKeys,
          p \in {1 :> One, (1 :> LongB) @@ (2 :> One), (2 :> OneFloat) @@ (3 :> One),
                 (1 :> Value("bool", <<1>>)) @@ (2 :> LongB) @@ (3 :> LongB)}}
Documents == {<<x>> : x \in Sections} \cup {<<x, y>> : x \in Sections, y \in Sections}
Reals == UNION {[names -> {One, LongA}] : names \in SUBSET (1 .. 3)}
MCNode(real, services, dump, wait) ==
  [name |-> <<"ns", "n">>, real |-> real, services |-> services, dump |-> dump, wait |-> wait, timeout |-> 4]
NodeQuestions ==
  {[node |-> MCNode(r, TRUE, "answered", 3), file |-> [state |-> "ok", document |-> d]] :
     r \in Reals, d \in Documents}
  \cup {[node |-> MCNode(1 :> One, s, d, w), file |-> [state |-> f, document |-> <<x>>]] :
     s \in BOOLEAN, d \in {"answered", "slow", "failed"}, w \in {1, 3}, f \in {"ok", "unreadable"},
     x \in Sections}

-----------------------------------------------------------------------------
(* Endpoints and topics                                                    *)
MCRecord(guid, role, participant, topic, place) ==
  [guid |-> guid, role |-> role, participant |-> participant, topic |-> topic, place |-> place]
Scan == <<"rt/", "scan">>
MCLive == {MCRecord(1, "writer", "p", Scan, 1), MCRecord(2, "reader", "q", Scan, 2),
           MCRecord(3, "reader", "me", Scan, 3), MCRecord(4, "writer", "q", <<"", "map">>, 4),
           MCRecord(5, "writer", "p", <<"rq/", "set">>, 5)}
MCGone == {MCRecord(2, "reader", "q", Scan, 2), MCRecord(6, "writer", "z", Scan, 6),
           MCRecord(7, "reader", "z", <<"", "map">>, 7)}
Participant(guid, name, status, since, cli) ==
  [guid |-> guid, name |-> name, status |-> status, firstSeen |-> since, cli |-> cli]
MCParticipants ==
  {{Participant("p", "nav", "active", 0, FALSE), Participant("q", "nav", "left", 1, FALSE),
    Participant("me", NoName, "active", 0, FALSE)},
   {Participant("p", "nav", "active", 8, FALSE), Participant("q", "cam", "active", 1, TRUE),
    Participant("z", "cam", "left", 0, FALSE)}}
EndpointQuestions ==
  {[view |-> [live |-> l, departed |-> d, observer |-> "me", now |-> 9, participants |-> ps],
    ask |-> [topic |-> t, participant |-> p, observer |-> o, departed |-> g, internal |-> i]] :
     l \in SUBSET MCLive, d \in SUBSET MCGone, ps \in MCParticipants,
     t \in {NoTopic, Scan, <<"/", "map">>, <<"", "none">>}, p \in {NoName, "q"},
     o \in BOOLEAN, g \in BOOLEAN, i \in BOOLEAN}

(* Samples as the binding gives them; the vendor of q is not in its guid.  *)
Attr(form, is) == [form |-> form, is |-> is]
NoAttr == Attr("absent", <<>>)
ParticipantSample(form, guid, vendor, policies, plain) ==
  [key |-> Attr(form, guid), participantKey |-> NoAttr, guid |-> Attr("bytes", guid), vendor |-> vendor,
   policies |-> policies, plain |-> plain]
EndpointSample(form, prefix, entity, keyForm, topic) ==
  [key |-> Attr(form, Append(prefix, entity)), participantKey |-> Attr(keyForm, Append(prefix, 0)),
   guid |-> NoAttr, vendor |-> NoAttr, topic |-> topic, place |-> prefix[3] * 10 + entity,
   by |-> prefix \o [i \in 1 .. 13 |-> 0]]
AsP(form, policies, plain) == ParticipantSample(form, <<1, 16, 1, 0>>, Attr("bytes", <<1>>), policies, plain)
AsQ == ParticipantSample("value", <<9, 9, 2, 0>>, Attr("tuple", <<1, 20, 0>>), <<>>, "cam")
SampleQuestions ==
  [view : [participants : {<<>>, <<AsP("odd", <<NoName, "nav">>, "x")>>, <<AsP("uuid", <<NoName>>, "nav"), AsQ>>},
           writers : {{EndpointSample(f, <<1, 16, 1>>, 3, k, Scan), EndpointSample("uuid", <<9, 9, 2>>, 3, k, NoTopic)} :
                        f \in {"bytes", "uuid", "odd"}, k \in {"bytes", "uuid", "value", "odd"}},
           readers : {{}, {EndpointSample("value", <<9, 9, 2>>, 4, "bytes", Scan)}},
           left : {{}} \cup {{[sample |-> EndpointSample("bytes", <<1, 16, n>>, 5, "uuid", Scan),
                                role |-> "reader", gone |-> g, name |-> m]} :
                             n \in {1, 3}, g \in {0, 5}, m \in {NoName, "old"}},
           observer : {<<9, 9, 2, 0>> \o [i \in 1 .. 12 |-> 0]}, now : {9}],
   ask : {[topic |-> NoTopic, participant |-> NoName, observer |-> o, departed |-> TRUE, internal |-> TRUE] :
            o \in BOOLEAN}]

Words == UNION {[1 .. n -> {"a", "b"}] : n \in 0 .. 4}
SearchQuestions == [typed : Words, known : Words, most : 0 .. 2]

-----------------------------------------------------------------------------
(* Topics that lack a side, and peeks of DDS topics                        *)
MCHintBounds == [near |-> 1, orphans |-> 3, calls |-> 9, listed |-> 1]
Named(kind, text, place) == [kind |-> kind, text |-> text, place |-> place]
MCTopics == {Named("topic", <<"a", "b">>, 1), Named("topic", <<"a", "c">>, 2),
             Named("topic", <<"n", "/", "a", "b">>, 3), Named("topic", <<"x", "y">>, 4),
             Named("service", <<"a", "d">>, 5)}
HintQuestions ==
  UNION {[byTopic : [ts -> {{"writer"}, {"reader"}, {"writer", "reader"}}], scope : SUBSET ts] :
           ts \in {MCTopics} \cup {{t \in MCTopics : t.place < 4}}}
OnDds(topic, deadline) == [topic |-> topic, deadline |-> deadline]
PeekQuestions ==
  [caches : [participants : {<<>>, <<OnDds(NoTopic, 0)>>},
             publications : {<<OnDds(Scan, 4), OnDds(<<"", "map">>, 0), OnDds(Scan, 2)>>, <<OnDds(Scan, 0)>>},
             subscriptions : {<<>>, <<OnDds(<<"/", "map">>, 1)>>}],
   topic : BuiltinTopics \cup ({"rt/", "/", ""} \X {"scan", "map", "none"}), count : -1 .. 2]

-----------------------------------------------------------------------------
(* Streams and scans                                                       *)
MCRates == [samples |-> 5, gapFactor |-> 3, drainWaits |-> 4, drainPart |-> 4, stable |-> 5,
            jittery |-> 2, wall |-> 90, ranked |-> 3, front |-> 45, side |-> 135]
Arrived(waits, stamps, source) ==
  [i \in 1 .. Len(waits) + 1 |->
     LET at == 100 + FoldLeft(+, 0, SubSeq(waits, 1, i - 1))
     IN  [at |-> at, stamp |-> IF stamps = <<>> THEN at - 2 ELSE stamps[i], source |-> source]]
Stream(messages, live, quiet) ==
  [messages |-> messages, live |-> live, deadline |-> quiet >= 0,
   end |-> IF messages = <<>> THEN 100 ELSE Last(messages).at + quiet]
RateQuestions ==
  {Stream(Arrived(w, <<>>, "header"), l, q) :
     w \in UNION {[1 .. n -> {0, 1, 4}] : n \in 0 .. 6} \cup {[i \in 1 .. 7 |-> IF i < 4 THEN 0 ELSE 4]},
     l \in BOOLEAN, q \in {-1, 0, 9}}
  \cup {Stream(Arrived(w, s, c), FALSE, 0) :
     w \in [1 .. 2 -> {0, 1, 4}], s \in [1 .. 3 -> {0, 2, 7, 98, 101}], c \in {"header", "recorded"}}
  \cup {Stream(<<>>, l, q) : l \in BOOLEAN, q \in {-1, 0}}

Measured(kind, n) == [kind |-> kind, n |-> n]
ScanQuestions ==
  {[ranges |-> r, first |-> f, last |-> IF l THEN f + 180 ELSE Missing, step |-> s,
    low |-> b[1], high |-> b[2]] :
     r \in UNION {[1 .. n -> {Measured("number", 0), Measured("number", 2), Measured("number", 5),
                              Measured("nan", 0), Measured("inf", 0), Measured("-inf", 0)}] : n \in 0 .. 3},
     f \in {-180, -45, 100, Missing}, l \in BOOLEAN, s \in {Missing, 0, 50},
     b \in {<<1, 4>>, <<Missing, 4>>, <<4, 1>>}}

-----------------------------------------------------------------------------
(* What ros2 prints                                                        *)
Printed(type, name, namespace, reliability, durability) ==
  [type |-> type, name |-> name, namespace |-> namespace, reliability |-> reliability,
   durability |-> durability]
MCEndpoints ==
  {Printed(t, n, "/", r, "volatile") : t \in {"PUBLISHER", "SUBSCRIPTION"}, n \in {"a", Unsaid},
     r \in {"reliable", "best_effort", Unsaid}}
  \cup {Printed("PUBLISHER", "b", s, "reliable", d) :
     s \in {"/", Unsaid}, d \in {"volatile", "transient_local", Unsaid}}
InfoQuestions ==
  [type : {"T", Unsaid}, endpoints : UNION {[1 .. n -> MCEndpoints] : n \in 0 .. 3}, noise : {FALSE}]
  \cup [type : {"T"}, endpoints : [1 .. 2 -> MCEndpoints], noise : {TRUE}]

Counts == {<<>>} \cup UNION {[ts -> {<<1, 0>>, <<2, 1>>}] : ts \in {{"x"}, {"y"}, {"x", "y"}}}
TopicQuestions ==
  [before : Counts, then : Counts, after : Counts, unread : BOOLEAN, broken : BOOLEAN]

Runs(id, name, managed) == [id |-> id, name |-> name, managed |-> managed]
NodesQuestions ==
  [nodes : SUBSET {Runs(1, <<"/", "a">>, TRUE), Runs(2, <<"/", "a">>, FALSE),
                   Runs(3, <<"/n", "a">>, FALSE), Runs(4, <<"/n", "b">>, TRUE)},
   odd : SUBSET {<<"/", "a">>, <<"/n", "a">>}, bare : BOOLEAN, noise : BOOLEAN, failed : BOOLEAN,
   parameters : {Unsaid, [use_sim_time |-> "true"], [other |-> "1"]}]

-----------------------------------------------------------------------------
(* What a participant announces: gids of 16 or 24 bytes                    *)
MCWire == [nodes |-> 1024, text |-> 4096, gids |-> 65536, second |-> 10]
Gid(width, entity, kind) ==
  [i \in 1 .. width |-> IF i < 13 THEN 7 + i ELSE IF i = 15 THEN entity ELSE IF i = 16 THEN kind ELSE 0]
OnWire(width, namespace, name, readers, writers) ==
  [namespace |-> namespace, name |-> name, readers |-> [i \in 1 .. readers |-> Gid(width, i, 4)],
   writers |-> [i \in 1 .. writers |-> Gid(width, i, 3)]]
EntitiesOf(width) ==
  {[gid |-> Gid(width, 1, 193), nodes |-> ns] :
     ns \in {<<>>, <<OnWire(width, <<Slash>>, <<97, 98, 99>>, 2, 0)>>,
             <<OnWire(width, <<Slash, 110>>, <<98>>, 0, 0), OnWire(width, <<Slash>>, <<99, 100>>, 1, 2)>>,
             <<OnWire(width, <<Slash>>, <<97>>, 0, 0)>>}}
WireQuestions ==
  [entities : EntitiesOf(16) \cup EntitiesOf(24), little : BOOLEAN,
   padding : {<<>>, <<9>>, <<255, 1, 0>>}, distro : {"humble", "jazzy", "unset"}]

(* The schemas the tools declare                                           *)
Nullable(inner) == Object([anyOf |-> List(<<Object(inner), Null>>)])
AString == [type |-> Leaf("string")]
FieldSchemas ==
  {Object(AString), Object([type |-> Leaf("string"), title |-> Leaf("T"), default |-> Leaf("a")]),
   Nullable(AString), Nullable([type |-> Leaf("string"), enum |-> List(<<Leaf("a"), Leaf("b")>>)]),
   Nullable([type |-> Leaf("string"), const |-> Leaf("a")]),
   Object([anyOf |-> List(<<Object(AString), Object([type |-> Leaf("number")]), Null>>),
           description |-> Leaf("long")])}
ModelOf(fields, told) ==
  Object([type |-> Leaf("object"), title |-> Leaf("M"), description |-> Leaf(told),
          properties |-> Object(fields)])
Scalar(type, is) == [type |-> type, is |-> is, fields |-> <<>>]
Scalars == {Scalar("string", "a"), Scalar("string", "c"), Scalar("number", "1"), Scalar("null", "none")}
SchemaQuestions ==
  UNION {{[tool |-> [input |-> ModelOf(f, "long"), output |-> ModelOf(f, d)],
           values |-> {[type |-> "object", is |-> "fields", fields |-> v] : v \in [names -> Scalars]} \cup Scalars] :
            f \in [names -> FieldSchemas], d \in {"long", "restated"}} :
         names \in {{"x", "default"}, {"title", "x"}, {"properties", "x"}}}

(* What ros2 topic echo prints: dots that are a text's own, lists of every *)
(* depth, and each place of a stamp                                        *)
Dotted == UNION {[1 .. k -> {"a", "."}] : k \in 0 .. 4}
Sent(sec, nanosec) == Object([sec |-> Whole(sec), nanosec |-> Whole(nanosec)])
Headed(sec) == Object([frame_id |-> Chars(<<"m", "a", "p", ".", ".", ".">>), stamp |-> Sent(sec, 3)])
Bodies ==
  {Chars(t) : t \in Dotted} \cup {List([i \in 1 .. k |-> Whole(i)]) : k \in 0 .. 4}
  \cup {List(<<Chars(a), Chars(b), Chars(TruncationMark)>>) : a \in {<<"a">>, TruncationMark}, b \in Dotted}
  \cup {List(<<List(<<Whole(1), NotFinite(<<"-", "i", "n", "f">>)>>), List(<<Whole(2)>>)>>), Leaf("true"),
         NotFinite(<<"n", "a", "n">>),
         Object([x |-> List(<<Object([n |-> Chars(<<"a", "a">>)]), Object([n |-> Chars(<<"a">>)])>>)])}
Shapes ==
  {[data |-> b] : b \in Bodies} \cup {[data |-> b, header |-> Headed(1)] : b \in {Whole(1), Chars(<<"a", "a">>)}}
  \cup {[clock |-> Sent(2, 1)], [clock |-> Leaf("true"), level |-> Whole(1), msg |-> Leaf("m")],
         [transforms |-> List(<<>>)], [transforms |-> List(<<Object([header |-> Headed(2)]), Leaf("t")>>)],
         [header |-> Leaf("h"), transforms |-> Chars(<<"t", "t">>), level |-> Whole(1), msg |-> Chars(<<"m">>),
          stamp |-> Sent(3, 0)]}
EchoQuestions ==
  [message : {Object(s) : s \in Shapes} \cup {List(<<Whole(1), Whole(2)>>)}, n : {Uncut, 1, 2, 4},
   readsArrays : BOOLEAN, summaryOnly : {FALSE}]
  \cup [message : {Object([data |-> List(<<Whole(1), Whole(2)>>)])}, n : {Uncut, 1}, readsArrays : {TRUE},
        summaryOnly : {TRUE}]

AskedCases ==
  /\ \/ about = "get_node_info" /\ question \in NodeQuestions
     \/ about = "list_endpoints" /\ question \in EndpointQuestions
     \/ about = "builtin samples" /\ question \in SampleQuestions
     \/ about = "topic search" /\ question \in SearchQuestions
     \/ about = "hints" /\ question \in HintQuestions
     \/ about = "peek_dds_samples" /\ question \in PeekQuestions
     \/ about = "rate" /\ question \in RateQuestions
     \/ about = "scan" /\ question \in ScanQuestions
     \/ about = "list_topics" /\ question \in TopicQuestions
     \/ about = "get_topic_info" /\ question \in InfoQuestions
     \/ about = "list_nodes" /\ question \in NodesQuestions
     \/ about = "ros_discovery_info" /\ question \in WireQuestions
     \/ about = "tools/list" /\ question \in SchemaQuestions
     \/ about = "sample_messages" /\ question \in EchoQuestions
  /\ ServerRests /\ ServerInit
  /\ call = [tool |-> "none", adapter |-> "none"] /\ BagInit /\ RingInit

-----------------------------------------------------------------------------
(* Samples *)
MCSample(topic, seq, writer, sent) ==
  [topic |-> topic, at |-> 0, seq |-> seq, domain |-> 0, writer |-> writer, sent |-> sent]
MCHeard == {MCSample("x", n, "v", 0) : n \in {1, 3, 7}} \cup {MCSample("x", n, "w", 1) : n \in {1, 3}}
           \cup {MCSample("y", NoNumber, "v", NoNumber)}

Cases ==
  \/ BagCases
  \/ AskedCases
  \/ /\ about = "server" /\ env \in AnyEnv /\ host \in AnyHost /\ clock \in BOOLEAN /\ ServerInit
     /\ call = [tool |-> "none", adapter |-> "none"] /\ BagInit /\ RingInit /\ ToolsRest
  \/ /\ about = "topic_metrics" /\ RingInit /\ ServerRests /\ ServerInit
     /\ call = [tool |-> "none", adapter |-> "none"] /\ BagInit /\ ToolsRest
Init == given = NotGiven /\ Cases /\ ToolsInit

Spec == Init /\ [][AnswersNext]_allvars
=============================================================================
