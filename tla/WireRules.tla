------------------------------ MODULE WireRules ------------------------------
(***************************************************************************)
(* Three encodings: the ParticipantEntitiesInfo of ros_discovery_info that *)
(* ros_discovery.py decodes byte by byte, the JSON schemas of the tools    *)
(* that schema_compact.py trims before they are listed, and the messages   *)
(* of ros2 topic echo that echo_parser.py reads.  They are read by tools   *)
(* that complete those of Tools, and schemas are nested to any depth: the  *)
(* operators on them are RECURSIVE, as nothing is in the other modules.    *)
(***************************************************************************)
EXTENDS Tools
LOCAL INSTANCE SequencesExt

CONSTANTS W   \* the limits of the decoder and the units of a stamp, by name

NotRead == [ok |-> FALSE, at |-> 0, is |-> <<>>]
Read(at, is) == [ok |-> TRUE, at |-> at, is |-> is]
(* What is read next, unless reading has already failed.                   *)
Then(read, Next(_)) == IF read.ok THEN Next(read) ELSE NotRead
(* A number past every limit stands for all that are.                      *)
Huge == 2 ^ 24

-----------------------------------------------------------------------------
(* _Reader over data = [bytes, little]: a cursor is the bytes consumed.    *)
Aligned(at) == at + ((-at) % 4)
Raw(data, at, n) ==
  IF at + n > Len(data.bytes) THEN NotRead ELSE Read(at + n, SubSeq(data.bytes, at + 1, at + n))
NumberOf(four) == IF four[4] # 0 THEN Huge ELSE four[1] + 256 * four[2] + 65536 * four[3]
U32(data, at) ==
  Then(Raw(data, Aligned(at), 4),
       LAMBDA four : Read(four.at, NumberOf(IF data.little THEN four.is ELSE Reverse(four.is))))
(* Bytes from 128 on are not decoded together: they never are of one text. *)
IsText(bytes) == Last(bytes) = 0 /\ \A i \in DOMAIN bytes : bytes[i] < 128
Text(data, at) ==
  Then(U32(data, at), LAMBDA length :
    IF length.is \notin 1 .. W.text THEN NotRead
    ELSE Then(Raw(data, length.at, length.is), LAMBDA whole :
           IF IsText(whole.is) THEN Read(whole.at, Front(whole.is)) ELSE NotRead))
Gids(data, at, width) ==
  Then(U32(data, at), LAMBDA count :
    LET from(i) == count.at + (i - 1) * width
    IN  IF count.is > W.gids \/ count.is * width > Len(data.bytes) - count.at THEN NotRead
        ELSE Read(from(count.is + 1),
                  [i \in 1 .. count.is |-> SubSeq(data.bytes, from(i) + 1, from(i + 1))]))
AtEnd_anywhere(data, at) == TRUE
AtEnd(data, at) == Len(data.bytes) - at < 4

(* _decode_body *)
Slash == 47
Plausible(namespace, name) ==
  namespace # <<>> /\ namespace[1] = Slash /\ name # <<>> /\ ~Contains(name, Slash)
NodeEntities(namespace, name, readers, writers) ==
  [namespace |-> namespace, name |-> name, readers |-> readers, writers |-> writers]
NodeAfter(data, width, nodes) ==
  Then(Text(data, nodes.at), LAMBDA namespace :
    Then(Text(data, namespace.at), LAMBDA name :
      IF ~Plausible(namespace.is, name.is) THEN NotRead
      ELSE Then(Gids(data, name.at, width), LAMBDA readers :
             Then(Gids(data, readers.at, width), LAMBDA writers :
               Read(writers.at, Append(nodes.is,
                      NodeEntities(namespace.is, name.is, readers.is, writers.is)))))))
NodesAfter(data, width, count) ==
  FoldLeft(LAMBDA nodes, i : Then(nodes, LAMBDA read : NodeAfter(data, width, read)),
           Read(count.at, <<>>), [i \in 1 .. count.is |-> i])
DecodeBody(data, width) ==
  Then(Raw(data, 0, width), LAMBDA gid :
    Then(U32(data, gid.at), LAMBDA count :
      IF count.is > W.nodes THEN NotRead
      ELSE Then(NodesAfter(data, width, count), LAMBDA nodes :
             IF AtEnd(data, nodes.at) THEN Read(nodes.at, [gid |-> gid.is, nodes |-> nodes.is])
             ELSE NotRead)))
GidWidthOrder(distro) ==
  IF distro \in {"iron", "jazzy", "kilted", "rolling"} THEN <<16, 24>> ELSE <<24, 16>>
(* decode_participant_entities of what follows the plain CDR header.       *)
DecodeParticipantEntities(data, distro) ==
  LET tried == [i \in 1 .. 2 |-> DecodeBody(data, GidWidthOrder(distro)[i])]
  IN  IF Len(data.bytes) < 4 THEN NotRead ELSE IF tried[1].ok THEN tried[1] ELSE tried[2]

(* prefix_key and endpoint_nodes *)
PrefixKey(entities) == SubSeq(entities.gid, 1, 12)
EndpointNodes(entities) ==
  LET of(i) == {SubSeq(g, 1, 16) : g \in ToSet(entities.nodes[i].readers \o entities.nodes[i].writers)}
      last(guid) == CHOOSE i \in DOMAIN entities.nodes :
                      guid \in of(i) /\ \A k \in i + 1 .. Len(entities.nodes) : guid \notin of(k)
  IN  [guid \in UNION {of(i) : i \in DOMAIN entities.nodes} |->
         <<entities.nodes[last(guid)].namespace, entities.nodes[last(guid)].name>>]

(* What a ROS 2 participant writes: CDR, its strings ended by a zero, and  *)
(* at most three bytes of any value after the last node.                   *)
Padded(bytes) == bytes \o [i \in 1 .. (-Len(bytes)) % 4 |-> 0]
PutNumber(bytes, n, little) ==
  Padded(bytes) \o (IF little THEN <<n, 0, 0, 0>> ELSE <<0, 0, 0, n>>)
PutText(bytes, text, little) == PutNumber(bytes, Len(text) + 1, little) \o text \o <<0>>
PutGids(bytes, gids, little) == PutNumber(bytes, Len(gids), little) \o FlattenSeq(gids)
PutNode(bytes, node, little) ==
  PutGids(PutGids(PutText(PutText(bytes, node.namespace, little), node.name, little),
                  node.readers, little), node.writers, little)
Written(entities, little, padding) ==
  FoldLeft(LAMBDA bytes, node : PutNode(bytes, node, little),
           PutNumber(entities.gid, Len(entities.nodes), little), entities.nodes) \o padding

(* Both widths of gid, both byte orders and any padding are read back as   *)
(* written, whatever distribution is named; a buffer cut short never names *)
(* a node or an endpoint that was not announced.                           *)
BytesOf(said) == Written(said.entities, said.little, said.padding)
ReadOf(said, n) ==
  DecodeParticipantEntities([bytes |-> SubSeq(BytesOf(said), 1, n), little |-> said.little], said.distro)
NothingInvented(said, cut) ==
  cut.ok => /\ ToSet(cut.is.nodes) \subseteq ToSet(said.entities.nodes)
            /\ PrefixKey(cut.is) = PrefixKey(said.entities)
WireReadBack(said, got) ==
  /\ got.ok /\ got.is = said.entities
  /\ \A i \in DOMAIN said.entities.nodes :
       LET node == said.entities.nodes[i]
       IN  \A g \in ToSet(node.readers \o node.writers) :
             EndpointNodes(got.is)[SubSeq(g, 1, 16)] = <<node.namespace, node.name>>
  /\ \A n \in 4 .. Len(BytesOf(said)) - 1 :
       NothingInvented(said, ReadOf(said, n))

-----------------------------------------------------------------------------
(* schema_compact.py.  A JSON value is a leaf, a list or an object, whose  *)
(* keys are keywords of a schema, or field names under "properties".  A    *)
(* text of two paragraphs is "long", its first one "short".                *)
Leaf(is) == [kind |-> "leaf", of |-> is]
List(items) == [kind |-> "list", of |-> items]
Object(fields) == [kind |-> "object", of |-> fields]
LeavingOut(fields, keys) == [k \in DOMAIN fields \ keys |-> fields[k]]
IsLeaf(node, is) == node.kind = "leaf" /\ node.of = is
Null == Object([type |-> Leaf("null")])
IsNull(node) ==
  node.kind = "object" /\ DOMAIN node.of = {"type"} /\ IsLeaf(node.of["type"], "null")
(* The mapping under a "properties" keyword, whose keys name fields.       *)
Fields(key, inProperties) == key = "properties" /\ ~inProperties

RECURSIVE DropDefaults(_, _)
DropDefaults(node, inProperties) ==
  LET kept == IF inProperties THEN node.of ELSE LeavingOut(node.of, {"default"})
  IN  CASE node.kind = "leaf" -> node
        [] node.kind = "list" -> List([i \in DOMAIN node.of |-> DropDefaults(node.of[i], FALSE)])
        [] OTHER -> Object([k \in DOMAIN kept |-> DropDefaults(kept[k], Fields(k, inProperties))])

(* _fold_node: a nullable plain type becomes a list of two types.          *)
Inner(node) == SelectSeq(node.of["anyOf"].of, LAMBDA b : ~IsNull(b))
Foldable(node) ==
  /\ {"anyOf", "type"} \cap DOMAIN node.of = {"anyOf"}
  /\ node.of["anyOf"].kind = "list" /\ Len(node.of["anyOf"].of) = 2 /\ Len(Inner(node)) = 1
  /\ LET inner == Inner(node)[1].of
     IN  /\ "type" \in DOMAIN inner /\ inner["type"].kind = "leaf"
         /\ DOMAIN inner \cap {"$ref", "anyOf", "oneOf", "allOf", "not", "if"} = {}
NullableValues_asGiven(inner) == LeavingOut(inner, {"type"})
NullableValues(inner) ==
  LET others == LeavingOut(inner, {"type", "enum", "const"})
  IN  CASE "enum" \in DOMAIN inner ->
             others @@ [enum |-> List(Append(inner["enum"].of, Leaf("none")))]
        [] DOMAIN inner \cap {"enum", "const"} = {"const"} ->
             others @@ [enum |-> List(<<inner["const"], Leaf("none")>>)]
        [] OTHER -> others
FoldNode(node) ==
  IF ~Foldable(node) THEN node
  ELSE LET inner == Inner(node)[1].of
       IN  Object(LeavingOut(node.of, {"anyOf"})
                  @@ [type |-> List(<<inner["type"], Leaf("null")>>)] @@ NullableValues(inner))
RECURSIVE FoldNullable(_, _)
FoldNullable(node, inProperties) ==
  LET folded == IF inProperties THEN node ELSE FoldNode(node)
  IN  CASE node.kind = "leaf" -> node
        [] node.kind = "list" -> List([i \in DOMAIN node.of |-> FoldNullable(node.of[i], FALSE)])
        [] OTHER -> Object([k \in DOMAIN folded.of |->
                              FoldNullable(folded.of[k], Fields(k, inProperties))])

(* compact_schema: titles, and all but the first paragraph, of what is a   *)
(* schema; the descriptions of the definitions.                            *)
Shortened(node) ==
  IF "description" \in DOMAIN node.of /\ IsLeaf(node.of["description"], "long")
    THEN Object([node.of EXCEPT !["description"] = Leaf("short")]) ELSE node
Undescribed(definitions) ==
  Object([d \in DOMAIN definitions.of |-> Object(LeavingOut(definitions.of[d].of, {"description"}))])
RECURSIVE CompactSchema(_, _, _)
CompactSchema(node, inProperties, keepTitle) ==
  LET kept == IF inProperties THEN node.of
              ELSE Shortened(Object(LeavingOut(node.of, IF keepTitle THEN {} ELSE {"title"}))).of
      child(k) == IF k = "$defs" /\ ~inProperties THEN Undescribed(kept[k]) ELSE kept[k]
  IN  CASE node.kind = "leaf" -> node
        [] node.kind = "list" -> List([i \in DOMAIN node.of |-> CompactSchema(node.of[i], FALSE, FALSE)])
        [] OTHER -> Object([k \in DOMAIN kept |->
                              CompactSchema(child(k), Fields(k, inProperties), FALSE)])

(* compact_registered_tools: the schemas a tool is listed with.            *)
CompactTool(tool) ==
  LET output == FoldNullable(DropDefaults(CompactSchema(tool.output, FALSE, TRUE), FALSE), FALSE)
      bare   == "description" \in DOMAIN output.of /\ IsLeaf(output.of["description"], "restated")
  IN  [input |-> CompactSchema(tool.input, FALSE, FALSE),
       output |-> IF bare THEN Object(LeavingOut(output.of, {"description"})) ELSE output]

(* What a schema accepts: a value is [type, is, fields].                   *)
Allows(types, value) ==
  IF types.kind = "leaf" THEN types.of = value.type
  ELSE \E i \in DOMAIN types.of : types.of[i].of = value.type
RECURSIVE Accepts(_, _)
Accepts(schema, value) ==
  LET has(k) == k \in DOMAIN schema.of
      within(k) == \E i \in DOMAIN schema.of[k].of : Accepts(schema.of[k].of[i], value)
  IN  /\ has("type") => Allows(schema.of["type"], value)
      /\ has("enum") => \E i \in DOMAIN schema.of["enum"].of :
                          IsLeaf(schema.of["enum"].of[i], value.is)
      /\ has("const") => IsLeaf(schema.of["const"], value.is)
      /\ has("anyOf") => within("anyOf")
      /\ (has("properties") /\ value.type = "object") =>
           \A f \in DOMAIN value.fields \cap DOMAIN schema.of["properties"].of :
             Accepts(schema.of["properties"].of[f], value.fields[f])

(* The schemas that are listed accept the values the declared ones accept, *)
(* and no others, name every field, and keep what an input may leave out.  *)
FieldsOf(schema) == IF "properties" \in DOMAIN schema.of THEN schema.of["properties"].of ELSE <<>>
SchemasReadTheSame(tool, values, listed) ==
  /\ \A v \in values : Accepts(listed.output, v) <=> Accepts(tool.output, v)
  /\ \A v \in values : Accepts(listed.input, v) <=> Accepts(tool.input, v)
  /\ DOMAIN FieldsOf(listed.output) = DOMAIN FieldsOf(tool.output)
  /\ DOMAIN FieldsOf(listed.input) = DOMAIN FieldsOf(tool.input)
  /\ \A f \in DOMAIN FieldsOf(tool.input) :
       "default" \in DOMAIN FieldsOf(tool.input)[f].of <=>
         "default" \in DOMAIN FieldsOf(listed.input)[f].of

-----------------------------------------------------------------------------
(* echo_parser.py, stamps.py, sample_extras.py.  A message is made of texts*)
(* (sequences of characters), floats that are not finite, written as texts,*)
(* whole numbers, lists, and mappings of field names; anything else is a   *)
(* leaf.  A limit of Uncut is no limit.                                    *)
Uncut == 0
Chars(of) == [kind |-> "text", of |-> of]
NotFinite(of) == [kind |-> "float", of |-> of]
Whole(of) == [kind |-> "int", of |-> of]
TruncationMark == <<".", ".", ".">>
MarkAt(value, n) == IF value.kind = "text" THEN n + Len(TruncationMark) ELSE n + 1

(* What the parts of a value give together, beside its own path.           *)
Joined(kind, parts, own) ==
  [is |-> [kind |-> kind, of |-> [k \in DOMAIN parts |-> parts[k].is]],
   cut |-> own \cup UNION {parts[k].cut : k \in DOMAIN parts}]
Alone(value, own) == [is |-> value, cut |-> own]

(* _cut: the first n of each list and text, and the paths of those cut.    *)
IsLong(value, n) == value.kind \in {"text", "list"} /\ n # Uncut /\ Len(value.of) > n
Kept(value, n) == IF IsLong(value, n) THEN SubSeq(value.of, 1, n) ELSE value.of
RECURSIVE CutPayload(_, _, _)
CutPayload(value, path, n) ==
  LET own == IF IsLong(value, n) THEN {path} ELSE {}
  IN  CASE value.kind = "object" ->
             Joined("object", [k \in DOMAIN value.of |-> CutPayload(value.of[k], Append(path, k), n)], own)
        [] value.kind = "list" ->
             Joined("list", [i \in DOMAIN Kept(value, n) |-> CutPayload(value.of[i], path, n)], own)
        [] IsLong(value, n) -> Alone(Chars(Kept(value, n) \o TruncationMark), own)
        [] OTHER -> Alone(value, own)

(* _normalize of what the command printed under --truncate-length n.       *)
IsCutList(value, n) ==
  value.kind = "list" /\ Len(value.of) = MarkAt(value, n) /\ Last(value.of) = Chars(TruncationMark)
IsCutString(value, n) ==
  value.kind = "text" /\ Len(value.of) = MarkAt(value, n) /\ IsSuffix(TruncationMark, value.of)
IsCut(value, n) == n # Uncut /\ (IsCutList(value, n) \/ IsCutString(value, n))
RECURSIVE Normalize(_, _, _)
Normalize(value, path, n) ==
  LET own == IF IsCut(value, n) THEN {path} ELSE {}
  IN  CASE value.kind = "object" ->
             Joined("object", [k \in DOMAIN value.of |-> Normalize(value.of[k], Append(path, k), n)], own)
        [] value.kind = "list" ->
             Joined("list", [i \in DOMAIN (IF own = {} THEN value.of ELSE Front(value.of)) |->
                               Normalize(value.of[i], path, n)], own)
        [] value.kind = "float" -> Alone(Chars(value.of), own)
        [] OTHER -> Alone(value, own)

(* payload_stamp: the time of a message, a set of at most one.             *)
Field(value, key) ==
  IF value.kind = "object" /\ key \in DOMAIN value.of THEN value.of[key] ELSE Leaf("none")
Has(payload, key) == key \in DOMAIN payload.of
TimeOf(sec, nanosec) ==
  IF sec.kind = "int" /\ nanosec.kind = "int" THEN {sec.of * W.second + nanosec.of} ELSE {}
TimeToNs(time) == TimeOf(Field(time, "sec"), Field(time, "nanosec"))
HeaderTime(value) == TimeToNs(Field(Field(value, "header"), "stamp"))
BodyStamp(payload) ==
  LET transforms == Field(payload, "transforms")
  IN  CASE Has(payload, "clock") -> TimeToNs(payload.of["clock"])
        [] ~Has(payload, "clock") /\ transforms.kind = "list" ->
             IF transforms.of = <<>> THEN {} ELSE HeaderTime(transforms.of[1])
        [] OTHER -> IF Has(payload, "level") /\ Has(payload, "msg")
                      THEN TimeToNs(Field(payload, "stamp")) ELSE {}
NoStamp == [ns |-> 0, source |-> "none"]
StampFrom(header, body) ==
  IF header # {} THEN [ns |-> CHOOSE t \in header : TRUE, source |-> "header"]
  ELSE IF body # {} THEN [ns |-> CHOOSE t \in body : TRUE, source |-> "payload"] ELSE NoStamp
PayloadStamp(payload) == StampFrom(HeaderTime(payload), BodyStamp(payload))

(* parse_echo_document, and decode_with_summary, which may read the whole  *)
(* document and cut it itself.                                             *)
RawText == Object([raw |-> Leaf("text")])
EchoMessage(read) == [payload |-> read.is, cut |-> read.cut, stamp |-> PayloadStamp(read.is)]
ParseEchoDocument(document, n) ==
  IF document.kind # "object" THEN [payload |-> RawText, cut |-> {}, stamp |-> NoStamp]
  ELSE EchoMessage(Normalize(document, <<>>, n))
WantsWholeArrays(ask) == ask.readsArrays /\ ask.n # Uncut /\ ~ask.summaryOnly
Recut(whole, cut) ==
  [message |-> [payload |-> cut.is, cut |-> cut.cut, stamp |-> whole.stamp],
   summarized |-> whole.payload, without |-> {}]
CutHere(whole, n) == Recut(whole, CutPayload(whole.payload, <<>>, n))
AsPrinted(read) == [message |-> read, summarized |-> read.payload, without |-> read.cut]
DecodeWithSummary(document, n, wholeArrays) ==
  IF wholeArrays THEN CutHere(ParseEchoDocument(document, Uncut), n)
  ELSE AsPrinted(ParseEchoDocument(document, n))

(* What ros2 topic echo prints under --truncate-length n.                  *)
RECURSIVE Echoed(_, _)
Echoed(value, n) ==
  CASE value.kind = "object" -> Object([k \in DOMAIN value.of |-> Echoed(value.of[k], n)])
    [] value.kind = "list" ->
         LET kept == [i \in DOMAIN Kept(value, n) |-> Echoed(value.of[i], n)]
         IN  List(IF IsLong(value, n) THEN Append(kept, Chars(TruncationMark)) ELSE kept)
    [] IsLong(value, n) -> Chars(Kept(value, n) \o TruncationMark)
    [] OTHER -> value
SampleMessage(ask, wholeArrays) ==
  DecodeWithSummary(Echoed(ask.message, IF wholeArrays THEN Uncut ELSE ask.n), ask.n, wholeArrays)

(* A message that the command cut and one that is cut here once it was read*)
(* whole are the same answer, with the same stamp, unless a limit under 4  *)
(* meets a float that is not finite: CutPayload takes it for a text.       *)
(* A field that is not listed as cut was told whole, and a summary reads   *)
(* whole arrays or is told which it lacks.                                 *)
RECURSIVE HasNotFinite(_)
HasNotFinite(value) ==
  \/ value.kind = "float"
  \/ value.kind \in {"list", "object"} /\ \E k \in DOMAIN value.of : HasNotFinite(value.of[k])
Untouched(cut, field) == \A path \in cut : path[1] # field
EchoReadBack(ask, got) ==
  LET whole == got.whole
      told  == got.is.message
  IN  /\ told.stamp = whole.stamp
      /\ (HasNotFinite(ask.message) /\ ask.n \in 1 .. 3) \/ told = got.other.message
      /\ \A f \in DOMAIN whole.payload.of :
           /\ Untouched(told.cut, f) => told.payload.of[f] = whole.payload.of[f]
           /\ Untouched(got.is.without, f) => got.is.summarized.of[f] = whole.payload.of[f]

-----------------------------------------------------------------------------
(* The tools that give what is decoded here.                               *)
AnswerWire == Gives("ros_discovery_info", ReadOf(question, Len(BytesOf(question))))
AnswerSchemas == Gives("tools/list", CompactTool(question.tool))
AnswerEcho ==
  /\ Asked("sample_messages")
  /\ given' = [given |-> TRUE, is |-> SampleMessage(question, WantsWholeArrays(question)),
               other |-> SampleMessage(question, ~WantsWholeArrays(question)),
               whole |-> ParseEchoDocument(question.message, Uncut)]

AnswersNext == ToolsNext \/ AnswerWire \/ AnswerSchemas \/ AnswerEcho

(* What the ros2 command printed, what a participant announced of its nodes*)
(* and what the tools declared is read back whole; a message of            *)
(* sample_messages is, but for the fields that are listed as cut.          *)
ReadBackWhole ==
  /\ Says("list_topics") => TopicsReadBack(question, given.is)
  /\ Says("get_topic_info") => TopicReadBack(question, given.is)
  /\ Says("list_nodes") => NodesReadBack(question, given.is, given.infos)
  /\ Says("ros_discovery_info") => WireReadBack(question, given.is)
  /\ Says("tools/list") => SchemasReadTheSame(question.tool, question.values, given.is)
  /\ Says("sample_messages") => EchoReadBack(question, given)
=============================================================================
