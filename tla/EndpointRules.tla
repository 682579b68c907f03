---------------------------- MODULE EndpointRules ----------------------------
(***************************************************************************)
(* What list_endpoints, list_participants and their derived views count:   *)
(* adapters/common/endpoints.py, topic_filter.py, ros_names.py, services/  *)
(* dds_views.py.  A record is an endpoint: [guid, role, participant,       *)
(* topic, place], place being where (topic, role, guid) sorts.  A topic    *)
(* name is <<prefix, base>>.                                               *)
(***************************************************************************)
EXTENDS Integers, Sequences, FiniteSets
LOCAL INSTANCE SequencesExt
LOCAL INSTANCE FiniteSetsExt
LOCAL INSTANCE Functions

CONSTANTS MaxListedEndpoints, EndpointlessAfter, DepartedTtl,
          NoName        \* a participant that announces no name, or a shared one

NoTopic == <<"none", "">>
IsInternal(topic) == topic[1] \in {"rq/", "rr/", "rs/", "rp/", "ra/"} \/ topic = <<"", "ros_discovery_info">>

(* alternate_forms and resolve_topic_filter: rt/x, x and /x are tried for  *)
(* one another in this order.                                              *)
AlternateForms(topic) ==
  CASE topic[1] = "rt/" -> <<<<"", topic[2]>>, <<"/", topic[2]>>>>
    [] topic[1] = "/" -> <<<<"rt/", topic[2]>>, <<"", topic[2]>>>>
    [] OTHER -> <<<<"rt/", topic[2]>>, <<"/", topic[2]>>>>
ResolveTopicFilter(topic, known) ==
  LET forms == SelectSeq(<<topic>> \o AlternateForms(topic), LAMBDA f : f \in known)
  IN  IF forms = <<>> THEN NoTopic ELSE forms[1]

Roles(records, topic, role) == {r \in records : r.topic = topic /\ r.role = role}

(* summarize_by_topic: what is live on each topic, and what left it.       *)
Orphan(writers, readers) ==
  IF writers > 0 /\ readers = 0 THEN "no_reader"
  ELSE IF readers > 0 /\ writers = 0 THEN "no_writer" ELSE "none"
SummarizeByTopic(live, gone) ==
  [topic \in {r.topic : r \in live \cup gone} |->
     LET writers == Cardinality(Roles(live, topic, "writer"))
         readers == Cardinality(Roles(live, topic, "reader"))
     IN  [writers |-> writers, readers |-> readers,
          goneWriters |-> {r.guid : r \in Roles(gone, topic, "writer")},
          goneReaders |-> {r.guid : r \in Roles(gone, topic, "reader")},
          orphan |-> Orphan(writers, readers)]]

(* build_endpoint_listing over a view of the discovery caches.             *)
Hidden(records, ask) == IF ask.internal THEN {} ELSE {r \in records : IsInternal(r.topic)}
LiveGuids(view) == {r.guid : r \in view.live}
StillGone_unchecked(view, records) == records
StillGone(view, records) == {r \in records : r.guid \notin LiveGuids(view)}
BuildEndpointListing(view, ask) ==
  LET shownTo  == {r \in view.live : ask.observer \/ r.participant # view.observer}
      visible  == shownTo \ Hidden(shownTo, ask)
      departed == view.departed \ Hidden(view.departed, ask)
      known    == {r.topic : r \in visible \cup departed}
      resolved == IF ask.topic = NoTopic THEN NoTopic ELSE ResolveTopicFilter(ask.topic, known)
      selected(r) == /\ ask.topic # NoTopic => r.topic = resolved
                     /\ ask.participant # NoName => r.participant = ask.participant
      matched  == {r \in visible : selected(r)}
      gone     == StillGone(view, {r \in departed : selected(r)})
      shown    == IF ask.departed THEN matched \cup gone ELSE matched
      listed   == {r \in shown : Cardinality({s \in shown : s.place < r.place}) < MaxListedEndpoints}
  IN  [endpoints |-> listed,
       byTopic |-> SummarizeByTopic(matched, gone),
       total |-> Cardinality(view.live),
       truncated |-> shown # listed,
       gone |-> Cardinality(gone),
       excludedObserver |-> IF ask.observer THEN 0
                            ELSE Cardinality({r \in view.live : r.participant = view.observer}),
       hiddenInternal |-> Cardinality(Hidden(shownTo, ask)),
       noMatch |-> ask.topic # NoTopic /\ resolved = NoTopic]

(* with_endpoint_counts and endpointless_note.                             *)
EndpointCount(view, guid) == Cardinality({r \in view.live : r.participant = guid})
Endpointless(view, p) ==
  /\ EndpointCount(view, p.guid) = 0 /\ p.status = "active"
  /\ p.guid # view.observer /\ ~p.cli
  /\ view.now - p.firstSeen > EndpointlessAfter

(* restarts_by_name: lives are GUIDs, departures those that left.          *)
RestartsByName(participants) ==
  LET of(name) == {p \in participants : p.name = name}
      left(name) == {p \in of(name) : p.status = "left"}
      names == {p.name : p \in participants} \ {NoName}
  IN  [name \in {n \in names : Cardinality({p.guid : p \in of(n)}) > 1 \/ left(n) # {}} |->
         [lives |-> Cardinality({p.guid : p \in of(name)}), departures |-> Cardinality(left(name))]]

-----------------------------------------------------------------------------
(* What is read of a builtin sample: endpoints.py, dds_introspection.py and*)
(* dds_helpers.py.  Its attributes [form, is] are of the kind the binding  *)
(* gives; nothing there, or nothing readable, is no bytes.  place stands   *)
(* for the endpoint that was announced and by for its participant.         *)
RawOf(attr) == IF attr.form \in {"bytes", "uuid", "value"} THEN attr.is ELSE <<>>
CycloneExtractGuid(sample) ==
  LET read == SelectSeq(<<sample.key, sample.participantKey, sample.guid>>, LAMBDA a : RawOf(a) # <<>>)
  IN  IF read = <<>> THEN <<>> ELSE RawOf(read[1])
GuidBytes == 16
UnknownGuid == <<>>
FormatGuid(raw) ==
  IF raw = <<>> THEN UnknownGuid
  ELSE [i \in 1 .. GuidBytes |-> IF i \in DOMAIN raw THEN raw[i] ELSE 0]
GuidOf(sample) == FormatGuid(CycloneExtractGuid(sample))
FormatParticipantKey(attr) == FormatGuid(RawOf(attr))

(* A vendor is announced, or the first two bytes of the guid.              *)
VendorIdMap ==
  [id \in {1} \X {1, 2, 3, 5, 6, 10, 15, 16, 20} |->
     CASE id[2] = 1 -> "rti" [] id[2] = 2 -> "opensplice" [] id[2] = 3 -> "opendds"
       [] id[2] = 5 -> "intercom" [] id[2] = 6 -> "coredx" [] id[2] = 10 -> "rti_micro"
       [] id[2] = 15 -> "fast" [] id[2] = 16 -> "cyclone" [] id[2] = 20 -> "dust"]
CanonicalizeVendorId(raw) ==
  IF Len(raw) >= 2 /\ SubSeq(raw, 1, 2) \in DOMAIN VendorIdMap THEN VendorIdMap[SubSeq(raw, 1, 2)]
  ELSE "unknown"
CycloneExtractVendorId(sample) ==
  IF sample.vendor.form \in {"bytes", "value", "tuple"} /\ Len(sample.vendor.is) >= 2
    THEN sample.vendor.is ELSE CycloneExtractGuid(sample)
VendorOf(sample) == CanonicalizeVendorId(CycloneExtractVendorId(sample))
VendorFromParticipantKey(sample) ==
  IF sample.participantKey.form = "value" THEN "unknown"
  ELSE CanonicalizeVendorId(RawOf(sample.participantKey))

(* The name a participant announces in its EntityName policies, or plainly;*)
(* participant_names and participant_vendors by guid, the last one winning.*)
CycloneExtractParticipantName(sample) ==
  LET named == SelectSeq(sample.policies, LAMBDA n : n # NoName)
  IN  IF named = <<>> THEN sample.plain ELSE named[1]
AnnouncedBy(view, guid) == SelectSeq(view.participants, LAMBDA p : GuidOf(p) = guid)
ParticipantName(view, guid) ==
  LET of == AnnouncedBy(view, guid)
  IN  IF of = <<>> THEN NoName ELSE CycloneExtractParticipantName(Last(of))
ParticipantVendor(view, sample) ==
  LET of == AnnouncedBy(view, FormatParticipantKey(sample.participantKey))
  IN  IF of = <<>> THEN VendorFromParticipantKey(sample) ELSE VendorOf(Last(of))

WhoIs(guid, view) ==
  [participant |-> guid, name |-> ParticipantName(view, guid), isObserver |-> guid = view.observer]
EndpointRecord(sample, role, view) ==
  WhoIs(FormatParticipantKey(sample.participantKey), view)
  @@ [guid |-> GuidOf(sample), role |-> role, topic |-> sample.topic, place |-> sample.place,
      vendor |-> ParticipantVendor(view, sample)]
(* DepartedStore.records and departed_endpoint_records: what left lately   *)
(* keeps the name it had then.                                             *)
DepartedEndpointRecord(left, view) ==
  LET record == EndpointRecord(left.sample, left.role, view)
  IN  [record EXCEPT !.name = IF left.name # NoName THEN left.name ELSE @]
EndpointInfosFromSamples(view) ==
  {EndpointRecord(s, "writer", view) : s \in view.writers}
  \cup {EndpointRecord(s, "reader", view) : s \in view.readers}
ListingFromSamples(view, ask) ==
  BuildEndpointListing(
    [live |-> EndpointInfosFromSamples(view), observer |-> view.observer,
     departed |-> {DepartedEndpointRecord(l, view) : l \in {d \in view.left : view.now - d.gone <= DepartedTtl}}],
    ask)
(* builtin_payload: what a peek of the samples says.                       *)
BuiltinPayload(sample, role, view) ==
  WhoIs(IF role = "participant" THEN GuidOf(sample) ELSE FormatParticipantKey(sample.participantKey), view)
  @@ [guid |-> GuidOf(sample), vendor |-> VendorOf(sample)]

(* The listing, a peek and the counts read the same samples along different*)
(* ways: they name for an endpoint the participant that announced it, when *)
(* its key can be read, and all the same one; they give it the name that   *)
(* participant announces, or had when it left, and a vendor that is not    *)
(* another one's; what left longer ago than its time to live is not told.  *)
SamplesToldAlike(view, given) ==
  LET live    == view.writers \cup view.readers
      told(s) == {r \in given.listing.endpoints : r.place = s.place}
      of(p)   == {s \in live : FormatParticipantKey(s.participantKey) = GuidOf(p)}
      agree(r, s, keys) == \A k \in keys : r[k] = given.peeked[s][k]
  IN  /\ \A s \in live : \A r \in told(s) :
           /\ s.participantKey.form # "odd" => r.participant = s.by
           /\ agree(r, s, {"guid", "participant", "name", "isObserver"})
           /\ agree(r, s, {"vendor"}) \/ "unknown" \in {r.vendor, given.peeked[s].vendor}
      /\ \A p \in ToSet(view.participants) :
           /\ given.counts[GuidOf(p)] = Cardinality(of(p))
           /\ \A r \in UNION {told(s) : s \in of(p)} :
                agree(r, p, {"participant", "name", "vendor", "isObserver"})
      /\ FoldFunctionOnSet(+, 0, given.counts, DOMAIN given.counts) <= Cardinality(live)
      /\ \A l \in view.left : \A r \in told(l.sample) :
           view.now - l.gone <= DepartedTtl /\ (l.name # NoName => r.name = l.name)

-----------------------------------------------------------------------------
(* levenshtein(a, b, k): the edit distance when it is at most k, else      *)
(* k + 1, from the cells within k of the diagonal of the table; the common *)
(* prefix and suffix are stripped first.                                   *)
Cell(a, b, row, j, left) ==
  Min({row[j] + 1, left + 1, row[j - 1] + (IF a = b[j] THEN 0 ELSE 1)})
Band_narrow(b, i, k) == Max({0, i - k + 1}) .. Min({Len(b), i + k - 1})
Band(b, i, k) == Max({0, i - k}) .. Min({Len(b), i + k})
NextRow(a, b, k, i, row) ==
  LET fill(cells, j) ==
        IF j \notin Band(b, i, k) THEN cells
        ELSE [cells EXCEPT ![j] = IF j = 0 THEN i ELSE Cell(a[i], b, row, j, cells[j - 1])]
  IN  FoldLeft(fill, [j \in 0 .. Len(b) |-> k + 1], [n \in 1 .. Len(b) + 1 |-> n - 1])
BandedDistance(a, b, k) ==
  LET rows == FoldLeft(LAMBDA row, i : NextRow(a, b, k, i, row),
                       [j \in 0 .. Len(b) |-> IF j <= k THEN j ELSE k + 1],
                       [n \in 1 .. Len(a) |-> n])
  IN  Min({rows[Len(b)], k + 1})

StripPrefix(a, b) ==
  CHOOSE n \in 0 .. Min({Len(a), Len(b)}) :
    /\ SubSeq(a, 1, n) = SubSeq(b, 1, n)
    /\ n < Min({Len(a), Len(b)}) => a[n + 1] # b[n + 1]
Levenshtein(a, b, k) ==
  LET n == StripPrefix(a, b)
      u == SubSeq(a, n + 1, Len(a))
      v == SubSeq(b, n + 1, Len(b))
      m == StripPrefix(Reverse(u), Reverse(v))
      x == SubSeq(u, 1, Len(u) - m)
      y == SubSeq(v, 1, Len(v) - m)
  IN  IF Max({Len(a), Len(b)}) - Min({Len(a), Len(b)}) > k THEN k + 1
      ELSE IF x = <<>> \/ y = <<>> THEN Min({Len(x) + Len(y), k + 1})
      ELSE BandedDistance(x, y, k)

-----------------------------------------------------------------------------
(* list_endpoints: every record discovered is counted once, in the roll-up *)
(* of its topic or among those excluded or hidden; an endpoint that is     *)
(* live is not listed as departed; the listing is truncated only at its    *)
(* cap; without a participant filter a topic is called orphan exactly when *)
(* one side of what the bus shows is missing.                              *)
ListingAddsUp(view, ask, given) ==
  LET sides == [t \in DOMAIN given.byTopic |-> given.byTopic[t].writers + given.byTopic[t].readers]
      whole == ask.topic = NoTopic /\ ask.participant = NoName
  IN  /\ whole => given.total = FoldFunctionOnSet(+, 0, sides, DOMAIN sides)
                                + given.excludedObserver + given.hiddenInternal
      /\ \A t \in DOMAIN given.byTopic :
           (given.byTopic[t].goneWriters \cup given.byTopic[t].goneReaders)
              \cap {r.guid : r \in view.live} = {}
      /\ given.truncated => Cardinality(given.endpoints) = MaxListedEndpoints
      /\ ~given.truncated =>
           FoldFunctionOnSet(+, 0, sides, DOMAIN sides) + (IF ask.departed THEN given.gone ELSE 0)
             = Cardinality(given.endpoints)
      /\ given.noMatch => given.endpoints = {}
      /\ (ask.participant = NoName /\ ask.observer) =>
           \A t \in DOMAIN given.byTopic :
             /\ given.byTopic[t].orphan = "no_reader" <=>
                  /\ Roles(view.live, t, "reader") = {} /\ Roles(view.live, t, "writer") # {}
             /\ given.byTopic[t].orphan = "no_writer" <=>
                  /\ Roles(view.live, t, "writer") = {} /\ Roles(view.live, t, "reader") # {}

(* The reference of the distance: the fewest insertions, deletions and     *)
(* substitutions, from the whole table.                                    *)
EditDistance(a, b) ==
  LET d[i \in 0 .. Len(a), j \in 0 .. Len(b)] ==
        IF i = 0 THEN j ELSE IF j = 0 THEN i
        ELSE Min({d[i - 1, j] + 1, d[i, j - 1] + 1,
                  d[i - 1, j - 1] + (IF a[i] = b[j] THEN 0 ELSE 1)})
  IN  d[Len(a), Len(b)]

-----------------------------------------------------------------------------
(* The hints of detect_qos_mismatches on topics that lack one side, from   *)
(* adapters/common/qos_scan.py, and what peek_dds_samples and topic_metrics*)
(* say of a user topic (dds_helpers.py).  Here a topic is [text, kind,     *)
(* place]: its letters, what its prefix makes of it, where it sorts.       *)
CONSTANTS H   \* the bounds of the comparison, by name

IsTypoCandidate(topic) == topic.kind = "topic"
OrphanSide(roles) == IF Cardinality(roles) = 1 THEN CHOOSE r \in roles : TRUE ELSE "both"
Stripped(text) ==
  LET kept == {i \in DOMAIN text : text[i] # "/"}
  IN  IF kept = {} THEN <<>> ELSE SubSeq(text, Min(kept), Max(kept))
IsPathSuffix(short, long) == IsSuffix(<<"/">> \o Stripped(short.text), Stripped(long.text))

(* The two loops of _orphan_hints, as one fold over the pairs they meet.   *)
Compared(orphans, topics) ==
  FlattenSeq([i \in 1 .. Min({H.orphans, Len(orphans)}) |->
    [j \in DOMAIN topics |-> <<orphans[i], topics[j]>>]])
Hint(is, orphan, other) == [is |-> is, orphan |-> orphan, other |-> other]
TypoHint(orphan, other, sides) ==
  IF sides[orphan] = "writer" THEN Hint("typo", orphan, other) ELSE Hint("typo", other, orphan)
Explained_oneSide(pair, sides) == {pair[1]}
Explained(pair, sides) == IF sides[pair[2]] = "both" THEN {pair[1]} ELSE {pair[1], pair[2]}
(* What the pair costs of the budget, and how far apart its names are.     *)
Far == H.near + 1
CloseLength(a, b) == Len(a.text) - Len(b.text) \in -H.near .. H.near
Distance(found, a, b) ==
  IF CloseLength(a, b) /\ found.budget > 0 THEN Levenshtein(a.text, b.text, H.near) ELSE Far
Pair(found, pair, sides) ==
  LET a == pair[1]
      b == pair[2]
      near == Distance(found, a, b) <= H.near
      tell(hint) == [found EXCEPT !.near = Append(@, hint), !.seen = @ \cup {{a, b}},
                                  !.explained = @ \cup Explained(pair, sides)]
      told == CASE near /\ {sides[a], sides[b]} = {"writer", "reader"} -> tell(TypoHint(a, b, sides))
                [] ~near /\ (IsPathSuffix(a, b) \/ IsPathSuffix(b, a)) -> tell(Hint("twin", a, b))
                [] OTHER -> found
  IN  [told EXCEPT !.budget = IF CloseLength(a, b) /\ @ > 0 THEN @ - 1 ELSE @,
                   !.over = @ \/ (CloseLength(a, b) /\ found.budget = 0)]
(* _plain_orphan_hints: one line per side.                                 *)
PlainOrphanHints(topics, sides) ==
  [side \in {"writer", "reader"} |->
     LET names == SelectSeq(topics, LAMBDA t : sides[t] = side)
     IN  [count |-> Len(names), listed |-> SubSeq(names, 1, Min({H.listed, Len(names)}))]]
(* byTopic: the roles present on each topic discovered; scope: those asked.*)
OrphanHints(byTopic, scope) ==
  LET candidates == {t \in DOMAIN byTopic : IsTypoCandidate(t)}
      sides      == [t \in candidates |-> OrphanSide(byTopic[t])]
      topics     == SetToSortSeq(candidates, LAMBDA a, b : a.place < b.place)
      orphans    == SelectSeq(topics, LAMBDA t : sides[t] # "both")
      step(found, pair) ==
        IF pair[1] = pair[2] \/ scope \cap {pair[1], pair[2]} = {} \/ {pair[1], pair[2]} \in found.seen
          THEN found ELSE Pair(found, pair, sides)
      end == FoldLeft(step, [near |-> <<>>, explained |-> {}, seen |-> {}, budget |-> H.calls,
                             over |-> FALSE], Compared(orphans, topics))
  IN  [near |-> end.near, over |-> end.over, capped |-> Len(orphans) > H.orphans,
       plain |-> PlainOrphanHints(
                   SelectSeq(orphans, LAMBDA t : t \in scope /\ t \notin end.explained), sides)]

(* Every topic of the scope that lacks a side is told once, beside the     *)
(* name that may explain it or with the others of its side; a typo joins a *)
(* topic only written with one only read, whose names are as close as the  *)
(* edit distance says; and unless the answer says that names were left     *)
(* uncompared, no such pair goes untold.                                   *)
HintsTellOrphans(byTopic, scope, given) ==
  LET only(role) == {t \in DOMAIN byTopic : t.kind = "topic" /\ byTopic[t] = {role}}
      pairOf(i) == {given.near[i].orphan, given.near[i].other}
      alone(role) == {t \in only(role) \cap scope : \A i \in DOMAIN given.near : t \notin pairOf(i)}
      typos == {pairOf(i) : i \in {k \in DOMAIN given.near : given.near[k].is = "typo"}}
      close(w, r) == EditDistance(w.text, r.text) <= H.near
  IN  /\ \A role \in {"writer", "reader"} :
           /\ given.plain[role].count = Cardinality(alone(role))
           /\ ToSet(given.plain[role].listed) \subseteq alone(role)
      /\ \A i, k \in DOMAIN given.near : pairOf(i) = pairOf(k) => i = k
      /\ \A i \in DOMAIN given.near :
           LET h == given.near[i]
           IN  /\ pairOf(i) \cap scope # {} /\ h.orphan \in only("writer") \cup only("reader")
               /\ h.is = "typo" => h.orphan \in only("writer") /\ h.other \in only("reader")
                                   /\ close(h.orphan, h.other)
      /\ (~given.over /\ ~given.capped) =>
           \A w \in only("writer"), r \in only("reader") :
             (scope \cap {w, r} # {} /\ close(w, r)) => {w, r} \in typos

-----------------------------------------------------------------------------
(* user_topic_result, resolve_user_topic and _peek_user_topic: a user topic*)
(* is named as any of its forms and has no samples; _peek_builtin gives    *)
(* the cached discovery state and records it.                              *)
BuiltinTopics == {<<"DCPS", t>> : t \in {"Participant", "Subscription", "Publication"}}
UserTopicResult(topic, resolved) ==
  [given |-> TRUE, is |-> <<>>, note |-> IF resolved = topic THEN "not decoded" ELSE "resolved, not decoded"]
Undiscovered == [given |-> FALSE]
PeekUserTopic(topic, known) ==
  LET resolved == ResolveTopicFilter(topic, known)
  IN  IF resolved = NoTopic THEN Undiscovered ELSE UserTopicResult(topic, resolved)
CacheFor(caches, topic) ==
  CASE topic[2] = "Participant" -> caches.participants
    [] topic[2] = "Publication" -> caches.publications
    [] OTHER -> caches.subscriptions
DiscoveredTopicNames(caches) == {e.topic : e \in ToSet(caches.subscriptions \o caches.publications)}
(* What a peek says and what it adds to the metrics buffer.                *)
PeekDdsSamples(caches, topic, count) ==
  LET cached == CacheFor(caches, topic)
      taken  == SubSeq(cached, 1, Min({count, Len(cached)}))
      builtin == [given |-> TRUE, is |-> taken, note |-> "none"]
      user    == PeekUserTopic(topic, DiscoveredTopicNames(caches))
  IN  IF count < 0 THEN [answer |-> Undiscovered, recorded |-> 0]
      ELSE IF topic \in BuiltinTopics THEN [answer |-> builtin, recorded |-> Len(taken)]
      ELSE [answer |-> user, recorded |-> 0]
(* metrics_status and declared_hz: the shortest finite deadline a writer   *)
(* announces.                                                              *)
MetricsStatus(topic, observed) ==
  IF topic \notin BuiltinTopics THEN "unsupported_user_topic"
  ELSE IF observed > 0 THEN "ok" ELSE "no_samples_yet"
DeclaredPeriod(caches, topic) ==
  LET periods == {e.deadline : e \in {w \in ToSet(caches.publications) : w.topic = topic}} \ {0}
  IN  IF periods = {} THEN 0 ELSE Min(periods)

(* A peek of a user topic answers exactly when some endpoint is on it      *)
(* under one of its names, and neither it nor a refused call is counted by *)
(* topic_metrics as traffic; a peek of a builtin topic is counted as the   *)
(* samples it gives, which discovery holds.                                *)
PeekIsHonest(caches, topic, count, given) ==
  LET names == DiscoveredTopicNames(caches)
      forms == {topic} \cup ToSet(AlternateForms(topic))
      held  == ToSet(caches.participants \o caches.publications \o caches.subscriptions)
  IN  /\ (count >= 0 /\ topic \notin BuiltinTopics) =>
           (given.answer.given <=> forms \cap names # {})
      /\ given.recorded = IF given.answer.given THEN Len(given.answer.is) ELSE 0
      /\ given.answer.given => Len(given.answer.is) <= count /\ ToSet(given.answer.is) \subseteq held
      /\ MetricsStatus(topic, given.recorded) = "ok" <=> given.recorded > 0
      /\ \A w \in ToSet(caches.publications) : (w.topic = topic /\ w.deadline # 0) =>
           DeclaredPeriod(caches, topic) \in 1 .. w.deadline
=============================================================================
