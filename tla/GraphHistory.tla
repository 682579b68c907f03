---------------------------- MODULE GraphHistory ----------------------------
(***************************************************************************)
(* graph_diff: one snapshot per call, held in a ring and compared with an  *)
(* earlier one (GraphDiffService and SnapshotRing).  A call reads the live *)
(* graph with several commands while the robot goes on changing: the nodes *)
(* and the topics with their types, then the counts of all topics, then    *)
(* those of each topic that is without, then the endpoints.  So a snapshot *)
(* need not be the graph of any one moment, and a count nobody could read  *)
(* is in it as 0.                                                          *)
(*                                                                         *)
(* Calls do not overlap: graph_diff runs on the ros lane, whose worker is  *)
(* alone (LaneGuard!LaneExclusive).  The ring and the service's locks are  *)
(* therefore taken as free.  A live snapshot's taken_ns is the pair of     *)
(* moments, counted in changes of the graph, between which it was read.    *)
(* Not in the code are past, the graphs the robot has had, history, the    *)
(* snapshots ever stored, and told, what a client who only reads the       *)
(* reports makes of each of them.                                          *)
(***************************************************************************)
EXTENDS Naturals, FiniteSets, Sequences, OrderedMap

CONSTANTS Modes,       \* of "live", "mock", "fallback": which adapter serves
          Graphs,      \* graphs the robot may have, each with the part of
                       \* its writers a listing of endpoints shows
          Fixture,     \* the graph of the mock adapter
          Seed,        \* mock_baseline_seed()
          Bags,        \* the readable bags, by path
          MockBag,     \* MOCK_BAG_ANALYSIS
          Paths,       \* paths a client may give
          NoPath, NoSnapshot, Unreadable,
          Builtin,     \* BUILTIN_COUNT_TOPICS
          NoRate,      \* frequency_hz None: too few messages for a rate
          RingSize,    \* RING_SIZE
          MaxChanges,  \* bound: changes of the live graph
          MaxCalls     \* bound: calls

ASSUME RingAssumption == RingSize \in Nat \ {0}
(* a bag's path is not the number of a snapshot *)
ASSUME PathAssumption == Paths \cap Nat = {}

-----------------------------------------------------------------------------
(* The comparison of two snapshots (services/graph_diff.py).               *)
(*                                                                         *)
(* A snapshot is a record [id, source, topics, nodes, qos, qosKind,        *)
(* truncated, real, taken].  A topic of a live snapshot is                 *)
(* [type, publishers, subscribers], one of a bag [type, rate]: a field the *)
(* code holds as None is a field the record lacks, and a bag's nodes are   *)
(* the empty set, told from an empty graph by its source.  A rate is a     *)
(* natural number of Hz or NoRate.  Changes are sets, one per kind; their  *)
(* order and their sentences are left out.                                 *)

CountFields == {"publishers", "subscribers"}

Live(s) == s.source = "live"

Common(base, cur) == DOMAIN base.topics \cap DOMAIN cur.topics

(* RATE_TOLERANCE, one part in so many *)
RateTolerance == 5

RateChanged(before, after) ==
  IF before = 0 THEN after # 0
  ELSE (IF after > before THEN after - before ELSE before - after)
          * RateTolerance > before

DiffNodes_oneSided(base, cur) ==
  IF Live(base) /\ Live(cur)
  THEN {[change |-> "added", name |-> n] : n \in cur.nodes \ base.nodes}
  ELSE {}
DiffNodes(base, cur) ==
  IF Live(base) /\ Live(cur)
  THEN {[change |-> "added", name |-> n] : n \in cur.nodes \ base.nodes}
       \cup {[change |-> "removed", name |-> n] : n \in base.nodes \ cur.nodes}
  ELSE {}

DiffTopics(base, cur) ==
  {[change |-> "added", name |-> t, type |-> cur.topics[t].type] :
     t \in DOMAIN cur.topics \ DOMAIN base.topics}
  \cup {[change |-> "removed", name |-> t, type |-> base.topics[t].type] :
     t \in DOMAIN base.topics \ DOMAIN cur.topics}

DiffTypes(base, cur) ==
  {[name |-> t, after |-> cur.topics[t].type] :
     t \in {u \in Common(base, cur) : base.topics[u].type # cur.topics[u].type}}

QosCompared(base, cur) == base.qosKind # "none" /\ base.qosKind = cur.qosKind

(* A topic without a profile on one side is passed over. *)
DiffQos(base, cur) ==
  IF QosCompared(base, cur)
  THEN {[name |-> t, before |-> base.qos[t], after |-> cur.qos[t]] :
          t \in {u \in Common(base, cur) \cap DOMAIN base.qos \cap DOMAIN cur.qos :
                   base.qos[u] # cur.qos[u]}}
  ELSE {}

DiffRates(base, cur) ==
  IF Live(base) \/ Live(cur) THEN {}
  ELSE {[name |-> t, before |-> base.topics[t].rate, after |-> cur.topics[t].rate] :
          t \in {u \in Common(base, cur) :
                   /\ NoRate \notin {base.topics[u].rate, cur.topics[u].rate}
                   /\ RateChanged(base.topics[u].rate, cur.topics[u].rate)}}

(* Every counter that moved, of the builtin topics too. *)
CountsMoved(base, cur) ==
  IF Live(base) /\ Live(cur)
  THEN {d \in [name : Common(base, cur), field : CountFields] :
          base.topics[d.name][d.field] # cur.topics[d.name][d.field]}
  ELSE {}

DiffCounts(base, cur) ==
  {[name |-> d.name, field |-> d.field, after |-> cur.topics[d.name][d.field]] :
     d \in {e \in CountsMoved(base, cur) : e.name \notin Builtin}}

NotCompared(base, cur) ==
  {a \in {"nodes", "counts"} : ~(Live(base) /\ Live(cur))}
  \cup {a \in {"rates"} : Live(base) \/ Live(cur)}
  \cup {a \in {"qos"} : ~QosCompared(base, cur)}

DiffSnapshots(base, cur) ==
  [nodes |-> DiffNodes(base, cur),
   topics |-> DiffTopics(base, cur),
   types |-> DiffTypes(base, cur),
   qos |-> DiffQos(base, cur),
   rates |-> DiffRates(base, cur),
   counts |-> DiffCounts(base, cur),
   builtin |-> Cardinality({d \in CountsMoved(base, cur) : d.name \in Builtin}),
   notCompared |-> NotCompared(base, cur)]

(* DiffResult() *)
NothingCompared ==
  [nodes |-> {}, topics |-> {}, types |-> {}, qos |-> {}, rates |-> {},
   counts |-> {}, builtin |-> 0, notCompared |-> {}]

-----------------------------------------------------------------------------
VARIABLES mode, past, calls, ring, next, seeded,
          pc, base, want, part, reply, history, told

vars == <<mode, past, calls, ring, next, seeded,
          pc, base, want, part, reply, history, told>>

(* what a call in progress keeps *)
call == <<pc, base, want, part, reply>>

Mock == mode # "live"

(* The graph as it is, and the count of those the robot has had. *)
Now == Len(past)
graph == past[Now]

-----------------------------------------------------------------------------
(* Snapshots *)

NoReply == [status |-> "none"]

(* Of each topic, the set of its writers' profiles. *)
Profiles(writers) ==
  [t \in {w.topic : w \in writers} |-> {w.qos : w \in {v \in writers : v.topic = t}}]

LiveSnapshot(nodes, topics, qos, kind, truncated, taken) ==
  [id |-> 0, source |-> "live", nodes |-> nodes, topics |-> topics, qos |-> qos,
   qosKind |-> kind, truncated |-> truncated, real |-> FALSE, taken |-> taken]

(* An explicit mock reads no file; the other modes do, whatever the graph. *)
Analysis(path) ==
  IF mode = "mock" THEN MockBag
  ELSE IF path \in DOMAIN Bags THEN Bags[path] ELSE Unreadable

BagSnapshot(id, bag) ==
  LET shown   == {t \in DOMAIN bag : ~bag[t].internal}
      latched == {t \in shown : bag[t].latched # "unknown"}
  IN [id |-> id, source |-> "bag", nodes |-> {},
      topics |-> [t \in shown |-> [type |-> bag[t].type, rate |-> bag[t].rate]],
      qos |-> [t \in latched |-> {bag[t].latched}],
      qosKind |-> IF latched = {} THEN "none" ELSE "latched",
      truncated |-> FALSE, real |-> mode # "mock", taken |-> <<Now, Now>>]

(* snap-0: the mock graph without a node, a topic and a profile. *)
SeedSnapshot ==
  LET topics == DOMAIN Fixture.topics \ {Seed.missingTopic}
      qos    == Profiles({w \in Fixture.writers : w.topic \in topics})
  IN LiveSnapshot(Fixture.nodes \ {Seed.missingNode},
                  [t \in topics |-> Fixture.topics[t]],
                  [t \in DOMAIN qos \cup {Seed.qosTopic} |->
                     IF t = Seed.qosTopic THEN {Seed.qos} ELSE qos[t]],
                  "writer_qos", FALSE, <<Now, Now>>)

-----------------------------------------------------------------------------
(* The ring *)

Latest(r) == IF r = <<>> THEN NoSnapshot ELSE r[Len(r)]

Get(r, id) ==
  IF \E i \in 1..Len(r) : r[i].id = id
  THEN r[CHOOSE i \in 1..Len(r) :
           r[i].id = id /\ \A j \in 1..(i - 1) : r[j].id # id]
  ELSE Unreadable

Stored_byLength(s) == [s EXCEPT !.id = Len(ring) + 1]
Stored(s) == [s EXCEPT !.id = next]

Ids(r) == [i \in 1..Len(r) |-> r[i].id]

(* The ring once the mock baseline is in it. *)
AfterSeed == IF Mock /\ ~seeded THEN Push(ring, SeedSnapshot, RingSize) ELSE ring

-----------------------------------------------------------------------------
(* A call, step by step *)

Init ==
  /\ mode \in Modes
  /\ \E g \in IF Mock THEN {Fixture} ELSE Graphs : past = <<g>>
  /\ calls = 0
  /\ ring = <<>> /\ next = 1 /\ seeded = FALSE
  /\ pc = "idle" /\ base = NoSnapshot /\ want = NoPath
  /\ part = NoSnapshot /\ reply = NoReply
  /\ history = <<>> /\ told = <<>>

(* The robot changes.  The mock adapter's does not. *)
Changes ==
  /\ ~Mock /\ Now <= MaxChanges
  /\ \E g \in Graphs \ {graph} : past' = Append(past, g)
  /\ UNCHANGED <<mode, calls, ring, next, seeded, call, history, told>>

Fails ==
  /\ pc' = "idle" /\ reply' = [status |-> "error"]
  /\ base' = NoSnapshot /\ want' = NoPath /\ part' = NoSnapshot

(* Seed, then resolve the baseline: before anything is read. *)
Begin(kind, value, bagPath) ==
  /\ pc = "idle" /\ calls < MaxCalls
  /\ calls' = calls + 1
  /\ ring' = AfterSeed /\ seeded' = TRUE
  /\ LET found == CASE kind = "previous" -> Latest(AfterSeed)
                    [] kind = "id"       -> Get(AfterSeed, value)
                    [] kind = "bag"      ->
                         LET bag == Analysis(value)
                         IN IF bag = Unreadable THEN Unreadable
                            ELSE BagSnapshot(value, bag)
     IN \/ found = Unreadable /\ Fails
        \/ /\ found # Unreadable
           /\ pc' = (IF bagPath = NoPath THEN "nodes" ELSE "bag")
           /\ base' = found /\ want' = bagPath
           /\ reply' = NoReply /\ UNCHANGED part
  /\ UNCHANGED <<mode, past, next, history, told>>

TakeBag ==
  /\ pc = "bag"
  /\ LET bag == Analysis(want)
     IN \/ bag = Unreadable /\ Fails
        \/ /\ bag # Unreadable
           /\ part' = BagSnapshot(0, bag) /\ pc' = "taken"
           /\ UNCHANGED <<base, want, reply>>
  /\ UNCHANGED <<mode, past, calls, ring, next, seeded, history, told>>

ListNodes ==
  /\ pc = "nodes"
  /\ part' = LiveSnapshot(graph.nodes, <<>>, <<>>, "none", FALSE, <<Now, Now>>)
  /\ pc' = "topics"
  /\ UNCHANGED <<mode, past, calls, ring, next, seeded,
                 base, want, reply, history, told>>

(* ros2 topic list -t: the topics and their types.                         *)
ListTopics ==
  /\ pc = "topics" /\ ~Mock
  /\ part' = [part EXCEPT !.topics =
                 [t \in DOMAIN graph.topics |-> [type |-> graph.topics[t].type]]]
  /\ pc' = "counts"
  /\ UNCHANGED <<mode, past, calls, ring, next, seeded,
                 base, want, reply, history, told>>

(* The mock adapter has the counts of its fixtures. *)
MockTopics ==
  /\ pc = "topics" /\ Mock
  /\ part' = [part EXCEPT !.topics = graph.topics]
  /\ pc' = "endpoints"
  /\ UNCHANGED <<mode, past, calls, ring, next, seeded,
                 base, want, reply, history, told>>

Uncounted == {t \in DOMAIN part.topics : CountFields \cap DOMAIN part.topics[t] = {}}

Counted(t, publishers, subscribers) ==
  [type |-> part.topics[t].type, publishers |-> publishers, subscribers |-> subscribers]

(* The counts the graph has of a listed topic now. *)
CountedNow_swapped(t) == Counted(t, graph.topics[t].subscribers, graph.topics[t].publishers)
CountedNow(t) == Counted(t, graph.topics[t].publishers, graph.topics[t].subscribers)

(* ros2 topic list -v, which leaves out a topic nobody publishes or reads. *)
(* It may fail or be of an unknown format.                                 *)
CountGraph ==
  /\ pc = "counts"
  /\ pc' = "endpoints"
  /\ \/ part' = part
     \/ part' = [part EXCEPT !.topics =
                   [t \in DOMAIN part.topics |->
                      IF /\ t \in DOMAIN graph.topics
                         /\ \E f \in CountFields : graph.topics[t][f] # 0
                      THEN CountedNow(t) ELSE part.topics[t]]]
  /\ UNCHANGED <<mode, past, calls, ring, next, seeded,
                 base, want, reply, history, told>>

(* ros2 topic info of one topic without counts.  When it fails the listing *)
(* says 0 and 0 with counts_unknown, and the snapshot keeps the zeros.     *)
CountTopic ==
  /\ pc = "endpoints"
  /\ \E t \in Uncounted :
       \/ part' = [part EXCEPT !.topics[t] = Counted(t, 0, 0)]
       \/ /\ t \in DOMAIN graph.topics
          /\ part' = [part EXCEPT !.topics[t] = CountedNow(t)]
  /\ UNCHANGED <<mode, past, calls, ring, next, seeded, pc,
                 base, want, reply, history, told>>

(* ros2 node list or topic list -t fails, or runs past its deadline. *)
ListFails ==
  /\ pc \in {"nodes", "topics"} /\ ~Mock
  /\ Fails
  /\ UNCHANGED <<mode, past, calls, ring, next, seeded, history, told>>

(* The endpoint cache, or its refusal, which leaves the QoS out.  The mock *)
(* answers for its topics from the fixtures.                               *)
ListEndpoints_silentCut ==
  /\ pc = "endpoints" /\ Uncounted = {}
  /\ pc' = "taken"
  /\ \/ ~Mock /\ part' = [part EXCEPT !.taken[2] = Now]
     \/ part' = [part EXCEPT !.qos = Profiles(graph.listed), !.qosKind = "writer_qos",
                             !.taken[2] = Now]
  /\ UNCHANGED <<mode, past, calls, ring, next, seeded,
                 base, want, reply, history, told>>
ListEndpoints ==
  /\ pc = "endpoints" /\ Uncounted = {}
  /\ pc' = "taken"
  /\ \/ ~Mock /\ part' = [part EXCEPT !.taken[2] = Now]
     \/ part' = [part EXCEPT !.qos = Profiles(graph.listed), !.qosKind = "writer_qos",
                             !.truncated = graph.listed # graph.writers,
                             !.taken[2] = Now]
  /\ UNCHANGED <<mode, past, calls, ring, next, seeded,
                 base, want, reply, history, told>>

(* A bag read from a file against the fixture graph. *)
RefusedPair ==
  /\ Mock /\ base # NoSnapshot
  /\ base.source # part.source
  /\ base.real \/ part.real

Counts(s) ==
  IF Live(s) THEN [t \in DOMAIN s.topics |-> [f \in CountFields |-> s.topics[t][f]]]
  ELSE <<>>

(* A snapshot as a picture: its nodes, topics and counts. *)
Picture(s) ==
  [nodes |-> s.nodes,
   types |-> [t \in DOMAIN s.topics |-> s.topics[t].type],
   counts |-> Counts(s)]

(* The picture p brought up to cur by report d alone, cur itself being     *)
(* looked at only for what d says was not compared, or never reports.      *)
Applied(p, d, cur) ==
  LET named(changes, how) == {c.name : c \in {x \in changes : x.change = how}}
      gone  == named(d.topics, "removed")
      fresh == named(d.topics, "added")
      kept  == (DOMAIN p.types \ gone) \cup fresh
      after(changes) == (CHOOSE c \in changes : TRUE).after
  IN [nodes |-> IF "nodes" \in d.notCompared THEN cur.nodes
                ELSE (p.nodes \ named(d.nodes, "removed"))
                       \cup named(d.nodes, "added"),
      types |-> [t \in kept |->
                   IF t \in fresh
                   THEN (CHOOSE c \in d.topics : c.change = "added" /\ c.name = t).type
                   ELSE LET moved == {c \in d.types : c.name = t}
                        IN IF moved = {} THEN p.types[t] ELSE after(moved)],
      counts |-> IF "counts" \in d.notCompared THEN Counts(cur)
                 ELSE [t \in kept |->
                        IF t \in fresh \cup Builtin THEN Counts(cur)[t]
                        ELSE [f \in CountFields |->
                                LET moved == {c \in d.counts : c.name = t /\ c.field = f}
                                IN IF moved = {} THEN p.counts[t][f] ELSE after(moved)]]]

Refuse ==
  /\ pc = "taken" /\ RefusedPair
  /\ Fails
  /\ UNCHANGED <<mode, past, calls, ring, next, seeded, history, told>>

Answer ==
  /\ pc = "taken" /\ ~RefusedPair
  /\ LET cur    == Stored(part)
         result == IF base = NoSnapshot THEN NothingCompared
                   ELSE DiffSnapshots(base, cur)
         known  == IF base.id \in DOMAIN told THEN told[base.id] ELSE Picture(base)
     IN /\ ring' = Push(ring, cur, RingSize)
        /\ history' = Append(history, cur)
        /\ told' = Append(told, IF base = NoSnapshot THEN Picture(cur)
                                ELSE Applied(known, result, cur))
        /\ reply' = [status |-> IF base = NoSnapshot THEN "first" ELSE "diff",
                     base |-> base, current |-> cur, result |-> result,
                     ids |-> Ids(ring')]
  /\ next' = next + 1
  /\ pc' = "idle" /\ base' = NoSnapshot /\ want' = NoPath /\ part' = NoSnapshot
  /\ UNCHANGED <<mode, past, calls, seeded>>

Diff ==
  \/ \E bagPath \in Paths \cup {NoPath} :
       \/ Begin("previous", NoPath, bagPath)
       \/ \E id \in 0..MaxCalls : Begin("id", id, bagPath)
       \/ \E path \in Paths : Begin("bag", path, bagPath)
  \/ TakeBag
  \/ ListNodes \/ ListTopics \/ MockTopics \/ ListFails
  \/ CountGraph \/ CountTopic \/ ListEndpoints
  \/ Refuse \/ Answer

Next == Changes \/ Diff

Spec == Init /\ [][Next]_vars

-----------------------------------------------------------------------------
(* Properties *)

(* What each variable may hold. *)
TypeOK ==
  /\ mode \in Modes /\ calls \in 0..MaxCalls
  /\ Now \in 1..(MaxChanges + 1) /\ Mock => past = <<Fixture>>
  /\ Len(ring) <= RingSize /\ Len(history) <= calls /\ Len(told) = Len(history)
  /\ seeded \in BOOLEAN
  /\ pc \in {"idle", "bag", "nodes", "topics", "counts", "endpoints", "taken"}
  /\ pc = "idle" => base = NoSnapshot /\ want = NoPath /\ part = NoSnapshot
  /\ reply.status \in {"none", "error", "first", "diff"}

(* Every snapshot the ring was ever given, snap-0 first where there is one. *)
EverHeld == (IF Mock /\ seeded THEN <<SeedSnapshot>> ELSE <<>>) \o history

(* The ring holds the last RingSize snapshots of the calls that were       *)
(* answered, behind snap-0 where there is one, and nothing else: a refused *)
(* call, a failed command and a baseline bag leave no trace in it, and the *)
(* k-th answer of the process is snap-k whatever was dropped since, so an  *)
(* id a client holds never comes to name another snapshot (SnapshotRing,   *)
(* and the order of the steps of diff).                                    *)
RingIsHistory ==
  /\ next = Len(history) + 1
  /\ \A k \in 1..Len(history) : history[k].id = k
  /\ ring = Newest(EverHeld, RingSize)

(* A client that starts from any snapshot it knows and applies the reports *)
(* it is given, whatever baselines it chose, has the nodes, the topics,    *)
(* their types and their counts of every later snapshot right: the reports *)
(* lose nothing and invent nothing, except where they say so               *)
(* (diff_snapshots with the resolution of the baseline).                   *)
ReportsCompose ==
  \A k \in 1..Len(history) : told[k] = Picture(history[k])

(* Nobody publishes or reads t, or its counts could not be read: a         *)
(* snapshot does not tell the two apart.                                   *)
ReadsZero(s, t) ==
  t \in DOMAIN s.topics /\ \A f \in CountFields : s.topics[t][f] = 0

(* What the report of one live snapshot against another says changed did   *)
(* change between a graph the robot had while the first was read and one   *)
(* it had while the second was, though neither need be a graph it ever     *)
(* had; so a graph that stays as it is gives an empty report, the builtin  *)
(* tally included, with two exceptions.  The QoS of a cut listing may move *)
(* by itself, and then the snapshot says it was cut.  And counts may go to *)
(* or from zero on both sides by themselves, since a count that could not  *)
(* be read is kept as 0 and nothing in the snapshot says so                *)
(* (build_live_snapshot, diff_snapshots; docs/CONTRACT.md says without     *)
(* exception that a healthy graph diffed against itself gives no changes). *)
ChangesAreReal ==
  (/\ reply.status = "diff" /\ Live(reply.base) /\ Live(reply.current)
   /\ reply.base.id # 0)
  => LET base0 == reply.base  cur == reply.current  report == reply.result
         read(s) == {past[i] : i \in s.taken[1]..s.taken[2]}
         moved(P(_, _)) == \E g \in read(base0), h \in read(cur) : P(g, h)
         both(g, h, t) == t \in DOMAIN g.topics \cap DOMAIN h.topics
         countMoved(t, f) ==
           \/ ReadsZero(base0, t) \/ ReadsZero(cur, t)
           \/ moved(LAMBDA g, h : /\ both(g, h, t)
                                  /\ g.topics[t][f] # h.topics[t][f])
     IN /\ \A c \in report.nodes :
             moved(LAMBDA g, h : /\ c.name \in g.nodes <=> c.change = "removed"
                                 /\ c.name \in h.nodes <=> c.change = "added")
        /\ \A c \in report.topics :
             moved(LAMBDA g, h : /\ c.name \in DOMAIN g.topics <=> c.change = "removed"
                                 /\ c.name \in DOMAIN h.topics <=> c.change = "added")
        /\ \A c \in report.types :
             moved(LAMBDA g, h : /\ both(g, h, c.name)
                                 /\ g.topics[c.name].type # h.topics[c.name].type)
        /\ \A c \in report.counts : countMoved(c.name, c.field)
        /\ report.builtin > 0 =>
             \E t \in Builtin, f \in CountFields : countMoved(t, f)
        /\ ~base0.truncated /\ ~cur.truncated =>
             \A c \in report.qos :
               moved(LAMBDA g, h : {w \in g.writers : w.topic = c.name}
                                      # {w \in h.writers : w.topic = c.name})

(* What a client is told adds up and did happen.                           *)
ReportsHold == ReportsCompose /\ ChangesAreReal
=============================================================================
