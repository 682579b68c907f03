# TopicForge in TLA+

TopicForge is an MCP server that answers questions about a ROS 2 graph: which
topics, nodes and DDS participants exist, whether their QoS fits, what was
lost and when. It observes a DDS domain passively (Cyclone DDS builtin
readers) or drives the `ros2` command line, and must stay truthful while the
bus churns under it and several tool calls run at once. This directory holds
the specifications of the parts where that is hard, the TLC runs that check
them on small instances, and the TLAPS proofs that hold for every instance.

Paths below are relative to `src/src/topicforge/` of the repository.

## 1. The system

| Component | State it keeps | Operations | Talks to |
|---|---|---|---|
| Tool guard and call budget (`tools/guard.py`, `budget.py`) | per lane a lock and `_waiting`; per call a deadline (contextvar) | `guarded`, `_run_in_lane`, `_LaneState.acquire` | every tool handler runs behind it, in an anyio worker thread |
| Participant lifecycle buffer (`adapters/common/lifecycle.py`) | `_participants` (ordered map), `_events` (ring), an RLock | `record_seen`, `record_lost`, `reconcile`, reads | written by the tracker thread (and by polls), read by `participant_events` and the DDS views |
| Discovery caches (`adapters/common/discovery_tracker.py`) | alive participants, live endpoints by role, departed endpoints, recent removals, removal roles, gone participants, a pass lock | `apply_builtin_samples`, `_apply_participant`, `_apply_endpoint`, `_depart`, `snapshot` | written by the tracker thread under the pass lock, snapshotted by every DDS handler |
| Discovery tracker thread (same file) | sinks of samples taken and not applied, a stop event, warm-up state | `start`, `_run`, `run_pass`, `BufferedTake`, `stop` | takes from the builtin readers, feeds the caches |
| Cyclone DDS adapter (`adapters/dds_cyclone/`) | builtin readers, a participant | the takes, listings, metrics, typed peeks | the tracker, the inspector |
| Node names and ghost CLI flagging (`adapters/common/ros_discovery.py`, `spawned_pids.py`) | node-name cache, ring of spawned pids | decode, record, resolve, flag | tracker, listings, process runner |
| Endpoint listing (`adapters/common/endpoints.py`, `topic_filter.py`, `services/dds_views.py`) | none | filter, resolve a name, cap, count, restarts by name | DDS adapters, inspector, diagnose |
| QoS analysis (`adapters/common/qos_*.py`) | none | normalize, compare, scan, hint, fix | both live adapters |
| Metrics buffer (`adapters/common/metrics_buffer.py`) | a ring per topic | record, rate, percentile, gaps | DDS adapters |
| ros2 process runner (`adapters/ros2_live/process_runner.py`, `process_tree.py`) | per call: a child, its group, two pipe readers | `run_process`, `kill_process_tree` | the ros2 CLI adapter |
| Echo stream, sampling, TF capture (`adapters/ros2_live/`) | a bounded collection, two workers | collect, sample, capture | the process runner, the call budget |
| ros2 CLI adapter and parsers (`adapters/ros2_live/`) | the `/clock` hint | one or several CLI calls per question, then text parsing | the process runner, the inspector |
| TF tree analysis (`adapters/common/tf_tree.py`, `urdf.py`) | none | edges, findings, path, clock | the TF capture, diagnose |
| Bag reading and analysis (`bag_*.py`, `log_filter.py`, `services/bag_service.py`) | a scan in progress | analyze, peek | inspector, graph history |
| Parameters, nodes, logs (`param_diff.py`, `nodes.py`, `node_reader.py`, `params_file.py`) | none | list, read, compare with a file, filter a log | the CLI adapter, inspector |
| Graph history and diff (`services/graph_snapshot.py`, `graph_diff.py`) | a ring of snapshots and named baselines | seed, append, resolve, diff | inspector |
| Diagnose sweep (`services/diagnose.py`) | the findings of one sweep, the time that is left | run the checks of a plan until the budget ends, verdict | inspector, budget |
| Inspector, health (`services/`) | the adapter, warm-up wait | validation and notes around adapter calls | tools |
| Adapter selection (`services/factory.py`, `adapters/composite.py`, `config/`) | none | choose and build the backends of a mode | server start |
| Message summaries (`adapters/common/summaries/`) | none | rate and its verdict, clock, laser scan, and copies of fields | samples and peeks |
| MCP server and tools (`server.py`, `tools/`) | none | registration, compact schemas, the lane of each tool | clients, the guard |
| Decoding of payloads, mock adapter, telemetry, models | none | formatting, fixtures, events, records | - |

**How they interact.** A tool call enters the guard, obtains the lane of its
backend (`ros2` or `dds`), and calls the inspector, which calls the adapter. A DDS
adapter answers from a snapshot of the discovery caches; the tracker thread
is the only one to write them, in passes: take from four builtin readers into
sinks, then apply everything taken under one lock. Applying a participant
sample records it in the lifecycle buffer, and when a participant is gone
moves its endpoints from the live caches to the departed ones. A CLI adapter
starts processes that become participants of the bus themselves, so their pids are
kept to tell them from the robot's. The deadline of a call is shared by everything
made on its way: each blocking step takes its wait out of what is left, and several
keep a reserve for the steps that follow. `diagnose` is a call that makes many others.

**What is hard.** The bus is read through readers of history depth 1, so
samples merge and a participant may be born and gone between two passes. A
take can raise half-way. Participants and endpoints come from different
readers at different moments, so an endpoint announcement may be taken after
the departure of its owner, or in an earlier pass than its owner's. All
structures are bounded and evict. Tool calls compete for one lane with a
budget, while a handler may hang. A command may hang, fork, or be cut at any line of
what it prints, and what was not read must be told, not passed for nothing. The
hazards, each at its line, are in `PROJECT.json`.

**What makes each part correct** (the properties in brackets are checked here):

- lifecycle: the map and the event log agree [`StatusAgrees`], eviction prefers
  those who left [`TombstonesFirst`], a poll's reconciliation is complete
  [`ReconcileComplete`], and all of it implements a simple promise
  [`KeepsPromise`];
- caches and tracker: a snapshot is whole, has no live endpoint of a departed
  participant and can place every removal [`SnapshotWhole`], no taken sample is lost
  and no loss invented [`LossesAreTrue`], a participant takes all of its endpoints
  with it [`DepartsWhole`], and the view converges [`ViewConverges`];
- guard: one call per lane, whose lock is held only for a call that runs in it
  [`LaneExclusive`], a call that starts has time to run [`StartsInTime`], none waits for ever
  [`NeverWaitsForEver`];
- ros2 commands: a call returns by its deadline and what stopping may take
  [`AnswersInTime`], nothing of its process group survives a kill
  [`NothingSurvives`], a clean exit kills nothing [`CleanExitSpares`], an
  answer in time is whole [`WholeAnswer`], a stream's documents are whole
  messages [`DocumentsWhole`], and no writer blocks for ever [`NeverBlocked`];
- calls of several commands: they end in time and leave no thread behind
  [`EndsInTime`], what is missing is told [`SilenceIsEarned`], the alarms of a
  TF tree are those of its transforms, its path is a shortest chain and an edge that went silent is
  told [`TreeAlarmsAreTrue`], a filtered read of the log gives the newest matches [`FilteredIsNewest`];
- graph history: the ring holds the answered snapshots under their own numbers
  [`RingIsHistory`], the reports of a chain of calls add up, and a change reported is
  one the robot went through, but for counts that may be unread [`ReportsHold`];
- diagnose: an all-clear means that everything ran and nothing is wrong
  [`AllClearIsEarned`], an alarm is true of the robot [`AlarmsAreEarned`], a name
  is gone only when nothing carries it [`GoneMeansGone`], and the cap is fair
  [`CapIsFair`];
- QoS: what a scan says agrees with what DDS does with each pair
  [`VerdictsAreTrue`], a fix is offered, cures its pairs and breaks no other
  [`FixCures`];
- node names and ghosts: names survive a goodbye [`NamesSurviveGoodbye`], no
  robot is flagged as a command [`RobotsAreNotGhosts`], no command passes for a robot
  [`GhostsAreTold`], a warm observer has heard the bus [`WarmUpIsHonest`];
- the server and the pure rules: labels, truncation and health are so
  [`ServedAsSaid`], a bag's silences, gaps and rates are its own
  [`BagSummaryIsTrue`], a peek returns the first matches [`PeekIsFirst`], verdicts on
  parameters are true [`ParamVerdictsAreTrue`], listings, gaps and hints add up
  [`CountsAddUp`], rates and scans say what arrived [`RatesAreTrue`], and texts, bytes and schemas
  are read back whole [`ReadBackWhole`].

## 2. The modules

| Module | Models | Its operations |
|---|---|---|
| `OrderedMap` | Python dicts and `OrderedDict`s as sequences of key/value pairs; `popitem(last=False)` and caps; `sorted()` | operators only |
| `LifecycleOps` | `record_seen`, `record_lost`, eviction, as operators on a buffer | shared by the next two rows and the tracker |
| `LifecycleBuffer` | the buffer as a component: any caller, any order, `reconcile` one participant per step under the lock | `Seen`, `Lost`, `ReconcileStart`, `ReconcileNext`, `Tick` |
| `ParticipantLog` | the abstract promise: a status per participant and a log of changes | refined by `LifecycleBuffer` |
| `DiscoveryCaches` | every change `apply_builtin_samples` makes to the caches | operators and sub-actions |
| `DiscoveryTracker` | bus, readers, tracker thread, snapshots; composes `DiscoveryCaches` and `LifecycleOps` | `Appears`, `Leaves`, `Take`, `TakeRaises`, `PickParticipant`, `PutAlive`, `Mark`, `Depart`, `RecordLoss`, `ApplyEndpoint`, `PassDone` |
| `Observer` | the fourth take (node info), the node-name cache, the warm-up, the ring of spawned processes and the flags made of it | `Start`, `Speak`, `Leave`, `Pass`, `PassFails`, `Ask`, `Answer`, `Tick` |
| `LaneGuard` | the guard: lanes, queue, budget | `StartFree`, `Start`, `Try`, `Refuse`, `Queue`, `Acquire`, `TimeOut`, `Enter`, `GiveUp`, `Finish`, `Tick` |
| `ProcessTree` | the processes of a command (external), the kill of their group, the joins of the pipe readers | `Behave`, `Started`, `WaitLauncher`, `Interrupt`, `Poll`, `KillGroup`, `KillLauncher`, `JoinOut`, `JoinErr` |
| `ProcessRun` | `run_process` with its captures, on top of `ProcessTree` | `RunStart` ... `RunReturns`, `Writes`, `Pumps` |
| `EchoStream` | `stream_echo` with its queue and collector, on top of `ProcessTree` | `EchoStart` ... `EchoReturns`, `Prints`, `PumpLine`, `CollectLine` |
| `RosCommand` | one command, run or streamed: composes the two | `Next` |
| `TfTree` | the report of `inspect_tf`: edges, findings, path, clock, links | operators only |
| `RosReads` | `inspect_tf`, `sample_messages` and the parameter read as sequences of commands under one budget, with the `/tf_static` thread; uses `TfTree` | one action per blocking step |
| `GraphHistory` | `diff_snapshots` (what changed, kind by kind, and what is not compared), a call of `graph_diff` step by step and the snapshot ring, on a robot that changes | `Begin`, `TakeBag`, `ListNodes`, `ListTopics`, `MockTopics`, `CountGraph`, `CountTopic`, `ListFails`, `ListEndpoints`, `Refuse`, `Answer` |
| `QosRules` | `qos_normalize.py` and `qos_analyzer.py`: profiles, partitions, the eight RxO rules, how durations are written | operators only |
| `QosScan` | `qos_scan.py` and `qos_fixes.py`: pairs, separation, reports and their order, caps, groups and fixes | operators only |
| `QosRepair` | the loop of scan, fix and verification on a bus of real endpoints | `Scan`, `Ask`, `Apply` |
| `DiagnoseRules` | what each check of the sweep makes of the robot; rank and cap of findings | operators only |
| `Diagnose` | the sweep: plan, floors, skips, the loop of reads with its retries, the verdict | one action per check, per read and per sampled topic |
| `Server` | settings, the backends built from them, the routing and the labels of every tool, the sample budget, the `/clock` hint, `health_check` | `Start`, `HealthCheck`, `Serve`, `Taken`, `ClockChanges`, `Ros2ComesOrGoes`, `Tick` |
| `BagRules`, `BagReads` | the detectors, spans, rates and ranges; a pass over a bag under its budget, and the peek | rules are operators; `BagNext` |
| `ParamRules` | a node's parameters, the sections of a file and their precedence, masks, cuts and verdicts | operators only |
| `EndpointRules` | what is read of a builtin sample; listings: filters, name forms, summary, cap, departures, restarts, edit distance; hints on topics that lack a side; what a peek of a DDS topic says | operators only |
| `MetricsRing` | the rings of samples and the figures of a window | `RingNext` |
| `RateRules` | the rate, its verdict and its clock; the sectors of a laser scan | operators only |
| `CliText` | what `ros2` prints of topics, nodes, services and QoS, as line automata, and the answers made of several commands | operators only |
| `Tools` | composes `Server` and the modules after it: one behaviour follows one tool | one action per answer |
| `WireRules` | completes `Tools` with the byte decoder of `ros_discovery_info`, the compaction of the tools' JSON schemas, and the messages of `ros2 topic echo`, their cuts and stamps; it has the RECURSIVE operators, so only the run uses it | `AnswerWire`, `AnswerSchemas`, `AnswerEcho` |
| `MC...` | the instances TLC checks | constants only |
| `OrderedMapLemmas`, `LifecycleBuffer_proofs`, `DiscoveryTracker_proofs`, `Observer_proofs`, `CallBudget_proofs`, `Answers_proofs`, `LiveReads_proofs`, `QosRepair_proofs` | lemmas and proofs | section 5 |

Operators whose name ends in an underscore and a word (`Mark_writersOnly`) are faulty variants of the definition that follows them,
the bugs each property is shown to catch; the specifications do not use them.

### State and code

**Lifecycle.** `buf.participants` is `_participants` with, per participant,
its status and the time of its last loss; `buf.events` is `_events` with the
oldest first. `None` (0) stands for a missing DDS timestamp. Each public
method holds the RLock throughout, so `record_seen` and `record_lost` are one
step; `reconcile` re-enters `record_lost` per participant, is one step per
participant, and `todo # <<>>` is the lock it holds. `now` is `time.time_ns()`,
which never runs backwards here.

**Caches and tracker.** `cached` are the alive participants, `live[role]` the
live endpoints, `departed`, `recent`, `roles` and `gone` the structures of the
same purpose in `DiscoveryCaches`. `pc` says which reader the thread takes from
next, or that it holds the pass lock (`"apply"`); within the pass `stage`
and `moving` walk through `_apply_participant` and `_depart` effect by effect, so
that the structures are seen in every intermediate state, and the invariants
that speak of readers are stated for `LockFree`: a snapshot needs the lock. The
bus is external: an entity appears and leaves, and a reader holds one unread
sample per entity, as the depth-1 builtin readers do. Per reader a take returns
its samples in any order. A take that raises has removed and kept any subset.

**Guard.** `owner[l]` and `waiting[l]` are a lane's lock and `_waiting`;
`left[c]` is what remains of the call's budget, floored at zero, so that time is
relative and needs no bound. `pc[c]` follows `_run_in_lane` and
`_LaneState.acquire` between two blocking operations.

**Commands.** `up`, `grouped` and `holds` are what the operating system knows of
the processes: which run, which are in the launcher's process group, and which
hold the write end of a pipe. They fork, leave the group, close pipes, write
and exit at any moment, and may ignore SIGINT, so a signal that can be ignored
changes nothing but the history `signalled`. `reaped` matters because an
unreaped launcher keeps its group in existence (`GroupAlive`). `pc`, `until` and
`elapsed` are the caller's position, the end of its timed wait and
`time.monotonic()`; a caller that can move moves before time passes. In
`ProcessRun` output is counted, in `EchoStream` it is a sequence of lines
(their lengths, 0 for the separator), and pipe and queue are intervals of it.
The reader threads may lag: nothing bounds how long a line waits in a pipe.

**Graph history.** `ring`, `next` and `seeded` are `_items`, `_next` and
`_seeded`; `base`, `want` and `part` are the locals of `diff` and
`build_live_snapshot`. Calls follow one another: the ros lane has one worker, so the
locks of the ring and of the seed are never contended. A robot is a member of
`Graphs`: its nodes, its topics with type and counts, its writers with their profiles,
and the writers a listing of endpoints shows, since a listing stops at 500. It changes
between any two reads, so a snapshot may show the nodes of one graph and the
topics of the next. Each command is a read of its own: the names with their types (`ros2 topic list -t`), the counts of all
topics (`list -v`, which may fail), and one `topic info` per topic that is still without, whose failure leaves a 0
nothing marks in the snapshot. The subscription a `ros2` command leaves behind for two seconds is
one more change of the graph. `mode` is the adapter that serves: live, an explicit
mock (bags are fixtures too), or the mock as a fallback (bags are read, the graph is
a fixture). Changes are sets per kind; a missing field stands for `None`.

**QoS.** An endpoint of `bus` has its whole QoS; `tells` and `garbled` say what of
it discovery announces and what arrives with a duration nobody can read. Only policies DDS has a
default for are withheld at their default (Deadline, Partition); any optional one may be withheld
by a vendor, and a History that is withheld is filled in by the binding. `Listing` is
`endpoint_record` of each, and `ScanEndpoints` all of `scan_endpoints` but the hints. What DDS does
with a pair (`Flows`) is stated apart from the rules of the code. `Apply` is the human of
`qos_fixes.py`, who changes the endpoints a listed fix names, and the next scan is the
`verify_with` of that fix, scoped to its topic. A finding is a pair of texts, since the code groups by text.

**Whose participants.** In `Observer` a process of the bus is one participant. `said`
and `unread` are what it announced and what the reader holds of it, `names` the cache with the
current list and the last that had a node, `spawns` the ring `record_spawn` appends to under its
lock, `known` the status and first sighting the lifecycle buffer has. `Pass` is a whole pass of the
tracker (its inner steps are `DiscoveryTracker`'s); `call` is a handler that waits in
`await_discovery_ready`.

**Calls of several commands.** In `RosReads` `now` counts half seconds since the call began.
`Remaining` is the contextvar's deadline, `Clamp` the `clamp` of `budget.py`. A command
answers after one of `bus.delays`, and one that needs more than its wait is stopped, at most `Stop`
later, which is what `AnswersInTime` of `ros_command` says of one command. `worker` is the `/tf_static` thread with the
time its process ends, so that the join may time out. A frame is a number, a transform a record.

**Diagnose.** `left` is the time to the sweep's deadline; each adapter call takes one of `Delays` and raises when
that is more than what is left. `known` is what an earlier check left in the context for a later one, `reading` the loop of
`check_responsiveness` with the nodes to read, the one to read again, and those untested or unreadable. `robot` is
fixed during a sweep, except for how long a node takes to answer: each read picks a member of
`robot.reads`, so a node that timed out may answer the second time.

**Server.** `env` and `host` are the settings and what the host has (`ros2` on the path, a DDS binding, a
participant that can be created), fixed at start, and `adapter` what `factory.py` builds of them. `ros2` and `/clock` come and go
afterwards. A call is routed as `composite.py` does, and its answer is the labels it carries. `Unsaid` and `None` stand for what
is not said.

**Bags.** A bag is the sequence of its messages in reading order. `pass` holds what the scan has kept; the two readers
look at the clock every `CheckEvery` messages, and at each of those looks the time may be over. What the ROS host reads by `ros2 bag info` and
what the container says of itself are records of the bag.

**Rules asked once.** The remaining answers are functions of what was read. In `Tools`, `question` is that,
enumerated in the initial states of `MCTools`, and `given` the answer; the properties compare it with a
definition of their own (the lines that were printed, the bytes that were encoded, the distance by its recurrence). A text is a
sequence of lines [is, says], none where the command failed; a name is a sequence of parts or letters.
A message is a tree of texts, numbers, lists and mappings: `Echoed` is what the command prints of it under a
limit, `Normalize` what is read back, `CutPayload` the cut made here of a message read whole. A builtin sample keeps
what the binding gives for each attribute (bytes, a UUID, a wrapper, something else), so that the three readers of keys, in the
records of endpoints, in the counts and in a peek, can be compared.

## 3. The runs

| Run | Instance | Shows |
|---|---|---|
| `lifecycle` (`MCLifecycleBuffer.cfg`) | 3 participants in 2 domains, a map of 2, a ring of 3, clock to 2; 692 648 states | every safety property of the buffer and that it implements `ParticipantLog` |
| `tracker` (`MCTracker.cfg`) | 1 participant with a writer and a reader, 5 changes of the bus, 1 failed take, clock to 3, room for one departed, one removed and one role, fairness; 802 678 states | snapshots and losses, departures, convergence |
| `lane_guard` (`LaneGuard.cfg`) | 4 calls, 2 lanes, 1 waiter, budget 3 of which 2 to run in, fairness; 74 057 states | exclusion and no lock left behind, time to run, no wait for ever |
| `ros_command` (`RosCommand.cfg`) | a launcher and a child, all times 1, a cap of 1 and up to 2 written per pipe; streams of 4 lines for 2 documents; 341 901 states | safety of both kinds of command, and that writers are drained |
| `ros_reads` (`MCRosReads.cfg`) | calls of `inspect_tf` and of filtered samples with small and large budgets, commands that answer, fail or hang, quick, slow and loaded hosts, every graph of up to 4 edges on 4 frames; 66 782 states | calls of several commands end in time and tell what is missing |
| `graph_history` (`MCGraphHistory.cfg`) | 3 calls, a ring of 2, 2 nodes, 2 topics (one builtin), 5 graphs with one change, 3 bag paths, 3 modes, any command failing; 1 864 600 states | the ring, the chain of reports and the truth of each |
| `qos_repair` (`MCQosRepair.cfg`) | 3 endpoints of both mixes of roles, every policy varied, withheld and garbled, and pairs of policies, types, topics, hosts and vendors; lists cut to 1; 170 088 states | the truth of scans and the effect of fixes |
| `diagnose` (`MCDiagnose.cfg`) | robots that differ from a healthy one in one facet, 3 participants in every combination of lives and names, scopes, budgets of 10 to 40 s, queries of 0 or 3 s; 431 482 states | verdict, alarms, departures and cap of a sweep |
| `observer` (`MCObserver.cfg`) | 2 commands of TopicForge, 1 process of another machine with the same pid, 2 starts, 2 failed passes, clock to 4, a ring of 1; 3 229 492 states | node names, ghost flags, warm-up |
| `answers` (`MCTools.cfg`) | every setting on every host and every tool; bags of three series with up to three holes; one case per initial state of every rule; 1 009 705 states | what the answers of the tools say is so |
| `diagnose_silence`, `urdf_raise` | small instances | the two statements of section 4 the code does not meet |

**Why the bounds are enough.** Three participants are one more than the map
holds, so eviction meets both a tombstone and a live participant; the ring of
three drops events about participants still known. In the tracker, five changes are
two lives of a participant with its endpoints, so departures, rejoins and late
samples of the first life meet the second; one failed take splits a life over
two passes; a clock of three separates inside and outside of the removal window of
one; with room for one departed endpoint, the second evicts the first. `MaxRoles >= MaxRecent`
is the one relation between capacities the properties need, and the
code's constants satisfy it. In `lane_guard` four calls are one holder, one in
the queue, one refused and one in the other lane (or a fourth behind the
first); the budget of 3 leaves a wait of one tick and then a refusal. In
`ros_command` one child is enough to be an orphan, a daemon inside or outside
the group, a holder of either pipe, or born during the grace; four lines hold
a dropped message followed by one that fits, and two documents. With all times 1 every timed wait can
both end early and expire. In
`graph_history` three calls store one more than the ring holds (two more with snap-0), so ids held by a client are
dropped and asked for again; one change of the graph, starting from any, falls before, within
or after each snapshot and between any two of its commands; the graphs differ pairwise in nodes, topics, types, counts,
writers or only in the writers a listing shows, and one bag is unreadable. In `qos_repair`
one reader with two writers, or two with one, is what a shared fix, a second partner of a changed endpoint
and a cut list need; policies are compared one by one, so two that differ at once meet every order of
findings and preference of side; the deadlines include two that are written alike.

In `ros_reads` the waits are the code's own in half seconds; four frames are a root, a chain, a second parent and a
loop. In `diagnose` the floors and waits are the code's own in seconds, so a budget of 10 or 14 skips each check in turn, and three
participants are a node that left, its second life, and another that has its name. In `observer` a window of one second and a
clock of four let every spawn expire, and a ring of one evicts. `answers` keeps thresholds in proportion and small: names near by one
letter, three orphans and nine comparisons instead of 2, 200 and 20 000; three ranked beams instead of 20; two endpoints listed instead of 500;
three samples in one ring. The limits of the decoder (1024 nodes, 4096 letters, 65 536 gids) are the code's own, since they decide which
bytes the wrong width of gid could be taken for; announcements have up to two nodes and stay far below them, so the limits
themselves are not met. A schema nests as deep as one of the tools' does.

**What deadlock means here.** Nothing stops in the lifecycle, tracker and guard: the tracker loops
for ever, and threads of the guard are always free to start or to finish. A client of `qos_repair` can always scan again.
A command, a call, a sweep and an answer end, `graph_history` has a bounded number of calls and `observer` a bounded clock, so these runs do not check
deadlock; that no wait of a command is for ever is `AnswersInTime`, and of a call `EndsInTime`.

**Fairness.** The tracker thread loops until it is stopped, hence weak fairness
of `Pass` as a whole (not of a take succeeding: failed takes are bounded, as a
reader that raises for ever shows nothing). The middleware
disposes the endpoints of a participant that left, hence weak fairness of that
`Leaves`. In the guard, time passes and a scheduled thread takes its next step
(`WF(Tick)`, `WF(Step(c))`); there is none for `Start` or `Finish`, so a
handler may hang for ever and `NeverWaitsForEver` holds nonetheless. The steps
between two blocking operations take no time (`Tick` waits for them), and
a thread that answered takes a new call after a tick, which excludes runs of
infinitely many calls in no time.
In `ros_command` only the reader threads are fair: that is all `NeverBlocked` needs.
The other runs assume none: that their calls end is bounded by their clock, a safety property.

## 4. Where code and its words disagree

Two met while modelling, each with a run that reaches it:

1. `SilenceIsReported`: `docs/CONTRACT.md:1429` says an unnamed node is reported silent only after a second read
   timed out too, and `diagnose.py:796` that silence is a finding. `_answers_on_retry` (`diagnose.py:869`) takes every outcome of the
   second read but a timeout for an answer: a node that timed out and whose second read had no budget left, or failed, is neither found silent nor
   named as untested.
2. `UrdfNeverRaises`: `inspector.py:184` says `_read_urdf` never raises, since the tree is the result and the URDF
   only a comparison. When `/robot_description` is no topic the parameter is read, which first lists the nodes (`node_reader.py:112`)
   outside of any handler; a node list that fails or hangs loses the finished capture.

Others, seen in the models but without a run of their own:

- `CONTRACT.md:1399-1402` says a topic with `counts_unknown` reads 0 but is unknown, not an orphan, and `CONTRACT.md:1056` that a
  healthy graph diffed against itself gives no changes. `build_live_snapshot` (`graph_snapshot.py:102-105`) drops the mark, so
  when `ros2 topic list -v` and then a `ros2 topic info` fail, `graph_diff` reports counts that went to zero, and back the next time, on a graph
  that did not change. `ChangesAreReal` excepts counts that are zero in one of the two snapshots; without the exception TLC finds this.
- `discovery_tracker.py:190` says a reader never sees an endpoint both live and departed. One that is announced again (its
  participant's lease was renewed) is put in the live cache and stays in the departed one.
- `discovery_tracker.py:231` says events within one pass stay chronological. A participant born and gone between two
  passes is recorded lost without a DDS time, so its loss is dated by the local clock, later than the events that follow it.
- `discovery_tracker.py:81` calls a cache the map of the latest alive sample per entity. On a quiet bus an endpoint may be alive and
  missing for ever: the pass took its announcement before it was told of the return of its participant, and drops it.
- `qos_fixes.py:15` says identical findings share one set of fixes. They share it when their values are written alike, and
  a duration is written to six digits.
- Namespaced twins (`qos_scan.py:236`) compare names with their `rt/` prefix, so `rt/scan` and `rt/front/scan` are never
  told as twins.
- A gap of a TF edge is left out when any other series has one that covers it, also another edge of the same topic; `CONTRACT.md` 1529-1533 says when
  several series fall silent together.
- With `mode=auto`, no `ros2`, `dds=auto` and no binding, the server is the plain mock and says of the DDS half that nothing
  is inactive, though `mock/adapter.py:46` and the settings call `auto` an explicit request.
- `list_endpoints` with a `participant_guid` flags a topic `orphan` whose other side belongs to another participant.
- `health_check` says of the mock that the middleware is available on a host without a binding.
- A parameter key `ns/**` without its leading slash is neither evaluated nor named among the keys left out.
- `sample_messages` and `graph_diff` refresh the `/clock` hint too; its docstring names two other tools only.
- The backlog an echo drains at its start counts as intervals: with more than half of them, a steady publisher's rate reads
  intermittent.

## 5. The proofs

`OrderedMapLemmas` states what the map operators preserve (distinct keys,
length, membership), what `SortedBy` gives (a permutation in order, when the order is total) and how a selection
of a sequence grows by its next element (`SelectedNext`, `FirstsGrow`) once, for use by name.

`LifecycleBuffer_proofs`:
- `BufferCorrect`: `Spec => [](TypeOK /\ StatusAgrees /\ LossCountedOnce /\
  LossOnRecord /\ SourcesNotMixed)` for every set of participants, domains,
  capacities and clock. The invariants are not inductive alone: `LossCountedOnce` needs
  to know that a participant forgotten by the map does not
  come back as lost, and `LossOnRecord` needs that the loss with the recorded
  time is the last word about it; the induction is on their conjunction with
  the type invariant, one lemma per operation (`record_seen`, `record_lost`,
  eviction).
- `ForgetsTombstonesFirst`: `Spec => TombstonesFirst`, from the same invariant.
- `ReconcilesWhole`: `Spec => ReconcileComplete`. `Pending` is what carries over the steps of a
  reconciliation: a participant that is still to be marked is in the list that is left, since the lock is held and
  a visit changes no other entry (`LostLeaves`, `VisitLeaves`).
- `BufferKeepsPromise`: `Spec => KeepsPromise`, the refinement: the empty
  buffer maps to the initial state of `ParticipantLog` and every step to one of
  its steps or a stutter.

`DiscoveryTracker_proofs`, for any finite sets of participants and endpoints, whose guids differ (`EntityAssumption`), and any sizes of the structures.
The inductive invariant `IInv` has a part per question, each in need of those before it: `Types`; `Placed` (an endpoint is kept under its role
and owner, and a removal can be placed); `Departing` (each endpoint of the participant that departs is still to be visited, and only such a one is
live while its owner is gone); `Agree` (caches and lifecycle say the same of every participant but the one in hand); `Queued` (the samples
taken and not applied are in the order of their times, and the last of each participant, or the status it left, is the last taken); `Counted` (losses in the
log or on their way to it are departures that happened).
- `TypeCorrect`, `NoContradiction` (no snapshot has a participant both present and left, or a live endpoint of one that is
  gone), `LogCountsDepartures` and `DeparturesAreWhole` (`DepartsWhole`) hold whatever the capacities.
- `SnapshotsAreWhole` (`SnapshotWhole`) and `LossesAreTold` (`LossesAreTrue`) also ask that every participant is remembered, so they assume
  `RoomForAll`: the participants that ever appear fit into the maps (4096, 1000 and 4096 in the code). Beyond that the maps forget, as they are
  meant to, and what the first four say is what remains.

`Observer_proofs`, for any processes, pids, delays, windows and size of the ring (`ProcsAssumption`):
- `NamesOutliveGoodbye` (`NamesSurviveGoodbye`): a message cached is one that was said (`Heard`, `Believed`), and what the fold of a pass makes of
  zero to two messages is spelled out by `FoldedIs`.
- `NoRobotIsFlagged` (`RobotsAreNotGhosts`) and `CommandsAreTold` (`GhostsAreTold`): the ring of spawns is the newest part of all that were
  spawned (`IsRing`, kept by `RingPushed`). A command is told when fewer than a ring of others were spawned after it, which puts
  it in the ring (`YoungInRing`, by counting). That no two processes share the bits of a pid that are compared is a hypothesis of the property itself
  (`PidsDiffer`): the code cannot tell two that do.
- `WarmMeansHeard` (`WarmUpIsHonest`), over what `Warm` and `Clock` say of the thread's passes and the waits.

`CallBudget_proofs`, on the two parts that spend the budget of a call, the guard and the sweep:
- `GuardSafe`: `GuardSpec => []` of type correctness, exclusion with no leaked lock (`LaneExclusive`), the
  exact queue and the bound on blocked workers, for any finite set of calls, any lanes and
  any budget with `MinRun <= ToolBudget`. The inductive invariant adds that
  the owner of a lane is exactly the call past its lock (`OwnerAgrees`), from which
  exclusion follows, and that a waiting call has at least `MinRun` left (`WaitsInTime`).
- `GuardStartsInTime`: `GuardSpec => StartsInTime`, from `WaitsInTime`.
- For every robot, scope, budget, table of delays and cap of findings, over the inductive `SweepInv`: `left` is never
  below zero (`SweepInBudget`); what is planned, skipped and done is the scope (`Planned`); a finding found is true of
  the robot (`AllSound`); the node that waits for a second read is not the one asked for,
  and can be slow to answer (`SilentSoFar`); a check that ran with nothing found has
  shown that there was nothing to find (`RanTold`); the node asked for is judged or named as not (`NamedJudged`).
- `SweepAlarms` (`AlarmsAreEarned`) and `SweepGone` (`GoneMeansGone`) are `AllSound` read kind by kind; `SweepAllClear`
  (`AllClearIsEarned`) is `RanTold` with `Planned` and `NamedJudged`.
- `SweepCap` (`CapIsFair`) is a fact of the order `sorted()` gives: findings are finitely many (`FindingsFinite`) and totally ordered
  by rank and key, so what the cap keeps comes before what it drops.

`Answers_proofs`, first the commands, for any set of children, any times, caps and sizes:
- `CommandInTime` (`AnswersInTime`): the invariant `Clock` bounds, for each position of the
  caller, the end of the wait it is in.
- `NoOrphans` (`NothingSurvives`): after the kill the group is empty and only
  members fork into it (`Empty`).
- `DaemonsSpared` (`CleanExitSpares`): a run signals only where it timed out,
  and it timed out at its deadline (`Spared`, over `Clock`).
- `AnswersWhole` (`WholeAnswer`): a capture holds what has been taken from its pipe,
  a reader that ended left an empty pipe without writers (`Captured`), and a run in time has joined
  both readers (`BothJoined`).
- `StreamsWhole` (`DocumentsWhole`): `Collects` says what the collector has in hand, what it gathered, and that pipe, queue and collector
  share the lines between them in order; an end before the deadline leaves all three drained (`Drained`).

Then the answers of the tools, over `ServerSpec` and `ToolsSpec`:
- `AnswersAreServed` (`ServedAsSaid`), for any settings, machine, calls and order of calls (`ServingAssumption`). `ServerInv` adds to the
  property the history of the robot's clock, a set of values for every moment so far (`History`), and that the hint says what was so when
  it was taken (`HintWasSo`): a hint younger than its time to live then tells a moment within it. Labels and health are a case
  analysis of what the settings build; that kept samples fit the budget is an induction along the samples, over the recursive
  functions of `SampleBudget` and of `Spent` together.
- `PeeksGiveFirst` (`PeekIsFirst`), for any bag whose messages are no older than its start (`IsBagCall`), any range, filter, count
  and cap. The property selects the messages asked for at once; the code walks those of the topic and range, filters each and stops. `Along` joins
  the two: the samples so far are the selection among the messages scanned so far. A scanned message is the next of the selection or is not in
  it (`ScanNext`), and a selection of the first part is the beginning of the whole one (`KeptFirst`).
- `ParamVerdictsHold` (`ParamVerdictsAreTrue`), for any node, file and caps (`IsNode`, `IsFile`: finitely many names, typed values). The closest
  section that has a name exists and is one, by the rank and then the place (`ClosestHolds`), so what the file declares and the property's
  choice are one value (`ClosestGives`); equal values are cut alike (`CutAlike`), so a verdict on cut values holds up to the
  cut (`VerdictOf`); the first names are all or as many as the cap (`FirstOf`), so a name that is not read and may still be on the node
  comes with the note.

`LiveReads_proofs`, first the history, for any graphs, bags, paths, modes and any size of the ring:
- `RingHolds` (`RingIsHistory`): a ring that is the newest `RingSize` elements of a sequence is so
  again after a push (`PushNewest` of `OrderedMapLemmas`); the strengthening (`Shape`)
  says that nothing is stored before the first call, where snap-0 goes in.
- `IdsNeverReused`: no step makes an id in the ring name another snapshot, since an entry is
  snap-0 or the history's entry of its number (`Entries`), and the history only grows.
- `ReportsAreTrue` (`ReportsHold`): the nodes of a snapshot, and its topics with their types, are those of one moment since its call began, and
  the counts of each topic are those of one such moment or zero (`Past`, `Listed`, `Had`, `Reading`), which the robot's later changes
  leave so (`StillSo`); a base is a snapshot that was told (`Based`, `Told`), and differences compose (`Composes`). A bag's path is no number of a snapshot (`PathAssumption`).

Then the calls of several commands, for any bus, budgets, windows, timeouts and counts (`CallsAssumption`):
- `ReadsEndInTime` (`EndsInTime`): `ReadsInv` bounds `now` step by step. A step's wait is clamped to what is left less a reserve, and the
  reserve is longer than stopping its command, so the next step begins within the budget; the thread's wait was clamped the same way before it was started, so
  the join, which waits that long and a slack, outlives its process (`ThreadInTime`). A sample carries the deadline it was given (`SampleInTime`).
- `ReadsTellSilence` (`SilenceIsEarned`): `HeardInv` says that a part which is missing has its note already, per part of the answer
  (`ThreadHeard`, `WindowHeard`, `UrdfHeard`); notes only grow. That as many documents as publishers are all of what they latched is
  counted by an injection (`AllLatched`), so each publisher latches one.
- `ReadsGiveNewest` (`FilteredIsNewest`): `LogHeard`, and what a stable sort by stamp keeps when it is cut to its end (`NewestKept`).
- `ReadsTellTheTree` (`TreeAlarmsAreTrue`), for any capture: it is finite (`CaptureFinite`), of any number of frames.
  - The shape. The walk of `_cycle_findings` takes at most one step per frame with a parent, so it ends at a frame without one or goes
    round (`WalkEnds`); a walk that goes round gives a set of frames whose parents are in it, so none of them hangs from a root
    (`TreeHasNoRound`), and a frame that hangs from no root is on a walk that goes round (`RoundIsWalked`). With one root and one parent each,
    there is no such walk exactly when the transforms are one tree (`ShapeIsTold`).
  - The path. `Searched` is the invariant of the search: the frames found have a distance, one more than that of the frame
    they were found from; the queue is in the order of the distances, which differ by one at most; the neighbours of a frame that was taken are found. Each
    step takes one frame and no frame comes back, so it ends within as many steps as there are frames (`SearchEnds`). No chain of transforms
    reaches a frame in fewer steps than its distance (`NoChainBefore`), and the chain read back along the search joins the two
    frames in just as many (`PathJoins`).
  - Silent edges. A frame has one parent, whose edge is then the chosen one and stale (`OnlyParent`), or it has more and is told so.

`QosRepair_proofs`, for all endpoints, kinds and durations:
- `VerdictsHold` (`VerdictsAreTrue`): a scan that was read is the scan of the bus (`VerdictsInv`). The argument follows the code: a
  profile of what is announced is known or its default (`KnownIsOwn`), each rule agrees with DDS on what is known
  (`PoliciesAreTrue`, `PartitionsJoin`), so every pair's verdict does, and each list is exactly its pairs
  (`PairsListed`, `QosFixesListed`, `ScanListed`). A listed fix sets a value an endpoint can have (`FixSettable`), so the bus stays one
  (`BusKept`). `BusAssumption` says what an endpoint is, `CoversAssumption` that a name of a partition covers itself.
- `FixServes`: DDS serves each policy of a fix on the pair it was made from.
- `FixRelaxes`: the value a fix gives a reader accepts every writer the old one accepted, and a
  writer's serves every reader the old one served, Ownership excepted. Both rest on what `Serves` says of ranks
  (`DurabilityServed`, `LivelinessServed`). They are about the operators.
- `FixesCure` (`FixCures`): that the loop applies them to the right endpoints. `CuresInv` adds to `VerdictsInv` what a scan
  and a fix leave to each other. Where the pairs a fix is for had the same values (`Exact`; the code groups pairs by their
  policies, not by the values), the edits of its ends serve them all (`RxoFixCures`, `PartitionFixCures`) and no other pair of those ends loses
  its data (`OneSide`); the next scan finds nothing of these policies left between them (`ScanConfirms`). The place in the list is the order of the code's loop: the fix is made at the first of its
  findings (`FirstTwin`), and findings are taken by severity (`FindingsOrdered`).

Assumptions are the named `ASSUME`s of the modules: types of the constants, and little about their size beyond positivity. Four
say more, each what the code's constants satisfy: `BudgetAssumption` (`MIN_RUN_S` is within the budget of a call), `CapacityAssumption` (as many removal
roles as recent removals at least), that a call of the sweep begins with its `_RESERVE_S` of 2 s (`IsCall`; `StartsInTime`
gives it `MIN_RUN_S`, 5 s), and that `ros2 topic info` counts no publisher of `/tf_static` or as many as ever latch on it
(`IsBus`; a publisher that comes or goes during the capture is outside of the model). `IsBagCall`, `IsNode` and `IsFile` say what the
questions of `Tools` are, and its initial states are the ones that satisfy them.

Only model-checked, and why:
- Liveness (`ViewConverges`, `NeverWaitsForEver`, `NeverBlocked`) is outside the prover's reach.
- `ReadBackWhole`, which compares a decoder with an encoder: `WireRules` has RECURSIVE operators, which the prover does not take.
- `BagSummaryIsTrue`, `CountsAddUp` and `RatesAreTrue`: what they are about is computed by folds of the community modules (sums, sorts,
  automata over lines, the band of an edit distance), and what a fold gives for every input is an induction the prover cannot instantiate.

Where a proof had to go through a recursive function, it is of a bounded number of unfoldings (`FoldedIs`) or an induction
by the least counterexample, which needs no theorem with an operator for a parameter.

## 6. Not modelled

- In the tracker: `stop` and a `start` after a join that timed out, and
  an apply that raises half-way (its hazard is listed without a property: what can raise there is the decoding of malformed samples' names and
  addresses, data the model leaves out). The
  removal-role map keeps a role and a time, other payloads are identities.
- In `Observer`: no pid is reused within the window, no robot's process of this host shares the low 16 bits of its pid (4 in the model) with a command, a participant is one process, and the name
  cache (1024 participants) does not evict.
- In the guard: what a handler does, argument validation, telemetry.
- In the process tree: the Windows job object (platform API), the refusal to signal
  init's or the own group, signals that are not permitted, the reuse of a process id while a
  call runs, and an exception in the caller's waits. The wait for a launcher that was just killed
  (`proc.wait(2.0)`, `process_tree.py:157`) takes no time. The texts of an answer are
  read in one step: readers left behind by a kill may add to them while they are read.
- Text and bytes: the syntax of YAML, the text of `ros2 bag info` and of `ros2 param dump`, numbers in text; the
  SQLite and MCAP containers; CDR and XTypes payloads and the experimental typed decode. What each gives is a record, and that it may fail is kept.
- In the calls of several commands: documents of the capture that cannot be decoded, or not within a grace of their own, are dropped and counted
  (`_decode`, `tf_capture.py:118-137`); every document of the model is decoded. The answer of one command is the graph of one moment.
- Summaries that copy fields (odometry, IMU, images, clouds, action status): no decision a property could be about.
- Cuts of a float that is not finite: under a limit of 3 characters or less the command prints it whole, while `cut_payload` cuts its
  text (`echo_parser.py:139`), so the answer of a scan differs there from that of a type streamed as printed; `EchoReadBack` leaves that
  case out and holds in every other.
- The wording of notes, evidence and findings; the ranges of each tool's arguments (a call outside is refused); descriptions, prompts,
  the HTTP transport and the MCP SDK.
- In the graph history: sentences and their order, times shown, the warning of a
  lingering reader. Its age counts from the start of a command, so after a
  sampling of more than five seconds it is not given (`graph_snapshot.py:100`). A topic whose QoS
  or rate is known on one side only is passed over without a word, by the rules as the model has them.
- In the QoS scan: the texts of fixes and their tradeoffs, hints on type ids and counts. Names of partitions are members of a set with a relation
  `Covers` for what `*` and `?` match. A writer that offers several representations uses the first, but normalization
  does not keep their order, so an all-clear is not claimed of it (`qos_analyzer.py:144`). Several fixes of one scan applied without
  a scan in between are not the documented procedure and are not modelled.
- In `Diagnose`: the robot does not change during a sweep but for how long its nodes take to answer; each check sees what the
  adapters would give, whose own truth is the other modules'.
- Telemetry (one event per call, every failure swallowed), the models (declarations; definitions that build a record are mapped to it), the mock's
  fixtures and the comparison scripts under `scripts/`, which no tool runs.

## 7. Plan

Done: every component but telemetry and the models, in the modules of section 2; proofs of every safety property of the lifecycle buffer, the tracker,
the observer, the guard, the sweep, commands, the calls of several commands, graph history and the QoS loop,
and of the server's answers, the peek and the parameter verdicts. What is not proved is the list at the end of section 5.

Runs are added only where a component asks a question of its own; the pure
rules share one.
