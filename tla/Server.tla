------------------------------- MODULE Server -------------------------------
(***************************************************************************)
(* From the settings to an answer: config/settings.py, services/factory.py *)
(* health.py, inspector.py, sample_budget.py, dds_views.py, adapters/      *)
(* composite.py, ros2_live/adapter.py, ros2_mock/adapter.py, dds_cyclone/  *)
(* adapter.py and tools/handlers.py.  The settings and the host decide     *)
(* once which backends serve; each tool is then routed to one of them, and *)
(* its answer says where its data came from.  How a backend makes the      *)
(* answer is in the other modules; a bag is read by BagReads.              *)
(***************************************************************************)
EXTENDS Integers, Sequences, FiniteSets

CONSTANTS ClockHintTtl,    \* _CLOCK_HINT_TTL_SEC, in ticks
          MaxDomain,       \* _DDS_DOMAIN_MAX
          MaxSampleCount,  \* MAX_SAMPLE_COUNT
          CallFactor,      \* MAX_SAMPLE_CALL_FACTOR
          Asks,            \* the calls a client may make
          MaxTime          \* bound: ticks

(* Which tool asks which half.                                             *)
RosTools == {"list_topics", "get_topic_info", "list_nodes", "get_node_info", "inspect_tf",
             "sample_messages", "graph_diff"}
DdsTools == {"list_participants", "detect_qos_mismatches", "peek_dds_samples",
             "participant_events", "topic_metrics", "list_endpoints"}
BagTools == {"analyze_bag", "peek_bag_samples"}

(* A call names a tool; its samples have sizes, and per is what one may    *)
(* have.                                                                   *)
ASSUME ServingAssumption ==
  /\ {ClockHintTtl, MaxDomain, MaxSampleCount, CallFactor, MaxTime} \subseteq Nat
  /\ \A ask \in Asks : /\ ask.tool \in RosTools \cup DdsTools \cup BagTools
                       /\ ask.count \in Int /\ ask.per \in Nat
                       /\ ask.sizes \in Seq(Nat)

VARIABLES env,      \* what the environment asks for
          host,     \* what the machine has: ros2 on PATH, the binding, whether it starts
          adapter,  \* what build_adapter returned
          clock,    \* somebody publishes /clock
          now,
          hint,     \* the ROS half's memory of the last graph read
          reply,    \* the last call and its answer
          truth     \* history: the values clock had in each tick

servervars == <<env, host, adapter, clock, now, hint, reply, truth>>

Off == [ros |-> "off", dds |-> "off", reason |-> "none", realBags |-> FALSE]
NoHint == [known |-> FALSE, published |-> FALSE, at |-> 0]
NoReply == [tool |-> "none"]

-----------------------------------------------------------------------------
(* Settings: an invalid value stops the server before it serves.           *)
ValidEnv == /\ env.mode \in {"auto", "live", "mock"}
            /\ env.dds \in {"auto", "mock", "cyclone"}
            /\ env.domain \in 0 .. MaxDomain

EffectiveMode == IF env.mode = "auto" THEN (IF host.ros2 THEN "live" ELSE "mock") ELSE env.mode
EffectiveDds ==
  CASE env.mode = "mock" -> "mock"
    [] env.mode # "mock" /\ env.dds # "auto" -> env.dds
    [] OTHER -> IF host.binding THEN "cyclone" ELSE "mock"

(* build_adapter and _dds_inactive_reason.                                 *)
DdsStarts == EffectiveDds = "cyclone" /\ host.binding /\ host.starts
InactiveReason_unprobed ==
  IF EffectiveDds = "mock"
    THEN IF env.dds = "auto" THEN "auto found no binding" ELSE "not selected"
    ELSE "failed to start"
InactiveReason ==
  CASE EffectiveDds = "mock" /\ env.dds = "auto" -> "auto found no binding"
    [] EffectiveDds = "mock" /\ env.dds # "auto" /\ host.binding -> "not selected"
    [] EffectiveDds = "mock" /\ env.dds # "auto" /\ ~host.binding -> "not selected, not installed"
    [] EffectiveDds # "mock" /\ ~host.binding -> "not installed"
    [] OTHER -> "failed to start"
MockAdapter(reason) ==
  [ros |-> "mock", dds |-> "mock", reason |-> reason, realBags |-> env.mode # "mock"]
LiveAdapter(ros, dds, reason) ==
  [ros |-> ros, dds |-> dds, reason |-> reason, realBags |-> TRUE]
BuildAdapter ==
  IF EffectiveMode = "mock" /\ EffectiveDds = "mock" THEN MockAdapter("none")
  ELSE CASE host.ros2 /\ DdsStarts -> LiveAdapter("ros2_cli", "cyclone", "none")
         [] ~host.ros2 /\ DdsStarts -> LiveAdapter("none", "cyclone", "none")
         [] host.ros2 /\ ~DdsStarts -> LiveAdapter("ros2_cli", "none", InactiveReason)
         [] OTHER -> MockAdapter(IF env.dds # "mock" THEN InactiveReason ELSE "none")

AdapterMode == IF adapter.ros = "mock" THEN "mock" ELSE "live"
Serving == adapter # Off
Idle == Serving /\ reply = NoReply

-----------------------------------------------------------------------------
(* Which tool asks in which lane.                                          *)
Lane(tool) == CASE tool \in RosTools \cup {"analyze_bag", "diagnose"} -> "ros"
                [] tool \in DdsTools -> "dds"
                [] OTHER -> "none"

(* The Inspector refuses a malformed call before any backend hears of it.  *)
Refused(ask) ==
  \/ ask.count < 0 \/ ask.domain \notin 0 .. MaxDomain
  \/ ~ask.inRange              \* windows, timeouts, lengths, frames, paths
  \/ ask.name.shape = "bad"
  \/ ask.tool \in {"get_topic_info", "sample_messages"} /\ ask.name.shape # "ros"

(* Where the data of a routed call comes from, or why it cannot: a half    *)
(* that does not serve a tool says so.                                     *)
MockSource(tool) == IF tool \in BagTools /\ adapter.realBags THEN "bag" ELSE "fixtures"
RosHalf == IF adapter.ros = "ros2_cli" THEN "cli" ELSE "DDS only"
DdsHalf == IF adapter.dds = "cyclone" THEN "bus" ELSE "DDS not active"
SourceOf(tool) ==
  CASE adapter.ros = "mock" -> MockSource(tool)
    [] adapter.ros # "mock" /\ tool \in BagTools -> "bag"
    [] adapter.ros # "mock" /\ tool \in RosTools -> RosHalf
    [] OTHER -> DdsHalf
Sources == {"fixtures", "bag", "cli", "bus"}

(* A bag's own answer says live; the fixtures say mock.                    *)
LabelOf(source) == CASE source = "fixtures" -> "mock" [] source = "bag" -> "live"
                     [] OTHER -> AdapterMode

(* apply_sample_budget over the sizes of the samples: the ones kept.       *)
SampleBudget(sizes, per) ==
  LET spend[i \in 0 .. Len(sizes)] ==
        IF i = 0 THEN [kept |-> <<>>, total |-> 0, big |-> 0, over |-> 0]
        ELSE LET done == spend[i - 1]
             IN  IF sizes[i] > per THEN [done EXCEPT !.big = @ + 1]
                 ELSE IF done.total + sizes[i] > per * CallFactor
                   THEN [done EXCEPT !.over = @ + 1]
                 ELSE [done EXCEPT !.kept = Append(@, i), !.total = @ + sizes[i]]
  IN  spend[Len(sizes)]

(* list_participants and participant_events: the adapter observes the      *)
(* domain it joined, whatever was asked; the fixtures answer by domain.    *)
AnsweredDomain(ask) == IF adapter.dds = "cyclone" THEN env.domain ELSE ask.domain
DomainNote(ask) == adapter.dds = "cyclone" /\ ask.domain \notin {0, env.domain}

Answer(ask, source, kept, notes) ==
  [tool |-> ask.tool, ask |-> ask, source |-> source, label |-> LabelOf(source),
   domain |-> AnsweredDomain(ask), kept |-> kept, notes |-> notes]
Failure(ask, why) == [tool |-> ask.tool, ask |-> ask, source |-> "none", why |-> why]

Sampling == {"sample_messages", "peek_bag_samples"}
Fewer(m, n) == IF m <= n THEN m ELSE n
Clamped(ask) == Fewer(ask.count, MaxSampleCount)
SampleNotes(ask, budget) ==
  (IF ask.tool = "sample_messages" /\ ask.count > Clamped(ask) THEN {"count capped"} ELSE {})
  \cup (IF budget.big > 0 THEN {"too big"} ELSE {})
  \cup (IF budget.over > 0 THEN {"per-call cap"} ELSE {})
Given(ask, source) ==
  LET budget == SampleBudget(SubSeq(ask.sizes, 1, Fewer(Clamped(ask), Len(ask.sizes))), ask.per)
  IN  Answer(ask, source, budget.kept,
        SampleNotes(ask, budget)
        \cup (IF ask.tool \in DdsTools /\ DomainNote(ask) THEN {"domain ignored"} ELSE {}))

-----------------------------------------------------------------------------
(* health_check never raises.  It runs no command, so what it says of      *)
(* /clock is what the last graph read saw.                                 *)
SimClockPublished_forever ==
  IF adapter.ros # "ros2_cli" \/ ~hint.known THEN "unknown"
  ELSE IF hint.published THEN "yes" ELSE "no"
SimClockPublished ==
  IF adapter.ros # "ros2_cli" \/ ~hint.known \/ now - hint.at > ClockHintTtl THEN "unknown"
  ELSE IF hint.published THEN "yes" ELSE "no"
Rmw == CASE adapter.ros # "ros2_cli" -> "none"
         [] adapter.ros = "ros2_cli" /\ env.rmw -> "env"
         [] OTHER -> IF env.distro THEN "distro_default" ELSE "none"
Secured == adapter.ros = "ros2_cli" /\ env.secured
MiddlewareAvailable == adapter.dds # "none" \/ (env.dds = "cyclone" /\ host.binding)
InactiveNote == IF adapter.dds \in {"none", "mock"} THEN adapter.reason ELSE "none"
Report ==
  [tool |-> "health_check", source |-> "none", mode |-> AdapterMode, requested |-> env.mode,
   ros |-> adapter.ros, dds |-> adapter.dds, ros2 |-> host.ros2, domain |-> env.domain,
   inactive |-> InactiveNote,
   observes |-> adapter.dds # "none", sim |-> SimClockPublished, rmw |-> Rmw,
   secured |-> Secured, middleware |-> MiddlewareAvailable]

-----------------------------------------------------------------------------
ServerInit ==
  /\ host \in [ros2 : BOOLEAN, binding : BOOLEAN, starts : BOOLEAN] /\ clock \in BOOLEAN
  /\ adapter = Off /\ now = 0 /\ hint = NoHint /\ reply = NoReply
  /\ truth = [t \in {0} |-> {clock}]

Start ==
  /\ ~Serving /\ ValidEnv
  /\ adapter' = BuildAdapter
  /\ UNCHANGED <<env, host, clock, now, hint, reply, truth>>

HealthCheck ==
  /\ Idle /\ reply' = Report
  /\ UNCHANGED <<env, host, adapter, clock, now, hint, truth>>

(* ros2 is looked up at every command.  A graph read that shows /clock, or *)
(* its absence, leaves the hint behind, whatever comes of the call.        *)
Works(source) == source \in Sources /\ (source = "cli" => host.ros2)
ReadsClock(ask) == \/ ask.tool \in {"list_topics", "graph_diff"}
                   \/ ask.tool \in {"get_topic_info", "sample_messages"} /\ ask.name.is = "/clock"
Remembers == hint' = [known |-> TRUE, published |-> clock, at |-> now]

Answers(ask, source) ==
  /\ Works(source)
  /\ reply' = Given(ask, source)
  /\ IF source = "cli" /\ ReadsClock(ask)
       THEN Remembers \/ (ask.tool \in {"list_topics", "graph_diff"} /\ UNCHANGED hint)
       ELSE UNCHANGED hint
Fails(ask, source) ==
  /\ reply' = Failure(ask, IF source \in Sources THEN "failed" ELSE source)
  /\ \/ /\ Works(source) /\ source = "cli" /\ ReadsClock(ask)
        /\ ask.tool \in {"sample_messages", "graph_diff"}
        /\ Remembers
     \/ UNCHANGED hint

Serve(ask) ==
  /\ Idle
  /\ IF Refused(ask) THEN reply' = Failure(ask, "refused") /\ UNCHANGED hint
     ELSE Answers(ask, SourceOf(ask.tool)) \/ Fails(ask, SourceOf(ask.tool))
  /\ UNCHANGED <<env, host, adapter, clock, now, truth>>

(* The client takes the answer; the world goes on between calls.           *)
Taken ==
  /\ Serving /\ reply # NoReply /\ reply' = NoReply
  /\ UNCHANGED <<env, host, adapter, clock, now, hint, truth>>
ClockChanges ==
  /\ Idle /\ clock' = ~clock /\ truth' = [truth EXCEPT ![now] = @ \cup {~clock}]
  /\ UNCHANGED <<env, host, adapter, now, hint, reply>>
Ros2ComesOrGoes ==
  /\ Idle /\ host' = [host EXCEPT !.ros2 = ~@]
  /\ UNCHANGED <<env, adapter, clock, now, hint, reply, truth>>
Tick ==
  /\ Idle /\ now < MaxTime
  /\ now' = now + 1
  /\ truth' = [t \in 0 .. now + 1 |-> IF t \in DOMAIN truth THEN truth[t] ELSE {clock}]
  /\ UNCHANGED <<env, host, adapter, clock, hint, reply>>

ServerNext ==
  \/ Start \/ HealthCheck
  \/ \E ask \in Asks : Serve(ask)
  \/ Taken \/ ClockChanges \/ Ros2ComesOrGoes \/ Tick

ServerSpec == ServerInit /\ [][ServerNext]_servervars

-----------------------------------------------------------------------------
Replied == "source" \in DOMAIN reply
Answered == Replied /\ "label" \in DOMAIN reply

(* Fixtures are never called live and nothing measured is called mock; a   *)
(* server told to mock measures nothing; a call that runs the ros2 command *)
(* holds the lane of those calls, one that reads the bus never does.       *)
LabelsAreTrue ==
  Answered =>
    /\ reply.label = "mock" <=> reply.source = "fixtures"
    /\ env.mode = "mock" => reply.source = "fixtures"
    /\ reply.source = "cli" => Lane(reply.tool) = "ros"
    /\ reply.source = "bus" => Lane(reply.tool) # "ros"

(* The bytes of the samples kept.                                          *)
Spent(sizes, kept) ==
  LET sum[p \in 0 .. Len(kept)] == IF p = 0 THEN 0 ELSE sum[p - 1] + sizes[kept[p]]
  IN  sum[Len(kept)]

(* What an answer says of its domain is where its records are from, and a  *)
(* domain asked for and not observed is told; fewer samples than asked for *)
(* come with a note, and together they fit the budget.                     *)
SaysWhatItLeft ==
  Answered =>
    /\ (reply.tool \in {"list_participants", "participant_events"} /\ reply.source = "bus") =>
         /\ reply.domain = env.domain
         /\ reply.ask.domain \notin {0, env.domain} => "domain ignored" \in reply.notes
    /\ reply.tool \in Sampling =>
         /\ \A p \in DOMAIN reply.kept : reply.ask.sizes[reply.kept[p]] <= reply.ask.per
         /\ Spent(reply.ask.sizes, reply.kept) <= CallFactor * reply.ask.per
         /\ Len(reply.kept) < Fewer(Clamped(reply.ask), Len(reply.ask.sizes)) =>
              reply.notes \cap {"too big", "per-call cap"} # {}

(* health_check: the backends it names are the ones that would answer, the *)
(* reason it gives for a missing one is the cause, a backend asked for by  *)
(* name that does not serve always has one, and what it says of /clock was *)
(* so within the life of the hint.                                         *)
HealthIsTrue ==
  (Replied /\ reply.tool = "health_check") =>
    /\ reply.ros = "none" <=> \A t \in RosTools : SourceOf(t) \notin Sources
    /\ reply.dds = "none" <=> \A t \in DdsTools : SourceOf(t) \notin Sources
    /\ reply.mode = "mock" <=> \E t \in RosTools \cup DdsTools : SourceOf(t) = "fixtures"
    /\ (env.dds = "cyclone" /\ env.mode # "mock" /\ reply.dds # "cyclone") => reply.inactive # "none"
    /\ reply.inactive \in {"not installed", "auto found no binding", "not selected, not installed"} =>
         ~host.binding
    /\ reply.inactive \in {"not selected", "failed to start"} => host.binding
    /\ reply.inactive = "failed to start" => ~host.starts
    /\ reply.sim = "yes" => \E t \in DOMAIN truth : now - t <= ClockHintTtl /\ TRUE \in truth[t]
    /\ reply.sim = "no" => \E t \in DOMAIN truth : now - t <= ClockHintTtl /\ FALSE \in truth[t]

(* The tools answer from the backends health_check names, and what an      *)
(* answer says of its source, its domain and its size is so.               *)
ServedAsSaid == LabelsAreTrue /\ SaysWhatItLeft /\ HealthIsTrue
=============================================================================
