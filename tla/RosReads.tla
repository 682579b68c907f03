------------------------------ MODULE RosReads ------------------------------
(***************************************************************************)
(* inspect_tf and sample_messages on the live adapter: ros2_live/          *)
(* tf_capture.py, sampler.py, node_reader.py and services/inspector.py.    *)
(* A call has a budget, every blocking step takes its wait out of what is  *)
(* left of it, and the echo of /tf_static runs in a worker thread while    *)
(* the calling thread listens to /tf.  now counts half seconds since the   *)
(* call began.  A ros2 command that is stopped on its deadline is gone at  *)
(* most Stop later; decoding lasts at most Grace past its deadline.        *)
(***************************************************************************)
EXTENDS TfTree

CONSTANT Calls     \* [ask, bus]: what is asked, and of which bus

(* sample_messages is asked of a topic by name, for a count of messages.   *)
(* Times are not negative; a capture of the TF tree and a read of /rosout  *)
(* stop at ask.docs documents.                                             *)
Topics == {"tf_static", "tf", "robot_description", "rosout"}
IsAsk(a) ==
  /\ a.budget \in Nat
  /\ IF a.tool = "inspect_tf" THEN a.window \in Nat
     ELSE a.tool \in Topics /\ {a.timeout, a.count} \subseteq Nat
  /\ a.tool \in {"inspect_tf", "rosout"} => a.docs \in Nat

(* What a topic says is a sequence of documents.  ros2 topic info tells no *)
(* publisher of /tf_static, or as many as ever latch on it.                *)
IsBus(b) ==
  /\ b.delays \subseteq Nat
  /\ \A t \in Topics : b[t].docs \in Seq(Range(b[t].docs)) /\ b[t].publishers \in Nat
  /\ \A t \in {"tf_static", "tf"} : \A d \in Range(b[t].docs) :
       IsFiniteSet(d.tfs) /\ \A s \in d.tfs : {s.parent, s.child} \subseteq Nat \ {None}
  /\ b["tf_static"].publishers > 0 =>
       \A d \in Range(b["tf_static"].docs) : d.from \in 1 .. b["tf_static"].publishers
  /\ \A d \in Range(b["rosout"].docs) : d.stamp \in Int

ASSUME CallsAssumption == \A c \in Calls : IsAsk(c.ask) /\ IsBus(c.bus)

VARIABLES ask, bus, now,
          phase,    \* the step the calling thread is at
          info,     \* the publishers the last topic info announced
          worker,   \* the /tf_static thread: its run, and when it ends
          static, dynamic,   \* the documents read
          notes, failures,
          reading,  \* the sample_messages in progress
          result    \* its documents, or the robot description

readsVars == <<ask, bus, now, phase, info, worker, static, dynamic, notes, failures, reading, result>>

Sec(n) == 2 * n
Stop == Sec(2)
Grace == Sec(1)
StopReserve == Sec(3)
StaticMinWait == Sec(6)
JoinSlack == Sec(3)
GraphQuery == Sec(8)
NoPublisherWait == Sec(2)
MinStream == 1
UrdfRead == Sec(6)
UrdfReserve == Sec(3)
UrdfMinRead == Sec(2)
CliTimeout == Sec(8)
LookupWait == Sec(3)
DecodeReserve == 1
ParamReserve == Sec(2)

(* budget.py *)
Remaining == ask.budget - now
Clamp_noReserve(wait, reserve) == MinOf({wait, Remaining})
Clamp(wait, reserve) == MinOf({wait, Remaining - reserve})
AtLeast(low, x) == MaxOf({low, x})

(* A command would answer in a time of bus.delays; one that needs more     *)
(* than its wait is stopped.  On a loaded host stopping and decoding take  *)
(* their time too.                                                         *)
Answered(wait) == {d \in bus.delays : d <= wait}
TooSlow(wait) == \E d \in bus.delays : d > wait
Stopped(wait) == {wait} \cup (IF bus.loaded THEN {wait + Stop} ELSE {})
Decoding == {0} \cup (IF bus.loaded THEN {Grace} ELSE {})

(* stream_echo: count documents, or fewer by the deadline or by an early   *)
(* exit.                                                                   *)
Echo(topic, count, wait) ==
  LET docs == bus[topic].docs
      run(n, exited, took) == [docs |-> SubSeq(docs, 1, n), exited |-> exited, took |-> took]
      fewer == 0 .. MinOf({count - 1, Len(docs)})
  IN  {run(count, FALSE, d) : d \in IF count > Len(docs) THEN {} ELSE Answered(wait)}
      \cup {run(n, FALSE, d) : n \in {m \in fewer : m = Len(docs) \/ TooSlow(wait)},
                              d \in Stopped(wait)}
      \cup {run(n, TRUE, d) : n \in IF bus[topic].exits THEN fewer ELSE {}, d \in Answered(wait)}

NoThread == [on |-> FALSE, ends |-> 0, started |-> 0, wait |-> 0, expected |-> 0,
             docs |-> <<>>, raised |-> FALSE]
Sampling(topic, count, timeout, started) ==
  [topic |-> topic, count |-> count, timeout |-> timeout, started |-> started,
   streamed |-> <<>>]
NoSampling == Sampling("none", 0, 0, 0)

ReadsInit ==
  /\ \E c \in Calls : ask = c.ask /\ bus = c.bus
  /\ now = 0
  /\ phase = IF ask.tool = "inspect_tf" THEN "static info" ELSE "lookup"
  /\ info = 0 /\ worker = NoThread /\ static = <<>> /\ dynamic = <<>>
  /\ notes = {} /\ failures = {}
  /\ reading = IF ask.tool = "inspect_tf" THEN NoSampling
               ELSE Sampling(ask.tool, ask.count, Clamp(ask.timeout, StopReserve), 0)
  /\ result = <<>>

Takes(d) == now' = now + d
Note(n) == notes' = notes \cup {n}
Failure(n) == Note(n) /\ failures' = failures \cup {n}
Unnoted == UNCHANGED <<notes, failures>>
Same == UNCHANGED <<ask, bus>>

-----------------------------------------------------------------------------
(* _info_or_note, of a topic; then is the step of a topic that announces   *)
(* publishers, else the step after it.                                     *)
InfoOrNote(topic, then, else) ==
  LET wait == Clamp(GraphQuery, StopReserve)
  IN  \/ /\ wait <= 0
         /\ Failure(<<topic, "no time to look it up">>)
         /\ phase' = else /\ UNCHANGED <<now, info>>
      \/ /\ wait > 0 /\ bus[topic].info = "absent"
         /\ \E d \in Answered(wait) : Takes(d)
         /\ Note(<<topic, "not found">>) /\ UNCHANGED <<failures, info>>
         /\ phase' = else
      \/ /\ wait > 0 /\ (bus[topic].info = "fails" \/ TooSlow(wait))
         /\ \E d \in Stopped(wait) : Takes(d)
         /\ Failure(<<topic, "could not be read">>)
         /\ phase' = else /\ UNCHANGED info
      \/ /\ wait > 0 /\ bus[topic].info = "listed"
         /\ \E d \in Answered(wait) : Takes(d)
         /\ info' = bus[topic].publishers
         /\ Unnoted
         /\ phase' = then

StaticInfo ==
  /\ phase = "static info" /\ InfoOrNote("tf_static", "static start", "tf info")
  /\ Same /\ UNCHANGED <<worker, static, dynamic, reading, result>>

StaticStart_oneMessage ==
  /\ phase = "static start" /\ info > 0 /\ phase' = "tf info" /\ Unnoted
  /\ \E r \in Echo("tf_static", 1, StaticMinWait) :
       worker' = [on |-> TRUE, started |-> now, wait |-> StaticMinWait, expected |-> 1,
                  ends |-> now + r.took, docs |-> r.docs, raised |-> FALSE]
  /\ Same /\ UNCHANGED <<now, info, static, dynamic, reading, result>>

(* _start_static: the wait is counted here, the echo runs in the thread.   *)
StaticStart ==
  LET wait == Clamp(AtLeast(StaticMinWait, ask.window), StopReserve)
  IN  /\ phase = "static start" /\ phase' = "tf info"
      /\ IF info = 0
           THEN Note(<<"tf_static", "no publisher">>) /\ UNCHANGED <<worker, failures>>
         ELSE IF wait < MinStream
           THEN Failure(<<"tf_static", "no time to read">>) /\ UNCHANGED worker
         ELSE /\ Unnoted
              /\ \E r \in Echo("tf_static", info, wait), raised \in {FALSE, bus["tf_static"].exits} :
                   worker' = [on |-> TRUE, started |-> now, wait |-> wait, expected |-> info,
                              ends |-> now + r.took, docs |-> r.docs, raised |-> raised]
      /\ Same /\ UNCHANGED <<now, info, static, dynamic, reading, result>>

TfInfo ==
  /\ phase = "tf info" /\ InfoOrNote("tf", "tf listen", "join")
  /\ Same /\ UNCHANGED <<worker, static, dynamic, reading, result>>

(* _dynamic_pass: a window cut by the budget is noted.                     *)
Listen ==
  LET window == IF info > 0 THEN ask.window ELSE MinOf({ask.window, NoPublisherWait})
      wait   == Clamp(window, StopReserve)
  IN  /\ phase = "tf listen" /\ phase' = "join"
      /\ IF wait < MinStream
           THEN /\ Failure(<<"tf", "no time to listen">>)
                /\ UNCHANGED <<now, dynamic>>
         ELSE \E r \in Echo("tf", ask.docs, wait), decode \in Decoding :
                /\ Takes(r.took + decode)
                /\ dynamic' = r.docs
                /\ notes' = notes
                     \cup (IF info = 0 THEN {<<"tf", "no publisher">>} ELSE {})
                     \cup (IF wait < window THEN {<<"tf", "window cut">>} ELSE {})
                     \cup (IF r.exited /\ r.docs = <<>> THEN {<<"tf", "exited early">>} ELSE {})
                     \cup (IF Len(r.docs) >= ask.docs THEN {<<"tf", "capped">>} ELSE {})
                /\ UNCHANGED failures
      /\ Same /\ UNCHANGED <<info, worker, static, reading, result>>

(* The echo of /tf cannot start: the error passes the finally clause.      *)
ListenRaises ==
  /\ phase = "tf listen" /\ bus["tf"].exits /\ phase' = "join raising"
  /\ Same /\ UNCHANGED <<now, info, worker, static, dynamic, notes, failures, reading, result>>

(* _finish_static and the end of capture_tf.                               *)
JoinWait_noSlack == AtLeast(0, MinOf({worker.wait - (now - worker.started), Remaining}))
JoinWait ==
  AtLeast(0, MinOf({worker.wait + JoinSlack - (now - worker.started), Remaining}))
Joined == MaxOf({now, MinOf({worker.ends, now + JoinWait})})
InTime == worker.ends <= Joined

FinishStatic ==
  /\ phase \in {"join", "join raising"}
  /\ IF ~worker.on THEN Unnoted /\ UNCHANGED <<static, now>>
     ELSE IF worker.raised \/ ~InTime
       THEN /\ Failure(<<"tf_static", IF InTime THEN "could not be read" ELSE "not in time">>)
            /\ now' = Joined /\ UNCHANGED static
     ELSE /\ static' = worker.docs
          /\ \E decode \in Decoding : now' = Joined + decode
          /\ notes' = IF Len(worker.docs) < worker.expected
                        THEN notes \cup {<<"tf_static", "some publishers missing">>} ELSE notes
          /\ UNCHANGED failures
  /\ phase' = IF phase = "join raising" \/ Cardinality(failures') >= 2 THEN "raised" ELSE "urdf"
  /\ Same /\ UNCHANGED <<info, worker, dynamic, reading, result>>

-----------------------------------------------------------------------------
(* _read_urdf: a short budget is a note, else a sample_messages of one     *)
(* /robot_description.                                                     *)
Finish(n) == Note(n) /\ phase' = "done"

ReadUrdf ==
  LET wait == Clamp(UrdfRead, UrdfReserve)
  IN  /\ phase = "urdf"
      /\ IF wait < UrdfMinRead
           THEN Finish(<<"urdf", "no time">>) /\ UNCHANGED reading
           ELSE /\ phase' = "lookup" /\ UNCHANGED notes
                /\ reading' = Sampling("robot_description", 1, Clamp(wait, StopReserve), now)
      /\ Same /\ UNCHANGED <<now, info, worker, static, dynamic, failures, result>>

(* sample_messages raises: the tool fails; inspect_tf notes it, or looks   *)
(* for the parameter when the topic is not found.                          *)
SampleRaises(why) ==
  /\ IF ask.tool # "inspect_tf" THEN phase' = "raised" /\ UNCHANGED notes
     ELSE IF why = "not found" THEN phase' = "parameter" /\ UNCHANGED notes
     ELSE Finish(<<"urdf", why>>)
  /\ UNCHANGED <<info, result>>

Lookup ==
  LET wait == MinOf({CliTimeout, reading.timeout})
      topic == bus[reading.topic]
  IN  /\ phase = "lookup"
      /\ \/ reading.timeout <= 0 /\ UNCHANGED now /\ SampleRaises("busy")
         \/ /\ reading.timeout > 0 /\ topic.info = "absent"
            /\ \E d \in Answered(wait) : Takes(d)
            /\ SampleRaises("not found")
         \/ /\ reading.timeout > 0 /\ (topic.info = "fails" \/ TooSlow(wait))
            /\ \E d \in Stopped(wait) : Takes(d)
            /\ SampleRaises("could not be read")
         \/ /\ reading.timeout > 0 /\ topic.info = "listed"
            /\ \E d \in Answered(wait) : Takes(d)
            /\ info' = topic.publishers
            /\ phase' = IF reading.count = 0 THEN "done" ELSE "echo"
            /\ UNCHANGED <<notes, result>>
      /\ Same /\ UNCHANGED <<worker, static, dynamic, failures, reading>>

(* The documents a filtered read keeps: the newest of newest_matches, in   *)
(* the order of their stamps; a read of no filter keeps arrival order.     *)
Matches(doc) == doc.level >= ask.level
NewestMatches_first(docs, n) ==
  LET hits == SelectSeq(docs, Matches)
  IN  SubSeq(hits, 1, MinOf({n, Len(hits)}))
EarlierLog(docs, j, i) ==
  docs[j].stamp < docs[i].stamp \/ (docs[j].stamp = docs[i].stamp /\ j < i)
NewestMatches(docs, n) ==
  LET hits   == {i \in DOMAIN docs : Matches(docs[i])}
      before == [i \in hits |-> {j \in hits : EarlierLog(docs, j, i)}]
      places == SortedBy(hits, before)
  IN  Newest([p \in DOMAIN places |-> docs[places[p]]], n)
Filtered == ask.tool = "rosout"

SampleBudget == IF info > 0 THEN reading.timeout ELSE MinOf({reading.timeout, LookupWait})
EchoWait ==
  LET left == AtLeast(MinStream, SampleBudget - (now - reading.started))
  IN  IF Filtered THEN AtLeast(MinStream, left - DecodeReserve) ELSE left

ShortNote(run, wanted) ==
  IF Len(run.docs) >= wanted THEN {}
  ELSE {<<reading.topic, IF run.exited THEN "exited early"
                         ELSE IF info = 0 THEN "no publisher" ELSE "short">>}

LogNotes(run) ==
  IF run.docs = <<>> THEN {<<"rosout", "no log">>}
  ELSE IF Len(run.docs) >= ask.docs THEN {<<"rosout", "capped">>} ELSE {<<"rosout", "matched">>}

StreamCount == IF Filtered THEN ask.docs ELSE reading.count
EchoFailed(run) == run.exited /\ run.docs = <<>>

SampleFails ==
  /\ phase = "echo"
  /\ \E r \in Echo(reading.topic, StreamCount, EchoWait) : EchoFailed(r) /\ Takes(r.took)
  /\ SampleRaises("echo failed")
  /\ Same /\ UNCHANGED <<worker, static, dynamic, failures, reading>>

(* _decode stops a second past the budget: the documents left are counted. *)
Decodes(run, n) ==
  LET until == reading.started + SampleBudget + Grace
  IN  /\ n = Len(run.docs) \/ bus.loaded
      /\ now' = IF n < Len(run.docs) THEN MaxOf({now + run.took, until}) ELSE now + run.took

UrdfNotes(docs) ==
  IF ask.tool # "inspect_tf" THEN {}
  ELSE IF docs = <<>> THEN {<<"urdf", "no description">>}
  ELSE IF ~Readable(docs[1]) THEN {<<"urdf", "not compared">>} ELSE {}

SampleEcho ==
  /\ phase = "echo" /\ phase' = "done"
  /\ \E r \in Echo(reading.topic, StreamCount, EchoWait) : \E n \in 0 .. Len(r.docs) :
       LET docs == SubSeq(r.docs, 1, n)
       IN  /\ ~EchoFailed(r) /\ Decodes(r, n)
           /\ reading' = [reading EXCEPT !.streamed = r.docs]
           /\ result' = IF Filtered THEN NewestMatches(docs, reading.count) ELSE docs
           /\ notes' = notes \cup UrdfNotes(docs)
                \cup (IF Filtered THEN LogNotes(r) ELSE ShortNote(r, reading.count))
                \cup (IF n < Len(r.docs) THEN {<<reading.topic, "not decoded">>} ELSE {})
  /\ Same /\ UNCHANGED <<info, worker, static, dynamic, failures>>

-----------------------------------------------------------------------------
(* _read_urdf_parameter and robot_description_parameter: ros2 node list,   *)
(* whose failure is not caught, then a ros2 param dump.                    *)
ParameterNodes ==
  LET wait == MinOf({CliTimeout, AtLeast(0, Remaining)})
  IN  /\ phase = "parameter"
      /\ IF Clamp(UrdfRead, UrdfReserve) < UrdfMinRead
           THEN Finish(<<"urdf", "no time">>) /\ UNCHANGED now
         ELSE \/ /\ \E d \in Answered(wait) : Takes(d)
                 /\ IF bus.holder = "none" THEN Finish(<<"urdf", "no holder">>)
                    ELSE phase' = "dump" /\ UNCHANGED notes
              \/ /\ bus.holder = "unlisted" \/ TooSlow(wait)
                 /\ \E d \in Stopped(wait) : Takes(d)
                 /\ phase' = "raised" /\ UNCHANGED notes
      /\ Same /\ UNCHANGED <<info, worker, static, dynamic, failures, reading, result>>

ParameterDump ==
  LET wait == Clamp(UrdfRead, ParamReserve)
  IN  /\ phase = "dump" /\ phase' = "done"
      /\ \/ wait <= 0 /\ Note(<<"urdf", "no time">>) /\ UNCHANGED <<now, result>>
         \/ /\ wait > 0 /\ bus.holder = "answers"
            /\ \E d \in Answered(wait) : Takes(d)
            /\ result' = <<bus.description>>
            /\ Note(<<"urdf", IF Readable(bus.description) THEN "from the parameter"
                              ELSE "not compared">>)
         \/ /\ wait > 0 /\ bus.holder # "answers"
            /\ \E d \in Stopped(wait) : Takes(d)
            /\ Note(<<"urdf", "no description">>) /\ UNCHANGED result
      /\ Same /\ UNCHANGED <<info, worker, static, dynamic, failures, reading>>

ReadsNext ==
  \/ StaticInfo \/ StaticStart \/ TfInfo \/ Listen \/ ListenRaises \/ FinishStatic
  \/ ReadUrdf \/ Lookup \/ SampleFails \/ SampleEcho \/ ParameterNodes \/ ParameterDump

ReadsSpec == ReadsInit /\ [][ReadsNext]_readsVars

-----------------------------------------------------------------------------
Over == phase \in {"done", "raised"}
Transforms(docs) == UNION {d.tfs : d \in Range(docs)}
Capture == Transforms(static) \cup Transforms(dynamic)
Links == IF result # <<>> /\ Readable(result[1]) THEN result[1].links ELSE {}
Report == BuildTfReport(Capture, ask.stale, ask.source, ask.target, Links)
Reported == phase = "done" /\ ask.tool = "inspect_tf"
Has(kind) == \E f \in Report.findings : f.kind = kind

(* Whatever the commands do, a call ends within its budget and the time it *)
(* takes to stop the last of them; sample_messages within its timeout_s as *)
(* well, for which an echo of half a second may still have been started.   *)
(* The thread that reads /tf_static never outlives capture_tf: its process *)
(* is gone before the call goes on, also when listening to /tf raised.     *)
EndsInTime ==
  /\ Over => /\ now <= ask.budget + Stop
             /\ ask.tool # "inspect_tf" => now <= ask.timeout + MinStream + Stop
  /\ phase \in {"urdf", "lookup", "echo", "parameter", "dump", "done", "raised"} /\ worker.on
       => worker.ends <= now

(* A part of the answer that is missing is told: with no note on           *)
(* /tf_static the tree has what every one of its publishers latched (that  *)
(* does not speak twice meanwhile), with none on /tf the whole window was  *)
(* heard, and with none on the URDF its links were compared.               *)
SilenceIsEarned ==
  Reported =>
    LET told(topic) == \E n \in notes : n[1] = topic
        latched == bus["tf_static"].docs
    IN  /\ ~told("tf_static") /\ IsInjective([i \in DOMAIN latched |-> latched[i].from])
             => Transforms(latched) \subseteq Capture
        /\ ~told("tf") => Len(dynamic) < ask.docs /\ bus["tf"].info = "listed"
        /\ ~told("urdf") => Links # {}

(* No alarm on the shape of the frames exactly when they are one tree: the *)
(* frames have one root, and every other has one parent and hangs from it. *)
AlarmedByShape ==
  LET edges == Edges(Capture)
      below(S) == {e[2] : e \in {x \in edges : x[1] \in S}}
      hangFrom(r) ==
        \A S \in SUBSET Names(edges) : r \in S /\ below(S) \subseteq S => S = Names(edges)
  IN  (\E k \in {"two_parents", "disconnected", "cycle"} : Has(k))
        <=> /\ edges # {}
            /\ ~\E r \in Names(edges) :
                  /\ Roots(edges) = {r} /\ hangFrom(r)
                  /\ \A c \in Children(edges) : Cardinality(ParentsOf(edges, c)) = 1

(* The path of the report joins the two frames over transforms, and no     *)
(* chain is shorter; without one they are not joined at all, and told so.  *)
Joins(edges, chain, src, dst) ==
  /\ chain[1] = src /\ chain[Len(chain)] = dst
  /\ \A i \in 1 .. Len(chain) - 1 :
       {<<chain[i], chain[i + 1]>>, <<chain[i + 1], chain[i]>>} \cap edges # {}

PathIsShortest ==
  ask.source # None =>
    LET edges == Edges(Capture)
        path  == Report.path
        joined(n) == \E chain \in [1 .. n -> Names(edges)] :
                       Joins(edges, chain, ask.source, ask.target)
    IN  IF path = <<>> THEN Has("no_path") /\ ~\E n \in 1 .. Cardinality(Names(edges)) : joined(n)
        ELSE /\ path \in Seq(Names(edges)) /\ Joins(edges, path, ask.source, ask.target)
             /\ ~\E n \in 1 .. Len(path) - 1 : joined(n)

(* An edge that has been silent for longer than the limit asked for is     *)
(* told stale, or its frame is told to have another parent.                *)
SilentEdgeIsTold ==
  \A s \in {x \in Capture : ~x.static} :
    LET e == <<s.parent, s.child>>
    IN  Reference(Capture) - MaxOf(Stamps(Dynamic(Capture, e))) > ask.stale
          => \/ Finding("stale", e) \in Report.findings
             \/ \E f \in Report.findings : f.kind = "two_parents" /\ f.frames[1] = s.child

(* The report tells the shape of what was captured, joins two frames by a  *)
(* shortest path and tells the edges that fell silent: build_tf_report.    *)
TreeAlarmsAreTrue == Reported => AlarmedByShape /\ PathIsShortest /\ SilentEdgeIsTold

(* A filtered read of /rosout gives the newest of the matching messages it *)
(* decoded, in stamp order: one that it leaves out is older than all.      *)
FilteredIsNewest ==
  phase = "done" /\ Filtered /\ reading.count > 0 /\ <<"rosout", "not decoded">> \notin notes =>
    LET hits == {d \in Range(reading.streamed) : Matches(d)}
    IN  /\ Range(result) \subseteq hits
        /\ \A i \in 1 .. Len(result) - 1 : result[i].stamp <= result[i + 1].stamp
        /\ \A d \in hits \ Range(result) :
             Len(result) = reading.count /\ d.stamp <= result[1].stamp

(* inspector._read_urdf says it never raises: the tree is the result, the  *)
(* URDF only a comparison.                                                 *)
UrdfNeverRaises == ask.tool = "inspect_tf" /\ phase = "raised" => reading = NoSampling
=============================================================================
