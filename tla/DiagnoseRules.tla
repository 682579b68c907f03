---------------------------- MODULE DiagnoseRules ----------------------------
(***************************************************************************)
(* services/diagnose.py, the rules: what each check of the sweep makes of  *)
(* the robot it reads, and how the findings are ranked and capped.  A      *)
(* robot is a record of what the services the checks call would answer.    *)
(* Texts and evidence are left out: says holds what tells two findings of  *)
(* a check apart, about the nodes a QoS finding involves.                  *)
(***************************************************************************)
EXTENDS OrderedMap, Integers, SequencesExt, FiniteSetsExt

CONSTANTS Alphabet,     \* no name, and the names of the robot and of the checks, as sorted()
          MaxFindings   \* MAX_FINDINGS

None == "-"
Severities == <<"critical", "warning", "info">>
Checks == <<"environment", "nodes", "topics", "dds", "tf", "logs", "responsiveness">>

ASSUME AlphabetAssumption ==
  /\ Alphabet \in Seq(STRING)
  /\ \A i, j \in DOMAIN Alphabet : Alphabet[i] = Alphabet[j] => i = j
  /\ Range(Checks) \cup {None} \subseteq Range(Alphabet)

ASSUME CapAssumption == MaxFindings \in Nat

Names == Range(Alphabet) \ {None}
Sorted(S, Sooner(_, _)) == SortedBy(S, [x \in S |-> {y \in S : Sooner(y, x)}])

RosChecks == {"nodes", "topics", "tf", "logs", "responsiveness"}

When(condition, findings) == IF condition THEN findings ELSE {}

Finding(severity, check, subject, says) ==
  [severity |-> severity, check |-> check, subject |-> subject, says |-> says, about |-> {}]

-----------------------------------------------------------------------------
(* check_environment, check_nodes, check_topics.                           *)
EnvironmentFindings(robot) ==
  When(robot.mode = "mock", {Finding("info", "environment", None, <<"mock">>)})
  \cup When(robot.sros2, {Finding("info", "environment", None, <<"sros2">>)})

NodesFindings(robot) ==
  {Finding("warning", "nodes", n, <<"duplicate">>) : n \in robot.duplicates}
  \cup When(robot.nodes = {} /\ robot.mode = "live",
            {Finding("warning", "nodes", None, <<"empty">>)})
  \cup When(robot.lifecycle # {}, {Finding("info", "nodes", None, <<"lifecycle">>)})

Counted(robot) == {t \in robot.topics : ~t.unknown}

TopicsFindings(robot) ==
  When(\E t \in robot.topics : t.unknown, {Finding("info", "topics", None, <<"unknown">>)})
  \cup When(\E t \in Counted(robot) : t.subs > 0 /\ t.pubs = 0,
            {Finding("info", "topics", None, <<"waiting">>)})
  \cup When(\E t \in Counted(robot) : t.pubs > 0 /\ t.subs = 0,
            {Finding("info", "topics", None, <<"unheard">>)})

-----------------------------------------------------------------------------
(* _qos_findings: one finding per topic, writer, severity and policies;    *)
(* one per topic and reason of the pairs that never match; the typo hints. *)
Involved(pairs) == {p.writer : p \in pairs} \cup {p.reader : p \in pairs}

QosFindings(robot) ==
  LET Key(p) == <<p.topic, p.writer, p.severity, p.policies>>
      Members(k) == {p \in robot.mismatches : Key(p) = k}
      Reason(p) == <<p.topic, p.reason>>
      Unmatched(k) == {p \in robot.unmatched : Reason(p) = k}
  IN  {[Finding(IF k[3] = "incompatible" THEN "critical" ELSE "warning", "dds", k[1],
                <<"qos", k[2], k[4]>>)
          EXCEPT !.about = Involved(Members(k))] : k \in {Key(p) : p \in robot.mismatches}}
      \cup {[Finding("critical", "dds", k[1], <<"unmatched", k[2]>>)
               EXCEPT !.about = Involved(Unmatched(k))] : k \in {Reason(p) : p \in robot.unmatched}}
      \cup {Finding("warning", "dds", t, <<"typo">>) : t \in robot.typos}

(* dds_views._tally: the guids each name carried.  A name kept by no guid  *)
(* twice and by no departure is not in the table.                          *)
Tally(rows) ==
  LET Guids(n) == {r.guid : r \in {x \in rows : x.name = n}}
      Departures(n) == Cardinality({r \in rows : r.name = n /\ r.lost})
      Kept == {n \in {r.name : r \in rows} \ {None} :
                 Cardinality(Guids(n)) > 1 \/ Departures(n) > 0}
  IN  [n \in Kept |-> [lives |-> Cardinality(Guids(n)), departures |-> Departures(n)]]

(* restarts_from_events, over the events of the look-back window.          *)
EventRows(robot) ==
  UNION {{[name |-> p.name, guid |-> p.guid, lost |-> e = "lost"] : e \in p.events} :
           p \in robot.participants}

(* _recent_node_lives: a guid is a life of the nodes it names when it is   *)
(* active, has an event in the window or was seen since it opened.         *)
NodeLives_everSeen(robot, n) ==
  Cardinality({p \in robot.participants : ~p.cli /\ n \in Range(p.nodes)})
NodeLives(robot, n) ==
  Cardinality({p \in robot.participants :
                 /\ ~p.cli /\ n \in Range(p.nodes)
                 /\ (p.status = "active" \/ p.events # {} \/ p.seenInWindow)})

(* _lives: the larger of the two counts.                                   *)
Lives(robot, n) ==
  LET byName == Tally(EventRows(robot))
  IN  Max({NodeLives(robot, n), IF n \in DOMAIN byName THEN byName[n].lives ELSE 0})

NamesOf(robot) ==
  UNION {Range(p.nodes) \cup ({p.name} \ {None}) : p \in robot.participants}

RestartFindings(robot) ==
  {Finding(IF Lives(robot, n) >= 3 THEN "critical" ELSE "warning", "dds", n, <<"restarts">>) :
     n \in {x \in NamesOf(robot) : Lives(robot, x) >= 2}}

(* check_dds, the names that left and did not come back.                   *)
Label(p) == IF p.nodes # <<>> THEN p.nodes[1] ELSE IF p.name # None THEN p.name ELSE p.guid
Running(robot) ==
  UNION {Range(p.nodes) : p \in {x \in robot.participants : x.status = "active"}}
LeftNames_noRunning(robot) ==
  {n \in {Label(p) : p \in {x \in robot.participants :
                              x.status = "left" /\ ~x.cli /\ ~x.observer}} :
     Lives(robot, n) < 2}
LeftNames(robot) ==
  {n \in {Label(p) : p \in {x \in robot.participants :
                              x.status = "left" /\ ~x.cli /\ ~x.observer}} :
     Lives(robot, n) < 2 /\ n \notin Running(robot)}

DdsFindings(robot) ==
  QosFindings(robot) \cup RestartFindings(robot)
  \cup When(LeftNames(robot) # {}, {Finding("info", "dds", None, <<"left">>)})
  \cup When(robot.endpointless, {Finding("info", "dds", None, <<"no endpoint">>)})

-----------------------------------------------------------------------------
(* check_tf, for a capture of window seconds: an edge or frame slower than *)
(* the window is not in it.                                                *)
TfWindow == 8
TfFindings(robot, window) ==
  {Finding("warning", "tf", f.subject, <<f.kind>>) :
     f \in {x \in robot.tf.faults : x.needs <= window}}
  \cup {Finding("warning", "tf", l, <<"urdf link">>) : l \in robot.tf.missing}
  \cup When(robot.tf.roots > 1, {Finding("info", "tf", None, <<"roots">>)})
  \cup When(robot.tf.urdfNote, {Finding("info", "tf", None, <<"urdf">>)})
  \cup When(robot.tf.frames = {}, {Finding("info", "tf", None, <<"no frame">>)})
  \cup When(window < TfWindow, {Finding("info", "tf", None, <<"cut">>)})

(* ctx.tf_report: only a full, uncut capture can tell a frame is absent.   *)
TfComplete(robot, window) ==
  robot.tf.frames # {} /\ ~robot.tf.truncated /\ window >= TfWindow

(* _stamped_topics: published, of a stamped type, by type then by name.    *)
FrameTopics == 3
Place(name) == CHOOSE i \in 1..Len(Alphabet) : Alphabet[i] = name
StampedTopics(robot) ==
  LET stamped == {t \in Counted(robot) : t.rank > 0 /\ t.pubs > 0}
      Sooner(t, u) == t.rank < u.rank \/ (t.rank = u.rank /\ Place(t.name) < Place(u.name))
      ordered == Sorted(stamped, Sooner)
  IN  SubSeq(ordered, 1, Min({FrameTopics, Len(ordered)}))

(* _frame_id_findings, one topic: an empty or cut frame_id is not judged.  *)
FrameFindings(robot, t) ==
  When(t.frame \notin robot.tf.frames \cup {None}, {Finding("info", "tf", t.name, <<"frame">>)})

-----------------------------------------------------------------------------
(* check_logs, for so many seconds listened: the nodes that log an error   *)
(* at least that often, or that there was none.                            *)
LogFindings(robot, seconds) ==
  LET loud == {l.node : l \in {x \in robot.loggers : x.every <= seconds}}
  IN  {Finding("warning", "logs", n, <<"errors">>) : n \in loud}
      \cup When(loud = {}, {Finding("info", "logs", None, <<"quiet">>)})

(* _param_findings: the named node against its params_file.                *)
ParamFindings(robot, n, wasRead) ==
  When(wasRead /\ robot.params \in {"differ", "differ and gaps"},
       {Finding("warning", "responsiveness", n, <<"params">>)})
  \cup When(~wasRead \/ robot.params \in {"gaps", "differ and gaps"},
            {Finding("info", "responsiveness", n, <<"incomplete">>)})

(* _silent_finding.                                                        *)
Silent(n, named) ==
  Finding(IF named THEN "critical" ELSE "warning", "responsiveness", n, <<"silent">>)

(* check_responsiveness, the nodes it could not judge.                     *)
UnjudgedFindings(unreadable, untested) ==
  When(unreadable # {}, {Finding("info", "responsiveness", None, <<"unreadable">>)})
  \cup When(untested # {}, {Finding("info", "responsiveness", None, <<"untested">>)})

(* _candidates: the named node, then the lifecycle nodes, then by name;    *)
(* the ros2 CLI's own nodes are left out.                                  *)
Candidates(robot, named, listed) ==
  LET Later(n) == IF n \in robot.lifecycle THEN 0 ELSE 1
      Sooner(n, m) == Later(n) < Later(m) \/ (Later(n) = Later(m) /\ Place(n) < Place(m))
      pool == (IF listed THEN robot.nodes ELSE {}) \ (robot.cliNodes \cup {named})
  IN  (IF named = None THEN <<>> ELSE <<named>>) \o Sorted(pool, Sooner)

-----------------------------------------------------------------------------
(* _concerns_node, and the order of _assemble.                             *)
Concerns(f, named) == named # None /\ (f.subject = named \/ named \in f.about)
Severity(f) == CHOOSE i \in 1..3 : Severities[i] = f.severity

(* Findings that tie stay in the order in which their check appends them.  *)
Sayings ==
  <<"mock", "sros2", "duplicate", "empty", "lifecycle", "unknown", "waiting", "unheard",
    "qos", "unmatched", "typo", "restarts", "left", "no endpoint", "stale", "two_parents",
    "cycle", "static_and_dynamic", "urdf link", "roots", "urdf", "no frame", "cut", "errors",
    "quiet", "params", "incomplete", "silent", "unreadable", "untested", "frame">>

SortKey(f, named) ==
  LET Said(i) == IF i <= Len(f.says) THEN Place(f.says[i]) ELSE 0
  IN  <<Severity(f), IF Concerns(f, named) THEN 0 ELSE 1, Place(f.check), Place(f.subject),
        CHOOSE i \in DOMAIN Sayings : Sayings[i] = f.says[1], Said(2), Said(3)>>

Before(f, g, named) ==
  LET a == SortKey(f, named)
      b == SortKey(g, named)
  IN  \E i \in 1..7 : a[i] < b[i] /\ \A j \in 1..(i - 1) : a[j] = b[j]

Ordered(findings, named) ==
  LET Sooner(f, g) == Before(f, g, named) IN Sorted(findings, Sooner)

(* _cap: the findings on the named node always make it in, then the first. *)
Cap_first(findings, named) ==
  LET ordered == Ordered(findings, named)
  IN  SubSeq(ordered, 1, Min({Len(ordered), MaxFindings}))
First(S, n) == {i \in S : Cardinality({j \in S : j <= i}) <= n}
Cap(findings, named) ==
  LET ordered == Ordered(findings, named)
      mine == {i \in DOMAIN ordered : Concerns(ordered[i], named)}
      others == DOMAIN ordered \ mine
      kept == First(mine, MaxFindings)
      chosen == kept \cup First(others, MaxFindings - Cardinality(kept))
  IN  IF Len(ordered) <= MaxFindings THEN ordered ELSE Select(ordered, chosen)

(* _verdict.                                                               *)
Grave(findings) == {f \in findings : f.severity # "info"}
Verdict_ignoresSkips(scope, findings, skipped) ==
  IF scope # "all" THEN "incomplete" ELSE IF Grave(findings) # {} THEN "findings" ELSE "clean"
Verdict(scope, findings, skipped) ==
  IF skipped # {} \/ scope # "all" THEN "incomplete"
  ELSE IF Grave(findings) # {} THEN "findings" ELSE "clean"
=============================================================================
