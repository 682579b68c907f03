------------------------------ MODULE Diagnose ------------------------------
(***************************************************************************)
(* services/diagnose.py, the sweep: the checks of a scope, one after the   *)
(* other, inside a wall budget.  left is the time to the sweep's deadline, *)
(* which is the call budget of every adapter call it makes.  A check does  *)
(* not run for want of a backend or of time, or because a call raises: it  *)
(* becomes an entry of checks_skipped.  How long a graph query takes is a  *)
(* member of Delays; one that needs more than is left raises.              *)
(***************************************************************************)
EXTENDS DiagnoseRules

CONSTANTS Sweeps,   \* the robots, and the call made: [scope, node, params, budget, guard]
          Delays    \* seconds a graph query may take

Reserve == 2

(* A robot: what the services the checks call answer.  A guid names one    *)
(* participant, and a node without parameter services says so at once.     *)
IsRobot(r) ==
  /\ r.mode \in {"live", "mock"}
  /\ UNION {r.nodes, r.duplicates, r.typos, r.tf.missing} \subseteq Names
  /\ IsFiniteSet(r.topics)
  /\ r.topics \subseteq [name : Names, pubs : Nat, subs : Nat, unknown : BOOLEAN,
                        rank : Nat, frame : STRING]
  /\ \A t, u \in r.topics : t.name = u.name => t = u
  /\ r.mismatches \subseteq [topic : Names, writer : Names, reader : Names,
                            severity : {"incompatible", "risky"}, policies : Names]
  /\ r.unmatched \subseteq [topic : Names, reason : Names, writer : Names, reader : Names]
  /\ IsFiniteSet(r.participants)
  /\ \A p \in r.participants :
       /\ p.guid \in Names /\ p.name \in Names \cup {None} /\ p.nodes \in Seq(Names)
       /\ \A q \in r.participants : p.guid = q.guid => p = q
  /\ IsFiniteSet(r.tf.faults)
  /\ r.tf.faults \subseteq [kind : {"stale", "two_parents", "cycle", "static_and_dynamic"},
                           subject : Names, needs : Nat]
  /\ r.loggers \subseteq [node : Names, every : Nat]
  /\ DOMAIN r.reads \subseteq Names
  /\ \A n \in DOMAIN r.reads : \A a \in r.reads[n] :
       a.after \in Nat /\ (a.kind = "no service" => a.after = 0)

(* A call: a params_file needs a node, and the guard leaves more time than *)
(* the sweep holds back (LaneGuard, StartsInTime).                         *)
IsCall(c) ==
  /\ c.scope \in {"all", "graph", "tf", "dds", "logs"}
  /\ c.node \in Names \cup {None} /\ (c.params => c.node # None)
  /\ c.budget \in Nat /\ c.guard \in Nat /\ c.guard >= Reserve

ASSUME SweepsAssumption ==
  Delays \subseteq Nat /\ \A s \in Sweeps : IsRobot(s.robot) /\ IsCall(s.ask)

VARIABLES robot, ask,
          left,      \* ctx.left(), and budget.remaining()
          plan,      \* the checks still to run
          known,     \* what earlier checks left in ctx: {"nodes", "topics", "tf"}
          findings, ran, skipped,
          reading,   \* the loop of check_responsiveness
          stamped,   \* the topics _frame_id_findings has still to sample
          phase      \* "checks", "reading", "frames" or "done"

vars == <<robot, ask, left, plan, known, findings, ran, skipped, reading, stamped, phase>>

NotReading == [todo |-> <<>>, again |-> None, untested |-> {}, unreadable |-> {},
               answered |-> FALSE, found |-> {}]

ScopeChecks(scope) ==
  CASE scope = "all" -> Checks
    [] scope = "graph" -> <<"environment", "nodes", "topics", "responsiveness">>
    [] OTHER -> <<"environment", scope>>

Init ==
  /\ \E s \in Sweeps : robot = s.robot /\ ask = s.ask
  /\ left = Min({ask.budget, ask.guard - Reserve})
  /\ plan = ScopeChecks(ask.scope)
  /\ known = {} /\ findings = {} /\ ran = {} /\ skipped = {}
  /\ reading = NotReading /\ stamped = <<>>
  /\ phase = "checks"

-----------------------------------------------------------------------------
(* _FLOOR_S and _unavailable: why a check does not start.                  *)
Floor(check) ==
  CASE check \in {"nodes", "tf", "responsiveness"} -> 3
    [] check = "topics" -> 2
    [] check = "dds" -> 1
    [] check = "logs" -> 4
    [] OTHER -> 0

Reason(check) ==
  IF check \in RosChecks /\ robot.ros = "none" THEN "no ROS 2 backend"
  ELSE IF check = "dds" /\ robot.dds = "none" THEN "no DDS backend"
  ELSE IF left < Floor(check) THEN "budget"
  ELSE None

Due(check) == phase = "checks" /\ plan # <<>> /\ Head(plan) = check

SkipFor(check, why) ==
  /\ skipped' = skipped \cup {<<check, why>>}
  /\ plan' = Tail(plan)
  /\ UNCHANGED <<robot, ask, known, findings, ran, stamped>>

Done(check, found, learned) ==
  /\ findings' = findings \cup found
  /\ ran' = ran \cup {check}
  /\ plan' = Tail(plan)
  /\ known' = known \cup learned
  /\ UNCHANGED <<robot, ask, skipped, reading, stamped, phase>>

(* _run_check: the check does not start.                                   *)
Skip(check) ==
  /\ Due(check) /\ Reason(check) # None
  /\ SkipFor(check, Reason(check))
  /\ UNCHANGED <<left, reading, phase>>

(* An adapter call raises, at once or when the time is up.                 *)
Raises(check) ==
  /\ Due(check) /\ Reason(check) = None /\ check # "environment"
  /\ \E d \in Delays : left' = Max({0, left - d})
  /\ SkipFor(check, "adapter error")
  /\ UNCHANGED <<reading, phase>>

(* The checks that are a query or two.                                     *)
Query(check, found, learned) ==
  /\ Due(check) /\ Reason(check) = None
  /\ \E d \in Delays : d <= left /\ left' = left - d
  /\ Done(check, found, learned)

CheckEnvironment ==
  /\ Due("environment") /\ Done("environment", EnvironmentFindings(robot), {})
  /\ UNCHANGED left
CheckNodes == Query("nodes", NodesFindings(robot), {"nodes"})
CheckTopics == Query("topics", TopicsFindings(robot), {"topics"})
CheckDds == Query("dds", DdsFindings(robot), {})

(* check_tf: the window is what the logs check and the overhead leave; one *)
(* below a second is a _BudgetSkip.                                        *)
TfOverhead == 2
Window ==
  Min({TfWindow, left - TfOverhead - (IF ask.scope = "all" THEN Floor("logs") ELSE 0)})

TfSkip ==
  /\ Due("tf") /\ Reason("tf") = None /\ Window < 1
  /\ SkipFor("tf", "budget")
  /\ UNCHANGED <<left, reading, phase>>

CheckTf ==
  /\ Due("tf") /\ Reason("tf") = None /\ Window >= 1
  /\ \E d \in Delays : Window + d <= left /\ left' = left - Window - d
  /\ Done("tf", TfFindings(robot, Window), When(TfComplete(robot, Window), {"tf"}))

(* check_logs: sampling keeps a stop reserve of what is left; what the     *)
(* look-up of the topic takes is not listened, down to MinEcho (half a     *)
(* second, here one).                                                      *)
LogTimeout == 5
LogStopReserve == 3
MinEcho == 1
CheckLogs ==
  LET timeout == Min({LogTimeout, left - LogStopReserve}) IN
  /\ Due("logs") /\ Reason("logs") = None /\ timeout > 0
  /\ \E d \in {x \in Delays : x <= timeout} :
       LET listened == Max({timeout - d, MinEcho})
       IN  /\ left' = left - d - listened
           /\ Done("logs", LogFindings(robot, listened), {})

-----------------------------------------------------------------------------
(* node_reader.get_node_info and _read_parameters, asked with timeout: the *)
(* listing and the info take d, the node is gone, has no service, or is    *)
(* read within what the stop reserve leaves, when that is enough.          *)
StopReserve == 2
MinWait == 2
Outcome(status, spent) == [status |-> status, spent |-> spent]
Wait(timeout, d) == Min({timeout, left - d - StopReserve})

IsEnough_anyWait(wait) == wait > 0
IsEnough(wait) == wait >= MinWait

ReadNode(n, timeout, d, answer) ==
  IF d > left \/ n \notin DOMAIN robot.reads THEN Outcome("error", Min({d, left}))
  ELSE IF answer.kind = "no service" THEN Outcome("no_parameter_services", d)
  ELSE IF ~IsEnough(Wait(timeout, d)) THEN Outcome("no_budget", d)
  ELSE IF answer.after > Wait(timeout, d) THEN Outcome("timeout", d + Wait(timeout, d))
  ELSE Outcome(IF answer.kind = "fails" THEN "failed" ELSE "read", d + answer.after)

NoAnswer == [kind |-> "answers", after |-> 0]
Answers(n) == IF n \in DOMAIN robot.reads THEN robot.reads[n] ELSE {NoAnswer}

NodeRead == 3
NamedNodeRead == 6

StartReading ==
  /\ Due("responsiveness") /\ Reason("responsiveness") = None
  /\ "nodes" \in known \/ ask.node # None
  /\ phase' = "reading"
  /\ reading' = [NotReading EXCEPT !.todo = Candidates(robot, ask.node, "nodes" \in known)]
  /\ UNCHANGED <<robot, ask, left, plan, known, findings, ran, skipped, stamped>>

NoNodeList ==
  /\ Due("responsiveness") /\ Reason("responsiveness") = None
  /\ "nodes" \notin known /\ ask.node = None
  /\ SkipFor("responsiveness", "adapter error")
  /\ UNCHANGED <<left, reading, phase>>

Reading == phase = "reading" /\ reading.again = None /\ reading.todo # <<>>
InReading == UNCHANGED <<robot, ask, plan, known, findings, ran, skipped, stamped, phase>>

Timeout(n) == Min({IF n = ask.node THEN NamedNodeRead ELSE NodeRead, left})

OutOfTime ==
  LET n == Head(reading.todo) IN
  /\ Reading /\ Timeout(n) < NodeRead
  /\ reading' = [reading EXCEPT !.untested = @ \cup Range(reading.todo), !.todo = <<>>]
  /\ UNCHANGED left /\ InReading

(* One node.  An unnamed one that timed out waits for its second read.     *)
Judged(n, r) ==
  [reading EXCEPT
     !.todo = Tail(@),
     !.untested = IF r.status = "no_budget" THEN @ \cup {n} ELSE @,
     !.unreadable = IF r.status \in {"error", "failed"} THEN @ \cup {n} ELSE @,
     !.answered = @ \/ r.status \in {"timeout", "read", "no_parameter_services"},
     !.again = IF r.status = "timeout" /\ n # ask.node THEN n ELSE None,
     !.found = @ \cup When(r.status = "timeout" /\ n = ask.node, {Silent(n, TRUE)})
                 \cup When(n = ask.node /\ ask.params /\ r.status # "error",
                           ParamFindings(robot, n, r.status = "read"))]

Read ==
  LET n == Head(reading.todo) IN
  /\ Reading /\ Timeout(n) >= NodeRead
  /\ \E d \in Delays, answer \in Answers(n) :
       LET r == ReadNode(n, Timeout(n), d, answer)
       IN  left' = left - r.spent /\ reading' = Judged(n, r)
  /\ InReading

(* _answers_on_retry: a second read, when there is time for one; any       *)
(* status but timeout counts as an answer.                                 *)
Settled(silent) ==
  [reading EXCEPT !.again = None,
                  !.found = @ \cup When(silent, {Silent(reading.again, FALSE)})]

NoRetry ==
  /\ phase = "reading" /\ reading.again # None /\ left < NodeRead
  /\ reading' = Settled(TRUE)
  /\ UNCHANGED left /\ InReading

Retry ==
  LET n == reading.again IN
  /\ phase = "reading" /\ n # None /\ left >= NodeRead
  /\ \E d \in Delays, answer \in Answers(n) :
       LET r == ReadNode(n, NodeRead, d, answer)
       IN  left' = left - r.spent /\ reading' = Settled(r.status \in {"timeout", "error"})
  /\ InReading

(* The end of the loop: with no node read at all the check did not run.    *)
Concluded == phase = "reading" /\ reading.again = None /\ reading.todo = <<>>
Fruitless ==
  ~reading.answered /\ (reading.unreadable # {} \/ reading.untested # {})

NoneRead ==
  /\ Concluded /\ Fruitless
  /\ SkipFor("responsiveness", "adapter error")
  /\ phase' = "checks"
  /\ UNCHANGED <<left, reading>>

ReadingDone ==
  /\ Concluded /\ ~Fruitless
  /\ findings' = findings \cup reading.found
                   \cup UnjudgedFindings(reading.unreadable, reading.untested)
  /\ ran' = ran \cup {"responsiveness"}
  /\ plan' = Tail(plan)
  /\ phase' = "checks"
  /\ UNCHANGED <<robot, ask, left, known, skipped, reading, stamped>>

-----------------------------------------------------------------------------
(* _frame_id_findings, last, on the time the checks left.                  *)
FrameSample == 4
FrameMin == 3

StartFrames ==
  /\ phase = "checks" /\ plan = <<>>
  /\ phase' = "frames"
  /\ stamped' = IF {"tf", "topics"} \subseteq known THEN StampedTopics(robot) ELSE <<>>
  /\ UNCHANGED <<robot, ask, left, plan, known, findings, ran, skipped, reading>>

(* One sample, read or failed.                                             *)
SampleFrame ==
  /\ phase = "frames" /\ stamped # <<>> /\ left >= FrameMin
  /\ \E d \in Delays : left' = left - Min({d, FrameSample, left})
  /\ findings' \in {findings, findings \cup FrameFindings(robot, Head(stamped))}
  /\ stamped' = Tail(stamped)
  /\ UNCHANGED <<robot, ask, plan, known, ran, skipped, reading, phase>>

Assemble ==
  /\ phase = "frames" /\ (stamped = <<>> \/ left < FrameMin)
  /\ phase' = "done"
  /\ UNCHANGED <<robot, ask, left, plan, known, findings, ran, skipped, reading, stamped>>

Next ==
  \/ \E c \in Range(Checks) : Skip(c) \/ Raises(c)
  \/ CheckEnvironment \/ CheckNodes \/ CheckTopics \/ CheckDds
  \/ TfSkip \/ CheckTf \/ CheckLogs
  \/ NoNodeList \/ StartReading \/ OutOfTime \/ Read \/ Retry \/ NoRetry
  \/ NoneRead \/ ReadingDone
  \/ StartFrames \/ SampleFrame \/ Assemble

Spec == Init /\ [][Next]_vars

-----------------------------------------------------------------------------
answer == Cap(findings, ask.node)
verdict == Verdict(ask.scope, findings, skipped)

(* What a robot does wrong, said without the rules of the checks.          *)
Carry(n) == {p \in robot.participants : ~p.cli /\ n \in Range(p.nodes)}
OnTheBus(p) == p.status = "active" \/ p.seenInWindow \/ p.events # {}
Named(n) == {p \in robot.participants : p.name = n /\ p.events # {}}
Restarted(n) ==
  \/ Cardinality({p \in Carry(n) : OnTheBus(p)}) > 1
  \/ Cardinality(Named(n)) > 1
NeverAnswers(n) == n \in DOMAIN robot.reads /\ \A a \in robot.reads[n] : a.after > NamedNodeRead

(* "Never healthy with a skip": the clean line is given only when all      *)
(* seven checks ran and the robot shows none of the faults they look for.  *)
(* A transform slower than a window the budget cut, and a named node the   *)
(* sweep could not judge, are findings of their own.                       *)
AllClearIsEarned ==
  phase = "done" /\ verdict = "clean" =>
    /\ ran = Range(Checks)
    /\ robot.duplicates = {} /\ (robot.nodes # {} \/ robot.mode = "mock")
    /\ robot.mismatches = {} /\ robot.unmatched = {} /\ robot.typos = {}
    /\ \A n \in NamesOf(robot) : ~Restarted(n)
    /\ robot.tf.missing = {}
    /\ \A f \in robot.tf.faults :
         f.needs > TfWindow \/ \E g \in findings : g.check = "tf" /\ g.says = <<"cut">>
    /\ \A l \in robot.loggers : l.every > 1
    /\ NeverAnswers(ask.node) => ask.node \in reading.untested \cup reading.unreadable

(* No false alarm: a node found silent did take more than the two seconds  *)
(* a read must at least be given, a restart loop is as long as it is said  *)
(* to be, and only the node the caller named is silent for sure.           *)
AlarmsAreEarned ==
  \A f \in findings \cup reading.found :
    /\ f.says = <<"silent">> =>
         /\ \E a \in Answers(f.subject) : a.after > MinWait
         /\ f.severity = "critical" <=> f.subject = ask.node
    /\ f.says = <<"restarts">> =>
         /\ Restarted(f.subject)
         /\ f.severity = "critical" =>
              Cardinality({p \in Carry(f.subject) \cup Named(f.subject) : OnTheBus(p)}) > 2

(* "an active node is never reported as left", nor is one that restarted.  *)
GoneMeansGone ==
  \A n \in LeftNames(robot) :
    /\ ~\E p \in robot.participants : p.status = "active" /\ n \in Range(p.nodes)
    /\ ~Restarted(n)
    /\ \E p \in robot.participants : p.status = "left" /\ Label(p) = n

(* The cap drops a finding on the named node for none on another, and a    *)
(* grave one for none less grave.                                          *)
CapIsFair ==
  phase = "done" =>
    LET kept == Range(answer)
        Mine(f) == ask.node # None /\ (f.subject = ask.node \/ ask.node \in f.about)
    IN  /\ Cardinality(kept) = Min({MaxFindings, Cardinality(findings)})
        /\ \A f \in findings \ kept, g \in kept :
              /\ Mine(f) => Mine(g)
              /\ Mine(f) = Mine(g) => Severity(g) <= Severity(f)

(* check_responsiveness, "silence is a finding": a node the sweep set out  *)
(* to read and that never answers is found silent, or is among those it    *)
(* could not read or did not reach.                                        *)
SilenceIsReported ==
  phase = "frames" /\ "responsiveness" \in ran =>
    \A n \in Range(Candidates(robot, ask.node, "nodes" \in known)) :
      NeverAnswers(n) =>
        \/ n \in reading.untested \cup reading.unreadable
        \/ \E f \in findings : f.subject = n /\ f.says = <<"silent">>

=============================================================================
