---------------------------- MODULE Answers_proofs ----------------------------
(***************************************************************************)
(* What an answer can be trusted for: RosCommand, for any processes, any   *)
(* times and any limits; Server, for any settings, any machine and any     *)
(* calls; BagReads, for any bag and any range; and ParamRules, for any     *)
(* node and any file.                                                      *)
(***************************************************************************)
EXTENDS Tools, RosCommand, OrderedMapLemmas

-----------------------------------------------------------------------------
(* RosCommand: a command ends in time and leaves nothing running.          *)
Allowed == IF mode = "run" THEN Deadline ELSE Budget + ExitWait

(* What is known of the clock and of the wait the caller is in.            *)
Clock ==
  /\ elapsed \in Nat /\ until \in Nat /\ mode \in {"run", "echo"}
  /\ pc \in {"start", "raised"} => elapsed = 0
  /\ pc \in {"wait", "waitOut", "waitErr"} => mode = "run" /\ until = Deadline /\ elapsed <= until
  /\ pc = "collect" => mode = "echo" /\ until = Budget /\ elapsed <= until
  /\ pc = "exitWait" => mode = "echo" /\ until <= Allowed /\ elapsed <= until
  /\ pc = "interrupt" => elapsed <= Allowed
  /\ pc = "grace" => until <= Allowed + Grace /\ elapsed <= until
  /\ pc = "kill" => elapsed <= Allowed + Grace
  /\ pc = "joinOut" => until <= Allowed + Grace + JoinAfter /\ elapsed <= until
  /\ pc \in {"joinErr", "done"} => until <= Allowed + Grace + 2 * JoinAfter /\ elapsed <= until
  /\ pc \in {"start", "raised", "wait", "waitOut", "waitErr", "collect", "exitWait",
             "interrupt", "grace", "kill", "joinOut", "joinErr", "done"}

LEMMA ClockInit == Init => Clock
BY DEF Init, TreeInit, RunInit, EchoInit, Clock

LEMMA ClockStep == Clock /\ [Next]_vars => Clock'
<1> SUFFICES ASSUME Clock, [Next]_vars PROVE Clock'  OBVIOUS
<1> USE RunAssumption, StopAssumption, EchoAssumption DEF Clock, Allowed, control, Goes, Expired
<1>1. CASE UNCHANGED <<control, elapsed, mode>>  BY <1>1
<1>2. CASE Stop /\ mode' = mode
  BY <1>2 DEF Stop, Interrupt, Poll, KillGroup, KillLauncher, JoinOut, Joined
<1>3. CASE JoinErr /\ mode' = mode  BY <1>3 DEF JoinErr
<1>4. CASE StartFails /\ mode' = mode  BY <1>4 DEF StartFails
<1>5. CASE mode = "run" /\ RunNext /\ mode' = mode
  <2>1. CASE RunStart \/ RunWait \/ RunWaitOut \/ RunWaitErr
    BY <1>5, <2>1 DEF RunStart, RunWait, RunWaitOut, RunWaitErr, Started, WaitLauncher, Decide
  <2>2. CASE RunTick
    BY <1>5, <2>2 DEF RunTick, RunBlocked, StopBlocked, Joined, TimePasses
  <2>3. CASE RunFails \/ RunStop \/ RunReturns
    BY <1>2, <1>3, <1>4, <1>5, <2>3 DEF RunFails, RunStop, RunReturns
  <2>4. CASE \/ Behave /\ UNCHANGED runVars
             \/ \E s \in Pipes : Writes(s) \/ RunReader(s)
    BY <1>1, <1>5, <2>4 DEF Behave, Writes, RunReader, Pumps, PumpEnds, ThreadEnds, tree
  <2> QED  BY <1>5, <2>1, <2>2, <2>3, <2>4 DEF RunNext, Run
<1>6. CASE mode = "echo" /\ EchoNext /\ mode' = mode
  <2>1. CASE EchoStart  BY <1>6, <2>1 DEF EchoStart, Started
  <2>5. CASE CollectStops  BY <1>6, <2>5 DEF CollectStops
  <2>6. CASE CollectEnds  BY <1>6, <2>6 DEF CollectEnds, Collecting
  <2>7. CASE EchoExit  BY <1>6, <2>7 DEF EchoExit, WaitLauncher
  <2>2. CASE EchoTick
    BY <1>6, <2>2 DEF EchoTick, EchoBlocked, StopBlocked, Joined, Collecting, TimePasses
  <2>3. CASE EchoFails \/ EchoStop \/ EchoReturns
    BY <1>2, <1>3, <1>4, <1>6, <2>3 DEF EchoFails, EchoStop, EchoReturns
  <2>4. CASE \/ Behave /\ UNCHANGED echoVars
             \/ \E line \in LineLengths \cup {Separator} : Prints(line)
             \/ EchoReader \/ CollectLine
    BY <1>1, <1>6, <2>4 DEF Behave, Prints, EchoReader, PumpLine, StdoutEnds, StderrEnds,
                            ThreadEnds, CollectLine, tree
  <2> QED  BY <1>6, <2>1, <2>2, <2>3, <2>4, <2>5, <2>6, <2>7 DEF EchoNext, Echo
<1> QED  BY <1>1, <1>5, <1>6 DEF Next, vars, tree

(* A call returns within its deadline, the grace and the two joins,        *)
(* whatever its processes do.                                              *)
THEOREM CommandInTime == Spec => []AnswersInTime
<1>1. Clock => AnswersInTime
  BY RunAssumption, StopAssumption, EchoAssumption DEF Clock, Allowed, AnswersInTime
<1> QED  BY <1>1, ClockInit, ClockStep, PTL DEF Spec

-----------------------------------------------------------------------------
(* After the kill the group of a call that kills stays empty: only members *)
(* fork into it.                                                           *)
Empty ==
  /\ mode \in {"run", "echo"}
  /\ (pc \in {"kill", "joinOut", "joinErr", "done"} /\ (mode = "run" => timedOut)) => grouped = {}

LEMMA EmptyInit == Init => Empty
BY DEF Init, TreeInit, Empty

LEMMA EmptyStep == Empty /\ [Next]_vars => Empty'
<1> SUFFICES ASSUME Empty, [Next]_vars PROVE Empty'  OBVIOUS
<1> USE DEF Empty, control, processes, Goes, runVars
<1>1. CASE UNCHANGED <<pc, grouped, timedOut, mode>>  BY <1>1
<1>2. CASE UNCHANGED <<pc, timedOut, mode>> /\ Behave
  BY <1>2 DEF Behave, Forks, Detaches, Closes, Exits, Vanish
<1>3. CASE UNCHANGED <<timedOut, mode>> /\ Stop
  BY <1>3 DEF Stop, Interrupt, GroupAlive, Poll, KillGroup, KillLauncher, JoinOut, Vanish
<1>4. CASE UNCHANGED <<timedOut, mode>> /\ JoinErr  BY <1>4 DEF JoinErr
<1>5. CASE UNCHANGED <<timedOut, mode>> /\ StartFails  BY <1>5 DEF StartFails
<1>6. CASE mode = "run" /\ RunNext /\ mode' = mode
  <2>1. CASE RunStart \/ RunWait \/ RunWaitOut \/ RunWaitErr
    BY <1>6, <2>1 DEF RunStart, RunWait, RunWaitOut, RunWaitErr, Started, WaitLauncher, Decide
  <2>2. CASE RunFails \/ RunStop \/ RunReturns
    BY <1>3, <1>4, <1>5, <1>6, <2>2 DEF RunFails, RunStop, RunReturns
  <2>3. CASE RunTick \/ \E s \in Pipes : Writes(s) \/ RunReader(s)
    BY <1>1, <1>6, <2>3
       DEF RunTick, TimePasses, Writes, RunReader, Pumps, PumpEnds, ThreadEnds, tree
  <2>4. CASE Behave /\ UNCHANGED runVars  BY <1>2, <1>6, <2>4 DEF Behave
  <2> QED  BY <1>6, <2>1, <2>2, <2>3, <2>4 DEF RunNext, Run
<1>7. CASE mode = "echo" /\ EchoNext /\ UNCHANGED <<runVars, mode>>
  <2>1. CASE EchoStart \/ CollectStops \/ CollectEnds \/ EchoExit
    BY <1>7, <2>1 DEF EchoStart, CollectStops, CollectEnds, EchoExit, Started, WaitLauncher
  <2>2. CASE EchoFails \/ EchoStop \/ EchoReturns
    BY <1>3, <1>4, <1>5, <1>7, <2>2 DEF EchoFails, EchoStop, EchoReturns
  <2>3. CASE \/ EchoTick \/ EchoReader \/ CollectLine
             \/ \E line \in LineLengths \cup {Separator} : Prints(line)
    BY <1>1, <1>7, <2>3 DEF EchoTick, TimePasses, EchoReader, PumpLine, StdoutEnds, StderrEnds,
                            ThreadEnds, CollectLine, Prints, tree
  <2>4. CASE Behave  BY <1>2, <1>7, <2>4 DEF Behave
  <2> QED  BY <1>7, <2>1, <2>2, <2>3, <2>4 DEF EchoNext, Echo
<1> QED  BY <1>1, <1>6, <1>7 DEF Next, vars, tree

(* A call that timed out, and every stream, leaves no process of the       *)
(* launcher's group behind.                                                *)
THEOREM NoOrphans == Spec => []NothingSurvives
<1>1. Empty => NothingSurvives  BY DEF Empty, NothingSurvives
<1> QED  BY <1>1, EmptyInit, EmptyStep, PTL DEF Spec

-----------------------------------------------------------------------------
(* Where a run may signal: it timed out, and timed out at the deadline.    *)
Spared ==
  /\ reading \subseteq {"out", "err"}
  /\ pc \in {"start", "raised", "wait", "waitOut", "waitErr"} => signalled = {}
  /\ (pc = "waitErr" /\ "out" \in reading) => elapsed >= Deadline
  /\ (mode = "run" /\ pc \in {"interrupt", "grace", "kill"}) => timedOut
  /\ (mode = "run" /\ pc \notin {"start", "raised", "wait", "waitOut", "waitErr"} /\ timedOut)
     => elapsed >= Deadline
  /\ CleanExitSpares

LEMMA SparedInit == Init => Spared
BY DEF Init, TreeInit, Spared, CleanExitSpares

LEMMA SparedStep == Clock /\ Spared /\ [Next]_vars => Spared'
<1> SUFFICES ASSUME Clock, Spared, [Next]_vars PROVE Spared'  OBVIOUS
<1> USE RunAssumption DEF Clock, Spared, CleanExitSpares, control, processes, Goes, Expired
<1>1. CASE UNCHANGED <<pc, elapsed, signalled, timedOut, mode>> /\ reading' \subseteq reading
  BY <1>1
<1>2. CASE UNCHANGED <<timedOut, mode>> /\ Stop
  BY <1>2 DEF Stop, Interrupt, Poll, KillGroup, KillLauncher, JoinOut
<1>3. CASE UNCHANGED <<timedOut, mode>> /\ JoinErr  BY <1>3 DEF JoinErr
<1>4. CASE UNCHANGED <<timedOut, mode>> /\ StartFails  BY <1>4 DEF StartFails
<1>5. CASE UNCHANGED <<timedOut, mode>> /\ TimePasses  BY <1>5 DEF TimePasses
<1>6. CASE mode = "run" /\ RunNext /\ mode' = mode
  <2> USE <1>6 DEF runVars
  <2>1. CASE RunStart  BY <2>1 DEF RunStart, Started, Pipes
  <2>2. CASE RunWait  BY <2>2 DEF RunWait, WaitLauncher
  <2>3. CASE RunWaitOut  BY <2>3 DEF RunWaitOut, Joined
  <2>4. CASE RunWaitErr
    <3>1. reading # {} => elapsed >= Deadline  BY <2>4 DEF RunWaitErr, Joined
    <3> QED  BY <2>4, <3>1 DEF RunWaitErr, Decide
  <2>5. CASE RunFails \/ RunStop \/ RunReturns \/ RunTick
    BY <1>2, <1>3, <1>4, <1>5, <2>5 DEF RunFails, RunStop, RunReturns, RunTick
  <2>6. CASE \/ Behave /\ UNCHANGED runVars
             \/ \E s \in Pipes : Writes(s) \/ RunReader(s)
    BY <1>1, <2>6 DEF Behave, Writes, RunReader, Pumps, PumpEnds, ThreadEnds, tree
  <2> QED  BY <2>1, <2>2, <2>3, <2>4, <2>5, <2>6 DEF RunNext, Run
<1>7. CASE mode = "echo" /\ EchoNext /\ UNCHANGED <<runVars, mode>>
  <2> USE <1>7 DEF runVars
  <2>1. CASE EchoStart \/ CollectStops \/ CollectEnds \/ EchoExit
    BY <2>1 DEF EchoStart, CollectStops, CollectEnds, EchoExit, Started, Pipes,
           WaitLauncher, Collecting
  <2>2. CASE EchoFails \/ EchoStop \/ EchoReturns \/ EchoTick
    BY <1>2, <1>3, <1>4, <1>5, <2>2 DEF EchoFails, EchoStop, EchoReturns, EchoTick
  <2>3. CASE \/ Behave \/ EchoReader \/ CollectLine
             \/ \E line \in LineLengths \cup {Separator} : Prints(line)
    BY <1>1, <2>3 DEF Behave, EchoReader, PumpLine, StdoutEnds, StderrEnds,
                      ThreadEnds, CollectLine, Prints, tree
  <2> QED  BY <2>1, <2>2, <2>3 DEF EchoNext, Echo
<1> QED  BY <1>1, <1>6, <1>7 DEF Next, vars, tree, runVars

(* A run that is killed has met its deadline; no other run signals at all. *)
THEOREM DaemonsSpared == Spec => []CleanExitSpares
<1>1. Init => Clock /\ Spared  BY ClockInit, SparedInit
<1>2. Clock /\ Spared /\ [Next]_vars => (Clock /\ Spared)'  BY ClockStep, SparedStep
<1>3. Spared => CleanExitSpares  BY DEF Spared
<1> QED  BY <1>1, <1>2, <1>3, PTL DEF Spec

-----------------------------------------------------------------------------
(* What a capture holds of what was written, and that a reader that ended  *)
(* has read all of it.                                                     *)
Captured ==
  /\ holds \in [Pipes -> SUBSET Procs]
  /\ written \in [Pipes -> Nat] /\ piped \in [Pipes -> Nat]
  /\ kept \in [Pipes -> Nat] /\ truncated \in [Pipes -> BOOLEAN]
  /\ \A s \in Pipes :
       /\ piped[s] <= written[s]
       /\ kept[s] = Least(MaxOutput, written[s] - piped[s])
       /\ truncated[s] <=> written[s] - piped[s] > MaxOutput
       /\ (mode = "run" /\ s \notin reading) => piped[s] = 0 /\ holds[s] = {}

(* A run that did not time out has joined both readers, and answers what   *)
(* they captured.                                                          *)
BothJoined ==
  (mode = "run" /\ pc \in {"joinOut", "joinErr", "done"} /\ ~timedOut) =>
    /\ reading = {}
    /\ pc = "done" => answer = [out |-> kept["out"], err |-> kept["err"],
                                truncated |-> truncated["out"] \/ truncated["err"]]

LEMMA CapturedInit == Init => Captured /\ BothJoined
BY RunAssumption DEF Init, TreeInit, RunInit, Captured, BothJoined, Least

LEMMA CapturedStep == Captured /\ [Next]_vars => Captured'
<1> SUFFICES ASSUME Captured, [Next]_vars PROVE Captured'  OBVIOUS
<1> USE DEF Captured, processes, control
<1>1. CASE UNCHANGED <<holds, reading, written, piped, kept, truncated, mode>>  BY <1>1
<1>2. CASE Behave /\ UNCHANGED <<written, piped, kept, truncated, mode>>
  <2>1. ASSUME NEW p \in Procs, NEW q \in Children, Forks(p, q)
        PROVE  holds' \in [Pipes -> SUBSET Procs]
                /\ \A s \in Pipes : holds[s] = {} => holds'[s] = {}
    BY <2>1 DEF Forks, Procs
  <2>2. ASSUME NEW p \in Procs, Detaches(p) \/ Exits(p) \/ \E s \in Pipes : Closes(p, s)
        PROVE  holds' \in [Pipes -> SUBSET Procs]
                /\ \A s \in Pipes : holds[s] = {} => holds'[s] = {}
    BY <2>2 DEF Detaches, Exits, Closes, Vanish
  <2>3. /\ holds' \in [Pipes -> SUBSET Procs]
        /\ \A s \in Pipes : holds[s] = {} => holds'[s] = {}
        /\ reading' = reading
    BY <1>2, <2>1, <2>2 DEF Behave
  <2> QED  BY <1>2, <2>3
<1>3. CASE Stop /\ UNCHANGED <<written, piped, kept, truncated, mode>>
  BY <1>3 DEF Stop, Interrupt, Poll, KillGroup, KillLauncher, JoinOut, Vanish
<1>4. ASSUME NEW next, NEW deadline, Started(next, deadline),
             UNCHANGED <<written, piped, kept, truncated, mode>>
      PROVE  Captured'
  BY <1>4 DEF Started, Procs
<1>5. CASE mode = "run" /\ RunNext /\ mode' = mode
  <2> USE <1>5 DEF runVars
  <2>1. ASSUME NEW s \in Pipes, Writes(s) PROVE Captured'
    BY <2>1 DEF Writes, tree
  <2>2. ASSUME NEW s \in Pipes, NEW n \in 1..PipeSize, Pumps(s, n) PROVE Captured'
    <3>1. n \in Nat /\ MaxOutput \in Nat  BY RunAssumption
    <3>2. n <= piped[s] /\ piped[s] \in Nat /\ written[s] \in Nat /\ piped[s] <= written[s]
      BY <2>2 DEF Pumps
    <3>3. Least(MaxOutput, kept[s] + n) = Least(MaxOutput, written[s] - (piped[s] - n))
      BY <3>1, <3>2 DEF Least
    <3>4. n > MaxOutput - kept[s] \/ truncated[s] <=> written[s] - (piped[s] - n) > MaxOutput
      BY <3>1, <3>2 DEF Least
    <3>5. Least(MaxOutput, kept[s] + n) \in Nat  BY <3>1 DEF Least
    <3>6. /\ piped' = [piped EXCEPT ![s] = piped[s] - n]
          /\ kept' = [kept EXCEPT ![s] = Least(MaxOutput, kept[s] + n)]
          /\ truncated' = [truncated EXCEPT ![s] = truncated[s] \/ n > MaxOutput - kept[s]]
          /\ s \in reading /\ UNCHANGED <<holds, reading, written, mode>>
      BY <2>2 DEF Pumps, tree
    <3>7. piped[s] - n \in Nat /\ piped[s] - n <= written[s]  BY <3>1, <3>2
    <3>8. /\ piped' \in [Pipes -> Nat] /\ kept' \in [Pipes -> Nat]
          /\ truncated' \in [Pipes -> BOOLEAN]
      BY <3>5, <3>6, <3>7
    <3>9. ASSUME NEW t \in Pipes
          PROVE  /\ piped'[t] <= written'[t]
                 /\ kept'[t] = Least(MaxOutput, written'[t] - piped'[t])
                 /\ truncated'[t] <=> written'[t] - piped'[t] > MaxOutput
                 /\ (mode' = "run" /\ t \notin reading') => piped'[t] = 0 /\ holds'[t] = {}
      <4>1. CASE t = s  BY <3>3, <3>4, <3>6, <3>7, <4>1
      <4>2. CASE t # s  BY <3>6, <4>2
      <4> QED  BY <4>1, <4>2
    <3> QED  BY <3>6, <3>8, <3>9
  <2>3. ASSUME NEW s \in Pipes, PumpEnds(s) PROVE Captured'
    BY <2>3 DEF PumpEnds, ThreadEnds
  <2>4. CASE RunStart  BY <1>4, <2>4 DEF RunStart
  <2>5. CASE RunFails \/ RunWait \/ RunWaitOut \/ RunWaitErr \/ RunReturns \/ RunTick
    BY <1>1, <2>5 DEF RunFails, StartFails, RunWait, WaitLauncher, RunWaitOut, RunWaitErr,
                      RunReturns, JoinErr, RunTick, TimePasses
  <2>6. CASE RunStop \/ (Behave /\ UNCHANGED runVars)  BY <1>2, <1>3, <2>6 DEF RunStop
  <2> QED  BY <2>1, <2>2, <2>3, <2>4, <2>5, <2>6 DEF RunNext, Run, RunReader
<1>6. CASE mode = "echo" /\ EchoNext /\ UNCHANGED <<runVars, mode>>
  <2> USE <1>6 DEF runVars
  <2>1. CASE EchoStart  BY <1>4, <2>1 DEF EchoStart
  <2>2. CASE EchoStop \/ Behave  BY <1>2, <1>3, <2>2 DEF EchoStop
  <2>3. CASE holds' = holds  BY <2>3
  <2>4. EchoNext => EchoStart \/ EchoStop \/ Behave \/ holds' = holds
    BY DEF EchoNext, Echo, EchoTick, TimePasses, EchoReader, PumpLine, StdoutEnds, StderrEnds,
           ThreadEnds, Prints, EchoFails, StartFails, CollectStops, CollectLine, CollectEnds,
           EchoExit, WaitLauncher, EchoReturns, JoinErr, tree
  <2> QED  BY <2>1, <2>2, <2>3, <2>4
<1> QED  BY <1>1, <1>5, <1>6 DEF Next, vars, tree, runVars

LEMMA JoinsStep == Captured /\ Spared /\ BothJoined /\ [Next]_vars => BothJoined'
<1> SUFFICES ASSUME Captured, Spared, BothJoined, [Next]_vars, mode = "run", mode' = "run"
             PROVE  BothJoined'
  BY DEF BothJoined, Next, vars
<1> USE DEF Spared, BothJoined, processes, control, Goes
<1>1. CASE UNCHANGED <<pc, reading, kept, truncated, timedOut, answer>>  BY <1>1
<1>2. CASE RunNext
  <2> USE <1>2 DEF runVars
  <2>1. ASSUME NEW s \in Pipes, RunReader(s) PROVE BothJoined'
    <3>1. s \in reading /\ reading' \subseteq reading
      BY <2>1 DEF RunReader, Pumps, PumpEnds, ThreadEnds, tree
    <3>2. UNCHANGED <<pc, timedOut>>
      BY <2>1 DEF RunReader, Pumps, PumpEnds, ThreadEnds, tree
    <3> QED  BY <3>1, <3>2
  <2>2. CASE RunWaitErr  BY <2>2 DEF RunWaitErr, Decide
  <2>3. CASE RunReturns  BY <2>3 DEF RunReturns, JoinErr
  <2>4. CASE RunStop  BY <2>4 DEF RunStop, Stop, Interrupt, Poll, KillGroup, KillLauncher, JoinOut
  <2>5. CASE RunStart \/ RunFails \/ RunWait \/ RunWaitOut
    BY <2>5 DEF RunStart, Started, RunFails, StartFails, RunWait, WaitLauncher, RunWaitOut
  <2>6. CASE \/ Behave /\ UNCHANGED runVars
             \/ RunTick \/ \E s \in Pipes : Writes(s)
    BY <1>1, <2>6 DEF Behave, RunTick, TimePasses, Writes, tree
  <2> QED  BY <2>1, <2>2, <2>3, <2>4, <2>5, <2>6 DEF RunNext, Run
<1> QED  BY <1>1, <1>2 DEF Next, vars, tree, runVars

(* A run that did not time out answers all that its processes wrote, up to *)
(* the cap, and marks what is longer.                                      *)
THEOREM AnswersWhole == Spec => []WholeAnswer
<1> DEFINE Inv == Clock /\ Spared /\ Captured /\ BothJoined
<1>1. Init => Inv  BY ClockInit, SparedInit, CapturedInit
<1>2. Inv /\ [Next]_vars => Inv'  BY ClockStep, SparedStep, CapturedStep, JoinsStep
<1>3. Inv => WholeAnswer
  BY DEF Captured, BothJoined, WholeAnswer, Pipes
<1> QED  BY <1>1, <1>2, <1>3, PTL DEF Spec

-----------------------------------------------------------------------------
(* The sum of what was printed, line by line: the function Chars is chosen *)
(* to be exists, and starts again where the output grows.                  *)
Sums(t, s, n) ==
  /\ t[0] = 0
  /\ \A k \in 1..n : t[k] = t[k - 1] + s[k]

LEMMA SumsExist ==
  ASSUME NEW s \in Seq(Nat)
  PROVE  \E t \in [0..Len(s) -> Nat] : Sums(t, s, Len(s))
<1> DEFINE W == Len(s)
           Failing == {n \in 0..W : ~ \E t \in [0..n -> Nat] : Sums(t, s, n)}
<1>0. W \in Nat /\ \A k \in 1..W : s[k] \in Nat  BY ElementOfSeq
<1> SUFFICES ASSUME Failing # {} PROVE FALSE  BY <1>0
<1>1. PICK x \in Failing : \A y \in Failing : x <= y
  <2>1. Failing \in SUBSET Nat  BY <1>0
  <2> HIDE DEF Failing
  <2> QED  BY <2>1, LeastElement
<1>2. CASE x = 0
  <2>1. Sums([k \in 0..0 |-> 0], s, 0)  BY DEF Sums
  <2> HIDE DEF Sums
  <2> QED  BY <1>1, <1>2, <2>1
<1>3. CASE x # 0
  <2>0. x \in 0..W  OBVIOUS
  <2>1. x \in 1..W /\ x - 1 \in 0..W /\ x - 1 \notin Failing
    <3>1. x \in 1..W /\ x - 1 \in 0..W /\ ~(x <= x - 1)  BY <1>0, <1>3, <2>0
    <3> HIDE DEF Failing
    <3> QED  BY <1>1, <3>1
  <2>2. PICK t \in [0..(x - 1) -> Nat] : Sums(t, s, x - 1)  BY <2>1
  <2>3. t[0] = 0 /\ \A k \in 1..(x - 1) : t[k] = t[k - 1] + s[k]
    BY <2>2 DEF Sums
  <2> DEFINE u == [k \in 0..x |-> IF k = x THEN t[x - 1] + s[x] ELSE t[k]]
  <2>4. t[x - 1] \in Nat /\ s[x] \in Nat  BY <1>0, <2>1, <2>2
  <2>5. u \in [0..x -> Nat] /\ u[0] = 0  BY <1>0, <2>1, <2>2, <2>3, <2>4
  <2>6. ASSUME NEW k \in 1..x PROVE u[k] = u[k - 1] + s[k]
    <3>1. k \in 0..x /\ k - 1 \in 0..x /\ k - 1 # x  BY <1>0, <2>1
    <3>2. u[k - 1] = t[k - 1]  BY <3>1
    <3>3. CASE k = x  BY <3>1, <3>2, <3>3
    <3>4. CASE k # x
      <4>1. k \in 1..(x - 1)  BY <1>0, <2>1, <3>4
      <4>2. u[k] = t[k]  BY <3>1, <3>4
      <4> QED  BY <2>3, <3>2, <4>1, <4>2
    <3> QED  BY <3>3, <3>4
  <2>7. Sums(u, s, x)  BY <2>5, <2>6 DEF Sums
  <2> HIDE DEF Sums, u
  <2> QED  BY <1>1, <2>5, <2>7
<1> QED  BY <1>2, <1>3

LEMMA SumsAgree ==
  ASSUME NEW s, NEW z, NEW t, NEW u, NEW l \in Nat,
         Sums(t, s, l), Sums(u, z, l), \A k \in 1..l : s[k] = z[k]
  PROVE  \A k \in 0..l : t[k] = u[k]
<1> DEFINE Failing == {k \in 0..l : t[k] # u[k]}
<1> SUFFICES ASSUME Failing # {} PROVE FALSE  OBVIOUS
<1>1. PICK x \in Failing : \A y \in Failing : x <= y
  <2>1. Failing \in SUBSET Nat  OBVIOUS
  <2> HIDE DEF Failing
  <2> QED  BY <2>1, LeastElement
<1>2. t[0] = u[0]  BY DEF Sums
<1>3. x \in 1..l /\ x - 1 \in 0..l /\ x - 1 \notin Failing  BY <1>1, <1>2
<1>4. t[x] = t[x - 1] + s[x] /\ u[x] = u[x - 1] + z[x]  BY <1>3 DEF Sums
<1> QED  BY <1>1, <1>3, <1>4

(* A function chosen by the recursion that Chars uses is that sum.         *)
LEMMA SumOf ==
  ASSUME NEW s \in Seq(Nat), NEW f,
         f = CHOOSE g : g = [k \in 0..Len(s) |-> IF k = 0 THEN 0 ELSE g[k - 1] + s[k]]
  PROVE  Sums(f, s, Len(s)) /\ \A k \in 0..Len(s) : f[k] \in Nat
<1> DEFINE W == Len(s)
<1>0. W \in Nat  OBVIOUS
<1>1. PICK t \in [0..W -> Nat] : Sums(t, s, W)  BY SumsExist
<1>2. t = [k \in 0..W |-> IF k = 0 THEN 0 ELSE t[k - 1] + s[k]]  BY <1>0, <1>1 DEF Sums
<1>3. f = [k \in 0..W |-> IF k = 0 THEN 0 ELSE f[k - 1] + s[k]]  BY <1>2
<1> HIDE DEF W
<1>4. Sums(f, s, W)
  <2>1. f[0] = 0
    <3>1. 0 \in 0..W  BY <1>0
    <3>2. f[0] = IF 0 = 0 THEN 0 ELSE f[0 - 1] + s[0]  BY <1>3, <3>1, Zenon
    <3> QED  BY <3>2
  <2>2. ASSUME NEW k \in 1..W PROVE f[k] = f[k - 1] + s[k]
    <3>1. k \in 0..W /\ k # 0  BY <1>0
    <3> QED  BY <1>3, <3>1
  <2> QED  BY <2>1, <2>2 DEF Sums
<1>6. \A k \in 0..W : f[k] = t[k]
  <2>1. \A k \in 1..W : s[k] = s[k]  OBVIOUS
  <2> QED  BY <1>0, <1>1, <1>4, <2>1, SumsAgree
<1> QED  BY <1>1, <1>4, <1>6 DEF W

LEMMA CharsSum ==
  ASSUME printed \in Seq(Nat)
  PROVE  /\ Chars(0) = 0
         /\ \A n \in 1..Len(printed) : Chars(n) = Chars(n - 1) + printed[n]
         /\ \A n \in 0..Len(printed) : Chars(n) \in Nat
<1> DEFINE upTo[k \in 0..Len(printed)] == IF k = 0 THEN 0 ELSE upTo[k - 1] + printed[k]
<1>1. \A n : Chars(n) = upTo[n]  BY DEF Chars
<1> HIDE DEF upTo
<1>2. Sums(upTo, printed, Len(printed)) /\ \A k \in 0..Len(printed) : upTo[k] \in Nat
  BY SumOf DEF upTo
<1> QED  BY <1>1, <1>2 DEF Sums

(* What is printed later changes no sum of what was printed before.        *)
LEMMA CharsStand ==
  ASSUME printed \in Seq(Nat), NEW line \in Nat, printed' = Append(printed, line)
  PROVE  \A n \in 0..Len(printed) : Chars(n)' = Chars(n)
<1> DEFINE W == Len(printed)
           upTo[k \in 0..Len(printed)] == IF k = 0 THEN 0 ELSE upTo[k - 1] + printed[k]
           upNow[k \in 0..Len(printed')] == IF k = 0 THEN 0 ELSE upNow[k - 1] + printed'[k]
<1>1. \A n : Chars(n) = upTo[n] /\ Chars(n)' = upNow[n]  BY DEF Chars
<1>2. printed' \in Seq(Nat) /\ Len(printed') = W + 1 /\ W \in Nat
      /\ \A k \in 1..W : printed'[k] = printed[k]
  OBVIOUS
<1> HIDE DEF upTo, upNow
<1>3. Sums(upTo, printed, W)  BY SumOf DEF upTo
<1>4. Sums(upNow, printed', W + 1)  BY <1>2, SumOf DEF upNow
<1> HIDE DEF W
<1>5. Sums(upNow, printed', W)  BY <1>2, <1>4 DEF Sums
<1>6. \A k \in 0..W : upTo[k] = upNow[k]
  <2>1. \A k \in 1..W : printed[k] = printed'[k]  BY <1>2
  <2>2. W \in Nat  BY <1>2
  <2>3. PICK a, b, s, z, l : a = upTo /\ b = upNow /\ s = printed /\ z = printed' /\ l = W
    OBVIOUS
  <2>4. Sums(a, s, l) /\ Sums(b, z, l) /\ l \in Nat /\ \A k \in 1..l : s[k] = z[k]
    BY <1>3, <1>5, <2>1, <2>2, <2>3
  <2>5. \A k \in 0..l : a[k] = b[k]  BY <2>4, SumsAgree
  <2> QED  BY <2>3, <2>5
<1> QED  BY <1>1, <1>6 DEF W

-----------------------------------------------------------------------------
(* Where the message of a line starts.                                     *)
LEMMA LastOne ==
  ASSUME NEW n \in Nat, NEW S \in SUBSET (1..n), S # {}
  PROVE  \E m \in S : \A k \in S : k <= m
<1> DEFINE T == {n - k : k \in S}
<1>1. T \in SUBSET Nat /\ T # {}
  <2>1. \A k \in S : n - k \in Nat  OBVIOUS
  <2> QED  BY <2>1
<1>2. PICK x \in T : \A y \in T : x <= y
  <2> HIDE DEF T
  <2> QED  BY <1>1, LeastElement
<1>3. PICK m \in S : x = n - m  OBVIOUS
<1>4. ASSUME NEW k \in S PROVE k <= m
  <2>0. k \in 1..n /\ m \in 1..n  OBVIOUS
  <2>1. n - k \in T /\ k \in Nat /\ m \in Nat  BY <2>0
  <2>2. n - m <= n - k  BY <1>2, <1>3, <2>1
  <2> QED  BY <2>1, <2>2
<1> QED  BY <1>4

SeparatorsTo(i) == {j \in 1..(i - 1) : printed[j] = Separator}

LEMMA StartIsBefore ==
  ASSUME NEW i \in Nat \ {0}
  PROVE  /\ MessageStart(i) \in 1..i
         /\ printed[i] = Separator => MessageStart(i + 1) = i + 1
         /\ printed[i] # Separator => MessageStart(i + 1) = MessageStart(i)
<1>0. \A k \in Nat \ {0} :
        MessageStart(k) = IF SeparatorsTo(k) = {} THEN 1
                          ELSE 1 + CHOOSE j \in SeparatorsTo(k) : \A l \in SeparatorsTo(k) : l <= j
  BY DEF MessageStart, SeparatorsTo
<1>1. MessageStart(i) \in 1..i
  <2>1. CASE SeparatorsTo(i) = {}  BY <1>0, <2>1
  <2>2. CASE SeparatorsTo(i) # {}
    <3>1. SeparatorsTo(i) \in SUBSET (1..(i - 1)) /\ i - 1 \in Nat  BY DEF SeparatorsTo
    <3>2. \E m \in SeparatorsTo(i) : \A k \in SeparatorsTo(i) : k <= m  BY <2>2, <3>1, LastOne
    <3>3. PICK m \in 1..(i - 1) : MessageStart(i) = 1 + m  BY <1>0, <2>2, <3>1, <3>2
    <3> QED  BY <3>3
  <2> QED  BY <2>1, <2>2
<1>2. i + 1 \in Nat \ {0} /\ 1..i = (1..(i - 1)) \cup {i}  OBVIOUS
<1>3. ASSUME printed[i] = Separator PROVE MessageStart(i + 1) = i + 1
  <2>1. i \in SeparatorsTo(i + 1) /\ \A j \in SeparatorsTo(i + 1) : j \in 1..i
    BY <1>3 DEF SeparatorsTo
  <2>2. \A j \in SeparatorsTo(i + 1) : (\A l \in SeparatorsTo(i + 1) : l <= j) => j = i  BY <2>1
  <2>3. \A l \in SeparatorsTo(i + 1) : l <= i  BY <2>1
  <2>4. (CHOOSE j \in SeparatorsTo(i + 1) : \A l \in SeparatorsTo(i + 1) : l <= j) = i
    BY <2>1, <2>2, <2>3
  <2> QED  BY <1>0, <1>2, <2>1, <2>4
<1>4. ASSUME printed[i] # Separator PROVE MessageStart(i + 1) = MessageStart(i)
  <2>1. SeparatorsTo(i + 1) = SeparatorsTo(i)  BY <1>2, <1>4 DEF SeparatorsTo
  <2> QED  BY <1>0, <1>2, <2>1
<1> QED  BY <1>1, <1>3, <1>4

-----------------------------------------------------------------------------
(* What the collector knows after each line: the message in hand, whole or *)
(* dropped, the documents so far and the messages dropped so far.          *)
Message(i) == [k \in 1..(i - MessageStart(i)) |-> MessageStart(i) + k - 1]
Fitting(n) == {i \in 1..n : printed[i] = Separator /\ Fits(i)}
Oversized(n) == {i \in 1..n : printed[i] = Separator /\ ~Fits(i)}

LinesType ==
  /\ printed \in Seq(Nat)
  /\ taken \in Nat /\ pumped \in Nat /\ taken <= pumped /\ pumped <= Len(printed)
  /\ size \in Nat /\ oversized \in Nat
  /\ current \in Seq(Nat) /\ documents \in Seq(Seq(Nat))

InHand ==
  /\ dropping <=> ~Fits(taken + 1)
  /\ ~dropping => /\ size = Chars(taken) - Chars(MessageStart(taken + 1) - 1)
                  /\ current = Message(taken + 1)

Gathered ==
  /\ Len(documents) = Cardinality(Fitting(taken))
  /\ \A i \in Fitting(taken) :
       documents[Cardinality({j \in Fitting(taken) : j <= i})] = Message(i)

Tallied == oversized = Cardinality(Oversized(taken)) + (IF dropping THEN 1 ELSE 0)

Collects == LinesType /\ InHand /\ Gathered /\ Tallied

LEMMA CollectsInit == Init => Collects
<1> SUFFICES ASSUME Init PROVE Collects  OBVIOUS
<1>1. /\ printed = <<>> /\ taken = 0 /\ pumped = 0 /\ size = 0 /\ dropping = FALSE
      /\ oversized = 0 /\ current = <<>> /\ documents = <<>>
  BY DEF Init, EchoInit
<1>2. LinesType
  <2>1. <<>> \in Seq(Nat) /\ Len(<<>>) = 0 /\ <<>> \in Seq(Seq(Nat))  OBVIOUS
  <2>2. taken <= pumped /\ pumped <= Len(printed)  BY <1>1, <2>1
  <2>3. taken \in Nat /\ pumped \in Nat /\ size \in Nat /\ oversized \in Nat  BY <1>1
  <2>4. /\ printed \in Seq(Nat) /\ current \in Seq(Nat)
        /\ documents \in Seq(Seq(Nat))
    BY <1>1, <2>1, Zenon
  <2> QED  BY <2>2, <2>3, <2>4 DEF LinesType
<1>3. MessageStart(1) = 1
  <2>1. SeparatorsTo(1) = {}  BY DEF SeparatorsTo
  <2> QED  BY <2>1 DEF MessageStart, SeparatorsTo
<1>4. Chars(0) = 0  BY <1>2, CharsSum DEF LinesType
<1>5. Fits(1)  BY <1>3, <1>4, EchoAssumption DEF Fits
<1>6. Message(1) = <<>>  BY <1>3 DEF Message
<1>7. Fitting(0) = {} /\ Oversized(0) = {}  BY DEF Fitting, Oversized
<1>8. Cardinality({}) = 0  BY FS_EmptySet
<1>9. InHand  BY <1>1, <1>3, <1>4, <1>5, <1>6 DEF InHand
<1>10. Gathered
  <2>1. Len(documents) = 0 /\ Fitting(taken) = {}  BY <1>1, <1>7
  <2> QED  BY <1>8, <2>1 DEF Gathered
<1>11. Tallied
  <2>1. oversized = 0 /\ ~dropping /\ Cardinality(Oversized(taken)) = 0  BY <1>1, <1>7, <1>8
  <2> QED  BY <2>1 DEF Tallied
<1> QED  BY <1>2, <1>9, <1>10, <1>11 DEF Collects

(* What is printed further changes nothing of what the lines read say.     *)
LEMMA PrintedStand ==
  ASSUME LinesType, NEW line \in Nat, printed' = Append(printed, line)
  PROVE  \A i \in 1..(taken + 1) :
           /\ MessageStart(i)' = MessageStart(i) /\ (Fits(i)' <=> Fits(i))
           /\ Message(i)' = Message(i)
           /\ i <= taken => printed'[i] = printed[i]
<1> SUFFICES ASSUME NEW i \in 1..(taken + 1)
             PROVE  /\ MessageStart(i)' = MessageStart(i) /\ (Fits(i)' <=> Fits(i))
                    /\ Message(i)' = Message(i)
                    /\ i <= taken => printed'[i] = printed[i]
  OBVIOUS
<1>0. /\ printed \in Seq(Nat) /\ Len(printed) \in Nat /\ taken \in Nat /\ taken <= Len(printed)
      /\ i \in Nat \ {0}
  BY DEF LinesType
<1>1. \A j \in 1..Len(printed) : printed'[j] = printed[j]  BY <1>0
<1>2. SeparatorsTo(i)' = SeparatorsTo(i)  BY <1>0, <1>1 DEF SeparatorsTo
<1>3. MessageStart(i)' = MessageStart(i)
  <2> DEFINE StartAfter(B) == IF B = {} THEN 1 ELSE 1 + CHOOSE j \in B : \A k \in B : k <= j
  <2>1. MessageStart(i) = StartAfter(SeparatorsTo(i))  BY DEF MessageStart, SeparatorsTo
  <2>2. MessageStart(i)' = StartAfter(SeparatorsTo(i)')  BY DEF MessageStart, SeparatorsTo
  <2> QED  BY <1>2, <2>1, <2>2
<1>4. MessageStart(i) \in 1..i  BY <1>0, StartIsBefore
<1>5. i - 1 \in 0..Len(printed) /\ MessageStart(i) - 1 \in 0..Len(printed)  BY <1>0, <1>4
<1>6. Chars(i - 1)' = Chars(i - 1) /\ Chars(MessageStart(i) - 1)' = Chars(MessageStart(i) - 1)
  <2>1. \A n \in 0..Len(printed) : Chars(n)' = Chars(n)  BY <1>0, CharsStand
  <2>2. PICK m : m = MessageStart(i) - 1  OBVIOUS
  <2>3. Chars(m)' = Chars(m) /\ Chars(i - 1)' = Chars(i - 1)  BY <1>5, <2>1, <2>2
  <2> QED  BY <1>3, <2>2, <2>3
<1>7. Fits(i)' <=> Fits(i)  BY <1>3, <1>6 DEF Fits
<1>8. Message(i)' = Message(i)  BY <1>3 DEF Message
<1> QED  BY <1>0, <1>1, <1>3, <1>7, <1>8

LEMMA PrintsKeep ==
  ASSUME Collects, NEW line \in Nat, printed' = Append(printed, line), UNCHANGED collector,
         UNCHANGED pumped
  PROVE  Collects'
<1> USE DEF Collects
<1>1. LinesType'  BY DEF LinesType, collector
<1>2. taken \in Nat /\ taken + 1 \in 1..(taken + 1)  BY DEF LinesType
<1>3. taken' = taken /\ size' = size /\ dropping' = dropping /\ current' = current
      /\ documents' = documents /\ oversized' = oversized
  BY DEF collector
<1>4. PICK n : n = taken  OBVIOUS
<1>5. Fitting(n)' = Fitting(n) /\ Oversized(n)' = Oversized(n)
  <2>1. \A i \in 1..n : printed'[i] = printed[i] /\ (Fits(i)' <=> Fits(i))
    <3>1. \A i \in 1..n : i \in 1..(taken + 1) /\ i <= taken  BY <1>2, <1>4
    <3> QED  BY <3>1, PrintedStand
  <2>2. Fitting(n)' = {i \in 1..n : printed'[i] = Separator /\ Fits(i)'}  BY DEF Fitting, Separator
  <2>3. Oversized(n)' = {i \in 1..n : printed'[i] = Separator /\ ~Fits(i)'}
    BY DEF Oversized, Separator
  <2> QED  BY <2>1, <2>2, <2>3 DEF Fitting, Oversized
<1>6. InHand'
  <2>1. n + 1 \in 1..(taken + 1) /\ n \in 0..Len(printed) /\ n + 1 \in Nat \ {0}
    BY <1>2, <1>4 DEF LinesType
  <2>2. /\ MessageStart(n + 1)' = MessageStart(n + 1) /\ (Fits(n + 1)' <=> Fits(n + 1))
        /\ Message(n + 1)' = Message(n + 1)
    BY <2>1, PrintedStand
  <2>3. PICK m : m = MessageStart(n + 1) - 1  OBVIOUS
  <2>4. m \in 0..Len(printed)
    <3>1. MessageStart(n + 1) \in 1..(n + 1)  BY <2>1, StartIsBefore
    <3> QED  BY <1>2, <2>1, <2>3, <3>1 DEF LinesType
  <2>5. Chars(n)' = Chars(n) /\ Chars(m)' = Chars(m)
    <3>1. \A k \in 0..Len(printed) : Chars(k)' = Chars(k)  BY CharsStand DEF LinesType
    <3> QED  BY <2>1, <2>4, <3>1
  <2>6. InHand => /\ dropping <=> ~Fits(n + 1)
                  /\ ~dropping => size = Chars(n) - Chars(m) /\ current = Message(n + 1)
    BY <1>4, <2>3 DEF InHand
  <2>7. (/\ dropping <=> ~Fits(n + 1)
         /\ ~dropping => size = Chars(n) - Chars(m) /\ current = Message(n + 1))' => InHand'
    BY <1>3, <1>4, <2>2, <2>3 DEF InHand
  <2> QED  BY <1>3, <2>2, <2>5, <2>6, <2>7
<1>7. Gathered'
  <2>1. \A i \in Fitting(n) : Message(i)' = Message(i)
    BY <1>2, <1>4, PrintedStand DEF Fitting
  <2>2. /\ Len(documents') = Cardinality(Fitting(n)')
        /\ \A i \in Fitting(n)' :
             documents'[Cardinality({j \in Fitting(n)' : j <= i})] = Message(i)'
    BY <1>3, <1>4, <1>5, <2>1 DEF Gathered
  <2> QED  BY <1>3, <1>4, <2>2 DEF Gathered
<1>8. Tallied'  BY <1>3, <1>4, <1>5 DEF Tallied
<1> QED  BY <1>1, <1>6, <1>7, <1>8

(* How the sets of complete messages grow with the line read.              *)
LEMMA NextComplete ==
  ASSUME NEW n \in Nat
  PROVE  /\ IsFiniteSet(Fitting(n)) /\ IsFiniteSet(Oversized(n))
         /\ n + 1 \notin Fitting(n) /\ n + 1 \notin Oversized(n)
         /\ Fitting(n + 1) = IF printed[n + 1] = Separator /\ Fits(n + 1)
                             THEN Fitting(n) \cup {n + 1} ELSE Fitting(n)
         /\ Oversized(n + 1) = IF printed[n + 1] = Separator /\ ~Fits(n + 1)
                             THEN Oversized(n) \cup {n + 1} ELSE Oversized(n)
<1>1. 1..(n + 1) = (1..n) \cup {n + 1} /\ n + 1 \notin 1..n  OBVIOUS
<1>2. IsFiniteSet(1..n)  BY UpTo
<1>3. IsFiniteSet(Fitting(n)) /\ IsFiniteSet(Oversized(n))
  BY <1>2, FS_Subset DEF Fitting, Oversized
<1> QED  BY <1>1, <1>3 DEF Fitting, Oversized

LEMMA TypesCollect ==
  ASSUME LinesType, CollectLine
  PROVE  LinesType'
<1>1. /\ taken < pumped /\ taken' = taken + 1 /\ UNCHANGED <<printed, pumped>>
      /\ taken + 1 \in 1..Len(printed) /\ printed[taken + 1] \in Nat
  BY DEF CollectLine, LinesType
<1>2. CASE Ends
  <2>1. size' = 0 /\ dropping' = FALSE /\ oversized' = oversized  BY <1>2 DEF Ends
  <2>2. current' \in Seq(Nat)
    <3>1. <<>> \in Seq(Nat)  OBVIOUS
    <3> QED  BY <1>2, <3>1, Zenon DEF Ends
  <2>3. documents' \in Seq(Seq(Nat))
    <3>1. documents' = documents \/ documents' = Append(documents, current)
      BY <1>2 DEF Ends
    <3>2. Append(documents, current) \in Seq(Seq(Nat))  BY AppendProperties DEF LinesType
    <3> QED  BY <3>1, <3>2 DEF LinesType
  <2>4. taken' \in Nat /\ taken' <= pumped'  BY <1>1 DEF LinesType
  <2>5. size' \in Nat /\ oversized' \in Nat  BY <2>1 DEF LinesType
  <2> QED  BY <1>1, <2>2, <2>3, <2>4, <2>5 DEF LinesType
<1>3. CASE UNCHANGED <<current, size, dropping, documents, oversized>>
  BY <1>1, <1>3 DEF LinesType
<1>4. CASE Grows(printed[taken + 1], taken + 1)
  <2>1. /\ size' \in Nat /\ oversized' \in Nat /\ documents' = documents
    <3>1. PICK l : l = size + printed[taken + 1]  OBVIOUS
    <3>2. /\ size' = l /\ dropping' = (l > MaxChars) /\ documents' = documents
          /\ oversized' = IF l > MaxChars THEN oversized + 1 ELSE oversized
      BY <1>4, <3>1 DEF Grows
    <3>3. l \in Nat /\ oversized \in Nat /\ oversized + 1 \in Nat  BY <1>1, <3>1 DEF LinesType
    <3> QED  BY <3>2, <3>3
  <2>2. current' \in Seq(Nat)
    <3>1. current' = <<>> \/ current' = Append(current, taken + 1)  BY <1>4 DEF Grows
    <3>2. taken + 1 \in Nat /\ <<>> \in Seq(Nat)  BY DEF LinesType
    <3>3. Append(current, taken + 1) \in Seq(Nat)  BY <3>2, AppendProperties DEF LinesType
    <3> QED  BY <3>1, <3>2, <3>3, Zenon
  <2> QED  BY <1>1, <2>1, <2>2 DEF LinesType
<1> QED  BY <1>2, <1>3, <1>4 DEF CollectLine

(* A line that is not a separator.                                         *)
LEMMA GrowsCollect ==
  ASSUME Collects, CollectLine, printed[taken + 1] # Separator
  PROVE  InHand' /\ Gathered' /\ Tallied'
<1>0. PICK n : n = taken  OBVIOUS
<1>1. /\ n \in Nat /\ n + 1 \in 1..Len(printed) /\ n + 1 \in Nat \ {0} /\ taken' = n + 1
      /\ printed[n + 1] \in Nat /\ printed' = printed /\ documents' = documents
  <2>1. /\ n \in Nat /\ taken' = n + 1 /\ printed' = printed /\ n < pumped
        /\ pumped \in Nat /\ pumped <= Len(printed) /\ printed \in Seq(Nat)
    BY <1>0 DEF CollectLine, Collects, LinesType
  <2>2. n + 1 \in 1..Len(printed) /\ n + 1 \in Nat \ {0}  BY <2>1
  <2>3. printed[n + 1] \in Nat  BY <2>1, <2>2, ElementOfSeq
  <2>4. documents' = documents  BY DEF CollectLine, Grows
  <2> QED  BY <2>1, <2>2, <2>3, <2>4
<1>2. PICK b : b = MessageStart(n + 1)  OBVIOUS
<1>3. b \in 1..(n + 1) /\ MessageStart(n + 2) = b
  <2>1. n + 1 + 1 = n + 2  BY <1>1
  <2> QED  BY <1>0, <1>1, <1>2, <2>1, StartIsBefore
<1>4. PICK c, a, s : c = Chars(n + 1) /\ a = Chars(n) /\ s = Chars(b - 1)  OBVIOUS
<1>5. a \in Nat /\ s \in Nat /\ c = a + printed[n + 1]
  <2>1. printed \in Seq(Nat) /\ Len(printed) \in Nat  BY DEF Collects, LinesType
  <2>2. n \in 0..Len(printed) /\ b - 1 \in 0..Len(printed)  BY <1>1, <1>3, <2>1
  <2>3. (n + 1) - 1 = n  BY <1>1
  <2> QED  BY <1>1, <1>4, <2>1, <2>2, <2>3, CharsSum
<1>6. /\ Fits(n + 1) <=> a - s <= MaxChars
      /\ Fits(n + 2) <=> c - s <= MaxChars
  <2>1. (n + 1) - 1 = n /\ (n + 2) - 1 = n + 1  BY <1>1
  <2>2. \A k, l : (k - 1 = l /\ MessageStart(k) = b) =>
                   (Fits(k) <=> Chars(l) - Chars(b - 1) <= MaxChars)
    BY Zenon DEF Fits
  <2>3. (Fits(n + 1) <=> Chars(n) - Chars(b - 1) <= MaxChars)
        /\ (Fits(n + 2) <=> Chars(n + 1) - Chars(b - 1) <= MaxChars)
    BY <1>2, <1>3, <2>1, <2>2
  <2> QED  BY <1>4, <2>3
<1>7. Fitting(n + 1) = Fitting(n) /\ Oversized(n + 1) = Oversized(n)
  BY <1>0, <1>1, NextComplete
<1>8. Fitting(n + 1)' = Fitting(n) /\ Oversized(n + 1)' = Oversized(n)
  <2>1. Fitting(n + 1)' = Fitting(n + 1) /\ Oversized(n + 1)' = Oversized(n + 1)
    BY <1>1 DEF Fitting, Oversized, Fits, Chars, MessageStart
  <2> QED  BY <1>7, <2>1
<1>9. \A i : Message(i)' = Message(i)  BY <1>1 DEF Message, MessageStart
<1>10. (Fits(n + 2)' <=> Fits(n + 2)) /\ Chars(n + 1)' = c /\ Chars(b - 1)' = s
       /\ MessageStart(n + 2)' = b
  BY <1>1, <1>3, <1>4 DEF Fits, Chars, MessageStart
<1>11. Gathered'
  BY <1>0, <1>1, <1>8, <1>9 DEF Collects, Gathered
<1>12. /\ dropping <=> ~Fits(n + 1)
       /\ ~dropping => size = a - s /\ current = Message(n + 1)
       /\ size \in Nat /\ oversized \in Nat
       /\ oversized = Cardinality(Oversized(n)) + (IF dropping THEN 1 ELSE 0)
       /\ MaxChars \in Nat /\ Cardinality(Oversized(n)) \in Nat
  <2>1. Cardinality(Oversized(n)) \in Nat  BY <1>1, NextComplete, FS_CardinalityType
  <2> QED  BY <1>0, <1>2, <1>4, <2>1, EchoAssumption DEF Collects, InHand, Tallied, LinesType
<1>13. CASE dropping
  <2>1. dropping' = dropping /\ oversized' = oversized
    BY <1>13 DEF CollectLine, Collects, LinesType, Grows
  <2>2. ~Fits(n + 2)
    <3>1. PICK v \in Nat : v = printed[n + 1]  BY <1>1
    <3>2. ~(a - s <= MaxChars) /\ c = a + v  BY <1>5, <1>6, <1>12, <1>13, <3>1
    <3>3. ~(c - s <= MaxChars)  BY <1>5, <1>12, <3>2
    <3> QED  BY <1>6, <3>3
  <2>3. InHand'
    <3>1. taken' + 1 = n + 2  BY <1>1
    <3> QED  BY <1>10, <1>13, <2>1, <2>2, <3>1 DEF InHand
  <2>4. Tallied'  BY <1>1, <1>8, <1>12, <2>1 DEF Tallied
  <2> QED  BY <1>11, <2>3, <2>4
<1>14. CASE ~dropping
  <2>1. Grows(printed[n + 1], n + 1)  BY <1>0, <1>14 DEF CollectLine, LinesType
  <2>2. /\ size' = c - s /\ (dropping' <=> c - s > MaxChars)
        /\ c - s > MaxChars => oversized' = oversized + 1
        /\ ~(c - s > MaxChars) => oversized' = oversized /\ current' = Append(current, n + 1)
    <3>1. PICK l : l = size + printed[n + 1]  OBVIOUS
    <3>2. l = c - s
      <4>1. PICK v \in Nat : v = printed[n + 1]  BY <1>1
      <4>2. l = (a - s) + v /\ c = a + v  BY <1>5, <1>12, <1>14, <3>1, <4>1
      <4> QED  BY <1>5, <4>2
    <3>3. /\ size' = l /\ dropping' = (l > MaxChars)
          /\ oversized' = IF l > MaxChars THEN oversized + 1 ELSE oversized
          /\ current' = IF l > MaxChars THEN <<>> ELSE Append(current, n + 1)
      BY <2>1, <3>1 DEF Grows
    <3> QED  BY <3>2, <3>3
  <2>3. InHand'
    <3>1. taken' + 1 = n + 2 /\ taken' = n + 1  BY <1>1
    <3>2. dropping' <=> ~Fits(n + 2)'  BY <1>1, <1>5, <1>6, <1>10, <1>12, <2>2
    <3>3. ASSUME ~dropping' PROVE current' = Message(n + 2)'
      <4>1. current' = Append(Message(n + 1), n + 1)  BY <1>1, <1>5, <1>12, <1>14, <2>2, <3>3
      <4>2. /\ Message(n + 1) = [k \in 1..((n + 1) - b) |-> b + k - 1]
            /\ Message(n + 2) = [k \in 1..((n + 2) - b) |-> b + k - 1]
        <5>1. Message(n + 1) = [j \in 1..((n + 1) - MessageStart(n + 1)) |->
                                  MessageStart(n + 1) + j - 1]
          BY DEF Message
        <5>2. Message(n + 2) = [j \in 1..((n + 2) - MessageStart(n + 2)) |->
                                  MessageStart(n + 2) + j - 1]
          BY DEF Message
        <5> QED  BY <1>2, <1>3, <5>1, <5>2
      <4>3. Append(Message(n + 1), n + 1) = Message(n + 2)  BY <1>1, <1>3, <4>2
      <4> QED  BY <1>9, <4>1, <4>3
    <3> QED  BY <1>10, <2>2, <3>1, <3>2, <3>3 DEF InHand
  <2>4. Tallied'
    <3> DEFINE long == Cardinality(Oversized(n))
    <3>1. Cardinality(Oversized(taken)') = long
      <4>1. Oversized(taken)' = Oversized(n + 1)'  BY <1>1
      <4> QED  BY <1>8, <4>1
    <3>2. oversized = long /\ long \in Nat  BY <1>12, <1>14
    <3> HIDE DEF long
    <3>3. oversized' = long + (IF dropping' THEN 1 ELSE 0)
      <4>1. CASE c - s > MaxChars  BY <2>2, <3>2, <4>1
      <4>2. CASE ~(c - s > MaxChars)  BY <2>2, <3>2, <4>2
      <4> QED  BY <4>1, <4>2
    <3> QED  BY <3>1, <3>3 DEF Tallied
  <2> QED  BY <1>11, <2>3, <2>4
<1> QED  BY <1>12, <1>13, <1>14

(* The n-th of the elements of a growing set of naturals.                  *)
LEMMA Ranked ==
  ASSUME NEW n \in Nat, NEW S \in SUBSET (1..n), NEW i \in S
  PROVE  /\ Cardinality({j \in S : j <= i}) \in 1..Cardinality(S)
         /\ {j \in S \cup {n + 1} : j <= i} = {j \in S : j <= i}
         /\ {j \in S \cup {n + 1} : j <= n + 1} = S \cup {n + 1}
         /\ Cardinality(S \cup {n + 1}) = Cardinality(S) + 1
<1> DEFINE T == {j \in S : j <= i}
<1>1. IsFiniteSet(S) /\ T \subseteq S /\ i \in T /\ n + 1 \notin S
  <2>1. IsFiniteSet(S)  BY UpTo, FS_Subset
  <2>2. i \in Nat /\ n + 1 \notin 1..n /\ i <= i  OBVIOUS
  <2>3. n + 1 \notin S  BY <2>2
  <2> QED  BY <2>1, <2>2, <2>3
<1>2. {j \in S \cup {n + 1} : j <= i} = T /\ {j \in S \cup {n + 1} : j <= n + 1} = S \cup {n + 1}
  <2>1. \A j \in S : j \in 1..n /\ j <= n + 1  OBVIOUS
  <2>2. i \in 1..n /\ ~(n + 1 <= i) /\ n + 1 <= n + 1  OBVIOUS
  <2>3. {j \in S \cup {n + 1} : j <= i} = T  BY <2>2
  <2> QED  BY <2>1, <2>2, <2>3
<1> HIDE DEF T
<1>3. IsFiniteSet(T) /\ Cardinality(T) <= Cardinality(S)  BY <1>1, FS_Subset
<1>4. Cardinality(T) \in Nat /\ Cardinality(S) \in Nat /\ Cardinality(T) # 0
  BY <1>1, <1>3, FS_CardinalityType, FS_EmptySet
<1>5. Cardinality(S \cup {n + 1}) = Cardinality(S) + 1  BY <1>1, FS_AddElement
<1>6. Cardinality(T) \in 1..Cardinality(S)  BY <1>3, <1>4
<1> QED  BY <1>2, <1>5, <1>6 DEF T

(* A separator: the message in hand ends, and the next starts empty.       *)
LEMMA EndsCollect ==
  ASSUME Collects, CollectLine, printed[taken + 1] = Separator
  PROVE  InHand' /\ Gathered' /\ Tallied'
<1>0. PICK n : n = taken  OBVIOUS
<1>1. /\ n \in Nat /\ n + 1 \in 1..Len(printed) /\ n + 1 \in Nat \ {0} /\ taken' = n + 1
      /\ printed' = printed
  BY <1>0 DEF CollectLine, Collects, LinesType
<1>2. /\ documents' = IF dropping THEN documents ELSE Append(documents, current)
      /\ current' = <<>> /\ size' = 0 /\ ~dropping' /\ oversized' = oversized
  BY DEF CollectLine, Ends
<1>3. MessageStart(n + 2) = n + 2 /\ printed[n + 1] = Separator
  <2>1. (n + 1) + 1 = n + 2  BY <1>1
  <2> QED  BY <1>0, <1>1, <2>1, StartIsBefore
<1>4. (n + 2) - 1 = n + 1 /\ Chars(n + 1) \in Nat
  <2>1. printed \in Seq(Nat) /\ n + 1 \in 0..Len(printed)  BY <1>1 DEF Collects, LinesType
  <2> QED  BY <1>1, <2>1, CharsSum
<1>5. /\ Fits(n + 2)' /\ MessageStart(n + 2)' = n + 2 /\ Chars(n + 1)' = Chars(n + 1)
      /\ Fitting(n + 1)' = Fitting(n + 1) /\ Oversized(n + 1)' = Oversized(n + 1)
      /\ \A i : Message(i)' = Message(i)
  <2>1. Fits(n + 2)  BY <1>3, <1>4, EchoAssumption DEF Fits
  <2> QED  BY <1>1, <1>3, <2>1 DEF Fitting, Oversized, Message, Fits, Chars, MessageStart
<1>6. InHand'
  <2>1. taken' + 1 = n + 2 /\ taken' = n + 1  BY <1>1
  <2>2. Message(n + 2)' = <<>>
    <3>1. (n + 2) - (n + 2) = 0  BY <1>1
    <3>2. Message(n + 2) = [k \in 1..0 |-> (n + 2) + k - 1]  BY <1>3, <3>1 DEF Message
    <3> QED  BY <1>5, <3>2
  <2>3. Chars(n + 1)' - Chars((n + 2) - 1)' = 0  BY <1>4, <1>5
  <2>4. PICK m : m = n + 2 /\ m = taken' + 1 /\ m - 1 = n + 1  BY <1>1, <1>4
  <2>5. Fits(m)' /\ MessageStart(m)' = m /\ Message(m)' = <<>> /\ Chars(n + 1)' \in Nat
    BY <1>4, <1>5, <2>2, <2>4
  <2>6. size' = Chars(taken)' - Chars(MessageStart(m) - 1)'
    <3>1. Chars(taken)' = Chars(n + 1)'  BY <2>1
    <3>2. Chars(MessageStart(m) - 1)' = Chars(n + 1)'  BY <2>4, <2>5
    <3> QED  BY <1>2, <2>5, <3>1, <3>2
  <2> QED  BY <1>2, <2>4, <2>5, <2>6 DEF InHand
<1>7. /\ dropping <=> ~Fits(n + 1)
      /\ ~dropping => current = Message(n + 1)
      /\ Len(documents) = Cardinality(Fitting(n))
      /\ \A i \in Fitting(n) : documents[Cardinality({j \in Fitting(n) : j <= i})] = Message(i)
      /\ oversized = Cardinality(Oversized(n)) + (IF dropping THEN 1 ELSE 0)
      /\ Cardinality(Oversized(n)) \in Nat
      /\ documents \in Seq(Seq(Nat)) /\ current \in Seq(Nat)
  <2>1. Cardinality(Oversized(n)) \in Nat  BY <1>1, NextComplete, FS_CardinalityType
  <2> QED  BY <1>0, <2>1 DEF Collects, InHand, Gathered, Tallied, LinesType
<1>8. CASE dropping
  <2>1. Fitting(n + 1) = Fitting(n) /\ Oversized(n + 1) = Oversized(n) \cup {n + 1}
    BY <1>1, <1>3, <1>7, <1>8, NextComplete
  <2>2. Cardinality(Oversized(n + 1)) = Cardinality(Oversized(n)) + 1
    BY <1>1, <2>1, NextComplete, FS_AddElement
  <2>3. Tallied'  BY <1>1, <1>2, <1>5, <1>7, <1>8, <2>2 DEF Tallied
  <2>4. Gathered'  BY <1>1, <1>2, <1>5, <1>7, <1>8, <2>1 DEF Gathered
  <2> QED  BY <1>6, <2>3, <2>4
<1>9. CASE ~dropping
  <2>1. Fitting(n + 1) = Fitting(n) \cup {n + 1} /\ Oversized(n + 1) = Oversized(n)
    BY <1>1, <1>3, <1>7, <1>9, NextComplete
  <2>2. Tallied'  BY <1>1, <1>2, <1>5, <1>7, <1>9, <2>1 DEF Tallied
  <2>3. PICK F, d : F = Fitting(n) /\ d = documents  OBVIOUS
  <2>4. F \in SUBSET (1..n) /\ d \in Seq(Seq(Nat)) /\ Len(d) = Cardinality(F)
    BY <1>7, <2>3 DEF Fitting
  <2>5. Cardinality(F \cup {n + 1}) = Cardinality(F) + 1
    <3>1. IsFiniteSet(F) /\ n + 1 \notin F  BY <1>1, <2>3, NextComplete
    <3> QED  BY <3>1, FS_AddElement
  <2>6. /\ documents' = Append(d, current) /\ Len(documents') = Len(d) + 1
        /\ documents'[Len(d) + 1] = current /\ \A k \in 1..Len(d) : documents'[k] = d[k]
    BY <1>2, <1>7, <1>9, <2>3, <2>4, AppendProperties
  <2>7. ASSUME NEW i \in F \cup {n + 1}
        PROVE  documents'[Cardinality({j \in F \cup {n + 1} : j <= i})] = Message(i)
    <3>1. CASE i \in F
      <4>1. Cardinality({j \in F \cup {n + 1} : j <= i}) = Cardinality({j \in F : j <= i})
            /\ Cardinality({j \in F : j <= i}) \in 1..Len(d)
        <5>1. {j \in F \cup {n + 1} : j <= i} = {j \in F : j <= i}  BY <1>1, <2>4, <3>1, Ranked
        <5>2. Cardinality({j \in F : j <= i}) \in 1..Cardinality(F)
          BY <1>1, <2>4, <3>1, Ranked
        <5> QED  BY <2>4, <5>1, <5>2
      <4>2. d[Cardinality({j \in F : j <= i})] = Message(i)  BY <1>7, <2>3, <3>1
      <4> QED  BY <2>6, <4>1, <4>2
    <3>2. CASE i = n + 1
      <4>1. {j \in F \cup {n + 1} : j <= n + 1} = F \cup {n + 1}
        <5>1. \A j \in F : j <= n + 1  BY <1>1, <2>4
        <5>2. n + 1 <= n + 1  BY <1>1
        <5> QED  BY <5>1, <5>2
      <4> QED  BY <1>7, <1>9, <2>4, <2>5, <2>6, <3>2, <4>1
    <3> QED  BY <3>1, <3>2
  <2>8. Gathered'
    <3>1. /\ Fitting(taken)' = F \cup {n + 1}
          /\ Len(documents)' = Cardinality(F \cup {n + 1})
      BY <1>1, <1>5, <2>1, <2>3, <2>4, <2>5, <2>6
    <3> QED  BY <1>5, <2>7, <3>1 DEF Gathered
  <2> QED  BY <1>6, <2>2, <2>8
<1> QED  BY <1>8, <1>9

LEMMA LinesStand ==
  ASSUME InHand, Gathered, Tallied,
         UNCHANGED <<printed, taken, current, size, dropping, documents, oversized>>
  PROVE  InHand' /\ Gathered' /\ Tallied'
<1>1. /\ \A n : Chars(n)' = Chars(n) /\ MessageStart(n)' = MessageStart(n)
      /\ \A i : (Fits(i)' <=> Fits(i)) /\ Message(i)' = Message(i)
  BY DEF Fits, Chars, MessageStart, Message
<1>2. PICK n, b : n = taken /\ b = MessageStart(n + 1)  OBVIOUS
<1>3. Fitting(n)' = Fitting(n) /\ Oversized(n)' = Oversized(n)
  BY DEF Fitting, Oversized, Fits, Chars, MessageStart
<1>4. InHand'
  <2>1. MessageStart(n + 1)' = b /\ Chars(b - 1)' = Chars(b - 1) /\ Chars(n)' = Chars(n)
    BY <1>1, <1>2
  <2>2. taken' = n /\ (Fits(n + 1)' <=> Fits(n + 1)) /\ Message(n + 1)' = Message(n + 1)
    BY <1>1, <1>2
  <2>3. /\ dropping <=> ~Fits(n + 1)
        /\ ~dropping => size = Chars(n) - Chars(b - 1) /\ current = Message(n + 1)
    BY <1>2 DEF InHand
  <2> QED  BY <2>1, <2>2, <2>3 DEF InHand
<1>5. Gathered'
  <2>1. /\ Len(documents') = Cardinality(Fitting(n)')
        /\ \A i \in Fitting(n)' :
             documents'[Cardinality({j \in Fitting(n)' : j <= i})] = Message(i)'
    BY <1>1, <1>2, <1>3 DEF Gathered
  <2> QED  BY <1>2, <2>1 DEF Gathered
<1>6. Tallied'  BY <1>2, <1>3 DEF Tallied
<1> QED  BY <1>4, <1>5, <1>6

LEMMA CollectsStep == Collects /\ [Next]_vars => Collects'
<1> SUFFICES ASSUME Collects, [Next]_vars PROVE Collects'  OBVIOUS
<1>1. CASE UNCHANGED <<printed, pumped, taken, current, size, dropping, documents, oversized>>
  BY <1>1, LinesStand DEF Collects, LinesType
<1>2. ASSUME NEW line \in LineLengths \cup {Separator}, Prints(line) PROVE Collects'
  <2>1. line \in Nat  BY EchoAssumption DEF Separator
  <2> QED  BY <1>2, <2>1, PrintsKeep DEF Prints
<1>3. CASE CollectLine
  <2>1. InHand' /\ Gathered' /\ Tallied'  BY <1>3, GrowsCollect, EndsCollect
  <2> QED  BY <1>3, <2>1, TypesCollect DEF Collects
<1>4. CASE PumpLine
  <2>1. LinesType'  BY <1>4 DEF PumpLine, Collects, LinesType, collector
  <2>2. InHand' /\ Gathered' /\ Tallied'
    BY <1>4, LinesStand DEF PumpLine, Collects, collector
  <2> QED  BY <2>1, <2>2 DEF Collects
<1>5. CASE EchoNext
  <2>1. CASE \/ Behave /\ UNCHANGED echoVars
             \/ StdoutEnds \/ StderrEnds \/ EchoTick
             \/ EchoStart \/ EchoFails \/ CollectStops \/ CollectEnds \/ EchoStop \/ EchoReturns
    BY <1>1, <2>1 DEF StdoutEnds, StderrEnds, EchoTick, EchoStart, EchoFails, CollectStops,
                      CollectEnds, EchoStop, EchoReturns, echoVars, collector
  <2>2. CASE EchoExit  BY <1>1, <2>2 DEF EchoExit
  <2> QED  BY <1>2, <1>3, <1>4, <1>5, <2>1, <2>2 DEF EchoNext, Echo, EchoReader
<1> QED  BY <1>1, <1>5 DEF Next, vars, echoVars, collector

-----------------------------------------------------------------------------
(* An exit code is given where the output had ended: nothing writes it any *)
(* more, all of it was taken, and the launcher is gone unsignalled.        *)
EchoPc == {"start", "raised", "collect", "exitWait", "interrupt", "grace", "kill", "joinOut",
           "joinErr", "done"}

Drained ==
  /\ mode \in {"run", "echo"} /\ (mode = "run" => ~exited)
  /\ mode = "echo" =>
       /\ pc \in EchoPc /\ up \subseteq Procs /\ grouped \subseteq up
       /\ holds \in [Pipes -> SUBSET Procs]
       /\ "out" \notin reading => holds["out"] = {} /\ pumped = Len(printed)
       /\ pc \in {"start", "raised", "collect", "exitWait"} =>
            signalled = {} /\ exited = FALSE /\ reaped = FALSE
       /\ pc = "exitWait" => "out" \notin reading /\ taken = pumped
       /\ exited => /\ "out" \notin reading /\ taken = pumped
                    /\ Launcher \notin up /\ Launcher \notin signalled

LEMMA DrainedInit == Init => Drained
BY ProcessAssumption DEF Init, TreeInit, EchoInit, Drained, EchoPc, Pipes

LEMMA DrainedStep == Drained /\ [Next]_vars => Drained'
<1> SUFFICES ASSUME Drained, [Next]_vars PROVE Drained'  OBVIOUS
<1> USE DEF Drained, EchoPc
<1>1. CASE UNCHANGED <<tree, echoVars, mode>>
  BY <1>1 DEF tree, processes, control, echoVars, collector
<1>2. CASE mode = "run" /\ RunNext /\ UNCHANGED <<echoVars, mode>>
  BY <1>2 DEF echoVars, collector
<1>3. CASE mode = "echo" /\ EchoNext /\ UNCHANGED mode
  <2> USE <1>3 DEF echoVars, collector, Goes, control
  <2>1. CASE Behave /\ UNCHANGED echoVars
    <3>1. /\ up' \subseteq Procs /\ grouped' \subseteq up' /\ holds' \in [Pipes -> SUBSET Procs]
          /\ holds["out"] = {} => holds'["out"] = {}
          /\ Launcher \notin up => Launcher \notin up'
      <4>1. ASSUME NEW p \in Procs, NEW q \in Children, Forks(p, q)
            PROVE  /\ up' \subseteq Procs /\ grouped' \subseteq up'
                   /\ holds' \in [Pipes -> SUBSET Procs]
                   /\ holds["out"] = {} => holds'["out"] = {}
                   /\ Launcher \notin up => Launcher \notin up'
        BY <4>1, ProcessAssumption DEF Forks, Procs, Pipes
      <4>2. ASSUME NEW p \in Procs, Detaches(p) \/ Exits(p) \/ \E s \in Pipes : Closes(p, s)
            PROVE  /\ up' \subseteq Procs /\ grouped' \subseteq up'
                   /\ holds' \in [Pipes -> SUBSET Procs]
                   /\ holds["out"] = {} => holds'["out"] = {}
                   /\ Launcher \notin up => Launcher \notin up'
        BY <4>2 DEF Detaches, Exits, Closes, Vanish, Pipes
      <4> QED  BY <2>1, <4>1, <4>2 DEF Behave
    <3> QED  BY <2>1, <3>1 DEF Behave
  <2>2. ASSUME NEW line, Prints(line) PROVE Drained'
    BY <2>2 DEF Prints, tree, processes
  <2>3. CASE EchoReader
    BY <2>3 DEF EchoReader, PumpLine, StdoutEnds, StderrEnds, ThreadEnds, tree, processes
  <2>4. CASE EchoStart  BY <2>4 DEF EchoStart, Started, Procs, Pipes
  <2>5. CASE EchoFails \/ EchoReturns \/ EchoTick \/ CollectStops
    BY <2>5 DEF EchoFails, StartFails, EchoReturns, JoinErr, EchoTick, TimePasses, CollectStops,
                processes
  <2>6. CASE CollectLine  BY <2>6 DEF CollectLine, Collecting, tree, processes
  <2>7. CASE CollectEnds  BY <2>7 DEF CollectEnds, Collecting, processes
  <2>8. CASE EchoExit  BY <2>8 DEF EchoExit, WaitLauncher, processes
  <2>9. CASE EchoStop
    <3>1. CASE Interrupt \/ Poll \/ JoinOut
      BY <2>9, <3>1 DEF EchoStop, Interrupt, Poll, JoinOut, processes
    <3>2. CASE KillGroup  BY <2>9, <3>2 DEF EchoStop, KillGroup, Vanish, Pipes
    <3>3. CASE KillLauncher  BY <2>9, <3>3 DEF EchoStop, KillLauncher, Vanish, Pipes
    <3> QED  BY <2>9, <3>1, <3>2, <3>3 DEF EchoStop, Stop
  <2> QED  BY <2>1, <2>2, <2>3, <2>4, <2>5, <2>6, <2>7, <2>8, <2>9 DEF EchoNext, Echo
<1> QED  BY <1>1, <1>2, <1>3 DEF Next, vars

(* The documents are the messages read that fit, whole, in order and none  *)
(* twice; every other one is counted as oversized once; an exit code is    *)
(* given only where they are all that was printed.                         *)
THEOREM StreamsWhole == Spec => []DocumentsWhole
<1>1. Init => Collects /\ Drained  BY CollectsInit, DrainedInit
<1>2. Collects /\ Drained /\ [Next]_vars => (Collects /\ Drained)'
  BY CollectsStep, DrainedStep
<1>3. Collects /\ Drained => DocumentsWhole
  <2> SUFFICES ASSUME Collects, Drained PROVE DocumentsWhole  OBVIOUS
  <2>1. PICK n : n = taken /\ n \in Nat  BY DEF Collects, LinesType
  <2>2. {i \in Complete : Fits(i)} = Fitting(n)  BY <2>1 DEF Complete, Fitting
  <2>3. \A i : {j \in Complete : j <= i /\ Fits(j)} = {j \in Fitting(n) : j <= i}
    BY <2>1 DEF Complete, Fitting
  <2>4. {i \in Complete \cup {n + 1} : ~Fits(i)} =
          Oversized(n) \cup (IF Fits(n + 1) THEN {} ELSE {n + 1})
    BY <2>1 DEF Complete, Oversized
  <2>5. oversized = Cardinality({i \in Complete \cup {n + 1} : ~Fits(i)})
    <3>1. /\ oversized = Cardinality(Oversized(n)) + (IF dropping THEN 1 ELSE 0)
          /\ dropping <=> ~Fits(n + 1)
      BY <2>1 DEF Collects, Tallied, InHand
    <3>2. IsFiniteSet(Oversized(n)) /\ n + 1 \notin Oversized(n)  BY <2>1, NextComplete
    <3>3. Cardinality(Oversized(n) \cup {n + 1}) = Cardinality(Oversized(n)) + 1
      BY <3>2, FS_AddElement
    <3>4. Cardinality(Oversized(n)) \in Nat  BY <3>2, FS_CardinalityType
    <3>5. CASE dropping
      <4>1. {i \in Complete \cup {n + 1} : ~Fits(i)} = Oversized(n) \cup {n + 1}
        BY <2>4, <3>1, <3>5
      <4> QED  BY <3>1, <3>3, <3>5, <4>1
    <3>6. CASE ~dropping
      <4>1. {i \in Complete \cup {n + 1} : ~Fits(i)} = Oversized(n)  BY <2>4, <3>1, <3>6
      <4> QED  BY <3>1, <3>4, <3>6, <4>1
    <3> QED  BY <3>5, <3>6
  <2>6. Len(documents) = Cardinality({i \in Complete : Fits(i)})
    BY <2>1, <2>2 DEF Collects, Gathered
  <2>7. \A i \in Complete : Fits(i) =>
          documents[Cardinality({j \in Complete : j <= i /\ Fits(j)})] = Message(i)
    <3>1. \A i \in Complete : Fits(i) => i \in Fitting(n)  BY <2>2
    <3> QED  BY <2>1, <2>3, <3>1 DEF Collects, Gathered
  <2>8. exited => Launcher \notin signalled /\ taken = Len(printed)  BY DEF Drained
  <2>9. \A i \in Complete : Fits(i) =>
          documents[Cardinality({j \in Complete : j <= i /\ Fits(j)})]
            = [k \in 1..(i - MessageStart(i)) |-> MessageStart(i) + k - 1]
    BY <2>7 DEF Message
  <2>10. oversized = Cardinality({i \in Complete \cup {taken + 1} : ~Fits(i)})  BY <2>1, <2>5
  <2> QED  BY <2>6, <2>8, <2>9, <2>10 DEF DocumentsWhole
<1> QED  BY <1>1, <1>2, <1>3, PTL DEF Spec

-----------------------------------------------------------------------------
(* Server: the bytes kept, and the samples a budget keeps.                 *)

(* The sum is a run over the positions kept.                               *)
Weighs(sizes, held, g) ==
  /\ g \in [0..Len(held) -> Nat] /\ g[0] = 0
  /\ \A p \in 1..Len(held) : g[p] = g[p - 1] + sizes[held[p]]

LEMMA SpentSum ==
  ASSUME NEW sizes \in Seq(Nat), NEW held \in Seq(1..Len(sizes))
  PROVE  \E g : Weighs(sizes, held, g) /\ Spent(sizes, held) = g[Len(held)]
<1> DEFINE N == Len(held)
           step == [p \in 1..N |-> [x \in Nat |-> x + sizes[held[p]]]]
           Body(f, p) == IF p = 0 THEN 0 ELSE f[p - 1] + sizes[held[p]]
           sum[p \in 0..N] == IF p = 0 THEN 0 ELSE sum[p - 1] + sizes[held[p]]
<1>0. N \in Nat  OBVIOUS
<1>1. \A p \in 1..N : sizes[held[p]] \in Nat  OBVIOUS
<1>2. step \in [1..N -> [Nat -> Nat]]
  <2>1. ASSUME NEW p \in 1..N
        PROVE  [x \in Nat |-> x + sizes[held[p]]] \in [Nat -> Nat]
    <3>1. sizes[held[p]] \in Nat  BY <1>1
    <3>2. PICK v \in Nat : v = sizes[held[p]]  BY <3>1
    <3>3. \A x \in Nat : x + v \in Nat  OBVIOUS
    <3> QED  BY <3>2, <3>3
  <2> QED  BY <2>1
<1>3. Spent(sizes, held) = sum[N]  BY DEF Spent
<1>4. sum = CHOOSE f : f = [p \in 0..N |-> Body(f, p)]  OBVIOUS
<1> HIDE DEF sum
<1>4a. PICK g : RunOf(N, Nat, 0, step, g)
  <2> HIDE DEF step, N
  <2>1. 0 \in Nat  OBVIOUS
  <2> QED  BY <1>0, <1>2, <2>1, Recursion
<1>5. g \in [0..N -> Nat] /\ g[0] = 0 /\ \A p \in 1..N : g[p] = step[p][g[p - 1]]
  BY <1>4a DEF RunOf
<1>6. \A p \in 1..N : g[p] = g[p - 1] + sizes[held[p]]
  <2> TAKE p \in 1..N
  <2>1. g[p - 1] \in Nat
    <3> HIDE DEF step, N
    <3> QED  BY <1>0, <1>5
  <2> QED  BY <1>5, <2>1
<1>7. g = [p \in 0..N |-> Body(g, p)]
  <2>1. \A p \in 0..N : g[p] = Body(g, p)
    <3> TAKE p \in 0..N
    <3>1. CASE p = 0  BY <1>5, <3>1
    <3>2. CASE p # 0
      <4>1. p \in 1..N  BY <1>0, <3>2
      <4> QED  BY <1>6, <3>2, <4>1
    <3> QED  BY <3>1, <3>2
  <2> HIDE DEF Body
  <2> QED  BY <1>5, <2>1
<1>8. sum = [p \in 0..N |-> Body(sum, p)]  BY <1>4, <1>7
<1>9. \A p \in 0..N : sum[p] = g[p]
  <2>1. sum[0] = g[0]  BY <1>0, <1>5, <1>8
  <2>2. \A p \in 1..N : sum[p - 1] = g[p - 1] => sum[p] = g[p]
    <3> TAKE p \in 1..N
    <3>1. p \in 0..N /\ p # 0  BY <1>0
    <3>2. sum[p] = sum[p - 1] + sizes[held[p]]  BY <1>8, <3>1
    <3> QED  BY <1>6, <3>2
  <2> HIDE DEF N
  <2>3. NeverPart(N, sum, g)  BY <2>1, <2>2 DEF NeverPart
  <2> QED  BY <1>0, <2>3, SameRun
<1>10. sum[N] = g[N]  BY <1>0, <1>9
<1>11. Weighs(sizes, held, g)  BY <1>5, <1>6 DEF Weighs
<1> QED  BY <1>3, <1>10, <1>11

(* Keeping one more adds its bytes.                                        *)
LEMMA SpentMore ==
  ASSUME NEW sizes \in Seq(Nat), NEW held \in Seq(1..Len(sizes)), NEW i \in 1..Len(sizes)
  PROVE  Spent(sizes, Append(held, i)) = Spent(sizes, held) + sizes[i]
<1> DEFINE N == Len(held)
           more == Append(held, i)
<1>0. N \in Nat  OBVIOUS
<1>1. more \in Seq(1..Len(sizes)) /\ Len(more) = N + 1 /\ more[N + 1] = i
  OBVIOUS
<1>2. \A p \in 1..N : more[p] = held[p]  OBVIOUS
<1> HIDE DEF more
<1>3. PICK g : Weighs(sizes, held, g) /\ Spent(sizes, held) = g[N]  BY SpentSum
<1>4. PICK h : Weighs(sizes, more, h) /\ Spent(sizes, more) = h[Len(more)]  BY <1>1, SpentSum
<1>5. \A p \in 0..N : g[p] = h[p]
  <2>1. g[0] = h[0]  BY <1>3, <1>4 DEF Weighs
  <2>2. \A p \in 1..N : g[p - 1] = h[p - 1] => g[p] = h[p]
    <3> TAKE p \in 1..N
    <3>1. p \in 1..Len(more)  BY <1>0, <1>1
    <3>2. g[p] = g[p - 1] + sizes[held[p]]  BY <1>3 DEF Weighs
    <3>3. h[p] = h[p - 1] + sizes[held[p]]  BY <1>2, <1>4, <3>1 DEF Weighs
    <3> QED  BY <3>2, <3>3
  <2> HIDE DEF N
  <2>3. NeverPart(N, g, h)  BY <2>1, <2>2 DEF NeverPart
  <2> QED  BY <1>0, <2>3, SameRun
<1>6. PICK p \in 1..Len(more) : p = N + 1  BY <1>0, <1>1
<1>7. h[p] = h[p - 1] + sizes[more[p]]  BY <1>4 DEF Weighs
<1>8. p - 1 = N /\ N \in 0..N  BY <1>0, <1>6
<1> QED  BY <1>1, <1>3, <1>4, <1>5, <1>6, <1>7, <1>8 DEF more

LEMMA NothingSpent ==
  ASSUME NEW sizes \in Seq(Nat)
  PROVE  Spent(sizes, <<>>) = 0
<1>1. <<>> \in Seq(1..Len(sizes)) /\ Len(<<>>) = 0  OBVIOUS
<1>2. PICK g : Weighs(sizes, <<>>, g) /\ Spent(sizes, <<>>) = g[Len(<<>>)]  BY <1>1, SpentSum
<1> QED  BY <1>1, <1>2 DEF Weighs

(* A budget part way through the samples: what is kept, what it weighs,    *)
(* and how many were left out for which reason.                            *)
Budgets(sizes) == [kept : Seq(1..Len(sizes)), total : Nat, big : Nat, over : Nat]
Unspent == [kept |-> <<>>, total |-> 0, big |-> 0, over |-> 0]
Spend(sizes, per, done, i) ==
  IF sizes[i] > per THEN [done EXCEPT !.big = @ + 1]
  ELSE IF done.total + sizes[i] > per * CallFactor THEN [done EXCEPT !.over = @ + 1]
  ELSE [done EXCEPT !.kept = Append(@, i), !.total = @ + sizes[i]]
InBudget(sizes, per, done, i) ==
  /\ done \in Budgets(sizes)
  /\ Len(done.kept) + done.big + done.over = i
  /\ \A p \in 1..Len(done.kept) : sizes[done.kept[p]] <= per
  /\ done.total = Spent(sizes, done.kept) /\ done.total <= per * CallFactor

LEMMA FitsFirst ==
  ASSUME NEW sizes \in Seq(Nat), NEW per \in Nat
  PROVE  Unspent \in Budgets(sizes) /\ InBudget(sizes, per, Unspent, 0)
<1>1. CallFactor \in Nat  BY ServingAssumption
<1>2. per * CallFactor >= 0  BY <1>1
<1>3. Spent(sizes, <<>>) = 0  BY NothingSpent
<1>4. <<>> \in Seq(1..Len(sizes)) /\ Len(<<>>) = 0  OBVIOUS
<1> QED  BY <1>2, <1>3, <1>4 DEF Unspent, Budgets, InBudget

LEMMA OneMore ==
  ASSUME NEW a \in Nat, NEW b \in Nat, NEW c \in Nat, NEW i \in Int, a + b + c = i - 1
  PROVE  a + 1 + b + c = i /\ a + (b + 1) + c = i /\ a + b + (c + 1) = i
OBVIOUS

LEMMA BudgetParts ==
  ASSUME NEW K, NEW d \in [kept : K, total : Nat, big : Nat, over : Nat],
         NEW k \in K, NEW t \in Nat
  PROVE  /\ d.kept \in K /\ d.total \in Nat /\ d.big \in Nat /\ d.over \in Nat
         /\ [d EXCEPT !.big = @ + 1]
              = [kept |-> d.kept, total |-> d.total, big |-> d.big + 1, over |-> d.over]
         /\ [d EXCEPT !.over = @ + 1]
              = [kept |-> d.kept, total |-> d.total, big |-> d.big, over |-> d.over + 1]
         /\ [d EXCEPT !.kept = k, !.total = t]
              = [kept |-> k, total |-> t, big |-> d.big, over |-> d.over]
<1>1. /\ d = [kept |-> d.kept, total |-> d.total, big |-> d.big, over |-> d.over]
      /\ d.kept \in K /\ d.total \in Nat /\ d.big \in Nat /\ d.over \in Nat
  OBVIOUS
<1>2. [d EXCEPT !.big = @ + 1]
        = [kept |-> d.kept, total |-> d.total, big |-> d.big + 1, over |-> d.over]
  BY <1>1
<1>3. [d EXCEPT !.over = @ + 1]
        = [kept |-> d.kept, total |-> d.total, big |-> d.big, over |-> d.over + 1]
  BY <1>1
<1>4. [d EXCEPT !.kept = k, !.total = t]
        = [kept |-> k, total |-> t, big |-> d.big, over |-> d.over]
  <2> DEFINE e == [d EXCEPT !.kept = k]
  <2>1. e = [kept |-> k, total |-> d.total, big |-> d.big, over |-> d.over]  BY <1>1
  <2> HIDE DEF e
  <2>2. [e EXCEPT !.total = t] = [kept |-> k, total |-> t, big |-> d.big, over |-> d.over]
    BY <2>1
  <2> QED  BY <2>2 DEF e
<1> QED  BY <1>1, <1>2, <1>3, <1>4

(* What InBudget asks of the parts.                                        *)
LEMMA FitsParts ==
  ASSUME NEW sizes, NEW per, NEW i, NEW held \in Seq(1..Len(sizes)),
         NEW total \in Nat, NEW big \in Nat, NEW over \in Nat,
         Len(held) + big + over = i, \A p \in 1..Len(held) : sizes[held[p]] <= per,
         total = Spent(sizes, held), total <= per * CallFactor,
         NEW d, d = [kept |-> held, total |-> total, big |-> big, over |-> over]
  PROVE  d \in Budgets(sizes) /\ InBudget(sizes, per, d, i)
<1>1. /\ d \in Budgets(sizes)
      /\ d.kept = held /\ d.total = total /\ d.big = big /\ d.over = over
  BY DEF Budgets
<1> QED  BY <1>1, Zenon DEF InBudget

LEMMA FitsNext ==
  ASSUME NEW sizes \in Seq(Nat), NEW per \in Nat, NEW i \in 1..Len(sizes), NEW done,
         InBudget(sizes, per, done, i - 1)
  PROVE  Spend(sizes, per, done, i) \in Budgets(sizes)
         /\ InBudget(sizes, per, Spend(sizes, per, done, i), i)
<1> DEFINE cap == per * CallFactor
           K == Seq(1..Len(sizes))
           held == done.kept
           W == Len(held)
           weight == sizes[i]
           next == Spend(sizes, per, done, i)
<1>0. done \in [kept : K, total : Nat, big : Nat, over : Nat]  BY DEF InBudget, Budgets
<1>1. held \in K /\ done.total \in Nat /\ done.big \in Nat /\ done.over \in Nat
  <2> HIDE DEF K
  <2> QED  BY <1>0
<1>2. weight \in Nat /\ W \in Nat /\ i \in Nat  BY <1>1
<1>2a. i \in Int  OBVIOUS
<1>3. W + done.big + done.over = i - 1  BY DEF InBudget
<1>3a. /\ W + 1 + done.big + done.over = i
       /\ W + (done.big + 1) + done.over = i /\ done.big + 1 \in Nat
       /\ W + done.big + (done.over + 1) = i /\ done.over + 1 \in Nat
  <2> DEFINE b == done.big
             v == done.over
  <2>1. W \in Nat /\ b \in Nat /\ v \in Nat  BY <1>1, <1>2
  <2>2. W + b + v = i - 1  BY <1>3
  <2> HIDE DEF W, b, v
  <2>3. W + 1 + b + v = i /\ W + (b + 1) + v = i /\ W + b + (v + 1) = i
    BY <1>2a, <2>1, <2>2, OneMore
  <2>4. b + 1 \in Nat /\ v + 1 \in Nat  BY <2>1
  <2> QED  BY <2>3, <2>4 DEF b, v
<1>4. \A p \in 1..W : sizes[held[p]] <= per  BY DEF InBudget
<1>5. done.total = Spent(sizes, held) /\ done.total <= cap  BY DEF InBudget
<1>6. CASE weight > per
  <2>1. next = [done EXCEPT !.big = @ + 1]  BY <1>6 DEF Spend
  <2>2. next = [kept |-> held, total |-> done.total, big |-> done.big + 1, over |-> done.over]
    <3> HIDE DEF K, next
    <3> QED  BY <1>0, <1>1, <2>1, BudgetParts
  <2>3. W + (done.big + 1) + done.over = i /\ done.big + 1 \in Nat  BY <1>3a
  <2> HIDE DEF next
  <2>4. next \in Budgets(sizes) /\ InBudget(sizes, per, next, i)
    BY <1>1, <1>4, <1>5, <2>2, <2>3, FitsParts
  <2> QED  BY <2>4 DEF next
<1>7. CASE ~(weight > per) /\ done.total + weight > cap
  <2>1. next = [done EXCEPT !.over = @ + 1]  BY <1>7 DEF Spend
  <2>2. next = [kept |-> held, total |-> done.total, big |-> done.big, over |-> done.over + 1]
    <3> HIDE DEF K, next
    <3> QED  BY <1>0, <1>1, <2>1, BudgetParts
  <2>3. W + done.big + (done.over + 1) = i /\ done.over + 1 \in Nat  BY <1>3a
  <2> HIDE DEF next
  <2>4. next \in Budgets(sizes) /\ InBudget(sizes, per, next, i)
    BY <1>1, <1>4, <1>5, <2>2, <2>3, FitsParts
  <2> QED  BY <2>4 DEF next
<1>8. CASE ~(weight > per) /\ ~(done.total + weight > cap)
  <2> DEFINE more == Append(held, i)
             total == done.total + weight
  <2>1. next = [done EXCEPT !.kept = more, !.total = total]  BY <1>8 DEF Spend
  <2>2. /\ more \in K /\ Len(more) = W + 1 /\ more[W + 1] = i
        /\ \A p \in 1..W : more[p] = held[p]
    BY <1>1
  <2>3. Spent(sizes, more) = Spent(sizes, held) + weight  BY <1>1, SpentMore
  <2> HIDE DEF more, W, weight
  <2>4. total \in Nat /\ total <= cap /\ total = Spent(sizes, more)
    <3>1. CallFactor \in Nat  BY ServingAssumption
    <3>2. cap \in Nat  BY <3>1
    <3> HIDE DEF cap
    <3> QED  BY <1>1, <1>2, <1>5, <1>8, <2>3, <3>2
  <2> HIDE DEF total, held
  <2>5. next = [kept |-> more, total |-> total, big |-> done.big, over |-> done.over]
    <3> HIDE DEF K, next
    <3> QED  BY <1>0, <2>1, <2>2, <2>4, BudgetParts
  <2>6. \A p \in 1..Len(more) : sizes[more[p]] <= per
    <3> TAKE p \in 1..Len(more)
    <3>1. p = W + 1 \/ p \in 1..W  BY <1>2, <2>2
    <3>2. CASE p = W + 1  BY <1>2, <1>8, <2>2, <3>2 DEF weight
    <3>3. CASE p \in 1..W
      <4>1. more[p] = held[p] /\ sizes[held[p]] <= per  BY <1>4, <2>2, <3>3
      <4> QED  BY <4>1
    <3> QED  BY <3>1, <3>2, <3>3
  <2>7. Len(more) + done.big + done.over = i
    <3>1. Len(more) = W + 1  BY <2>2
    <3> QED  BY <1>3a, <3>1
  <2> HIDE DEF next
  <2>8. next \in Budgets(sizes) /\ InBudget(sizes, per, next, i)
    BY <1>1, <2>2, <2>4, <2>5, <2>6, <2>7, FitsParts
  <2> QED  BY <2>8 DEF next
<1> QED  BY <1>6, <1>7, <1>8

(* The samples kept are some of them, none bigger than one may be, and     *)
(* together within the budget of the call; the rest are counted.           *)
LEMMA BudgetKeeps ==
  ASSUME NEW sizes \in Seq(Nat), NEW per \in Nat
  PROVE  InBudget(sizes, per, SampleBudget(sizes, per), Len(sizes))
<1> DEFINE N == Len(sizes)
           T == Budgets(sizes)
           Body(f, i) ==
             IF i = 0 THEN [kept |-> <<>>, total |-> 0, big |-> 0, over |-> 0]
             ELSE LET done == f[i - 1]
                  IN  IF sizes[i] > per THEN [done EXCEPT !.big = @ + 1]
                      ELSE IF done.total + sizes[i] > per * CallFactor
                        THEN [done EXCEPT !.over = @ + 1]
                      ELSE [done EXCEPT !.kept = Append(@, i), !.total = @ + sizes[i]]
           spend[i \in 0..N] ==
             IF i = 0 THEN [kept |-> <<>>, total |-> 0, big |-> 0, over |-> 0]
             ELSE LET done == spend[i - 1]
                  IN  IF sizes[i] > per THEN [done EXCEPT !.big = @ + 1]
                      ELSE IF done.total + sizes[i] > per * CallFactor
                        THEN [done EXCEPT !.over = @ + 1]
                      ELSE [done EXCEPT !.kept = Append(@, i), !.total = @ + sizes[i]]
           F(i, g) == /\ g \in [0..i -> T] /\ g[0] = Unspent
                      /\ \A j \in 1..i : g[j] = Spend(sizes, per, g[j - 1], j)
                      /\ \A j \in 0..i : InBudget(sizes, per, g[j], j)
           Short == {i \in 0..N : ~ \E g : F(i, g)}
<1>0. N \in Nat  OBVIOUS
<1>1. SampleBudget(sizes, per) = spend[N]  BY DEF SampleBudget
<1>2. spend = CHOOSE f : f = [i \in 0..N |-> Body(f, i)]  OBVIOUS
<1>3. \A f, i : Body(f, i) = IF i = 0 THEN Unspent ELSE Spend(sizes, per, f[i - 1], i)
  BY DEF Spend, Unspent
<1> HIDE DEF spend, Body, T
<1>4. \E g : F(N, g)
  <2> HIDE DEF F
  <2> SUFFICES ASSUME Short # {} PROVE FALSE  BY <1>0
  <2>0. Short \in SUBSET Nat  BY <1>0
  <2>1. PICK x \in Short : \A y \in Short : x <= y
    <3> HIDE DEF Short
    <3> QED  BY <2>0, LeastElement
  <2>2. CASE x = 0
    <3> DEFINE g == [i \in 0..0 |-> Unspent]
    <3>1. Unspent \in T /\ InBudget(sizes, per, Unspent, 0)  BY FitsFirst DEF T
    <3>2. g \in [0..0 -> T] /\ g[0] = Unspent  BY <3>1
    <3> HIDE DEF g
    <3>3. F(0, g)  BY <3>1, <3>2 DEF F
    <3> QED  BY <2>1, <2>2, <3>3
  <2>3. CASE x # 0
    <3> HIDE DEF N
    <3>1. x - 1 \in 0..N /\ x \in 1..N /\ x - 1 \notin Short  BY <1>0, <2>1, <2>3
    <3>2. PICK g : F(x - 1, g)  BY <3>1
    <3> DEFINE next == Spend(sizes, per, g[x - 1], x)
               h == [i \in 0..x |-> IF i = x THEN next ELSE g[i]]
    <3>3. /\ g \in [0..(x - 1) -> T] /\ g[0] = Unspent
          /\ \A j \in 1..(x - 1) : g[j] = Spend(sizes, per, g[j - 1], j)
          /\ \A j \in 0..(x - 1) : InBudget(sizes, per, g[j], j)
      BY <3>2 DEF F
    <3>4. next \in T /\ InBudget(sizes, per, next, x)
      <4>1. InBudget(sizes, per, g[x - 1], x - 1)  BY <3>1, <3>3
      <4> QED  BY <3>1, <4>1, FitsNext DEF T, N
    <3> HIDE DEF next
    <3>5. h \in [0..x -> T] /\ h[0] = Unspent  BY <3>1, <3>3, <3>4
    <3>6. /\ h[x] = next /\ h[x - 1] = g[x - 1]
          /\ \A j \in 1..(x - 1) : h[j] = g[j] /\ h[j - 1] = g[j - 1]
          /\ \A j \in 0..(x - 1) : h[j] = g[j]
      BY <3>1
    <3> HIDE DEF h
    <3>7. \A j \in 1..x : h[j] = Spend(sizes, per, h[j - 1], j)
      <4> TAKE j \in 1..x
      <4>1. CASE j = x  BY <3>6, <4>1 DEF next
      <4>2. CASE j # x
        <5>1. j \in 1..(x - 1)  BY <3>1, <4>2
        <5> QED  BY <3>3, <3>6, <5>1
      <4> QED  BY <4>1, <4>2
    <3>8. \A j \in 0..x : InBudget(sizes, per, h[j], j)
      <4> TAKE j \in 0..x
      <4>1. CASE j = x  BY <3>4, <3>6, <4>1
      <4>2. CASE j # x
        <5>1. j \in 0..(x - 1)  BY <3>1, <4>2
        <5> QED  BY <3>3, <3>6, <5>1
      <4> QED  BY <4>1, <4>2
    <3>9. F(x, h)  BY <3>5, <3>7, <3>8 DEF F
    <3> QED  BY <2>1, <3>9
  <2> QED  BY <2>2, <2>3
<1>5. PICK g : F(N, g)  BY <1>4
<1>6. g = [i \in 0..N |-> Body(g, i)]
  <2>1. DOMAIN g = 0..N /\ g = [i \in 0..N |-> g[i]]  BY <1>5
  <2>2. ASSUME NEW i \in 0..N PROVE g[i] = Body(g, i)
    <3>1. CASE i = 0  BY <1>3, <1>5, <3>1
    <3>2. CASE i # 0
      <4>1. i \in 1..N  BY <1>0, <3>2
      <4>2. g[i] = Spend(sizes, per, g[i - 1], i)  BY <1>5, <4>1
      <4> QED  BY <1>3, <3>2, <4>2
    <3> QED  BY <3>1, <3>2
  <2> QED  BY <2>1, <2>2
<1>7. spend = [i \in 0..N |-> Body(spend, i)]  BY <1>2, <1>6
<1>8. NeverPart(N, spend, g)
  <2>1. spend[0] = g[0]  BY <1>0, <1>3, <1>5, <1>7
  <2>2. \A i \in 1..N : spend[i - 1] = g[i - 1] => spend[i] = g[i]
    <3> TAKE i \in 1..N
    <3>1. i \in 0..N /\ i # 0  BY <1>0
    <3>2. spend[i] = Spend(sizes, per, spend[i - 1], i)  BY <1>3, <1>7, <3>1
    <3>3. g[i] = Spend(sizes, per, g[i - 1], i)  BY <1>5
    <3> QED  BY <3>2, <3>3
  <2> QED  BY <2>1, <2>2 DEF NeverPart
<1>9. spend[N] = g[N]
  <2> HIDE DEF N, F
  <2>1. \A n \in 0..N : spend[n] = g[n]  BY <1>0, <1>8, SameRun
  <2> QED  BY <1>0, <2>1
<1>10. InBudget(sizes, per, g[N], N)  BY <1>0, <1>5
<1> QED  BY <1>1, <1>9, <1>10

LEMMA SpentAlike ==
  ASSUME NEW sizes \in Seq(Nat), NEW all \in Seq(Nat), Len(sizes) <= Len(all),
         \A i \in 1..Len(sizes) : all[i] = sizes[i], NEW held \in Seq(1..Len(sizes))
  PROVE  Spent(all, held) = Spent(sizes, held)
<1> DEFINE N == Len(held)
<1>0. N \in Nat /\ \A p \in 1..N : held[p] \in 1..Len(sizes)
  <2> DEFINE I == 1..Len(sizes)
  <2>1. held \in Seq(I)  OBVIOUS
  <2> HIDE DEF I
  <2>2. N \in Nat /\ \A p \in 1..N : held[p] \in I  BY <2>1
  <2> QED  BY <2>2 DEF I
<1>1. held \in Seq(1..Len(all))
  <2>1. Len(sizes) \in Nat /\ Len(all) \in Nat  OBVIOUS
  <2>2. \A i \in 1..Len(sizes) : i \in 1..Len(all)  BY <2>1
  <2>3. \A p \in 1..N : held[p] \in 1..Len(all)  BY <1>0, <2>2
  <2> QED  BY <2>3
<1>2. PICK g : Weighs(sizes, held, g) /\ Spent(sizes, held) = g[N]  BY SpentSum
<1>3. PICK h : Weighs(all, held, h) /\ Spent(all, held) = h[N]  BY <1>1, SpentSum
<1>4. \A p \in 0..N : g[p] = h[p]
  <2>1. g[0] = h[0]  BY <1>2, <1>3 DEF Weighs
  <2>2. \A p \in 1..N : g[p - 1] = h[p - 1] => g[p] = h[p]
    <3> TAKE p \in 1..N
    <3>1. all[held[p]] = sizes[held[p]]
      <4>1. held[p] \in 1..Len(sizes)  BY <1>0
      <4> HIDE DEF N
      <4> QED  BY <4>1
    <3>2. g[p] = g[p - 1] + sizes[held[p]]  BY <1>2 DEF Weighs
    <3>3. h[p] = h[p - 1] + all[held[p]]  BY <1>3 DEF Weighs
    <3> QED  BY <3>1, <3>2, <3>3
  <2> HIDE DEF N
  <2>3. NeverPart(N, g, h)  BY <2>1, <2>2 DEF NeverPart
  <2> QED  BY <1>0, <2>3, SameRun
<1> HIDE DEF N
<1> QED  BY <1>0, <1>2, <1>3, <1>4

(* What a call that samples keeps of what it was given: SaysWhatItLeft.    *)
Window(ask) == Fewer(Clamped(ask), Len(ask.sizes))
Looked(ask) == SampleBudget(SubSeq(ask.sizes, 1, Window(ask)), ask.per)

LEMMA GivenKeeps ==
  ASSUME NEW ask \in Asks, ~Refused(ask)
  PROVE  /\ \A p \in DOMAIN Looked(ask).kept : ask.sizes[Looked(ask).kept[p]] <= ask.per
         /\ Spent(ask.sizes, Looked(ask).kept) <= CallFactor * ask.per
         /\ Len(Looked(ask).kept) < Window(ask) =>
              Looked(ask).big > 0 \/ Looked(ask).over > 0
<1> DEFINE all == ask.sizes
           n == Window(ask)
           sizes == SubSeq(all, 1, n)
           b == Looked(ask)
<1>1. ask.count \in Int /\ ask.per \in Nat /\ all \in Seq(Nat)  BY ServingAssumption
<1>2. MaxSampleCount \in Nat /\ CallFactor \in Nat  BY ServingAssumption
<1>3. ask.count >= 0  BY <1>1 DEF Refused
<1>4. n \in Nat /\ n <= Len(all)
  <2>1. Len(all) \in Nat  BY <1>1
  <2> QED  BY <1>1, <1>2, <1>3, <2>1 DEF Window, Fewer, Clamped
<1> HIDE DEF n, all
<1>5. sizes \in Seq(Nat) /\ Len(sizes) = n /\ \A i \in 1..n : all[i] = sizes[i]
  BY <1>1, <1>4
<1> HIDE DEF sizes
<1>6. InBudget(sizes, ask.per, b, n)
  BY <1>1, <1>5, BudgetKeeps DEF Looked, sizes, n, all
<1> HIDE DEF b
<1>7. /\ b.kept \in Seq(1..Len(sizes)) /\ b.big \in Nat /\ b.over \in Nat
  BY <1>6 DEF InBudget, Budgets
<1>8. \A p \in DOMAIN b.kept : all[b.kept[p]] <= ask.per
  <2> TAKE p \in DOMAIN b.kept
  <2>1. p \in 1..Len(b.kept) /\ b.kept[p] \in 1..Len(sizes)  BY <1>7
  <2>2. sizes[b.kept[p]] <= ask.per  BY <1>6, <2>1 DEF InBudget
  <2>3. all[b.kept[p]] = sizes[b.kept[p]]  BY <1>5, <2>1
  <2> QED  BY <2>2, <2>3
<1>9. Spent(all, b.kept) <= CallFactor * ask.per
  <2>1. Spent(all, b.kept) = Spent(sizes, b.kept)
    BY <1>1, <1>4, <1>5, <1>7, SpentAlike
  <2>2. Spent(sizes, b.kept) <= ask.per * CallFactor  BY <1>6 DEF InBudget
  <2>3. ask.per * CallFactor = CallFactor * ask.per  BY <1>1, <1>2
  <2> QED  BY <2>1, <2>2, <2>3
<1>10. Len(b.kept) < n => b.big > 0 \/ b.over > 0
  <2> DEFINE held == Len(b.kept)
             big == b.big
             over == b.over
  <2>1. held + big + over = n  BY <1>6 DEF InBudget
  <2>2. held \in Nat /\ big \in Nat /\ over \in Nat  BY <1>7
  <2> HIDE DEF held, big, over
  <2>3. held < n => big > 0 \/ over > 0  BY <1>4, <2>1, <2>2
  <2> QED  BY <2>3 DEF held, big, over
<1> QED  BY <1>8, <1>9, <1>10 DEF b, n, all

-----------------------------------------------------------------------------
(* What is known of the settings, the host and the clock; and of the       *)
(* backends, which were chosen when ros2 was there or was not, and for a   *)
(* reason that does not change.                                            *)
Chosen(r) ==
  LET ros2 == r
      asked == IF env.mode = "auto" THEN (IF ros2 THEN "live" ELSE "mock") ELSE env.mode
  IN  adapter =
        IF asked = "mock" /\ EffectiveDds = "mock" THEN MockAdapter("none")
        ELSE CASE ros2 /\ DdsStarts -> LiveAdapter("ros2_cli", "cyclone", "none")
               [] ~ros2 /\ DdsStarts -> LiveAdapter("none", "cyclone", "none")
               [] ros2 /\ ~DdsStarts -> LiveAdapter("ros2_cli", "none", InactiveReason)
               [] OTHER -> MockAdapter(IF env.dds # "mock" THEN InactiveReason ELSE "none")
Built == Serving => ValidEnv /\ \E r \in BOOLEAN : Chosen(r)

History ==
  /\ host \in [ros2 : BOOLEAN, binding : BOOLEAN, starts : BOOLEAN]
  /\ clock \in BOOLEAN /\ now \in Nat
  /\ truth = [t \in 0..now |-> truth[t]] /\ clock \in truth[now]

(* A hint was so when it was taken.                                        *)
HintWasSo ==
  hint.known => /\ hint.at \in 0..now /\ hint.published \in BOOLEAN
                /\ hint.published \in truth[hint.at]

ServerInv ==
  /\ History /\ Built /\ HintWasSo
  /\ ~Serving => reply = NoReply
  /\ ServedAsSaid


Untouched == UNCHANGED <<env, host, adapter, clock, now, hint, truth>>

LEMMA ServerInvInit == ServerInit => ServerInv
<1> SUFFICES ASSUME ServerInit PROVE ServerInv  OBVIOUS
<1>1. ~Serving /\ reply = NoReply  BY DEF ServerInit, Serving
<1>2. History  BY DEF ServerInit, History
<1>3. HintWasSo  BY DEF ServerInit, HintWasSo, NoHint
<1>4. ServedAsSaid
  BY <1>1 DEF ServedAsSaid, LabelsAreTrue, SaysWhatItLeft, HealthIsTrue, Answered, Replied, NoReply
<1> QED  BY <1>1, <1>2, <1>3, <1>4 DEF ServerInv, Built

(* With no answer out, nothing is claimed.                                 *)
LEMMA SilentIsServed == reply = NoReply => ServedAsSaid
BY DEF ServedAsSaid, LabelsAreTrue, SaysWhatItLeft, HealthIsTrue, Answered, Replied, NoReply

(* The answer of a call that was not refused.                              *)
AnswerGiven ==
  \E ask \in Asks : /\ ~Refused(ask) /\ SourceOf(ask.tool) \in Sources
                    /\ reply = Given(ask, SourceOf(ask.tool))

LEMMA GivenIsTrue ==
  Built /\ Serving /\ AnswerGiven => LabelsAreTrue /\ SaysWhatItLeft /\ reply.tool # "health_check"
<1> SUFFICES ASSUME Built, Serving, NEW ask \in Asks, ~Refused(ask),
                    SourceOf(ask.tool) \in Sources, reply = Given(ask, SourceOf(ask.tool))
             PROVE  LabelsAreTrue /\ SaysWhatItLeft /\ reply.tool # "health_check"
  BY DEF AnswerGiven
<1> DEFINE source == SourceOf(ask.tool)
           held == Looked(ask).kept
           noted == SampleNotes(ask, Looked(ask))
                      \cup (IF ask.tool \in DdsTools /\ DomainNote(ask)
                            THEN {"domain ignored"} ELSE {})
<1>1. reply = Answer(ask, source, held, noted)
  BY DEF Given, Looked, Window
<1> HIDE DEF held, noted
<1>2. /\ reply.tool = ask.tool /\ reply.ask = ask /\ reply.source = source
      /\ reply.label = LabelOf(source) /\ reply.domain = AnsweredDomain(ask)
      /\ reply.kept = held /\ reply.notes = noted
  BY <1>1 DEF Answer
<1>3. ask.tool \in RosTools \cup DdsTools \cup BagTools  BY ServingAssumption
<1>4. PICK r \in BOOLEAN : Chosen(r)  BY DEF Built
<1>5. ValidEnv  BY DEF Built
<1>6. LabelsAreTrue
  <2>1. reply.label = "mock" <=> source = "fixtures"
    BY <1>2, <1>3, <1>4, <1>5 DEF LabelOf, AdapterMode, SourceOf, MockSource, RosHalf, DdsHalf,
       Sources, Chosen, MockAdapter, LiveAdapter
  <2>2. env.mode = "mock" => source = "fixtures"
    BY <1>3, <1>4, <1>5 DEF SourceOf, MockSource, Chosen, MockAdapter, EffectiveDds
  <2>3. source = "cli" => Lane(ask.tool) = "ros"
    BY <1>3 DEF SourceOf, MockSource, RosHalf, DdsHalf, Lane, RosTools, DdsTools, BagTools
  <2>4. source = "bus" => Lane(ask.tool) # "ros"
    BY <1>3 DEF SourceOf, MockSource, RosHalf, DdsHalf, Lane, RosTools, DdsTools, BagTools
  <2> QED  BY <1>2, <2>1, <2>2, <2>3, <2>4 DEF LabelsAreTrue
<1>7. SaysWhatItLeft
  <2>1. ASSUME ask.tool \in {"list_participants", "participant_events"}, source = "bus"
        PROVE  /\ AnsweredDomain(ask) = env.domain
               /\ ask.domain \notin {0, env.domain} => "domain ignored" \in noted
    <3>1. adapter.dds = "cyclone"
      BY <2>1, <1>4 DEF SourceOf, MockSource, RosHalf, DdsHalf, Chosen, MockAdapter, LiveAdapter,
         RosTools, DdsTools, BagTools
    <3>2. ask.tool \in DdsTools  BY <2>1 DEF DdsTools
    <3> QED  BY <3>1, <3>2 DEF AnsweredDomain, DomainNote, noted
  <2>2. ASSUME ask.tool \in Sampling
        PROVE  /\ \A p \in DOMAIN held : ask.sizes[held[p]] <= ask.per
               /\ Spent(ask.sizes, held) <= CallFactor * ask.per
               /\ Len(held) < Fewer(Clamped(ask), Len(ask.sizes)) =>
                    noted \cap {"too big", "per-call cap"} # {}
    <3>1. /\ \A p \in DOMAIN held : ask.sizes[held[p]] <= ask.per
          /\ Spent(ask.sizes, held) <= CallFactor * ask.per
          /\ Len(held) < Window(ask) => Looked(ask).big > 0 \/ Looked(ask).over > 0
      BY GivenKeeps DEF held
    <3>2. Looked(ask).big > 0 => "too big" \in noted  BY DEF noted, SampleNotes
    <3>3. Looked(ask).over > 0 => "per-call cap" \in noted  BY DEF noted, SampleNotes
    <3> QED  BY <3>1, <3>2, <3>3 DEF Window
  <2> QED  BY <1>2, <2>1, <2>2 DEF SaysWhatItLeft
<1>8. ask.tool # "health_check"  BY <1>3 DEF RosTools, DdsTools, BagTools
<1> QED  BY <1>2, <1>6, <1>7, <1>8

(* A refusal and a failure say nothing of the data.                        *)
FailureGiven == \E ask \in Asks : \E why : reply = Failure(ask, why)

LEMMA FailureIsTrue == FailureGiven => ServedAsSaid
<1> SUFFICES ASSUME NEW ask \in Asks, NEW why, reply = Failure(ask, why) PROVE ServedAsSaid
  BY DEF FailureGiven
<1>1. ~Answered /\ reply.tool # "health_check"
  BY ServingAssumption DEF Failure, Answered, Replied, RosTools, DdsTools, BagTools
<1> QED  BY <1>1 DEF ServedAsSaid, LabelsAreTrue, SaysWhatItLeft, HealthIsTrue

(* health_check.                                                           *)
LEMMA ReportIsTrue ==
  ASSUME Built, History, HintWasSo, Serving, reply = Report
  PROVE  ServedAsSaid
<1>1. /\ "source" \in DOMAIN reply /\ "label" \notin DOMAIN reply
      /\ reply.mode = AdapterMode /\ reply.ros = adapter.ros /\ reply.dds = adapter.dds
      /\ reply.inactive = InactiveNote /\ reply.sim = SimClockPublished
  BY DEF Report
<1>2. PICK r \in BOOLEAN : Chosen(r)  BY DEF Built
<1>3. ValidEnv  BY DEF Built
<1>4. reply.ros = "none" <=> \A t \in RosTools : SourceOf(t) \notin Sources
  <2>1. ASSUME NEW t \in RosTools PROVE adapter.ros = "none" <=> SourceOf(t) \notin Sources
    BY <1>2, <2>1 DEF SourceOf, MockSource, RosHalf, DdsHalf, Sources, Chosen, MockAdapter,
       LiveAdapter, RosTools, BagTools
  <2>2. "list_topics" \in RosTools  BY DEF RosTools
  <2> QED  BY <1>1, <2>1, <2>2
<1>5. reply.dds = "none" <=> \A t \in DdsTools : SourceOf(t) \notin Sources
  <2>1. ASSUME NEW t \in DdsTools PROVE adapter.dds = "none" <=> SourceOf(t) \notin Sources
    BY <1>2, <2>1 DEF SourceOf, MockSource, RosHalf, DdsHalf, Sources, Chosen, MockAdapter,
       LiveAdapter, RosTools, DdsTools, BagTools
  <2>2. "topic_metrics" \in DdsTools  BY DEF DdsTools
  <2> QED  BY <1>1, <2>1, <2>2
<1>6. reply.mode = "mock" <=> \E t \in RosTools \cup DdsTools : SourceOf(t) = "fixtures"
  <2>1. ASSUME NEW t \in RosTools \cup DdsTools
        PROVE  AdapterMode = "mock" <=> SourceOf(t) = "fixtures"
    BY <2>1 DEF AdapterMode, SourceOf, MockSource, RosHalf, DdsHalf, RosTools, DdsTools, BagTools
  <2>2. "list_topics" \in RosTools  BY DEF RosTools
  <2> QED  BY <1>1, <2>1, <2>2
<1>7. /\ (env.dds = "cyclone" /\ env.mode # "mock" /\ reply.dds # "cyclone") =>
           reply.inactive # "none"
      /\ reply.inactive \in {"not installed", "auto found no binding",
                             "not selected, not installed"} => ~host.binding
      /\ reply.inactive \in {"not selected", "failed to start"} => host.binding
      /\ reply.inactive = "failed to start" => ~host.starts
  <2>1. reply.inactive = IF adapter.dds \in {"none", "mock"} THEN adapter.reason ELSE "none"
    BY <1>1 DEF InactiveNote
  <2>2. adapter.dds \in {"none", "mock", "cyclone"}
    BY <1>2 DEF Chosen, MockAdapter, LiveAdapter
  <2>3. env.mode = "mock" => EffectiveDds = "mock" /\ adapter.reason = "none"
    BY <1>2 DEF Chosen, MockAdapter, EffectiveDds
  <2>4. adapter.reason = "none" \/ (adapter.reason = InactiveReason /\ ~DdsStarts)
    BY <1>2, Zenon DEF Chosen, MockAdapter, LiveAdapter
  <2>5. env.dds = "cyclone" /\ env.mode # "mock" /\ adapter.dds # "cyclone" =>
          adapter.reason = InactiveReason
    <3>1. env.dds = "cyclone" /\ env.mode # "mock" => EffectiveDds = "cyclone"
      BY DEF EffectiveDds
    <3> QED  BY <1>2, <3>1 DEF Chosen, MockAdapter, LiveAdapter
  <2>6. InactiveReason # "none"  BY DEF InactiveReason
  <2>7. /\ env.mode # "mock"
           /\ InactiveReason \in {"not installed", "auto found no binding",
                                  "not selected, not installed"} => ~host.binding
        /\ InactiveReason = "not selected" => host.binding
        /\ InactiveReason = "failed to start" => host.binding
    BY <1>3 DEF InactiveReason, EffectiveDds, ValidEnv
  <2>8. InactiveReason = "failed to start" /\ ~DdsStarts => ~host.starts
    <3>1. EffectiveDds \in {"mock", "cyclone"}  BY <1>3 DEF EffectiveDds, ValidEnv
    <3> QED  BY <3>1 DEF InactiveReason, DdsStarts
  <2> HIDE DEF InactiveReason
  <2> QED  BY <1>1, <2>1, <2>2, <2>3, <2>4, <2>5, <2>6, <2>7, <2>8
<1>8. ASSUME hint.known, now - hint.at <= ClockHintTtl, hint.published = TRUE
      PROVE  \E t \in DOMAIN truth : now - t <= ClockHintTtl /\ TRUE \in truth[t]
  <2>1. hint.at \in DOMAIN truth /\ hint.published \in truth[hint.at]
    BY <1>8 DEF History, HintWasSo
  <2> QED  BY <1>8, <2>1
<1>9. ASSUME hint.known, now - hint.at <= ClockHintTtl, hint.published = FALSE
      PROVE  \E t \in DOMAIN truth : now - t <= ClockHintTtl /\ FALSE \in truth[t]
  <2>1. hint.at \in DOMAIN truth /\ hint.published \in truth[hint.at]
    BY <1>9 DEF History, HintWasSo
  <2> QED  BY <1>9, <2>1
<1>10. /\ reply.sim = "yes" => \E t \in DOMAIN truth : now - t <= ClockHintTtl /\ TRUE \in truth[t]
       /\ reply.sim = "no" => \E t \in DOMAIN truth : now - t <= ClockHintTtl /\ FALSE \in truth[t]
  <2> DEFINE known == hint.known /\ now - hint.at <= ClockHintTtl
  <2>1. ClockHintTtl \in Nat /\ now \in Nat /\ (hint.known => hint.at \in Nat)
    BY ServingAssumption DEF History, HintWasSo
  <2>2. SimClockPublished = "yes" => known /\ hint.published = TRUE
    BY <2>1 DEF SimClockPublished, HintWasSo
  <2>3. SimClockPublished = "no" => known /\ hint.published = FALSE
    BY <2>1 DEF SimClockPublished, HintWasSo
  <2> QED  BY <1>1, <1>8, <1>9, <2>2, <2>3
<1>11. HealthIsTrue  BY <1>4, <1>5, <1>6, <1>7, <1>10 DEF HealthIsTrue
<1>12. ~Answered  BY <1>1 DEF Answered
<1> QED  BY <1>11, <1>12 DEF ServedAsSaid, LabelsAreTrue, SaysWhatItLeft


(* The settings, the host's parts and the backends stay while it serves.   *)
LEMMA BuiltStays ==
  ASSUME Built, Serving, UNCHANGED <<env, adapter>>,
         host'.binding = host.binding, host'.starts = host.starts
  PROVE  Built'
<1>1. PICK r \in BOOLEAN : Chosen(r)  BY DEF Built
<1>2. Chosen(r)'
  BY <1>1 DEF Chosen, MockAdapter, LiveAdapter, InactiveReason, DdsStarts, EffectiveDds
<1>3. ValidEnv'  BY DEF Built, ValidEnv
<1> QED  BY <1>2, <1>3 DEF Built

LEMMA SameWorld ==
  ASSUME Built, History, HintWasSo, Untouched
  PROVE  Built' /\ History' /\ HintWasSo' /\ Serving' = Serving
<1>1. Serving' = Serving  BY DEF Untouched, Serving, Off
<1>2. History' /\ HintWasSo'  BY DEF Untouched, History, HintWasSo
<1>3. Built'
  <2>1. CASE Serving  BY <2>1, BuiltStays DEF Untouched
  <2>2. CASE ~Serving  BY <1>1, <2>2 DEF Built
  <2> QED  BY <2>1, <2>2
<1> QED  BY <1>1, <1>2, <1>3

LEMMA HintTaken ==
  ASSUME History, HintWasSo, UNCHANGED <<now, truth, clock>>, Remembers \/ UNCHANGED hint
  PROVE  HintWasSo'
BY DEF History, HintWasSo, Remembers

LEMMA ServerInvStep == ServerInv /\ [ServerNext]_servervars => ServerInv'
<1> SUFFICES ASSUME ServerInv, [ServerNext]_servervars PROVE ServerInv'  OBVIOUS
<1>0. /\ History /\ Built /\ HintWasSo /\ ServedAsSaid
      /\ ~Serving => reply = NoReply
  BY DEF ServerInv
<1>1. CASE Start
  <2>1. /\ ~Serving /\ ValidEnv /\ adapter' = BuildAdapter /\ (reply = NoReply)'
        /\ UNCHANGED <<env, host, clock, now, hint, reply, truth>>
    BY <1>0, <1>1 DEF Start, NoReply
  <2>2. History' /\ HintWasSo'  BY <1>0, <2>1 DEF History, HintWasSo
  <2>3. Chosen(host.ros2)'
    BY <2>1 DEF Chosen, BuildAdapter, EffectiveMode, MockAdapter, LiveAdapter, InactiveReason,
       DdsStarts, EffectiveDds
  <2>4. host.ros2 \in BOOLEAN  BY <1>0 DEF History
  <2>5. host'.ros2 = host.ros2 /\ ValidEnv'  BY <2>1 DEF ValidEnv
  <2>6. Built'  BY <2>3, <2>4, <2>5 DEF Built
  <2>7. ServedAsSaid'  BY <2>1, SilentIsServed, PTL
  <2> QED  BY <2>1, <2>2, <2>6, <2>7 DEF ServerInv
<1>2. CASE HealthCheck
  <2>1. Serving /\ Untouched /\ (reply = Report)'
    BY <1>2 DEF HealthCheck, Idle, Untouched, Report, AdapterMode, InactiveNote, SimClockPublished,
       Rmw, Secured, MiddlewareAvailable
  <2>2. Built' /\ History' /\ HintWasSo' /\ Serving'  BY <1>0, <2>1, SameWorld
  <2>3. ServedAsSaid'  BY <2>1, <2>2, ReportIsTrue, PTL
  <2> QED  BY <2>2, <2>3 DEF ServerInv
<1>3. ASSUME NEW ask \in Asks, Serve(ask) PROVE ServerInv'
  <2> DEFINE source == SourceOf(ask.tool)
  <2>1. Serving /\ UNCHANGED <<env, host, adapter, clock, now, truth>>
    BY <1>3 DEF Serve, Idle
  <2>2. Remembers \/ UNCHANGED hint
    BY <1>3 DEF Serve, Answers, Fails
  <2>3. HintWasSo'  BY <1>0, <2>1, <2>2, HintTaken
  <2>4. History'  BY <1>0, <2>1 DEF History
  <2>5. Built' /\ Serving'  BY <1>0, <2>1, BuiltStays DEF Serving, Off
  <2>6. CASE \E why : reply' = Failure(ask, why)
    <3>1. PICK why : reply' = Failure(ask, why)  BY <2>6
    <3>2. FailureGiven'  BY <3>1 DEF FailureGiven, Failure
    <3>3. ServedAsSaid'  BY <3>2, FailureIsTrue, PTL
    <3> QED  BY <2>3, <2>4, <2>5, <3>3 DEF ServerInv
  <2>7. CASE ~Refused(ask) /\ Answers(ask, source)
    <3>1. source \in Sources /\ reply' = Given(ask, source)
      BY <2>7 DEF Answers, Works
    <3>2. (reply = Given(ask, source))'
      BY <2>1, <3>1 DEF Given, Answer, LabelOf, AdapterMode, AnsweredDomain, DomainNote,
         SourceOf, MockSource, RosHalf, DdsHalf
    <3>3. (source \in Sources)' /\ (~Refused(ask))' /\ (ask \in Asks)'
      BY <2>1, <2>7, <3>1 DEF SourceOf, MockSource, RosHalf, DdsHalf
    <3>4. AnswerGiven'
      <4> DEFINE right == ~Refused(ask) /\ source \in Sources /\ reply = Given(ask, source)
      <4>1. right'  BY <3>2, <3>3
      <4> QED  BY <4>1 DEF AnswerGiven
    <3>5. (LabelsAreTrue /\ SaysWhatItLeft /\ reply.tool # "health_check")'
      BY <2>5, <3>4, GivenIsTrue, PTL
    <3>6. ServedAsSaid'  BY <3>5 DEF ServedAsSaid, HealthIsTrue
    <3> QED  BY <2>3, <2>4, <2>5, <3>6 DEF ServerInv
  <2>8. (\E why : reply' = Failure(ask, why)) \/ (~Refused(ask) /\ Answers(ask, source))
    BY <1>3 DEF Serve, Fails
  <2> QED  BY <2>6, <2>7, <2>8
<1>4. CASE Taken
  <2>1. Serving /\ Untouched /\ (reply = NoReply)'  BY <1>4 DEF Taken, Untouched, NoReply
  <2>2. Built' /\ History' /\ HintWasSo' /\ Serving'  BY <1>0, <2>1, SameWorld
  <2>3. ServedAsSaid'  BY <2>1, SilentIsServed, PTL
  <2> QED  BY <2>2, <2>3 DEF ServerInv
<1>5. CASE ClockChanges
  <2>1. /\ Serving /\ (reply = NoReply)' /\ clock' = ~clock
        /\ truth' = [truth EXCEPT ![now] = @ \cup {~clock}]
        /\ UNCHANGED <<env, host, adapter, now, hint, reply>>
    BY <1>5 DEF ClockChanges, Idle, NoReply
  <2>2. Built' /\ Serving'  BY <1>0, <2>1, BuiltStays DEF Serving, Off
  <2>3. truth' = [t \in 0..now |-> IF t = now THEN truth[t] \cup {~clock} ELSE truth[t]]
    BY <1>0, <2>1 DEF History
  <2>4. History'
    <3>1. /\ host' \in [ros2 : BOOLEAN, binding : BOOLEAN, starts : BOOLEAN]
          /\ now' = now /\ now \in Nat /\ clock \in BOOLEAN
      BY <1>0, <2>1 DEF History
    <3>2. truth' = [t \in 0..now |-> truth'[t]]  BY <2>3
    <3>3. clock' \in BOOLEAN  BY <2>1
    <3>4. clock' \in truth'[now]  BY <2>1, <2>3, <3>1
    <3> QED  BY <3>1, <3>2, <3>3, <3>4 DEF History
  <2>5. HintWasSo'  BY <1>0, <2>1, <2>3 DEF History, HintWasSo
  <2>6. ServedAsSaid'  BY <2>1, SilentIsServed, PTL
  <2> QED  BY <2>2, <2>4, <2>5, <2>6 DEF ServerInv
<1>6. CASE Ros2ComesOrGoes
  <2>1. /\ Serving /\ (reply = NoReply)' /\ host' = [host EXCEPT !.ros2 = ~@]
        /\ UNCHANGED <<env, adapter, clock, now, hint, reply, truth>>
    BY <1>6 DEF Ros2ComesOrGoes, Idle, NoReply
  <2>2. History' /\ host'.binding = host.binding /\ host'.starts = host.starts
    BY <1>0, <2>1 DEF History
  <2>3. Built' /\ Serving'  BY <1>0, <2>1, <2>2, BuiltStays DEF Serving, Off
  <2>4. HintWasSo'  BY <1>0, <2>1 DEF HintWasSo
  <2>5. ServedAsSaid'  BY <2>1, SilentIsServed, PTL
  <2> QED  BY <2>2, <2>3, <2>4, <2>5 DEF ServerInv
<1>7. CASE Tick
  <2>1. /\ Serving /\ (reply = NoReply)' /\ now' = now + 1
        /\ truth' = [t \in 0 .. now + 1 |-> IF t \in DOMAIN truth THEN truth[t] ELSE {clock}]
        /\ UNCHANGED <<env, host, adapter, clock, hint, reply>>
    BY <1>7 DEF Tick, Idle, NoReply
  <2>2. Built' /\ Serving'  BY <1>0, <2>1, BuiltStays DEF Serving, Off
  <2>3. DOMAIN truth = 0..now /\ now \in Nat  BY <1>0 DEF History
  <2>4. truth' = [t \in 0..now' |-> IF t \in 0..now THEN truth[t] ELSE {clock}]
    BY <2>1, <2>3
  <2>5. truth'[now'] = {clock} /\ \A t \in 0..now : truth'[t] = truth[t]  BY <2>1, <2>3, <2>4
  <2>6. History'  BY <1>0, <2>1, <2>3, <2>4, <2>5 DEF History
  <2>7. HintWasSo'  BY <1>0, <2>1, <2>3, <2>5 DEF HintWasSo
  <2>8. ServedAsSaid'  BY <2>1, SilentIsServed, PTL
  <2> QED  BY <2>2, <2>6, <2>7, <2>8 DEF ServerInv
<1>8. CASE UNCHANGED servervars
  <2>1. Untouched /\ reply' = reply  BY <1>8 DEF servervars, Untouched
  <2>2. Built' /\ History' /\ HintWasSo' /\ Serving' = Serving  BY <1>0, <2>1, SameWorld
  <2>3. ServedAsSaid'
    <3>1. UNCHANGED <<env, host, adapter, clock, now, hint, reply, truth>>
      BY <1>8 DEF servervars
    <3>2. LabelsAreTrue' = LabelsAreTrue
      BY <3>1 DEF LabelsAreTrue, Answered, Replied
    <3>3. SaysWhatItLeft' = SaysWhatItLeft
      BY <3>1 DEF SaysWhatItLeft, Answered, Replied
    <3>4. HealthIsTrue' = HealthIsTrue
      <4>1. \A t : SourceOf(t)' = SourceOf(t)
        BY <3>1 DEF SourceOf, MockSource, RosHalf, DdsHalf
      <4> QED  BY <3>1, <4>1 DEF HealthIsTrue, Replied
    <3> QED  BY <1>0, <3>2, <3>3, <3>4 DEF ServedAsSaid
  <2>4. ~Serving' => reply' = NoReply  BY <1>0, <2>1, <2>2
  <2> QED  BY <2>2, <2>3, <2>4 DEF ServerInv
<1> QED  BY <1>1, <1>2, <1>3, <1>4, <1>5, <1>6, <1>7, <1>8 DEF ServerNext

(* The tools answer from the backends health_check names, and what an      *)
(* answer says of its source, its domain and its size is so: whatever the  *)
(* settings, the machine, the calls and the samples.                       *)
THEOREM AnswersAreServed == ServerSpec => []ServedAsSaid
<1>1. ServerInit => ServerInv  BY ServerInvInit
<1>2. ServerInv /\ [ServerNext]_servervars => ServerInv'  BY ServerInvStep
<1>3. ServerInv => ServedAsSaid  BY DEF ServerInv
<1> QED  BY <1>1, <1>2, <1>3, PTL DEF ServerSpec

-----------------------------------------------------------------------------
(* BagReads: a peek goes over the messages in its range once, in order.    *)
LEMMA LesserOf ==
  ASSUME NEW a \in Int, NEW b \in Int
  PROVE  MinOf({a, b}) = IF a <= b THEN a ELSE b
<1>1. \E n \in {a, b} : \A m \in {a, b} : n <= m  OBVIOUS
<1>2. PICK least : least = MinOf({a, b})  OBVIOUS
<1>3. least \in {a, b} /\ \A m \in {a, b} : least <= m  BY <1>1, <1>2 DEF MinOf
<1> QED  BY <1>2, <1>3

(* The places of the messages that are asked for.                          *)
Owned ==
  {i \in DOMAIN bag.messages :
     LET m == bag.messages[i]
     IN  /\ m.topic = call.topic
         /\ m.ts - bag.start >= call.from
         /\ call.to # None => m.ts - bag.start < call.to
         /\ Matches(m)}
Peeks == call.tool = "peek_bag_samples"
Messages == {bag.messages[i] : i \in DOMAIN bag.messages}

LEMMA OwnedInScope ==
  ASSUME IsBagCall, Peeks
  PROVE  Owned = {i \in InScope : Filtered => Matches(bag.messages[i])}
<1>1. /\ bag.start \in Int
      /\ call.from \in Nat \cup {None} /\ call.to \in Nat \cup {None}
      /\ \A i \in DOMAIN bag.messages :
           bag.messages[i].ts \in Int /\ bag.messages[i].ts >= bag.start
  BY DEF IsBagCall, Peeks
<1>2. ASSUME NEW i \in DOMAIN bag.messages
      PROVE  /\ bag.messages[i].ts - bag.start >= call.from
             /\ call.to # None => bag.messages[i].ts - bag.start < call.to
             <=> InRange(bag.messages[i])
  <2> DEFINE ts == bag.messages[i].ts
  <2>1. ts \in Int /\ ts >= bag.start  BY <1>1
  <2>2. ts - bag.start >= call.from <=> (call.from # None => ts >= bag.start + call.from)
    <3>1. CASE call.from = None  BY <1>1, <2>1, <3>1 DEF None
    <3>2. CASE call.from # None  BY <1>1, <2>1, <3>2
    <3> QED  BY <3>1, <3>2
  <2>3. (call.to # None => ts - bag.start < call.to)
          <=> (call.to # None => ts < bag.start + call.to)
    BY <1>1, <2>1
  <2> QED  BY <2>2, <2>3 DEF InRange
<1>3. \A i \in DOMAIN bag.messages :
        Matches(bag.messages[i]) <=> (Filtered => Matches(bag.messages[i]))
  BY DEF Filtered, Matches
<1> QED  BY <1>2, <1>3 DEF Owned, InScope

(* The samples are those asked for among the messages scanned.             *)
Along ==
  /\ cursor \in 0..Cardinality(InScope)
  /\ samples = Select(bag.messages, Firsts(InScope, cursor) \cap Owned)
  /\ Len(samples) <= call.count /\ Len(samples) <= L.samples

PeekInv ==
  Peeks => /\ IsBagCall /\ phase \in {"open", "peek", "done"}
           /\ phase # "done" => outcome = "none" /\ Along
           /\ PeekIsFirst

LEMMA InTheBag ==
  ASSUME IsBagCall
  PROVE  /\ bag.messages \in Seq(Messages)
         /\ InScope \in SUBSET DOMAIN bag.messages /\ Owned \in SUBSET DOMAIN bag.messages
         /\ Cardinality(InScope) \in Nat /\ Len(Ranged) = Cardinality(InScope)
<1>1. /\ bag.messages \in Seq(Messages)
      /\ InScope \in SUBSET DOMAIN bag.messages /\ Owned \in SUBSET DOMAIN bag.messages
  BY DEF IsBagCall, Messages, InScope, Owned
<1> QED  BY <1>1, SelectedPlaces DEF Ranged

LEMMA PeekInvInit == (Peeks => IsBagCall) /\ BagInit => PeekInv
<1> SUFFICES ASSUME IsBagCall, BagInit, Peeks PROVE PeekInv  BY DEF PeekInv
<1>1. phase = "open" /\ cursor = 0 /\ samples = <<>> /\ outcome = "none"
  BY DEF BagInit, Peeks
<1>2. Firsts(InScope, 0) = {} /\ Cardinality(InScope) \in Nat  BY InTheBag, FirstsAll
<1>3. Select(bag.messages, {}) = <<>>
  <2>1. {} \in SUBSET DOMAIN bag.messages /\ bag.messages \in Seq(Messages)  BY InTheBag
  <2>2. /\ Select(bag.messages, {}) \in Seq(Messages)
        /\ Len(Select(bag.messages, {})) = Cardinality({})
    BY <2>1, SelectedPlaces
  <2> QED  BY <2>2, FS_EmptySet
<1>4. call.count \in Nat /\ L.samples \in Nat  BY ReadingAssumption DEF IsBagCall, Peeks
<1>5. Along
  <2>1. Firsts(InScope, cursor) \cap Owned = {} /\ cursor \in 0..Cardinality(InScope)
    BY <1>1, <1>2
  <2>2. Len(samples) <= call.count /\ Len(samples) <= L.samples
    <3>1. Len(samples) = 0  BY <1>1
    <3> QED  BY <1>4, <3>1
  <2>3. samples = Select(bag.messages, Firsts(InScope, cursor) \cap Owned)
    BY <1>1, <1>3, <2>1
  <2> QED  BY <2>1, <2>2, <2>3 DEF Along
<1> QED  BY <1>1, <1>5 DEF PeekInv, PeekIsFirst

(* What was chosen of the messages scanned so far is the beginning of what *)
(* is asked for, and all of it after the last.                             *)
LEMMA KeptFirst ==
  ASSUME IsBagCall, Peeks, Along
  PROVE  LET own == Select(bag.messages, Owned)
         IN  /\ Len(samples) \in Nat /\ Len(own) \in Nat /\ Len(samples) <= Len(own)
             /\ samples = SubSeq(own, 1, Len(samples))
             /\ cursor = Len(Ranged) => Len(samples) = Len(own)
<1> DEFINE s == bag.messages
           chosen == Firsts(InScope, cursor) \cap Owned
           own == Select(s, Owned)
<1>1. /\ s \in Seq(Messages) /\ InScope \in SUBSET DOMAIN s /\ Owned \in SUBSET DOMAIN s
      /\ Len(Ranged) = Cardinality(InScope) /\ Cardinality(InScope) \in Nat
  BY InTheBag
<1>2. samples = Select(s, chosen) /\ cursor \in 0..Cardinality(InScope)  BY DEF Along
<1>3. chosen \in SUBSET Owned /\ chosen \in SUBSET DOMAIN s  BY <1>1
<1>4. Owned \in SUBSET InScope  BY OwnedInScope
<1>5. \A x \in chosen : \A y \in Owned \ chosen : x < y
  <2>1. \A x \in Firsts(InScope, cursor), y \in InScope \ Firsts(InScope, cursor) : x < y
    <3>1. cursor \in Int  BY <1>2
    <3> HIDE DEF s
    <3> QED  BY <1>1, <3>1, FirstsAll
  <2> QED  BY <1>4, <2>1
<1>6. cursor = Len(Ranged) => chosen = Owned
  <2>1. Firsts(InScope, Cardinality(InScope)) = InScope
    <3> HIDE DEF s
    <3> QED  BY <1>1, FirstsAll
  <2> QED  BY <1>1, <1>4, <2>1
<1> HIDE DEF s, chosen
<1>7. /\ samples \in Seq(Messages) /\ Len(samples) = Cardinality(chosen)
      /\ own \in Seq(Messages) /\ Len(own) = Cardinality(Owned)
  BY <1>1, <1>2, <1>3, SelectedPlaces
<1>8. /\ Cardinality(chosen) \in Nat /\ Cardinality(Owned) \in Nat
      /\ Cardinality(chosen) <= Cardinality(Owned)
      /\ \A k \in 1..Cardinality(chosen) : Select(s, chosen)[k] = Select(s, Owned)[k]
  BY <1>1, <1>3, <1>5, SelectedFirst
<1>9. \A k \in 1..Len(samples) : samples[k] = own[k]  BY <1>2, <1>7, <1>8
<1>10. samples = SubSeq(own, 1, Len(samples))
  <2> HIDE DEF own
  <2>1. Len(samples) \in Nat /\ Len(own) \in Nat /\ Len(samples) <= Len(own)  BY <1>7, <1>8
  <2>2. SubSeq(own, 1, Len(samples)) \in Seq(Messages)
        /\ Len(SubSeq(own, 1, Len(samples))) = Len(samples)
        /\ \A k \in 1..Len(samples) : SubSeq(own, 1, Len(samples))[k] = own[k]
    BY <1>7, <2>1
  <2> QED  BY <1>7, <1>9, <2>1, <2>2, SeqEqual
<1>11. cursor = Len(Ranged) => Len(samples) = Len(own)  BY <1>6, <1>7
<1> QED  BY <1>7, <1>8, <1>10, <1>11 DEF s

LEMMA ScanNext ==
  ASSUME IsBagCall, Peeks, Along, PeekMessage
  PROVE  Along'
<1> DEFINE s == bag.messages
           seen == Firsts(InScope, cursor)
<1>1. /\ s \in Seq(Messages) /\ InScope \in SUBSET DOMAIN s /\ Owned \in SUBSET DOMAIN s
      /\ Len(Ranged) = Cardinality(InScope) /\ Cardinality(InScope) \in Nat
  BY InTheBag
<1>2. /\ cursor < Cardinality(InScope) /\ Len(samples) < AtMost /\ cursor' = cursor + 1
      /\ samples' = IF Filtered /\ ~Matches(Ranged[cursor + 1]) THEN samples
                    ELSE Append(samples, Ranged[cursor + 1])
      /\ call' = call
  BY <1>1 DEF PeekMessage, PeekNext
<1>3. cursor \in 0..Cardinality(InScope) /\ samples = Select(s, seen \cap Owned)  BY DEF Along
<1>4. cursor \in 0..(Cardinality(InScope) - 1)  BY <1>1, <1>2, <1>3
<1>5. PICK x \in InScope : /\ Ranged[cursor + 1] = s[x]
                           /\ Firsts(InScope, cursor + 1) = seen \cup {x}
                           /\ \A y \in seen : y < x
  <2> HIDE DEF s
  <2>1. \E x \in InScope : /\ Select(s, InScope)[cursor + 1] = s[x]
                           /\ Firsts(InScope, cursor + 1) = Firsts(InScope, cursor) \cup {x}
                           /\ \A y \in Firsts(InScope, cursor) : y < x
    BY <1>1, <1>4, FirstsGrow
  <2> QED  BY <2>1 DEF s, Ranged
<1>6. x \in Owned <=> (Filtered => Matches(s[x]))  BY OwnedInScope
<1>7. /\ InScope' = InScope /\ Owned' = Owned /\ bag' = bag
  BY <1>2 DEF InScope, Owned, bag, InRange, Matches
<1>8. seen \cap Owned \in SUBSET DOMAIN s /\ x \in DOMAIN s  BY <1>1
<1> HIDE DEF s, seen
<1>9. /\ samples \in Seq(Messages) /\ Len(samples) = Cardinality(seen \cap Owned)
  BY <1>1, <1>3, <1>8, SelectedPlaces
<1>10. samples' = Select(s, Firsts(InScope, cursor + 1) \cap Owned)
  <2>1. CASE x \in Owned
    <3>1. samples' = Append(samples, s[x])  BY <1>2, <1>5, <1>6, <2>1
    <3>2. Firsts(InScope, cursor + 1) \cap Owned = (seen \cap Owned) \cup {x}
      BY <1>5, <2>1
    <3>3. \A y \in seen \cap Owned : y < x  BY <1>5
    <3>4. Select(s, (seen \cap Owned) \cup {x}) = Append(Select(s, seen \cap Owned), s[x])
      BY <1>1, <1>8, <3>3, SelectedNext
    <3> QED  BY <1>3, <3>1, <3>2, <3>4
  <2>2. CASE x \notin Owned
    <3>1. samples' = samples  BY <1>2, <1>5, <1>6, <2>2
    <3>2. Firsts(InScope, cursor + 1) \cap Owned = seen \cap Owned  BY <1>5, <2>2
    <3> QED  BY <1>3, <3>1, <3>2
  <2> QED  BY <2>1, <2>2
<1>11. Len(samples') <= call.count /\ Len(samples') <= L.samples
  <2>1. call.count \in Nat /\ L.samples \in Nat
    BY ReadingAssumption DEF IsBagCall, Peeks
  <2>2. Len(samples) \in Nat /\ Len(samples) < call.count /\ Len(samples) < L.samples
    <3>1. Len(samples) \in Nat  BY <1>9
    <3>2. AtMost = IF call.count <= L.samples THEN call.count ELSE L.samples
      BY <2>1, LesserOf DEF AtMost
    <3> QED  BY <1>2, <2>1, <3>1, <3>2
  <2>3. Len(samples') \in {Len(samples), Len(samples) + 1}
    <3>1. \A m : Len(Append(samples, m)) = Len(samples) + 1
      <4> TAKE m
      <4>1. PICK S : samples \in Seq(S) /\ m \in S
        <5>1. samples \in Seq(Messages \cup {m})  BY <1>9
        <5> QED  BY <5>1
      <4> QED  BY <4>1
    <3> QED  BY <1>2, <3>1
  <2> QED  BY <2>1, <2>2, <2>3
<1>12. cursor' \in 0..Cardinality(InScope)  BY <1>1, <1>2, <1>4
<1> QED  BY <1>2, <1>7, <1>10, <1>11, <1>12 DEF Along, s

(* The end of the reading.                                                 *)
LEMMA PeekGiven ==
  ASSUME IsBagCall, Peeks, Along, NEW also, PeekDone(also),
         ~PeekNext \/ also = {"stopped"}, phase = "peek"
  PROVE  PeekIsFirst'
<1> DEFINE own == Select(bag.messages, Owned)
<1>1. /\ notes' = notes \cup PeekNotes \cup also
      /\ cursor' = cursor /\ samples' = samples /\ call' = call
  BY DEF PeekDone, PeekSame
<1>2. /\ Len(samples) \in Nat /\ Len(own) \in Nat /\ Len(samples) <= Len(own)
      /\ samples = SubSeq(own, 1, Len(samples))
      /\ cursor = Len(Ranged) => Len(samples) = Len(own)
  BY KeptFirst
<1>3. call.count \in Nat /\ L.samples \in Nat  BY ReadingAssumption DEF IsBagCall, Peeks
<1>4. Len(samples) <= call.count  BY DEF Along
<1>5. AtMost \in Nat  BY <1>3, LesserOf DEF AtMost
<1> HIDE DEF own
<1>6. Len(samples) < MinOf({AtMost, Len(own)}) => "stopped" \in notes'
  <2> SUFFICES ASSUME Len(samples) < MinOf({AtMost, Len(own)}), ~PeekNext PROVE FALSE
    BY <1>1
  <2>1. Len(samples) < AtMost /\ Len(samples) < Len(own)
    <3>1. MinOf({AtMost, Len(own)}) = IF AtMost <= Len(own) THEN AtMost ELSE Len(own)
      BY <1>2, <1>5, LesserOf
    <3> QED  BY <1>2, <1>5, <3>1
  <2>2. ~(cursor < Len(Ranged))  BY <2>1 DEF PeekNext
  <2>3. cursor \in 0..Len(Ranged) /\ Len(Ranged) \in Nat  BY InTheBag DEF Along
  <2>4. cursor = Len(Ranged)  BY <2>2, <2>3
  <2> QED  BY <1>2, <2>1, <2>4
<1>7. (call.to # None /\ samples = <<>>) => notes' \cap {"empty range", "past the end"} # {}
  BY <1>1 DEF PeekNotes
<1>8. /\ Owned' = Owned /\ bag' = bag /\ AtMost' = AtMost
  BY <1>1 DEF Owned, bag, Matches, AtMost
<1> QED
  <2>1. (Select(bag.messages, Owned))' = own  BY <1>8 DEF own
  <2>2. PeekIsFirst' = ((outcome' = "given" /\ Peeks') =>
            LET has == (Select(bag.messages, Owned))'
            IN  /\ Len(samples') <= Len(has) /\ samples' = SubSeq(has, 1, Len(samples'))
                /\ Len(samples') <= call'.count
                /\ Len(samples') < MinOf({AtMost', Len(has)}) => "stopped" \in notes'
                /\ (call'.to # None /\ samples' = <<>>) =>
                     notes' \cap {"empty range", "past the end"} # {})
    BY DEF PeekIsFirst, Owned, Peeks
  <2> QED  BY <1>1, <1>2, <1>4, <1>6, <1>7, <1>8, <2>1, <2>2

LEMMA PeekInvStep == PeekInv /\ [BagNext]_bagvars => PeekInv'
<1> SUFFICES ASSUME PeekInv, [BagNext]_bagvars, Peeks' PROVE PeekInv'  BY DEF PeekInv
<1>1. call' = call
  BY DEF BagNext, bagvars, BagInfo, ScanUnread, ReadFails, PassWhole, PassCut, Passes, Judge,
         JudgeCut, Judges, PeekOpen, PeekMessage, PeekStop, PeekEnd, PeekDone
<1>2. /\ Peeks /\ IsBagCall /\ IsBagCall' /\ phase \in {"open", "peek", "done"}
      /\ phase # "done" => outcome = "none" /\ Along
      /\ PeekIsFirst
  BY <1>1 DEF PeekInv, Peeks, IsBagCall, bag
<1>3. CASE UNCHANGED bagvars
  <2>1. Along' = Along /\ PeekIsFirst' = PeekIsFirst
    BY <1>3 DEF bagvars, Along, PeekIsFirst, Owned, InScope, InRange, Matches, bag, AtMost
  <2> QED  BY <1>2, <1>3, <2>1 DEF PeekInv, bagvars
<1>4. CASE PeekOpen
  <2>1. /\ phase = "open" /\ UNCHANGED <<cursor, samples, call>>
        /\ \/ phase' = "done" /\ outcome' = "error"
           \/ phase' = "peek" /\ outcome' = outcome
    BY <1>4 DEF PeekOpen, PeekSame, Finishes, GoesOn
  <2>2. Along'  BY <1>2, <2>1 DEF Along, Owned, InScope, InRange, Matches, bag
  <2> QED  BY <1>2, <2>1, <2>2 DEF PeekInv, PeekIsFirst
<1>5. CASE PeekMessage
  <2>1. phase = "peek" /\ UNCHANGED <<phase, outcome>>  BY <1>5 DEF PeekMessage, PeekNext
  <2>2. Along'  BY <1>2, <1>5, <2>1, ScanNext
  <2> QED  BY <1>2, <2>1, <2>2 DEF PeekInv, PeekIsFirst
<1>6. CASE PeekStop
  <2>1. phase = "peek" /\ PeekDone({"stopped"})  BY <1>6 DEF PeekStop, PeekNext
  <2>2. PeekIsFirst'  BY <1>2, <2>1, PeekGiven
  <2>3. phase' = "done"  BY <2>1 DEF PeekDone, Finishes
  <2> QED  BY <1>2, <2>2, <2>3 DEF PeekInv
<1>7. CASE PeekEnd
  <2>1. phase = "peek" /\ ~PeekNext /\ PeekDone({})  BY <1>7 DEF PeekEnd
  <2>2. PeekIsFirst'  BY <1>2, <2>1, PeekGiven
  <2>3. phase' = "done"  BY <2>1 DEF PeekDone, Finishes
  <2> QED  BY <1>2, <2>2, <2>3 DEF PeekInv
<1>8. ~(BagInfo \/ ScanUnread \/ ReadFails \/ PassWhole \/ PassCut \/ Judge \/ JudgeCut)
  BY <1>2 DEF BagInfo, ScanUnread, ReadFails, PassWhole, PassCut, Scanning, Judge, JudgeCut,
              Judging
<1> QED  BY <1>3, <1>4, <1>5, <1>6, <1>7, <1>8 DEF BagNext

(* What peek_bag_samples gives is the first of what was asked for, whole   *)
(* unless a note says that the reading stopped, whatever the bag and the   *)
(* caps: the code adapters/common/bag_read.py reads with.                  *)
PeekTold == IF about = "bag" THEN PeekInv ELSE outcome = "none"

LEMMA PeekToldInit == ToolsInit => PeekTold
<1> SUFFICES ASSUME ToolsInit PROVE PeekTold  OBVIOUS
<1>1. BagInit /\ (about = "bag" => IsBagCall)  BY DEF ToolsInit
<1>2. CASE about = "bag"  BY <1>1, <1>2, PeekInvInit DEF PeekTold
<1>3. CASE about # "bag"  BY <1>1, <1>3 DEF PeekTold, BagInit
<1> QED  BY <1>2, <1>3

LEMMA PeekToldStep == PeekTold /\ [ToolsNext]_allvars => PeekTold'
<1> SUFFICES ASSUME PeekTold, [ToolsNext]_allvars PROVE PeekTold'  OBVIOUS
<1>1. about' = about
  BY DEF ToolsNext, allvars, toolvars, AnswerNodeInfo, AnswerListing, AnswerSamples, AnswerSearch,
         AnswerHints, AnswerPeek, AnswerRate, AnswerScan, AnswerTopics, AnswerTopicInfo,
         AnswerNodes, Gives, Asked
<1>2. \/ UNCHANGED bagvars
      \/ about = "bag" /\ BagNext
  BY DEF ToolsNext, allvars, AnswerNodeInfo, AnswerListing, AnswerSamples, AnswerSearch,
         AnswerHints, AnswerPeek, AnswerRate, AnswerScan, AnswerTopics, AnswerTopicInfo,
         AnswerNodes, Gives, Asked
<1>3. CASE about = "bag"  BY <1>1, <1>2, <1>3, PeekInvStep DEF PeekTold
<1>4. CASE about # "bag"  BY <1>1, <1>2, <1>4 DEF PeekTold, bagvars
<1> QED  BY <1>3, <1>4

THEOREM PeeksGiveFirst == ToolsSpec => []PeekIsFirst
<1>1. PeekTold => PeekIsFirst
  <2>1. PeekInv => PeekIsFirst  BY DEF PeekInv, PeekIsFirst, Peeks
  <2>2. outcome = "none" => PeekIsFirst  BY DEF PeekIsFirst
  <2> QED  BY <2>1, <2>2 DEF PeekTold
<1> QED  BY <1>1, PeekToldInit, PeekToldStep, PTL DEF ToolsSpec

-----------------------------------------------------------------------------
(* ParamRules: the comparison of a parameter file with a node.  The first  *)
(* n of a set of names are all of it or at least n.                        *)
LEMMA FirstOf ==
  ASSUME NEW names \in SUBSET Nat, IsFiniteSet(names), NEW n \in Nat
  PROVE  /\ First(names, n) \in SUBSET names /\ IsFiniteSet(First(names, n))
         /\ Cardinality(First(names, n)) \in Nat
         /\ First(names, n) # names => Cardinality(First(names, n)) >= n
<1>1. First(names, n) \in SUBSET names  BY DEF First
<1>2. IsFiniteSet(First(names, n)) /\ Cardinality(First(names, n)) \in Nat
  BY <1>1, FS_Subset, FS_CardinalityType
<1>3. ASSUME First(names, n) # names PROVE Cardinality(First(names, n)) >= n
  <2> DEFINE left == names \ First(names, n)
  <2>1. left \in SUBSET Nat /\ left # {}  BY <1>1, <1>3
  <2> HIDE DEF left
  <2>2. PICK x \in left : \A y \in left : x <= y  BY <2>1, LeastElement
  <2> DEFINE below == {y \in names : y < x}
  <2>3. below \in SUBSET First(names, n)
    <3> SUFFICES ASSUME NEW y \in below, y \notin First(names, n) PROVE FALSE  OBVIOUS
    <3>1. y \in left /\ y \in Nat /\ y < x  BY DEF left
    <3> QED  BY <2>1, <2>2, <3>1
  <2>4. IsFiniteSet(below) /\ Cardinality(below) <= Cardinality(First(names, n))
    BY <1>2, <2>3, FS_Subset
  <2>5. Cardinality(below) \in Nat  BY <2>4, FS_CardinalityType
  <2>6. ~(Cardinality(below) < n)  BY <2>2 DEF left, First
  <2> QED  BY <1>2, <2>4, <2>5, <2>6
<1> QED  BY <1>1, <1>2, <1>3

(* The names that some sections of a file give are finitely many.          *)
LEMMA NamesFinite ==
  ASSUME NEW file, IsFile(file), NEW I \in SUBSET DOMAIN file.document
  PROVE  LET names == UNION {DOMAIN file.document[i].params : i \in I}
         IN  names \in SUBSET Nat /\ IsFiniteSet(names)
<1> DEFINE doc == file.document
           upto(n) == UNION {DOMAIN doc[i].params : i \in {j \in I : j <= n}}
           fails == {n \in 0..Len(doc) : ~IsFiniteSet(upto(n))}
<1>1. Len(doc) \in Nat /\ DOMAIN doc = 1..Len(doc)  BY DEF IsFile
<1>2. \A i \in DOMAIN doc : IsFiniteSet(DOMAIN doc[i].params) /\ DOMAIN doc[i].params \subseteq Nat
  BY DEF IsFile, IsParams
<1> HIDE DEF doc
<1>3. I \in SUBSET (1..Len(doc))  BY <1>1 DEF doc
<1>4. fails = {}
  <2> SUFFICES ASSUME fails # {} PROVE FALSE  OBVIOUS
  <2>1. fails \in SUBSET Nat  BY <1>1
  <2>2. PICK n \in fails : \A m \in fails : n <= m
    <3> HIDE DEF fails
    <3> QED  BY <2>1, LeastElement
  <2>3. n \in 0..Len(doc) /\ ~IsFiniteSet(upto(n))  OBVIOUS
  <2>4. CASE n = 0
    <3>1. {j \in I : j <= n} = {}  BY <1>1, <1>3, <2>4
    <3>2. upto(n) = {}  BY <3>1
    <3> QED  BY <2>3, <3>2, FS_EmptySet
  <2>5. CASE n # 0
    <3>1. n - 1 \in 0..Len(doc) /\ n - 1 < n /\ n \in DOMAIN doc  BY <1>1, <2>3, <2>5
    <3>2. IsFiniteSet(upto(n - 1))
      <4> SUFFICES ASSUME ~IsFiniteSet(upto(n - 1)) PROVE FALSE  OBVIOUS
      <4>1. n - 1 \in fails  BY <3>1
      <4> HIDE DEF fails
      <4>2. n <= n - 1  BY <2>2, <4>1
      <4> QED  BY <2>3, <4>2
    <3>3. {j \in I : j <= n} \subseteq {j \in I : j <= n - 1} \cup {n}
      BY <1>1, <1>3, <2>3
    <3>4. upto(n) \in SUBSET (upto(n - 1) \cup DOMAIN doc[n].params)
      <4> SUFFICES ASSUME NEW x \in upto(n)
                   PROVE  x \in upto(n - 1) \cup DOMAIN doc[n].params
        OBVIOUS
      <4>1. PICK i \in {j \in I : j <= n} : x \in DOMAIN doc[i].params  OBVIOUS
      <4>2. i \in {j \in I : j <= n - 1} \/ i = n  BY <3>3, <4>1
      <4> QED  BY <4>1, <4>2
    <3>5. IsFiniteSet(DOMAIN doc[n].params)  BY <1>2, <3>1
    <3> HIDE DEF upto
    <3>6. IsFiniteSet(upto(n - 1) \cup DOMAIN doc[n].params)  BY <3>2, <3>5, FS_Union
    <3> QED  BY <2>3, <3>4, <3>6, FS_Subset
  <2> QED  BY <2>4, <2>5
<1>5. {j \in I : j <= Len(doc)} = I  BY <1>1, <1>3
<1>6. Len(doc) \in 0..Len(doc)  BY <1>1
<1>7. IsFiniteSet(upto(Len(doc)))
  <2>1. Len(doc) \notin fails  BY <1>4
  <2> QED  BY <1>6, <2>1
<1>8. upto(Len(doc)) = UNION {DOMAIN doc[i].params : i \in I}  BY <1>5
<1>9. UNION {DOMAIN doc[i].params : i \in I} \in SUBSET Nat  BY <1>1, <1>2, <1>3
<1> QED  BY <1>7, <1>8, <1>9 DEF doc

(* A value that is not too long is not cut, and equal values are cut alike.*)
LEMMA CapIs == \A v \in Values : Cap(v) \in Nat
BY ParamAssumption DEF Cap

LEMMA CutIs == \A v \in Values : ~TooLong(v) => CutValue(v) = v
<1> SUFFICES ASSUME NEW v \in Values, ~TooLong(v) PROVE CutValue(v) = v  OBVIOUS
<1> DEFINE all == SubSeq(v.items, 1, Len(v.items))
<1>1. v = [kind |-> v.kind, items |-> v.items] /\ v.items \in Seq([n : Int, kind : STRING])
  BY DEF Values
<1>2. all = v.items
  <2>1. /\ all \in Seq([n : Int, kind : STRING]) /\ Len(all) = Len(v.items)
        /\ \A k \in 1..Len(v.items) : all[k] = v.items[k]
    <3>1. ASSUME NEW E, NEW s \in Seq(E)
          PROVE  LET t == SubSeq(s, 1, Len(s))
                 IN  t \in Seq(E) /\ Len(t) = Len(s) /\ \A k \in 1..Len(s) : t[k] = s[k]
      OBVIOUS
    <3> QED  BY <1>1, <3>1
  <2> HIDE DEF all
  <2> QED  BY <1>1, <2>1, SeqEqual
<1> QED  BY <1>1, <1>2 DEF CutValue

LEMMA CutAlike ==
  ASSUME NEW a \in Values, NEW b \in Values, ValuesEqual(a, b)
  PROVE  ValuesEqual(CutValue(a), CutValue(b))
<1>1. /\ a = [kind |-> a.kind, items |-> a.items] /\ a.items \in Seq([n : Int, kind : STRING])
      /\ b = [kind |-> b.kind, items |-> b.items] /\ b.items \in Seq([n : Int, kind : STRING])
  BY DEF Values
<1>2. SameKind(a, b) /\ Len(a.items) = Len(b.items) /\ Len(a.items) \in Nat
  BY <1>1 DEF ValuesEqual
<1>3. Cap(a) = Cap(b) /\ Cap(a) \in Nat  BY <1>2, CapIs DEF Cap, SameKind, Numeric
<1> DEFINE extent == IF TooLong(a) THEN Cap(a) ELSE Len(a.items)
           ca == SubSeq(a.items, 1, extent)
           cb == SubSeq(b.items, 1, extent)
<1>4. extent \in 0..Len(a.items)  BY <1>2, <1>3 DEF TooLong
<1>5. CutValue(a) = [a EXCEPT !.items = ca]  BY DEF CutValue
<1>6. CutValue(b) = [b EXCEPT !.items = cb]  BY <1>2, <1>3 DEF CutValue, TooLong
<1> HIDE DEF extent
<1>7. /\ Len(ca) = extent /\ DOMAIN ca = 1..extent /\ \A k \in 1..extent : ca[k] = a.items[k]
      /\ Len(cb) = extent /\ \A k \in 1..extent : cb[k] = b.items[k]
  BY <1>1, <1>2, <1>4
<1>8. \A k \in 1..extent : /\ a.items[k].n = b.items[k].n
                         /\ SameKind(a.items[k], b.items[k])
  <2>1. DOMAIN a.items = 1..Len(a.items)  BY <1>1
  <2>2. \A k \in 1..extent : k \in 1..Len(a.items)  BY <1>2, <1>4
  <2> QED  BY <2>1, <2>2 DEF ValuesEqual
<1> HIDE DEF ca, cb
<1>9. /\ CutValue(a).kind = a.kind /\ CutValue(a).items = ca
      /\ CutValue(b).kind = b.kind /\ CutValue(b).items = cb
  BY <1>1, <1>5, <1>6
<1>10. SameKind(CutValue(a), CutValue(b))  BY <1>2, <1>9 DEF SameKind
<1> QED  BY <1>7, <1>8, <1>9, <1>10 DEF ValuesEqual

(* The value a name is declared with is that of the section which names    *)
(* the node most closely, the last of those that do.                       *)
LEMMA RankIs == \A key, node : Rank(key, node) \in -1..3
BY DEF Rank, NoRank

NamesOf(document, node) == UNION {DOMAIN document[i].params : i \in Applies(document, node)}
ValueOf(document, node, name) ==
  CHOOSE v \in {document[i].params[name] : i \in {k \in Applies(document, node) :
                                                    name \in DOMAIN document[k].params}} :
    Effective(document, node, name, v)

LEMMA ClosestHolds ==
  ASSUME NEW file, IsFile(file), NEW node, NEW name \in NamesOf(file.document, node)
  PROVE  LET doc == file.document
             has == {i \in Applies(doc, node) : name \in DOMAIN doc[i].params}
         IN  \E b \in has : \A j \in has :
               \/ Rank(doc[j].key, node) < Rank(doc[b].key, node)
               \/ Rank(doc[j].key, node) = Rank(doc[b].key, node) /\ j <= b
<1> DEFINE doc == file.document
           r(i) == Rank(doc[i].key, node)
           has == {i \in Applies(doc, node) : name \in DOMAIN doc[i].params}
<1>1. Len(doc) \in Nat /\ DOMAIN doc = 1..Len(doc)  BY DEF IsFile
<1>2. has \in SUBSET (1..Len(doc)) /\ has # {}  BY <1>1 DEF Applies, NamesOf
<1>3. \A i \in has : r(i) \in -1..3  BY RankIs
<1> HIDE DEF doc, r, has
<1> DEFINE below == {3 - r(i) : i \in has}
<1>4. PICK top \in has : \A i \in has : r(i) <= r(top)
  <2>1. below \in SUBSET Nat /\ below # {}
    <3>1. \A i \in has : 3 - r(i) \in Nat  BY <1>3
    <3> QED  BY <1>2, <3>1
  <2>2. PICK x \in below : \A y \in below : x <= y
    <3> HIDE DEF below
    <3> QED  BY <2>1, LeastElement
  <2>3. PICK t \in has : x = 3 - r(t)  OBVIOUS
  <2>4. ASSUME NEW i \in has PROVE r(i) <= r(t)
    <3>1. 3 - r(t) <= 3 - r(i)  BY <2>2, <2>3
    <3> QED  BY <1>3, <3>1
  <2> QED  BY <2>4
<1> DEFINE after == {Len(doc) - i : i \in {k \in has : r(k) = r(top)}}
<1>5. PICK b \in has : r(b) = r(top) /\ \A i \in has : r(i) = r(top) => i <= b
  <2>1. after \in SUBSET Nat /\ after # {}  BY <1>1, <1>2
  <2>2. PICK x \in after : \A y \in after : x <= y
    <3> HIDE DEF after
    <3> QED  BY <2>1, LeastElement
  <2>3. PICK b \in {k \in has : r(k) = r(top)} : x = Len(doc) - b  OBVIOUS
  <2>4. ASSUME NEW i \in has, r(i) = r(top) PROVE i <= b
    <3>1. Len(doc) - b <= Len(doc) - i  BY <2>2, <2>3, <2>4
    <3> QED  BY <1>1, <1>2, <2>3, <3>1
  <2> QED  BY <2>3, <2>4
<1>6. \A j \in has : r(j) < r(b) \/ (r(j) = r(b) /\ j <= b)
  BY <1>3, <1>4, <1>5
<1> QED  BY <1>6 DEF has, r, doc

LEMMA ClosestGives ==
  ASSUME NEW file, IsFile(file), NEW node, NEW name \in NamesOf(file.document, node)
  PROVE  /\ Declared(file.document, node)[name] = ValueOf(file.document, node, name)
         /\ ValueOf(file.document, node, name) \in Values
<1> DEFINE doc == file.document
           r(i) == Rank(doc[i].key, node)
           has == {i \in Applies(doc, node) : name \in DOMAIN doc[i].params}
           Holds(i) == /\ name \in DOMAIN doc[i].params
                       /\ \A j \in Applies(doc, node) \ {i} :
                            name \in DOMAIN doc[j].params => Before(doc, node, j, i)
           Best(i) == \A j \in has : r(j) < r(i) \/ (r(j) = r(i) /\ j <= i)
<1>1. PICK b \in has : Best(b)
  <2> HIDE DEF doc
  <2> QED  BY ClosestHolds DEF doc
<1>2. has \in SUBSET Int /\ \A i \in has : r(i) \in Int
  <2>1. DOMAIN doc \in SUBSET Int  BY DEF IsFile
  <2> QED  BY <2>1, RankIs DEF Applies
<1>3. \A i, j : Before(doc, node, j, i) <=> r(j) < r(i) \/ (r(j) = r(i) /\ j < i)
  BY DEF Before
<1>4. \A i \in Applies(doc, node) :
        Holds(i) <=> i \in has /\ \A j \in has \ {i} : Before(doc, node, j, i)
  OBVIOUS
<1>5. \A v :
        (Effective(doc, node, name, v) <=>
           \E k \in has : doc[k].params[name] = v /\ Best(k))
  BY DEF Effective
<1>6. Applies(doc, node) \subseteq DOMAIN doc /\ has \subseteq Applies(doc, node)
  BY DEF Applies
<1>7. ASSUME NEW i \in has, Best(i) PROVE i = b
  <2>1. r(b) < r(i) \/ (r(b) = r(i) /\ b <= i)  BY <1>7
  <2>2. r(i) < r(b) \/ (r(i) = r(b) /\ i <= b)  BY <1>1, <1>7
  <2> HIDE DEF r, has
  <2>3. r(i) \in Int /\ r(b) \in Int /\ i \in Int /\ b \in Int  BY <1>2, <1>1, <1>7
  <2> QED  BY <2>1, <2>2, <2>3
<1> HIDE DEF r, has, Holds, Best, doc
<1>8. ASSUME NEW i \in Applies(doc, node) PROVE Holds(i) <=> i = b
  <2>1. ASSUME i = b PROVE Holds(i)
    <3>1. \A j \in has \ {b} : Before(doc, node, j, b)  BY <1>1, <1>2, <1>3 DEF Best
    <3> QED  BY <1>1, <1>4, <2>1, <3>1
  <2>2. ASSUME Holds(i) PROVE i = b
    <3>1. i \in has /\ \A j \in has \ {i} : r(j) < r(i) \/ (r(j) = r(i) /\ j < i)
      BY <1>3, <1>4, <2>2
    <3>2. Best(i)  BY <1>2, <3>1 DEF Best
    <3> QED  BY <1>7, <3>1, <3>2
  <2> QED  BY <2>1, <2>2
<1>9. (CHOOSE i \in Applies(doc, node) : Holds(i)) = b  BY <1>1, <1>6, <1>8
<1>10. Declared(doc, node)[name] = doc[CHOOSE i \in Applies(doc, node) : Holds(i)].params[name]
  BY DEF Declared, NamesOf, Holds, doc
<1>11. \A v : Effective(doc, node, name, v) <=> v = doc[b].params[name]
  BY <1>1, <1>5, <1>6, <1>7
<1>12. ValueOf(doc, node, name) = doc[b].params[name]
  <2>1. doc[b].params[name] \in {doc[i].params[name] : i \in has}  BY <1>1
  <2>2. ValueOf(doc, node, name) =
          CHOOSE v \in {doc[i].params[name] : i \in has} : Effective(doc, node, name, v)
    BY DEF ValueOf, has
  <2> QED  BY <1>11, <2>1, <2>2
<1>13. doc[b].params[name] \in Values
  <2>1. name \in DOMAIN doc[b].params  BY <1>1 DEF has
  <2>2. IsParams(doc[b].params)  BY <1>1, <1>6 DEF IsFile, doc
  <2> QED  BY <2>1, <2>2 DEF IsParams
<1> QED  BY <1>9, <1>10, <1>12, <1>13 DEF doc

(* The values of a node that were read: the first of them, each as it is   *)
(* up to the cut, none of a secret.                                        *)
LEMMA ReadGives ==
  ASSUME NEW real, IsParams(real)
  PROVE  LET live == BuildParameters(real)
         IN  /\ DOMAIN live = First(DOMAIN real, P.parameters)
             /\ DOMAIN live \subseteq DOMAIN real
             /\ \A name \in DOMAIN live :
                  /\ real[name] \in Values
                  /\ name \in SecretNames => live[name].value = Masked
                  /\ name \notin SecretNames =>
                       /\ ~live[name].masked /\ live[name].truncated = TooLong(real[name])
                       /\ live[name].value = CutValue(real[name])
             /\ DOMAIN live # DOMAIN real => Cardinality(DOMAIN live) >= P.parameters
             /\ Cardinality(DOMAIN live) \in Nat
<1>1. DOMAIN BuildParameters(real) = First(DOMAIN real, P.parameters)  BY DEF BuildParameters
<1>2. /\ DOMAIN real \in SUBSET Nat /\ IsFiniteSet(DOMAIN real) /\ P.parameters \in Nat
      /\ \A name \in DOMAIN real : real[name] \in Values
  BY ParamAssumption DEF IsParams
<1>3. /\ First(DOMAIN real, P.parameters) \in SUBSET DOMAIN real
      /\ Cardinality(First(DOMAIN real, P.parameters)) \in Nat
      /\ First(DOMAIN real, P.parameters) # DOMAIN real =>
           Cardinality(First(DOMAIN real, P.parameters)) >= P.parameters
  BY <1>2, FirstOf
<1>4. \A name \in First(DOMAIN real, P.parameters) :
        BuildParameters(real)[name] =
          IF name \in SecretNames
            THEN [value |-> Masked, masked |-> TRUE, truncated |-> FALSE]
            ELSE [value |-> CutValue(real[name]), masked |-> FALSE,
                  truncated |-> TooLong(real[name])]
  BY DEF BuildParameters
<1> QED  BY <1>1, <1>2, <1>3, <1>4

(* The verdict on one name.                                                *)
LEMMA VerdictOf ==
  ASSUME NEW real, IsParams(real), NEW name, NEW declared \in Values
  PROVE  LET live == BuildParameters(real)
             e == CompareOne(name, declared, live)
         IN  /\ e.status = "same" => name \in DOMAIN real /\ Agree(declared, real[name])
             /\ e.status = "different" => ~ValuesEqual(declared, real[name])
             /\ e.status = "declared_only" => name \notin DOMAIN live
             /\ name \in SecretNames => e.declared = Masked /\ e.live \in {Masked, NotThere}
<1> DEFINE live == BuildParameters(real)
           e == CompareOne(name, declared, live)
<1>1. /\ DOMAIN live \subseteq DOMAIN real
      /\ name \in DOMAIN live =>
           /\ real[name] \in Values
           /\ name \notin SecretNames =>
                /\ ~live[name].masked /\ live[name].truncated = TooLong(real[name])
                /\ live[name].value = CutValue(real[name])
  BY ReadGives
<1> SUFFICES /\ e.status = "same" => name \in DOMAIN real /\ Agree(declared, real[name])
             /\ e.status = "different" => ~ValuesEqual(declared, real[name])
             /\ e.status = "declared_only" => name \notin DOMAIN live
             /\ name \in SecretNames => e.declared = Masked /\ e.live \in {Masked, NotThere}
  OBVIOUS
<1> HIDE DEF live
<1>2. CASE name \in SecretNames  BY <1>2 DEF CompareOne, DiffEntry
<1>3. CASE name \notin SecretNames /\ name \notin DOMAIN live
  BY <1>3 DEF CompareOne, DiffEntry
<1>4. CASE name \notin SecretNames /\ name \in DOMAIN live
  <2> DEFINE expected == IF TooLong(real[name]) THEN CutValue(declared) ELSE declared
             equal == ValuesEqual(expected, CutValue(real[name]))
  <2>1. e = DiffEntry(IF equal THEN "same" ELSE "different", CutValue(declared),
                      CutValue(real[name]))
    BY <1>1, <1>4 DEF CompareOne
  <2> HIDE DEF e, equal
  <2>2. e.status = IF equal THEN "same" ELSE "different"  BY <2>1 DEF DiffEntry
  <2>3. CASE TooLong(real[name])
    <3>1. equal <=> ValuesEqual(CutValue(declared), CutValue(real[name]))
      BY <2>3 DEF equal
    <3>2. ValuesEqual(declared, real[name]) => equal  BY <1>1, <1>4, <3>1, CutAlike
    <3> QED  BY <1>1, <1>4, <2>2, <2>3, <3>1, <3>2 DEF Agree
  <2>4. CASE ~TooLong(real[name])
    <3>1. CutValue(real[name]) = real[name]  BY <1>1, <1>4, <2>4, CutIs
    <3>2. equal <=> ValuesEqual(declared, real[name])  BY <2>4, <3>1 DEF equal
    <3> QED  BY <1>1, <1>4, <2>2, <3>2 DEF Agree
  <2> QED  BY <2>3, <2>4
<1> QED  BY <1>2, <1>3, <1>4

LEMMA NodeInfoAgrees ==
  ASSUME NEW node, IsNode(node), NEW file, IsFile(file)
  PROVE  VerdictsAgree(node, file, GetNodeInfo(node, file))
<1> DEFINE told == GetNodeInfo(node, file)
           doc == file.document
           real == node.real
           live == BuildParameters(real)
           declared == Declared(doc, node.name)
           named == NamesOf(doc, node.name)
           all == [name \in DOMAIN declared |-> CompareOne(name, declared[name], live)]
           differ == {name \in DOMAIN declared : all[name].status # "same"}
           shown == First(differ, P.entries)
<1> SUFFICES ASSUME told.made PROVE VerdictsAgree(node, file, told)  BY DEF VerdictsAgree
<1>1. /\ told.read = [status |-> "read", live |-> live]
      /\ told.diff = CompareParameters(declared, live)
      /\ told.diff.omitted > 0 => "more not listed" \in told.notes
      /\ Cardinality(DOMAIN live) >= P.parameters => "declared_only may lie" \in told.notes
  <2> DEFINE read == ReadParameters(node)
  <2>1. /\ read.status = "read" /\ told.read = read
        /\ told.diff = CompareParameters(declared, read.live)
        /\ told.diff.omitted > 0 => "more not listed" \in told.notes
        /\ Cardinality(DOMAIN read.live) >= P.parameters => "declared_only may lie" \in told.notes
    BY DEF GetNodeInfo, ParamAnswer
  <2>2. read.status = "read" => read = [status |-> "read", live |-> live]
    BY DEF ReadParameters
  <2> HIDE DEF read, told, declared
  <2>3. read = [status |-> "read", live |-> live]  BY <2>1, <2>2
  <2>4. read.live = live  BY <2>3
  <2> HIDE DEF live
  <2> QED  BY <2>1, <2>3, <2>4
<1>2. IsParams(real)  BY DEF IsNode
<1>3. DOMAIN declared = named  BY DEF Declared, NamesOf
<1>4. named \in SUBSET Nat /\ IsFiniteSet(named)
  <2>1. Applies(doc, node.name) \in SUBSET DOMAIN doc  BY DEF Applies
  <2> QED  BY <2>1, NamesFinite DEF NamesOf
<1>5. \A name \in named : /\ declared[name] = ValueOf(doc, node.name, name)
                          /\ declared[name] \in Values
  BY ClosestGives
<1>6. /\ told.diff.entries = [name \in shown |-> all[name]]
      /\ told.diff.same = DOMAIN declared \ differ
      /\ told.diff.omitted = Cardinality(differ) - Cardinality(shown)
  <2>1. CompareParameters(declared, live) =
          [entries |-> [name \in shown |-> all[name]],
           same |-> DOMAIN declared \ differ,
           liveOnly |-> DOMAIN live \ DOMAIN declared,
           omitted |-> Cardinality(differ) - Cardinality(shown)]
    BY DEF CompareParameters
  <2> HIDE DEF told, declared, live, shown, differ, all
  <2>2. told.diff = CompareParameters(declared, live)  BY <1>1, Zenon
  <2> QED  BY <2>1, <2>2
<1> HIDE DEF told, doc, real, live, declared, named
<1>7. differ \in SUBSET named  BY <1>3
<1>8. IsFiniteSet(differ) /\ differ \in SUBSET Nat  BY <1>4, <1>7, FS_Subset
<1>9. \A name \in differ : all[name] = CompareOne(name, declared[name], live)  OBVIOUS
<1>10. \A name \in named \ differ : CompareOne(name, declared[name], live).status = "same"
  BY <1>3
<1> HIDE DEF all, differ
<1>11. shown \in SUBSET differ /\ Cardinality(shown) \in Nat
  <2>1. P.entries \in Nat  BY ParamAssumption
  <2> QED  BY <1>8, <2>1, FirstOf
<1> HIDE DEF shown
<1>12. DOMAIN told.diff.entries = shown /\ told.diff.same = named \ differ
  BY <1>3, <1>6
<1>13. Cardinality(named) = Cardinality(shown) + Cardinality(named \ differ) + told.diff.omitted
  <2>1. Cardinality(named \ differ) = Cardinality(named) - Cardinality(named \cap differ)
    BY <1>4, FS_Difference
  <2>2. named \cap differ = differ  BY <1>7
  <2>3. Cardinality(named) \in Nat /\ Cardinality(differ) \in Nat
    BY <1>4, <1>8, FS_CardinalityType
  <2>4. told.diff.omitted = Cardinality(differ) - Cardinality(shown)  BY <1>6
  <2>5. Cardinality(named \ differ) = Cardinality(named) - Cardinality(differ)  BY <2>1, <2>2
  <2>6. Cardinality(shown) \in Nat  BY <1>11
  <2>7. \A a, b, c \in Nat : a = c + (a - b) + (b - c)  OBVIOUS
  <2> QED  BY <2>3, <2>4, <2>5, <2>6, <2>7
<1>14. \A name \in told.diff.same :
         name \in DOMAIN real /\ Agree(ValueOf(doc, node.name, name), real[name])
  <2> SUFFICES ASSUME NEW name \in named \ differ
               PROVE  name \in DOMAIN real /\ Agree(ValueOf(doc, node.name, name), real[name])
    BY <1>12
  <2>1. CompareOne(name, declared[name], live).status = "same"  BY <1>10
  <2> QED  BY <1>2, <1>5, <2>1, VerdictOf DEF live
<1>15. ASSUME NEW name \in shown
       PROVE  LET e == told.diff.entries[name]
              IN  /\ e.status = "different" =>
                       ~ValuesEqual(ValueOf(doc, node.name, name), real[name])
                  /\ e.status = "declared_only" =>
                       \/ name \notin DOMAIN real
                       \/ "declared_only may lie" \in told.notes
                  /\ name \in SecretNames => e.declared = Masked /\ e.live \in {Masked, NotThere}
  <2> DEFINE e == CompareOne(name, declared[name], live)
  <2>1. told.diff.entries[name] = e  BY <1>6, <1>9, <1>11
  <2>2. name \in named /\ declared[name] \in Values  BY <1>5, <1>7, <1>11
  <2>3. /\ e.status = "different" => ~ValuesEqual(declared[name], real[name])
        /\ e.status = "declared_only" => name \notin DOMAIN live
        /\ name \in SecretNames => e.declared = Masked /\ e.live \in {Masked, NotThere}
    BY <1>2, <2>2, VerdictOf DEF live
  <2>4. name \notin DOMAIN live =>
          name \notin DOMAIN real \/ "declared_only may lie" \in told.notes
    <3>1. DOMAIN live # DOMAIN real => Cardinality(DOMAIN live) >= P.parameters
      BY <1>2, ReadGives DEF live
    <3> QED  BY <1>1, <3>1
  <2> HIDE DEF e
  <2> QED  BY <1>5, <2>1, <2>2, <2>3, <2>4
<1>16. \A name \in DOMAIN told.read.live \cap SecretNames :
         told.read.live[name].value = Masked
  <2>1. \A name \in DOMAIN live \cap SecretNames : live[name].value = Masked
    BY <1>2, ReadGives DEF live
  <2>2. told.read = [status |-> "read", live |-> live]  BY <1>1, Zenon
  <2>3. told.read.live = live  BY <2>2
  <2> QED  BY <2>1, <2>3
<1> QED
  <2>1. VerdictsAgree(node, file, told) <=> (told.made =>
          /\ DOMAIN told.diff.entries \cap told.diff.same = {}
          /\ DOMAIN told.diff.entries \cup told.diff.same \subseteq named
          /\ Cardinality(named) =
               Cardinality(DOMAIN told.diff.entries) + Cardinality(told.diff.same)
                 + told.diff.omitted
          /\ told.diff.omitted > 0 => "more not listed" \in told.notes
          /\ \A name \in told.diff.same :
               name \in DOMAIN real /\ Agree(ValueOf(doc, node.name, name), real[name])
          /\ \A name \in DOMAIN told.diff.entries :
               LET e == told.diff.entries[name]
               IN  /\ e.status = "different" =>
                        ~ValuesEqual(ValueOf(doc, node.name, name), real[name])
                   /\ e.status = "declared_only" =>
                        \/ name \notin DOMAIN real
                        \/ "declared_only may lie" \in told.notes
                   /\ name \in SecretNames =>
                        e.declared = Masked /\ e.live \in {Masked, NotThere}
          /\ \A name \in DOMAIN told.read.live \cap SecretNames :
               told.read.live[name].value = Masked)
    BY DEF VerdictsAgree, NamesOf, ValueOf, named, doc, real
  <2>2. DOMAIN told.diff.entries \cap told.diff.same = {}  BY <1>11, <1>12
  <2>3. DOMAIN told.diff.entries \cup told.diff.same \subseteq named  BY <1>7, <1>11, <1>12
  <2>4. told.diff.omitted > 0 => "more not listed" \in told.notes  BY <1>1
  <2>5. Cardinality(named) =
          Cardinality(DOMAIN told.diff.entries) + Cardinality(told.diff.same) + told.diff.omitted
    BY <1>12, <1>13
  <2> QED  BY <1>12, <1>14, <1>15, <1>16, <2>1, <2>2, <2>3, <2>4, <2>5

(* What get_node_info tells of a parameter file is true of the node,       *)
(* whatever the two hold and whatever the caps: adapters/common/nodes.py   *)
(* and param_diff.py, services/params_file.py.                             *)
VerdictsTold ==
  about = "get_node_info" =>
    /\ IsNode(question.node) /\ IsFile(question.file)
    /\ given # NotGiven => given.is = GetNodeInfo(question.node, question.file)

THEOREM ParamVerdictsHold == ToolsSpec => []ParamVerdictsAreTrue
<1>1. ToolsInit => VerdictsTold  BY DEF ToolsInit, VerdictsTold
<1>2. VerdictsTold /\ [ToolsNext]_allvars => VerdictsTold'
  <2> SUFFICES ASSUME VerdictsTold, [ToolsNext]_allvars, about' = "get_node_info"
               PROVE  VerdictsTold'
    BY DEF VerdictsTold
  <2>1. CASE UNCHANGED toolvars  BY <2>1 DEF VerdictsTold, toolvars
  <2>2. CASE AnswerNodeInfo  BY <2>2 DEF VerdictsTold, AnswerNodeInfo, Gives, Asked
  <2>3. ~(\/ AnswerListing \/ AnswerSamples \/ AnswerSearch \/ AnswerHints \/ AnswerPeek
          \/ AnswerRate \/ AnswerScan \/ AnswerTopics \/ AnswerTopicInfo \/ AnswerNodes)
    BY DEF AnswerListing, AnswerSamples, AnswerSearch, AnswerHints, AnswerPeek, AnswerRate,
           AnswerScan, AnswerTopics, AnswerTopicInfo, AnswerNodes, Gives, Asked
  <2>4. UNCHANGED toolvars \/ AnswerNodeInfo
    BY <2>3 DEF ToolsNext, allvars, toolvars
  <2> QED  BY <2>1, <2>2, <2>4
<1>3. VerdictsTold => ParamVerdictsAreTrue
  BY NodeInfoAgrees DEF VerdictsTold, ParamVerdictsAreTrue, Says
<1> QED  BY <1>1, <1>2, <1>3, PTL DEF ToolsSpec

=============================================================================
