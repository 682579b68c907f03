------------------------------ MODULE RosCommand ------------------------------
(***************************************************************************)
(* One command of the ros2 adapter, run to completion or streamed: what    *)
(* both promise about the processes they start and the time they take.     *)
(***************************************************************************)
EXTENDS ProcessRun, EchoStream

VARIABLE mode   \* which of the two functions was called

vars == <<tree, runVars, echoVars, mode>>

Init == TreeInit /\ RunInit /\ EchoInit /\ mode \in {"run", "echo"}

Next ==
  \/ mode = "run" /\ RunNext /\ UNCHANGED <<echoVars, mode>>
  \/ mode = "echo" /\ EchoNext /\ UNCHANGED <<runVars, mode>>

Spec == Init /\ [][Next]_vars

(* The caller's waits end and the reader threads are scheduled; a process  *)
(* may hang, or print, for ever.                                           *)
FairSpec ==
  /\ Spec
  /\ \A s \in Pipes : WF_vars(mode = "run" /\ RunReader(s) /\ UNCHANGED <<echoVars, mode>>)
  /\ WF_vars(mode = "echo" /\ EchoReader /\ UNCHANGED <<runVars, mode>>)

-----------------------------------------------------------------------------
TypeOK == TreeTypeOK /\ RunTypeOK /\ EchoTypeOK

(* A hard deadline: whatever the processes do, fork, hang, ignore SIGINT   *)
(* or keep a pipe open from outside the group, a call returns within its   *)
(* deadline, what a stream gives a silent process to exit, the grace and   *)
(* the two joins.                                                          *)
AnswersInTime ==
  elapsed <= Grace + 2 * JoinAfter + (IF mode = "run" THEN Deadline ELSE Budget + ExitWait)

(* A call that timed out, and every stream, leaves no process of the       *)
(* launcher's group behind: not the orphans of a launcher that is gone,    *)
(* not a child forked during the grace.                                    *)
NothingSurvives == (pc = "done" /\ (mode = "run" => timedOut)) => grouped = {}

(* A run is killed at its deadline and never before: a daemon the launcher *)
(* started survives a clean exit, in the group or out of it.               *)
CleanExitSpares == (mode = "run" /\ signalled # {}) => timedOut /\ elapsed >= Deadline

(* A run that did not time out answers the whole output of its processes,  *)
(* up to the cap, and says so when there was more.                         *)
WholeAnswer ==
  (mode = "run" /\ pc = "done" /\ ~timedOut) =>
    /\ answer.out = Least(MaxOutput, written["out"])
    /\ answer.err = Least(MaxOutput, written["err"])
    /\ answer.truncated <=> \E s \in Pipes : written[s] > MaxOutput

(* No process is blocked for ever on a full pipe, however much it prints:  *)
(* the readers drain what is beyond the caps, after the call too.          *)
NeverBlocked ==
  /\ \A s \in Pipes : piped[s] = PipeSize ~> piped[s] < PipeSize
  /\ Len(printed) - pumped = PipeLines ~> Len(printed) - pumped < PipeLines

=============================================================================
