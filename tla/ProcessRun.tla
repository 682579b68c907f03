------------------------------ MODULE ProcessRun ------------------------------
(***************************************************************************)
(* run_process: run the launcher to completion under a deadline, each pipe *)
(* captured by a thread up to a cap.  The deadline covers the exit of the  *)
(* launcher and the closing of its pipes; a call that meets it leaves the  *)
(* processes alone, any other kills the tree.                              *)
(***************************************************************************)
EXTENDS ProcessTree

CONSTANTS Deadline,    \* deadline_s, in ticks
          MaxOutput,   \* max_output_bytes
          PipeSize,    \* what a pipe holds before its writer blocks
          MaxWrites    \* bound on what is written to a pipe

ASSUME RunAssumption ==
  /\ {Deadline, MaxOutput, MaxWrites} \subseteq Nat
  /\ PipeSize \in Nat \ {0}

VARIABLES written,    \* pipe -> bytes written so far
          piped,      \* pipe -> bytes in the pipe
          kept,       \* pipe -> _Capture._size
          truncated,  \* pipe -> _Capture.truncated
          timedOut,
          answer      \* the ProcessResult

runVars == <<written, piped, kept, truncated, timedOut, answer>>

RunInit ==
  /\ written = [s \in Pipes |-> 0]
  /\ piped = [s \in Pipes |-> 0]
  /\ kept = [s \in Pipes |-> 0]
  /\ truncated = [s \in Pipes |-> FALSE]
  /\ timedOut = FALSE
  /\ answer = [out |-> 0, err |-> 0, truncated |-> FALSE]

Writes(s) ==
  /\ holds[s] # {}
  /\ piped[s] < PipeSize /\ written[s] < MaxWrites
  /\ written' = [written EXCEPT ![s] = @ + 1]
  /\ piped' = [piped EXCEPT ![s] = @ + 1]
  /\ UNCHANGED <<tree, kept, truncated, timedOut, answer>>

(* _Capture._pump: read1 returns some of what is there; what is beyond the *)
(* cap is read and dropped.                                                *)
Least(m, n) == IF m < n THEN m ELSE n

Pumps_upToCap(s, n) ==
  /\ s \in reading /\ n <= piped[s] /\ kept[s] < MaxOutput
  /\ piped' = [piped EXCEPT ![s] = @ - n]
  /\ kept' = [kept EXCEPT ![s] = Least(MaxOutput, @ + n)]
  /\ truncated' = [truncated EXCEPT ![s] = @ \/ n > MaxOutput - kept[s]]
  /\ UNCHANGED <<tree, written, timedOut, answer>>

Pumps(s, n) ==
  /\ s \in reading /\ n <= piped[s]
  /\ piped' = [piped EXCEPT ![s] = @ - n]
  /\ kept' = [kept EXCEPT ![s] = Least(MaxOutput, @ + n)]
  /\ truncated' = [truncated EXCEPT ![s] = @ \/ n > MaxOutput - kept[s]]
  /\ UNCHANGED <<tree, written, timedOut, answer>>

PumpEnds(s) == piped[s] = 0 /\ ThreadEnds(s) /\ UNCHANGED runVars

-----------------------------------------------------------------------------
RunStart == Started("wait", Deadline) /\ UNCHANGED runVars

RunFails == StartFails /\ UNCHANGED runVars

RunWait ==
  /\ pc = "wait"
  /\ WaitLauncher("waitOut", "interrupt")
  /\ timedOut' = (pc' = "interrupt")
  /\ UNCHANGED <<written, piped, kept, truncated, answer>>

RunWaitOut ==
  /\ pc = "waitOut" /\ Joined("out")
  /\ Goes("waitErr")
  /\ UNCHANGED <<processes, reaped, reading, elapsed, signalled, runVars>>

(* timed_out is read off the threads after both joins.  A clean exit goes  *)
(* to the last joins without a kill.                                       *)
Decide_killAlways ==
  /\ timedOut' = (reading # {})
  /\ Goes("interrupt")

Decide_exitOnly ==
  /\ timedOut' = FALSE
  /\ pc' = "joinOut" /\ until' = elapsed

Decide ==
  IF reading # {} THEN timedOut' = TRUE /\ Goes("interrupt")
  ELSE timedOut' = FALSE /\ pc' = "joinOut" /\ until' = elapsed + JoinAfter

RunWaitErr ==
  /\ pc = "waitErr" /\ Joined("err")
  /\ Decide
  /\ UNCHANGED <<processes, reaped, reading, elapsed, signalled>>
  /\ UNCHANGED <<written, piped, kept, truncated, answer>>

RunReturns ==
  /\ JoinErr
  /\ answer' = [out |-> kept["out"], err |-> kept["err"],
                truncated |-> truncated["out"] \/ truncated["err"]]
  /\ UNCHANGED <<written, piped, kept, truncated, timedOut>>

RunStop == Stop /\ UNCHANGED runVars

Run == RunStart \/ RunFails \/ RunWait \/ RunWaitOut \/ RunWaitErr \/ RunStop \/ RunReturns

RunBlocked ==
  \/ pc = "wait" /\ Launcher \in up /\ ~Expired
  \/ pc = "waitOut" /\ ~Joined("out")
  \/ pc = "waitErr" /\ ~Joined("err")
  \/ StopBlocked

RunTick == RunBlocked /\ TimePasses /\ UNCHANGED runVars

RunReader(s) == PumpEnds(s) \/ \E n \in 1..PipeSize : Pumps(s, n)

RunNext ==
  \/ Behave /\ UNCHANGED runVars
  \/ \E s \in Pipes : Writes(s) \/ RunReader(s)
  \/ Run
  \/ RunTick

-----------------------------------------------------------------------------
RunTypeOK ==
  /\ written \in [Pipes -> 0..MaxWrites]
  /\ piped \in [Pipes -> 0..PipeSize]
  /\ kept \in [Pipes -> 0..MaxOutput]
  /\ truncated \in [Pipes -> BOOLEAN]
  /\ timedOut \in BOOLEAN
  /\ answer \in [out : 0..MaxOutput, err : 0..MaxOutput, truncated : BOOLEAN]

=============================================================================
