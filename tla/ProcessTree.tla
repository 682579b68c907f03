------------------------------ MODULE ProcessTree ------------------------------
(***************************************************************************)
(* A launcher the ros2 adapter started in a group of its own, the          *)
(* processes it leads, the write ends of its two pipes, and the end every  *)
(* command has in common: kill_process_tree (POSIX), then a bounded join   *)
(* of the two threads that read the pipes.                                 *)
(*                                                                         *)
(* The processes are external.  They fork, leave the group (a daemon),     *)
(* close a pipe and exit as they like; one that gets SIGINT exits when it  *)
(* likes or never, one that gets SIGKILL is gone.  A child that exited is  *)
(* reaped by its parent at once; the launcher is reaped by the caller, and *)
(* until then its group exists.  The group's id is not reused before the   *)
(* caller is done, and the caller may signal its members.                  *)
(*                                                                         *)
(* elapsed is time.monotonic() since the start.  The caller's steps take   *)
(* no time, its timed waits end at their deadline at the latest.           *)
(***************************************************************************)
EXTENDS Naturals, FiniteSets

CONSTANTS Launcher, Children,
          Grace,      \* GRACE_SEC, in ticks
          JoinAfter   \* _JOIN_AFTER_KILL_SEC and _JOIN_TIMEOUT_SEC, in ticks

ASSUME ProcessAssumption == IsFiniteSet(Children) /\ Launcher \notin Children

ASSUME StopAssumption == {Grace, JoinAfter} \subseteq Nat

Procs == Children \cup {Launcher}
Pipes == {"out", "err"}

VARIABLES up,        \* the processes that run
          spent,     \* the children that were ever started
          grouped,   \* the members of the launcher's group
          holds,     \* pipe -> the processes that have its write end
          reaped,    \* proc.returncode is not None
          reading,   \* the pipes whose reader thread is alive
          pc,        \* where the caller stands
          until,     \* end of the timed wait the caller is in
          elapsed,
          signalled  \* history: the processes that got a signal

processes == <<up, spent, grouped, holds>>
control   == <<pc, until>>
tree      == <<processes, reaped, reading, control, elapsed, signalled>>

TreeInit ==
  /\ up = {} /\ spent = {} /\ grouped = {}
  /\ holds = [s \in Pipes |-> {}]
  /\ reaped = FALSE
  /\ reading = {}
  /\ pc = "start" /\ until = 0
  /\ elapsed = 0
  /\ signalled = {}

-----------------------------------------------------------------------------
(* The processes.                                                          *)
Forks(p, q) ==
  /\ p \in up /\ q \in Children \ spent
  /\ up' = up \cup {q}
  /\ spent' = spent \cup {q}
  /\ grouped' = IF p \in grouped THEN grouped \cup {q} ELSE grouped
  /\ holds' = [s \in Pipes |-> IF p \in holds[s] THEN holds[s] \cup {q} ELSE holds[s]]

(* setsid; the leader of a group cannot leave it.                          *)
Detaches(q) ==
  /\ q \in grouped \ {Launcher}
  /\ grouped' = grouped \ {q}
  /\ UNCHANGED <<up, spent, holds>>

Closes(p, s) ==
  /\ p \in holds[s]
  /\ holds' = [holds EXCEPT ![s] = @ \ {p}]
  /\ UNCHANGED <<up, spent, grouped>>

Vanish(S) ==
  /\ up' = up \ S
  /\ grouped' = grouped \ S
  /\ holds' = [s \in Pipes |-> holds[s] \ S]
  /\ spent' = spent

Exits(p) == p \in up /\ Vanish({p})

Behave ==
  /\ \E p \in Procs : \/ \E q \in Children : Forks(p, q)
                      \/ Detaches(p)
                      \/ \E s \in Pipes : Closes(p, s)
                      \/ Exits(p)
  /\ UNCHANGED <<reaped, reading, control, elapsed, signalled>>

(* A reader thread ends when no process holds the write end of its pipe.   *)
ThreadEnds(s) ==
  /\ s \in reading /\ holds[s] = {}
  /\ reading' = reading \ {s}
  /\ UNCHANGED <<processes, reaped, control, elapsed, signalled>>

-----------------------------------------------------------------------------
(* Popen with start_new_session, and the two threads.                      *)
StartFails ==
  /\ pc = "start"
  /\ pc' = "raised"
  /\ UNCHANGED <<processes, reaped, reading, until, elapsed, signalled>>

Started(next, deadline) ==
  /\ pc = "start"
  /\ up' = {Launcher} /\ grouped' = {Launcher} /\ spent' = {}
  /\ holds' = [s \in Pipes |-> {Launcher}]
  /\ reading' = Pipes
  /\ pc' = next /\ until' = deadline
  /\ UNCHANGED <<reaped, elapsed, signalled>>

Expired == elapsed >= until

Goes(next) == pc' = next /\ until' = until

(* proc.wait(timeout): a launcher that exited is reaped.                   *)
WaitLauncher(ifExited, ifNot) ==
  /\ \/ Launcher \notin up /\ reaped' = TRUE /\ Goes(ifExited)
     \/ Launcher \in up /\ Expired /\ UNCHANGED reaped /\ Goes(ifNot)
  /\ UNCHANGED <<processes, reading, elapsed, signalled>>

(* thread.join(timeout) returns when the thread ended or time is up.       *)
Joined_forEver(s) == s \notin reading

Joined(s) == s \notin reading \/ Expired

-----------------------------------------------------------------------------
(* kill_process_tree: _stop_posix_group, then proc.kill and proc.wait.     *)
GroupAlive == grouped # {} \/ ~reaped

Interrupt ==
  /\ pc = "interrupt"
  /\ IF GroupAlive
     THEN signalled' = signalled \cup grouped /\ pc' = "grace" /\ until' = elapsed + Grace
     ELSE Goes("kill") /\ UNCHANGED signalled
  /\ UNCHANGED <<processes, reaped, reading, elapsed>>

(* proc.poll() reaps the launcher, so that its group can empty.            *)
Poll ==
  /\ pc = "grace" /\ ~Expired
  /\ Launcher \notin up
  /\ reaped' = TRUE
  /\ IF grouped = {} THEN Goes("kill") ELSE UNCHANGED control
  /\ UNCHANGED <<processes, reading, elapsed, signalled>>

KillGroup_leaderOnly ==
  /\ pc = "grace" /\ Expired
  /\ Goes("kill")
  /\ UNCHANGED <<processes, reaped, reading, elapsed, signalled>>

KillGroup ==
  /\ pc = "grace" /\ Expired
  /\ Vanish(grouped)
  /\ signalled' = signalled \cup grouped
  /\ Goes("kill")
  /\ UNCHANGED <<reaped, reading, elapsed>>

KillLauncher ==
  /\ pc = "kill"
  /\ Vanish({Launcher} \cap up)
  /\ signalled' = signalled \cup ({Launcher} \cap up)
  /\ reaped' = TRUE
  /\ pc' = "joinOut" /\ until' = elapsed + JoinAfter
  /\ UNCHANGED <<reading, elapsed>>

(* The joins of the finally, each with a time of its own; a thread that    *)
(* still reads after them is left behind.                                  *)
JoinOut ==
  /\ pc = "joinOut" /\ Joined("out")
  /\ pc' = "joinErr" /\ until' = elapsed + JoinAfter
  /\ UNCHANGED <<processes, reaped, reading, elapsed, signalled>>

JoinErr ==
  /\ pc = "joinErr" /\ Joined("err")
  /\ Goes("done")
  /\ UNCHANGED <<processes, reaped, reading, elapsed, signalled>>

Stop == Interrupt \/ Poll \/ KillGroup \/ KillLauncher \/ JoinOut

StopBlocked ==
  \/ pc = "grace" /\ ~Expired
  \/ pc = "joinOut" /\ ~Joined("out")
  \/ pc = "joinErr" /\ ~Joined("err")

TimePasses ==
  /\ elapsed' = elapsed + 1
  /\ UNCHANGED <<processes, reaped, reading, control, signalled>>

(* Only running processes hold pipes or are in the group.                  *)
TreeTypeOK ==
  /\ up \subseteq Procs /\ spent \subseteq Children /\ grouped \subseteq up
  /\ holds \in [Pipes -> SUBSET up]
  /\ reaped \in BOOLEAN
  /\ reading \subseteq Pipes
  /\ pc \in {"start", "raised", "wait", "waitOut", "waitErr", "collect", "exitWait",
             "interrupt", "grace", "kill", "joinOut", "joinErr", "done"}
  /\ elapsed \in Nat /\ until \in Nat
  /\ signalled \subseteq Procs

=============================================================================
