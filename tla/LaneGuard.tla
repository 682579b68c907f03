------------------------------ MODULE LaneGuard ------------------------------
(***************************************************************************)
(* tools/guard.py: the guard every tool call runs behind.  Calls overlap   *)
(* in worker threads; a call names a lane (a backend that takes one call   *)
(* at a time) or none, waits for the lane within its budget, and is        *)
(* refused when the budget or the queue leaves no room.                    *)
(*                                                                         *)
(* remaining[c] is end - time.monotonic() of call c, floored at zero, so   *)
(* time needs no bound.  The steps between two blocking calls take none:   *)
(* Tick waits for them, and a timed wait ends at its deadline at the       *)
(* latest.  What a handler does is left out: it runs as long as it likes.  *)
(***************************************************************************)
EXTENDS Naturals, FiniteSets

CONSTANTS Calls,        \* worker threads that may be inside a tool call
          Lanes,        \* the keys of _LANES
          NoLane,       \* lane=None: health_check and peek_bag_samples
          Nobody,
          MaxWaiters,   \* MAX_WAITERS
          ToolBudget,   \* TOOL_BUDGET_S, in ticks
          MinRun        \* MIN_RUN_S, in ticks

ASSUME CallsAssumption == IsFiniteSet(Calls) /\ Nobody \notin Calls

ASSUME LanesAssumption == NoLane \notin Lanes

ASSUME BudgetAssumption ==
  /\ MaxWaiters \in Nat
  /\ ToolBudget \in Nat
  /\ MinRun \in 0..ToolBudget

VARIABLES pc,          \* where each call stands
          lane,        \* the lane it named
          remaining,   \* its budget
          owner,       \* lane -> the call that holds its lock, or Nobody
          waiting      \* lane -> _waiting

guardVars == <<pc, lane, remaining, owner, waiting>>

GuardInit ==
  /\ pc = [c \in Calls |-> "idle"]
  /\ lane = [c \in Calls |-> NoLane]
  /\ remaining = [c \in Calls |-> 0]
  /\ owner = [l \in Lanes |-> Nobody]
  /\ waiting = [l \in Lanes |-> 0]

-----------------------------------------------------------------------------
(* _run_in_lane: a call with no lane runs at once...                       *)
StartFree(c) ==
  /\ pc[c] = "idle"
  /\ pc' = [pc EXCEPT ![c] = "running"]
  /\ UNCHANGED <<lane, remaining, owner, waiting>>

(* ... and any other fixes its end before it asks for the lane.            *)
Start(c, l) ==
  /\ pc[c] = "idle"
  /\ pc' = [pc EXCEPT ![c] = "trying"]
  /\ lane' = [lane EXCEPT ![c] = l]
  /\ remaining' = [remaining EXCEPT ![c] = ToolBudget]
  /\ UNCHANGED <<owner, waiting>>

(* _LaneState.acquire: first a try that does not block.                    *)
Try(c) ==
  LET l == lane[c] IN
  /\ pc[c] = "trying"
  /\ IF owner[l] = Nobody
     THEN /\ owner' = [owner EXCEPT ![l] = c]
          /\ pc' = [pc EXCEPT ![c] = "running"]
     ELSE /\ pc' = [pc EXCEPT ![c] = "contended"]
          /\ UNCHANGED owner
  /\ UNCHANGED <<lane, remaining, waiting>>

(* A call that ends, whatever its outcome, leaves its thread to the next.  *)
Ended(c) ==
  /\ pc' = [pc EXCEPT ![c] = "answered"]
  /\ lane' = [lane EXCEPT ![c] = NoLane]
  /\ remaining' = [remaining EXCEPT ![c] = 0]

(* Under _mutex: a full queue refuses, else the call is counted in.        *)
Refuse(c) ==
  /\ pc[c] = "contended"
  /\ waiting[lane[c]] >= MaxWaiters
  /\ Ended(c)
  /\ UNCHANGED <<owner, waiting>>

Queue_overfull(c) ==
  LET l == lane[c] IN
  /\ pc[c] = "contended"
  /\ waiting[l] <= MaxWaiters
  /\ waiting' = [waiting EXCEPT ![l] = @ + 1]
  /\ pc' = [pc EXCEPT ![c] = "waiting"]
  /\ UNCHANGED <<lane, remaining, owner>>

Queue(c) ==
  LET l == lane[c] IN
  /\ pc[c] = "contended"
  /\ waiting[l] < MaxWaiters
  /\ waiting' = [waiting EXCEPT ![l] = @ + 1]
  /\ pc' = [pc EXCEPT ![c] = "waiting"]
  /\ UNCHANGED <<lane, remaining, owner>>

(* The timed wait, end - MIN_RUN_S - time.monotonic(): the lock before the *)
(* deadline, or the deadline.                                              *)
MayWait_unlimited(c) == TRUE
MayWait_wholeBudget(c) == remaining[c] > 0
MayWait(c) == remaining[c] > MinRun

Acquire(c) ==
  LET l == lane[c] IN
  /\ pc[c] = "waiting"
  /\ MayWait(c)
  /\ owner[l] = Nobody
  /\ owner' = [owner EXCEPT ![l] = c]
  /\ pc' = [pc EXCEPT ![c] = "granted"]
  /\ UNCHANGED <<lane, remaining, waiting>>

TimeOut(c) ==
  /\ pc[c] = "waiting"
  /\ ~MayWait(c)
  /\ pc' = [pc EXCEPT ![c] = "expired"]
  /\ UNCHANGED <<lane, remaining, owner, waiting>>

(* acquire's finally: the call is counted out, with the lock or without.   *)
CountedOut(l) == [waiting EXCEPT ![l] = @ - 1]

Enter_counted(c) ==
  /\ pc[c] = "granted"
  /\ pc' = [pc EXCEPT ![c] = "running"]
  /\ UNCHANGED <<lane, remaining, owner, waiting>>

Enter(c) ==
  /\ pc[c] = "granted"
  /\ waiting' = CountedOut(lane[c])
  /\ pc' = [pc EXCEPT ![c] = "running"]
  /\ UNCHANGED <<lane, remaining, owner>>

GiveUp_releases(c) ==
  /\ pc[c] = "expired"
  /\ waiting' = CountedOut(lane[c])
  /\ owner' = [owner EXCEPT ![lane[c]] = Nobody]
  /\ Ended(c)

GiveUp(c) ==
  /\ pc[c] = "expired"
  /\ waiting' = CountedOut(lane[c])
  /\ Ended(c)
  /\ UNCHANGED owner

(* The handler returns or raises, and the lane's lock is released.         *)
Finish_leaks(c) ==
  /\ pc[c] = "running"
  /\ Ended(c)
  /\ UNCHANGED <<owner, waiting>>

Finish(c) ==
  /\ pc[c] = "running"
  /\ owner' = [l \in Lanes |-> IF l = lane[c] THEN Nobody ELSE owner[l]]
  /\ Ended(c)
  /\ UNCHANGED waiting

(* Time passes while every call is outside, blocked or inside its handler. *)
Tick ==
  /\ \A c \in Calls : \/ pc[c] \in {"idle", "answered", "running"}
                      \/ pc[c] = "waiting" /\ MayWait(c)
  /\ remaining' = [c \in Calls |-> IF remaining[c] > 0 THEN remaining[c] - 1 ELSE 0]
  /\ pc' = [c \in Calls |-> IF pc[c] = "answered" THEN "idle" ELSE pc[c]]
  /\ UNCHANGED <<lane, owner, waiting>>

(* The steps of acquire, taken by a thread that is scheduled.              *)
Step(c) ==
  \/ Try(c) \/ Refuse(c) \/ Queue(c)
  \/ Acquire(c) \/ TimeOut(c)
  \/ Enter(c) \/ GiveUp(c)

GuardNext ==
  \/ \E c \in Calls : StartFree(c) \/ Step(c) \/ Finish(c)
  \/ \E c \in Calls, l \in Lanes : Start(c, l)
  \/ Tick

GuardSpec == GuardInit /\ [][GuardNext]_guardVars

(* Threads are scheduled and time passes; a handler may hang for ever.     *)
FairGuardSpec == GuardSpec /\ WF_guardVars(Tick) /\ \A c \in Calls : WF_guardVars(Step(c))

-----------------------------------------------------------------------------
Queued(l) == {c \in Calls : lane[c] = l /\ pc[c] \in {"waiting", "granted", "expired"}}

Holds(c) == lane[c] \in Lanes /\ pc[c] \in {"granted", "running"}

(* The types: a call names a lane from its start to its end, unless it     *)
(* runs without one; a budget never exceeds TOOL_BUDGET_S.                 *)
TypeOK ==
  /\ pc \in [Calls -> {"idle", "trying", "contended", "waiting", "granted",
                       "expired", "running", "answered"}]
  /\ lane \in [Calls -> Lanes \cup {NoLane}]
  /\ remaining \in [Calls -> 0..ToolBudget]
  /\ owner \in [Lanes -> Calls \cup {Nobody}]
  /\ waiting \in [Lanes -> 0..MaxWaiters]
  /\ \A c \in Calls : /\ lane[c] = NoLane => pc[c] \in {"idle", "answered", "running"}
                      /\ pc[c] \in {"idle", "answered"} => lane[c] = NoLane

(* A lane's lock is never leaked: whoever owns it is a call of that lane   *)
(* that is granted or running, so a refused, timed-out or failed call has  *)
(* left it free for the next one.                                          *)
LockNotLeaked ==
  \A l \in Lanes : owner[l] # Nobody => lane[owner[l]] = l /\ Holds(owner[l])

(* "two calls of one lane cannot" run at the same time: whichever way the  *)
(* try, the queue, the timed wait and a release interleave, the calls past *)
(* the lock of one lane are at most one, and no other owns it.  A call     *)
(* that reported busy, or ended, and kept the lock would close the lane    *)
(* for good: each later call would wait its budget out (_run_in_lane).     *)
LaneExclusive ==
  /\ \A c, d \in Calls : Holds(c) /\ Holds(d) /\ lane[c] = lane[d] => c = d
  /\ LockNotLeaked

(* _waiting is the number of calls in the queue, on every path out of it;  *)
(* drift upwards would refuse calls for ever, drift downwards would let    *)
(* more than MAX_WAITERS of them hold worker threads.                      *)
QueueCounted == \A l \in Lanes : waiting[l] = Cardinality(Queued(l))

(* The worker threads a lane can block: its queue and its holder.  This is *)
(* what "keeps worker threads free for health_check".                      *)
WorkersBounded ==
  \A l \in Lanes :
    Cardinality({c \in Calls : lane[c] = l /\ pc[c] \in {"waiting", "granted", "expired", "running"}})
      <= MaxWaiters + 1

(* A call that gets its lane after a wait still has MIN_RUN_S to run in;   *)
(* the call is refused rather than started with less.                      *)
StartsInTime ==
  [][\A c \in Calls :
       lane'[c] \in Lanes /\ pc[c] # "running" /\ pc'[c] = "running"
         => remaining'[c] >= MinRun]_guardVars

(* No call waits for ever, even behind a handler that never returns: one   *)
(* that entered the guard starts to run or is refused.                     *)
NeverWaitsForEver ==
  \A c \in Calls : pc[c] = "trying" ~> pc[c] \in {"answered", "running"}

=============================================================================
