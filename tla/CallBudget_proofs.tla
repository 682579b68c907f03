------------------------- MODULE CallBudget_proofs -------------------------
(***************************************************************************)
(* What a tool call does with its budget: the guard that grants it         *)
(* (LaneGuard), and the sweep that spends it on one check after the other  *)
(* (Diagnose), each for every value of its constants.                      *)
(*                                                                         *)
(* The guard: Inv is inductive.  It says of each lock exactly which call   *)
(* owns it, of each counter exactly which calls it counts, and of each     *)
(* budget how much of it a call between the try and the handler has.       *)
(*                                                                         *)
(* The sweep: SweepInv is inductive.  It says of each check that ran that  *)
(* its findings are among the findings, of each finding what the robot     *)
(* does to earn it, and of the loop over the nodes what it owes the node   *)
(* the caller named.  The cap is a fact of the order sorted() gives.       *)
(***************************************************************************)
EXTENDS Diagnose, LaneGuard, OrderedMapLemmas, FiniteSetTheorems, TLAPS

(* A lock and the call that holds it say the same of each other.           *)
OwnerAgrees ==
  \A l \in Lanes, c \in Calls : owner[l] = c <=> (lane[c] = l /\ pc[c] \in {"granted", "running"})

(* A call has its whole budget until it queues, MIN_RUN_S until it leaves. *)
WaitsInTime ==
  \A c \in Calls : /\ pc[c] \in {"trying", "contended"} => remaining[c] = ToolBudget
                   /\ pc[c] \in {"waiting", "granted", "expired"} => remaining[c] >= MinRun

Inv == TypeOK /\ OwnerAgrees /\ QueueCounted /\ WaitsInTime

-----------------------------------------------------------------------------
(* The queue of a lane is finite, so its size is a number.                 *)
LEMMA CountedFinite ==
  ASSUME NEW l
  PROVE  IsFiniteSet(Queued(l)) /\ Cardinality(Queued(l)) \in Nat
<1>1. Queued(l) \subseteq Calls
  BY DEF Queued
<1> QED
  BY <1>1, CallsAssumption, FS_Subset, FS_CardinalityType

(* A step that keeps one call outside every queue keeps the queues.        *)
LEMMA SameQueues ==
  ASSUME QueueCounted, waiting' = waiting,
         \A l \in Lanes : Queued(l)' = Queued(l)
  PROVE  QueueCounted'
BY DEF QueueCounted

(* Every initial state satisfies the invariant.                            *)
LEMMA GuardInitInv == GuardInit => Inv
<1> SUFFICES ASSUME GuardInit PROVE Inv
  OBVIOUS
<1>1. TypeOK
  BY BudgetAssumption DEF GuardInit, TypeOK
<1>2. OwnerAgrees
  BY CallsAssumption DEF GuardInit, OwnerAgrees
<1>3. ASSUME NEW l \in Lanes PROVE waiting[l] = Cardinality(Queued(l))
  <2>1. Queued(l) = {}
    BY DEF Queued, GuardInit
  <2> QED
    BY <2>1, FS_EmptySet DEF GuardInit
<1>4. WaitsInTime
  BY DEF GuardInit, WaitsInTime
<1> QED
  BY <1>1, <1>2, <1>3, <1>4 DEF Inv, QueueCounted

-----------------------------------------------------------------------------
(* Every step but a queueing or an uncounting one leaves the queues.       *)
LEMMA OtherSteps ==
  ASSUME Inv, NEW c \in Calls,
         \/ StartFree(c) \/ Try(c) \/ Refuse(c) \/ Acquire(c) \/ TimeOut(c) \/ Finish(c)
         \/ \E l \in Lanes : Start(c, l)
  PROVE  Inv'
<1> USE DEF Inv
<1>1. CASE StartFree(c)
  <2>1. TypeOK' /\ OwnerAgrees' /\ WaitsInTime'
    BY <1>1, LanesAssumption, BudgetAssumption DEF StartFree, TypeOK, OwnerAgrees, WaitsInTime
  <2>2. \A l \in Lanes : Queued(l)' = Queued(l)
    BY <1>1 DEF StartFree, Queued, TypeOK
  <2> QED
    BY <1>1, <2>1, <2>2, SameQueues DEF StartFree
<1>2. CASE Try(c)
  <2> lane[c] \in Lanes
    BY <1>2 DEF Try, TypeOK
  <2>1. TypeOK' /\ WaitsInTime'
    BY <1>2, BudgetAssumption DEF Try, TypeOK, WaitsInTime
  <2>2. OwnerAgrees'
    BY <1>2, CallsAssumption DEF Try, TypeOK, OwnerAgrees
  <2>3. \A l \in Lanes : Queued(l)' = Queued(l)
    BY <1>2 DEF Try, Queued, TypeOK
  <2> QED
    BY <1>2, <2>1, <2>2, <2>3, SameQueues DEF Try
<1>3. CASE Refuse(c)
  <2>1. TypeOK' /\ OwnerAgrees' /\ WaitsInTime'
    BY <1>3, LanesAssumption, BudgetAssumption
       DEF Refuse, Ended, TypeOK, OwnerAgrees, WaitsInTime
  <2>2. \A l \in Lanes : Queued(l)' = Queued(l)
    BY <1>3 DEF Refuse, Ended, Queued, TypeOK
  <2> QED
    BY <1>3, <2>1, <2>2, SameQueues DEF Refuse
<1>4. CASE Acquire(c)
  <2> lane[c] \in Lanes
    BY <1>4 DEF Acquire, TypeOK
  <2>1. TypeOK' /\ WaitsInTime'
    BY <1>4, BudgetAssumption DEF Acquire, TypeOK, WaitsInTime
  <2>2. OwnerAgrees'
    BY <1>4, CallsAssumption DEF Acquire, TypeOK, OwnerAgrees
  <2>3. \A l \in Lanes : Queued(l)' = Queued(l)
    BY <1>4 DEF Acquire, Queued, TypeOK
  <2> QED
    BY <1>4, <2>1, <2>2, <2>3, SameQueues DEF Acquire
<1>5. CASE TimeOut(c)
  <2>1. TypeOK' /\ OwnerAgrees' /\ WaitsInTime'
    BY <1>5, BudgetAssumption DEF TimeOut, TypeOK, OwnerAgrees, WaitsInTime
  <2>2. \A l \in Lanes : Queued(l)' = Queued(l)
    BY <1>5 DEF TimeOut, Queued, TypeOK
  <2> QED
    BY <1>5, <2>1, <2>2, SameQueues DEF TimeOut
<1>6. CASE Finish(c)
  <2>1. TypeOK' /\ WaitsInTime'
    BY <1>6, BudgetAssumption DEF Finish, Ended, TypeOK, WaitsInTime
  <2>2. OwnerAgrees'
    BY <1>6, CallsAssumption, LanesAssumption DEF Finish, Ended, TypeOK, OwnerAgrees
  <2>3. \A l \in Lanes : Queued(l)' = Queued(l)
    BY <1>6 DEF Finish, Ended, Queued, TypeOK
  <2> QED
    BY <1>6, <2>1, <2>2, <2>3, SameQueues DEF Finish
<1>7. ASSUME NEW l \in Lanes, Start(c, l) PROVE Inv'
  <2>1. TypeOK' /\ WaitsInTime'
    BY <1>7, LanesAssumption, BudgetAssumption DEF Start, TypeOK, WaitsInTime
  <2>2. OwnerAgrees'
    BY <1>7 DEF Start, TypeOK, OwnerAgrees
  <2>3. \A m \in Lanes : Queued(m)' = Queued(m)
    BY <1>7 DEF Start, Queued, TypeOK
  <2> QED
    BY <1>7, <2>1, <2>2, <2>3, SameQueues DEF Start
<1> QED
  BY <1>1, <1>2, <1>3, <1>4, <1>5, <1>6, <1>7

(* A call that queues is counted in, one more and never one too many.      *)
LEMMA QueueInv ==
  ASSUME Inv, NEW c \in Calls, Queue(c)
  PROVE  Inv'
<1> USE DEF Inv
<1> lane[c] \in Lanes
  BY DEF Queue, TypeOK
<1>1. TypeOK'
  BY BudgetAssumption DEF Queue, TypeOK
<1>2. OwnerAgrees' /\ WaitsInTime'
  BY BudgetAssumption DEF Queue, TypeOK, OwnerAgrees, WaitsInTime
<1>3. ASSUME NEW l \in Lanes PROVE waiting'[l] = Cardinality(Queued(l)')
  <2>1. CASE l = lane[c]
    <3>1. Queued(l)' = Queued(l) \cup {c} /\ c \notin Queued(l)
      BY <2>1 DEF Queue, Queued, TypeOK
    <3>2. Cardinality(Queued(l)') = Cardinality(Queued(l)) + 1
      BY <3>1, CountedFinite, FS_AddElement
    <3> QED
      BY <2>1, <3>2 DEF Queue, QueueCounted, TypeOK
  <2>2. CASE l # lane[c]
    <3>1. Queued(l)' = Queued(l)
      BY <2>2 DEF Queue, Queued, TypeOK
    <3> QED
      BY <2>2, <3>1 DEF Queue, QueueCounted, TypeOK
  <2> QED
    BY <2>1, <2>2
<1> QED
  BY <1>1, <1>2, <1>3 DEF QueueCounted

(* A call that leaves its queue, with the lock or without, was counted.    *)
LEMMA UncountInv ==
  ASSUME Inv, NEW c \in Calls, Enter(c) \/ GiveUp(c)
  PROVE  Inv'
<1> USE DEF Inv
<1> lane[c] \in Lanes
  BY DEF Enter, GiveUp, TypeOK
<1> c \in Queued(lane[c])
  BY DEF Enter, GiveUp, Queued
<1>1. waiting' = CountedOut(lane[c])
  BY DEF Enter, GiveUp
<1>2. waiting[lane[c]] \in 1..MaxWaiters
  <2>1. Queued(lane[c]) # {}
    OBVIOUS
  <2>2. Cardinality(Queued(lane[c])) # 0
    BY <2>1, CountedFinite, FS_EmptySet
  <2> QED
    BY <2>2, CountedFinite, BudgetAssumption DEF QueueCounted, TypeOK
<1>3. waiting' \in [Lanes -> 0..MaxWaiters]
  BY <1>1, <1>2, BudgetAssumption DEF CountedOut, TypeOK
<1>4. TypeOK'
  BY <1>3, BudgetAssumption DEF Enter, GiveUp, Ended, TypeOK
<1>5. OwnerAgrees' /\ WaitsInTime'
  BY BudgetAssumption, LanesAssumption DEF Enter, GiveUp, Ended, TypeOK, OwnerAgrees, WaitsInTime
<1>6. ASSUME NEW l \in Lanes PROVE waiting'[l] = Cardinality(Queued(l)')
  <2>1. CASE l = lane[c]
    <3>1. Queued(l)' = Queued(l) \ {c}
      BY <2>1, LanesAssumption DEF Enter, GiveUp, Ended, Queued, TypeOK
    <3>2. Cardinality(Queued(l)') = Cardinality(Queued(l)) - 1
      BY <2>1, <3>1, CountedFinite, FS_RemoveElement
    <3> QED
      BY <1>1, <2>1, <3>2 DEF CountedOut, QueueCounted, TypeOK
  <2>2. CASE l # lane[c]
    <3>1. Queued(l)' = Queued(l)
      BY <2>2, LanesAssumption DEF Enter, GiveUp, Ended, Queued, TypeOK
    <3> QED
      BY <1>1, <2>2, <3>1 DEF CountedOut, QueueCounted, TypeOK
  <2> QED
    BY <2>1, <2>2
<1> QED
  BY <1>4, <1>5, <1>6 DEF QueueCounted

(* Time leaves the locks and the queues, and no waiter below MIN_RUN_S.    *)
LEMMA TickInv ==
  ASSUME Inv, Tick
  PROVE  Inv'
<1> USE DEF Inv
<1>1. TypeOK'
  BY BudgetAssumption DEF Tick, TypeOK
<1>2. OwnerAgrees'
  BY DEF Tick, TypeOK, OwnerAgrees
<1>3. WaitsInTime'
  BY BudgetAssumption DEF Tick, MayWait, TypeOK, WaitsInTime
<1>4. \A l \in Lanes : Queued(l)' = Queued(l)
  BY DEF Tick, Queued, TypeOK
<1> QED
  BY <1>1, <1>2, <1>3, <1>4, SameQueues DEF Tick

(* The invariant is inductive.                                             *)
LEMMA StepInv == Inv /\ [GuardNext]_guardVars => Inv'
<1> SUFFICES ASSUME Inv, [GuardNext]_guardVars PROVE Inv'
  OBVIOUS
<1>1. CASE UNCHANGED guardVars
  BY <1>1 DEF Inv, TypeOK, OwnerAgrees, QueueCounted, Queued, WaitsInTime, guardVars
<1>2. CASE GuardNext
  BY <1>2, OtherSteps, QueueInv, UncountInv, TickInv DEF GuardNext, Step
<1> QED
  BY <1>1, <1>2

-----------------------------------------------------------------------------
(* What the invariant says of the calls past a lock.                       *)
LEMMA InvExclusive == Inv => LaneExclusive
BY DEF Inv, TypeOK, OwnerAgrees, LaneExclusive, LockNotLeaked, Holds

(* The worker threads a lane blocks: those it counts, and its holder.      *)
LEMMA InvWorkers == Inv => WorkersBounded
<1> SUFFICES ASSUME Inv, NEW l \in Lanes
             PROVE  Cardinality({c \in Calls : lane[c] = l /\ pc[c] \in
                       {"waiting", "granted", "expired", "running"}}) <= MaxWaiters + 1
  BY DEF WorkersBounded
<1> DEFINE Blocked == {c \in Calls : lane[c] = l /\ pc[c] \in
                         {"waiting", "granted", "expired", "running"}}
<1>1. Blocked \subseteq Queued(l) \cup {owner[l]}
  BY DEF Inv, OwnerAgrees, Queued
<1>2. Cardinality(Queued(l)) \in 0..MaxWaiters
  BY DEF Inv, QueueCounted, TypeOK
<1>3. /\ IsFiniteSet(Queued(l) \cup {owner[l]})
      /\ Cardinality(Queued(l) \cup {owner[l]}) \in Nat
      /\ Cardinality(Queued(l) \cup {owner[l]}) <= Cardinality(Queued(l)) + 1
  <2>1. /\ IsFiniteSet(Queued(l) \cup {owner[l]})
        /\ \/ Cardinality(Queued(l) \cup {owner[l]}) = Cardinality(Queued(l))
           \/ Cardinality(Queued(l) \cup {owner[l]}) = Cardinality(Queued(l)) + 1
    BY CountedFinite, FS_AddElement
  <2> QED
    BY <2>1, CountedFinite
<1>4. Cardinality(Blocked) \in Nat /\ Cardinality(Blocked) <= Cardinality(Queued(l) \cup {owner[l]})
  BY <1>1, <1>3, FS_Subset, FS_CardinalityType
<1> QED
  BY <1>2, <1>3, <1>4, BudgetAssumption

(* The safety of the guard: exclusive lanes, no leaked lock, an exact      *)
(* queue count, and a bounded number of blocked worker threads.            *)
THEOREM GuardSafe ==
  GuardSpec => [](TypeOK /\ LaneExclusive /\ QueueCounted /\ WorkersBounded)
<1>1. Inv => TypeOK /\ LaneExclusive /\ QueueCounted /\ WorkersBounded
  BY InvExclusive, InvWorkers DEF Inv
<1> QED
  BY <1>1, GuardInitInv, StepInv, PTL DEF GuardSpec

(* A call that gets its lane has MIN_RUN_S left, however it waited.        *)
THEOREM GuardStartsInTime == GuardSpec => StartsInTime
<1>1. ASSUME Inv, [GuardNext]_guardVars, NEW c \in Calls,
             lane'[c] \in Lanes, pc[c] # "running", pc'[c] = "running"
      PROVE  remaining'[c] >= MinRun
  <2>1. CASE UNCHANGED guardVars
    BY <1>1, <2>1 DEF guardVars
  <2>2. CASE Tick
    BY <1>1, <2>2 DEF Tick, Inv, TypeOK
  <2>3. ASSUME NEW d \in Calls, StartFree(d) \/ Step(d) \/ Finish(d) \/ \E l \in Lanes : Start(d, l)
        PROVE  remaining'[c] >= MinRun
    <3>1. d = c
      BY <1>1, <2>3 DEF Inv, TypeOK, StartFree, Step, Try, Refuse, Queue, Acquire, TimeOut,
                        Enter, GiveUp, Finish, Start, Ended
    <3>2. CASE StartFree(c)
      BY <1>1, <3>2, LanesAssumption DEF Inv, TypeOK, StartFree
    <3>3. CASE Try(c) \/ Enter(c)
      BY <1>1, <3>3, BudgetAssumption DEF Inv, TypeOK, WaitsInTime, Try, Enter
    <3>4. ~(Refuse(c) \/ Queue(c) \/ Acquire(c) \/ TimeOut(c) \/ GiveUp(c) \/ Finish(c)
              \/ \E l \in Lanes : Start(c, l))
      BY <1>1 DEF Inv, TypeOK, Refuse, Queue, Acquire, TimeOut, GiveUp, Finish, Start, Ended
    <3> QED
      BY <2>3, <3>1, <3>2, <3>3, <3>4 DEF Step
  <2> QED
    BY <1>1, <2>1, <2>2, <2>3 DEF GuardNext
<1>2. Inv /\ [GuardNext]_guardVars =>
        \A c \in Calls : lane'[c] \in Lanes /\ pc[c] # "running" /\ pc'[c] = "running"
                           => remaining'[c] >= MinRun
  BY <1>1
<1>3. Inv /\ [GuardNext]_guardVars =>
        [\A c \in Calls : lane'[c] \in Lanes /\ pc[c] # "running" /\ pc'[c] = "running"
                            => remaining'[c] >= MinRun]_guardVars
  BY <1>2
<1> QED
  BY <1>3, GuardInitInv, StepInv, PTL DEF GuardSpec, StartsInTime

-----------------------------------------------------------------------------
(* The larger and the smaller of two numbers.                              *)
LEMMA LargerOf ==
  ASSUME NEW a \in Int, NEW b \in Int
  PROVE  Max({a, b}) \in {a, b} /\ Max({a, b}) >= a /\ Max({a, b}) >= b
<1>1. \E x \in {a, b} : \A y \in {a, b} : x >= y
  OBVIOUS
<1> QED
  BY <1>1 DEF Max

LEMMA SmallerOf ==
  ASSUME NEW a \in Int, NEW b \in Int
  PROVE  Min({a, b}) \in {a, b} /\ Min({a, b}) <= a /\ Min({a, b}) <= b
<1>1. \E x \in {a, b} : \A y \in {a, b} : x =< y
  OBVIOUS
<1> QED
  BY <1>1 DEF Min

LEMMA AmongNames == None \notin Names /\ Names \cup {None} = Range(Alphabet)
BY AlphabetAssumption DEF Names

-----------------------------------------------------------------------------
(* The lives of a name, counted by node and by participant: two of either  *)
(* are a restart, and a third is the loop a critical finding speaks of.    *)
OnBus(n) == {p \in Carry(n) : OnTheBus(p)}

LEMMA CountedLives ==
  ASSUME IsRobot(robot), NEW n \in Names
  PROVE  /\ IsFiniteSet(OnBus(n)) /\ IsFiniteSet(Named(n))
         /\ Cardinality(OnBus(n)) \in Nat /\ Cardinality(Named(n)) \in Nat
<1>1. OnBus(n) \subseteq robot.participants /\ Named(n) \subseteq robot.participants
  BY DEF OnBus, Carry, Named
<1>2. IsFiniteSet(robot.participants)
  BY DEF IsRobot
<1> QED
  BY <1>1, <1>2, FS_Subset, FS_CardinalityType

(* A guid names one participant: a name has as many guids as participants. *)
LEMMA GuidsOfName ==
  ASSUME IsRobot(robot), NEW n \in Names
  PROVE  Cardinality({r.guid : r \in {x \in EventRows(robot) : x.name = n}})
           = Cardinality(Named(n))
<1> DEFINE G == {r.guid : r \in {x \in EventRows(robot) : x.name = n}}
           f == [p \in Named(n) |-> p.guid]
<1>1. G = {p.guid : p \in Named(n)}
  <2>1. ASSUME NEW p \in Named(n) PROVE p.guid \in G
    <3>1. PICK e \in p.events : TRUE
      BY DEF Named
    <3> DEFINE r == [name |-> p.name, guid |-> p.guid, lost |-> e = "lost"]
    <3>2. r \in EventRows(robot) /\ r.name = n /\ r.guid = p.guid
      BY <2>1, <3>1 DEF EventRows, Named
    <3> QED
      BY <3>2
  <2>2. ASSUME NEW r \in EventRows(robot), r.name = n PROVE \E p \in Named(n) : r.guid = p.guid
    BY <2>2 DEF EventRows, Named
  <2> QED
    BY <2>1, <2>2
<1>2. \A p, q \in Named(n) : p.guid = q.guid => p = q
  BY DEF IsRobot, Named
<1> HIDE DEF G
<1>3. f \in Bijection(Named(n), G)
  BY <1>1, <1>2 DEF Bijection, Injection, IsInjective, Surjection
<1> HIDE DEF f
<1>4. IsFiniteSet(Named(n))
  BY CountedLives
<1> QED
  BY <1>3, <1>4, FS_Bijection DEF G, ExistsBijection

LEMMA LivesOfName ==
  ASSUME IsRobot(robot), NEW n \in Names
  PROVE  /\ Lives(robot, n) \in Nat
         /\ Lives(robot, n) >= Cardinality(OnBus(n))
         /\ Cardinality(Named(n)) > 1 => Lives(robot, n) >= Cardinality(Named(n))
         /\ \/ Lives(robot, n) = Cardinality(OnBus(n))
            \/ Lives(robot, n) = Cardinality(Named(n))
            \/ Lives(robot, n) = 0
<1> DEFINE byName == Tally(EventRows(robot))
           lives == IF n \in DOMAIN byName THEN byName[n].lives ELSE 0
<1>1. NodeLives(robot, n) = Cardinality(OnBus(n))
  <2>1. OnBus(n) = {p \in robot.participants :
                      /\ ~p.cli /\ n \in Range(p.nodes)
                      /\ (p.status = "active" \/ p.events # {} \/ p.seenInWindow)}
    BY DEF OnBus, Carry, OnTheBus
  <2> QED
    BY <2>1 DEF NodeLives
<1>2. n \in DOMAIN byName => byName[n].lives = Cardinality(Named(n))
  BY GuidsOfName DEF Tally
<1>3. Cardinality(Named(n)) > 1 => n \in DOMAIN byName
  <2> SUFFICES ASSUME Cardinality(Named(n)) > 1 PROVE n \in DOMAIN byName
    OBVIOUS
  <2>1. PICK p \in Named(n) : TRUE
    <3>1. Named(n) # {}
      BY FS_EmptySet
    <3> QED
      BY <3>1
  <2>2. PICK e \in p.events : TRUE
    BY DEF Named
  <2>3. [name |-> p.name, guid |-> p.guid, lost |-> e = "lost"] \in EventRows(robot)
    BY <2>1, <2>2 DEF EventRows, Named
  <2>4. n \in {r.name : r \in EventRows(robot)} \ {None}
    BY <2>3, AmongNames DEF Named
  <2> QED
    BY <2>4, GuidsOfName DEF Tally
<1> HIDE DEF byName
<1>4. /\ lives \in {Cardinality(Named(n)), 0}
      /\ Cardinality(Named(n)) > 1 => lives = Cardinality(Named(n))
  BY <1>2, <1>3
<1>5. Lives(robot, n) = Max({Cardinality(OnBus(n)), lives})
  BY <1>1 DEF Lives, byName
<1> HIDE DEF lives
<1>6. lives \in Int /\ Cardinality(OnBus(n)) \in Int
  BY <1>4, CountedLives
<1> QED
  BY <1>4, <1>5, <1>6, LargerOf, CountedLives

(* What the dds check calls a restart is one, and it misses none.          *)
LEMMA RestartIsTwoLives ==
  ASSUME IsRobot(robot), NEW n \in Names
  PROVE  Lives(robot, n) >= 2 <=> Restarted(n)
BY LivesOfName, CountedLives DEF Restarted, OnBus

LEMMA LoopIsThreeLives ==
  ASSUME IsRobot(robot), NEW n \in Names, Lives(robot, n) >= 3
  PROVE  Cardinality({p \in Carry(n) \cup Named(n) : OnTheBus(p)}) > 2
<1> DEFINE All == {p \in Carry(n) \cup Named(n) : OnTheBus(p)}
<1>1. OnBus(n) \subseteq All /\ Named(n) \subseteq All /\ All \subseteq robot.participants
  BY DEF OnBus, Carry, Named, OnTheBus
<1>2. IsFiniteSet(All)
  <2>1. IsFiniteSet(robot.participants)
    BY DEF IsRobot
  <2> QED
    BY <1>1, <2>1, FS_Subset
<1>3. Cardinality(OnBus(n)) <= Cardinality(All) /\ Cardinality(Named(n)) <= Cardinality(All)
  BY <1>1, <1>2, FS_Subset
<1>4. Cardinality(All) \in Nat
  BY <1>2, FS_CardinalityType
<1> HIDE DEF All
<1>5. Cardinality(All) > 2
  BY <1>3, <1>4, LivesOfName, CountedLives
<1> QED
  BY <1>5 DEF All

(* The names a participant goes by, and the one it is reported under.      *)
LEMMA NamesOfParticipants ==
  ASSUME IsRobot(robot)
  PROVE  NamesOf(robot) \subseteq Names /\ LeftNames(robot) \subseteq Names
<1>1. ASSUME NEW p \in robot.participants
      PROVE  /\ p.guid \in Names /\ p.name \in Names \cup {None} /\ Range(p.nodes) \subseteq Names
             /\ p.nodes # <<>> => p.nodes[1] \in Names
  <2>1. p.guid \in Names /\ p.name \in Names \cup {None} /\ p.nodes \in Seq(Names)
    BY DEF IsRobot
  <2>2. DOMAIN p.nodes = 1..Len(p.nodes) /\ \A i \in 1..Len(p.nodes) : p.nodes[i] \in Names
    BY <2>1
  <2>3. p.nodes # <<>> => 1 \in 1..Len(p.nodes)
    BY <2>1
  <2> QED
    BY <2>1, <2>2, <2>3 DEF Range
<1>2. NamesOf(robot) \subseteq Names
  BY <1>1 DEF NamesOf
<1>3. \A p \in robot.participants : Label(p) \in Names
  BY <1>1 DEF Label
<1> QED
  BY <1>2, <1>3 DEF LeftNames

(* What is said to have left has left: nothing of its name runs, and the   *)
(* name did not come back as another participant.                          *)
LEMMA LeftIsGone == ASSUME IsRobot(robot) PROVE GoneMeansGone
<1> SUFFICES ASSUME NEW n \in LeftNames(robot)
             PROVE  /\ ~\E p \in robot.participants : p.status = "active" /\ n \in Range(p.nodes)
                    /\ ~Restarted(n)
                    /\ \E p \in robot.participants : p.status = "left" /\ Label(p) = n
  BY DEF GoneMeansGone
<1>1. n \in Names
  BY NamesOfParticipants
<1>2. ~\E p \in robot.participants : p.status = "active" /\ n \in Range(p.nodes)
  BY DEF LeftNames, Running
<1>3. ~Restarted(n)
  <2>1. Lives(robot, n) < 2
    BY DEF LeftNames
  <2> QED
    BY <1>1, <2>1, RestartIsTwoLives, LivesOfName
<1>4. \E p \in robot.participants : p.status = "left" /\ Label(p) = n
  BY DEF LeftNames
<1> QED
  BY <1>2, <1>3, <1>4

-----------------------------------------------------------------------------
(* The order of the findings: by the first place in which two keys differ. *)
Lex(a, b, n) == \E i \in 1..n : a[i] < b[i] /\ \A j \in 1..(i - 1) : a[j] = b[j]

LEMMA LexIsAnOrder ==
  ASSUME NEW n \in Nat, NEW a, NEW b, NEW c,
         \A i \in 1..n : a[i] \in Nat /\ b[i] \in Nat /\ c[i] \in Nat
  PROVE  /\ ~Lex(a, a, n)
         /\ Lex(a, b, n) /\ Lex(b, c, n) => Lex(a, c, n)
         /\ Lex(a, b, n) \/ Lex(b, a, n) \/ \A i \in 1..n : a[i] = b[i]
<1>1. ~Lex(a, a, n)
  BY DEF Lex
<1>2. ASSUME Lex(a, b, n), Lex(b, c, n) PROVE Lex(a, c, n)
  <2>1. PICK i \in 1..n : a[i] < b[i] /\ \A j \in 1..(i - 1) : a[j] = b[j]
    BY <1>2 DEF Lex
  <2>2. PICK k \in 1..n : b[k] < c[k] /\ \A j \in 1..(k - 1) : b[j] = c[j]
    BY <1>2 DEF Lex
  <2>3. PICK m \in 1..n : m = IF i <= k THEN i ELSE k
    OBVIOUS
  <2>4. \A j \in 1..(m - 1) : a[j] = b[j] /\ b[j] = c[j]
    BY <2>1, <2>2, <2>3
  <2>5. a[m] < c[m]
    <3>1. CASE i < k
      BY <2>1, <2>2, <2>3, <3>1
    <3>2. CASE i = k
      BY <2>1, <2>2, <2>3, <3>2
    <3>3. CASE k < i
      BY <2>1, <2>2, <2>3, <3>3
    <3> QED
      BY <3>1, <3>2, <3>3
  <2> QED
    BY <2>4, <2>5 DEF Lex
<1>3. ASSUME NEW d \in 1..n, a[d] # b[d] PROVE Lex(a, b, n) \/ Lex(b, a, n)
  <2> DEFINE D == {i \in 1..n : a[i] # b[i]}
  <2>1. PICK i \in D : \A j \in D : i <= j
    <3>1. D \in SUBSET Nat /\ D # {}
      BY <1>3
    <3> HIDE DEF D
    <3> QED
      BY <3>1, LeastElement
  <2>2. \A j \in 1..(i - 1) : a[j] = b[j]
    BY <2>1
  <2>3. a[i] < b[i] \/ b[i] < a[i]
    BY <2>1
  <2> QED
    BY <2>1, <2>2, <2>3 DEF Lex
<1> QED
  BY <1>1, <1>2, <1>3

(* What a finding may be: what it says, with the check and the subject,    *)
(* tells which nodes it is about.                                          *)
ToldOfQos == {<<"qos", w, p>> : w \in Names, p \in Names}
ToldUnmatched == {<<"unmatched", r>> : r \in Names}
Told == {<<s>> : s \in Range(Sayings) \ {"unmatched", "qos"}} \cup ToldUnmatched \cup ToldOfQos

Weight(severity) == IF severity = "incompatible" THEN "critical" ELSE "warning"
AboutOf(subject, severity, says) ==
  CASE says[1] = "qos" ->
         Involved({p \in robot.mismatches :
                     /\ p.topic = subject /\ Weight(p.severity) = severity
                     /\ p.writer = says[2] /\ p.policies = says[3]})
    [] says[1] = "unmatched" ->
         Involved({p \in robot.unmatched : p.topic = subject /\ p.reason = says[2]})
    [] OTHER -> {}

FindingShape ==
  [severity : Range(Severities), check : Range(Checks), subject : Range(Alphabet),
   says : Told, about : SUBSET Names]

IsFinding(f) ==
  /\ f \in FindingShape
  /\ f.about = AboutOf(f.subject, f.severity, f.says)

LEMMA PlaceOfName ==
  ASSUME NEW n \in Range(Alphabet)
  PROVE  Place(n) \in 1..Len(Alphabet) /\ Alphabet[Place(n)] = n
BY AlphabetAssumption DEF Place, Range

LEMMA SeverityOf ==
  ASSUME NEW f, f.severity \in Range(Severities)
  PROVE  Severity(f) \in 1..3 /\ Severities[Severity(f)] = f.severity
<1>1. \E i \in 1..3 : Severities[i] = f.severity
  BY DEF Severities, Range
<1> QED
  BY <1>1 DEF Severity

Saying(f) == CHOOSE i \in DOMAIN Sayings : Sayings[i] = f.says[1]
LEMMA SayingOf ==
  ASSUME NEW f, f.says \in Told
  PROVE  Saying(f) \in Nat /\ Sayings[Saying(f)] = f.says[1]
<1>1. \E i \in DOMAIN Sayings : Sayings[i] = f.says[1]
  <2>1. Sayings[9] = "qos" /\ Sayings[10] = "unmatched" /\ {9, 10} \subseteq DOMAIN Sayings
    BY DEF Sayings
  <2>2. {"qos", "unmatched"} \subseteq Range(Sayings)
    BY <2>1 DEF Range
  <2>3. f.says[1] \in Range(Sayings)
    BY <2>2 DEF Told, ToldOfQos, ToldUnmatched
  <2> QED
    BY <2>3 DEF Range
<1>2. DOMAIN Sayings \subseteq Nat
  BY DEF Sayings
<1> QED
  BY <1>1, <1>2 DEF Saying

(* The key of the sort: seven numbers, and no two findings have the same.  *)
LEMMA KeyIsNumbers ==
  ASSUME NEW f, IsFinding(f), NEW named
  PROVE  \A i \in 1..7 : SortKey(f, named)[i] \in Nat
<1> DEFINE k == SortKey(f, named)
<1>1. /\ Place(f.check) \in Nat /\ Place(f.subject) \in Nat
      /\ Severity(f) \in Nat /\ Saying(f) \in Nat
  <2>1. f.check \in Range(Alphabet) /\ f.subject \in Range(Alphabet)
    BY AlphabetAssumption DEF IsFinding, FindingShape
  <2> QED
    BY <2>1, PlaceOfName, SeverityOf, SayingOf, AlphabetAssumption DEF IsFinding, FindingShape
<1>2. ASSUME NEW i \in {2, 3}, i <= Len(f.says) PROVE Place(f.says[i]) \in Nat
  <2>1. f.says[i] \in Names
    BY <1>2 DEF IsFinding, FindingShape, Told, ToldOfQos, ToldUnmatched
  <2> QED
    BY <2>1, PlaceOfName, AlphabetAssumption DEF Names
<1>3. k[1] = Severity(f) /\ k[2] \in {0, 1} /\ k[3] = Place(f.check) /\ k[4] = Place(f.subject)
  BY DEF SortKey
<1>4. /\ k[5] = Saying(f)
      /\ k[6] = IF 2 <= Len(f.says) THEN Place(f.says[2]) ELSE 0
      /\ k[7] = IF 3 <= Len(f.says) THEN Place(f.says[3]) ELSE 0
  BY DEF SortKey, Saying
<1> HIDE DEF k
<1>5. k[5] \in Nat /\ k[6] \in Nat /\ k[7] \in Nat
  BY <1>1, <1>2, <1>4
<1>6. \A i \in 1..7 : k[i] \in Nat
  BY <1>1, <1>3, <1>5
<1> QED
  BY <1>6 DEF k

LEMMA LongTold ==
  ASSUME NEW t \in Told
  PROVE  /\ t[1] = "qos" => t \in ToldOfQos
         /\ t[1] = "unmatched" => t \in ToldUnmatched
<1>1. CASE t \in {<<s>> : s \in Range(Sayings) \ {"unmatched", "qos"}}
  BY <1>1
<1>2. CASE t \in ToldUnmatched
  BY <1>2 DEF ToldUnmatched
<1>3. CASE t \in ToldOfQos
  BY <1>3 DEF ToldOfQos
<1> QED
  BY <1>1, <1>2, <1>3 DEF Told

LEMMA KeyTellsFinding ==
  ASSUME NEW f, IsFinding(f), NEW g, IsFinding(g), NEW named,
         \A i \in 1..7 : SortKey(f, named)[i] = SortKey(g, named)[i]
  PROVE  f = g
<1>1. /\ Severity(f) = Severity(g) /\ Place(f.check) = Place(g.check)
      /\ Place(f.subject) = Place(g.subject) /\ Saying(f) = Saying(g)
  BY DEF SortKey, Saying
<1>2. f.severity = g.severity /\ f.says[1] = g.says[1]
  BY <1>1, SeverityOf, SayingOf DEF IsFinding, FindingShape
<1>3. \A m, n \in Range(Alphabet) : Place(m) = Place(n) => m = n
  BY PlaceOfName
<1>4. f.check = g.check /\ f.subject = g.subject
  BY <1>1, <1>3, AlphabetAssumption DEF IsFinding, FindingShape
<1>5. f.says = g.says
  <2> f.says \in Told /\ g.says \in Told
    BY DEF IsFinding, FindingShape
  <2>1. CASE f.says[1] = "qos"
    <3>1. f.says \in ToldOfQos /\ g.says \in ToldOfQos
      BY <1>2, <2>1, LongTold
    <3>2. Place(f.says[2]) = Place(g.says[2]) /\ Place(f.says[3]) = Place(g.says[3])
      BY <3>1 DEF SortKey, ToldOfQos, ToldUnmatched
    <3>3. f.says[2] = g.says[2] /\ f.says[3] = g.says[3]
      BY <1>3, <3>1, <3>2 DEF Names, ToldOfQos, ToldUnmatched
    <3> QED
      BY <3>1, <3>3 DEF ToldOfQos, ToldUnmatched
  <2>2. CASE f.says[1] = "unmatched"
    <3>1. f.says \in ToldUnmatched /\ g.says \in ToldUnmatched
      BY <1>2, <2>2, LongTold
    <3>2. Place(f.says[2]) = Place(g.says[2])
      BY <3>1 DEF SortKey, ToldOfQos, ToldUnmatched
    <3>3. f.says[2] = g.says[2]
      BY <1>3, <3>1, <3>2 DEF Names, ToldOfQos, ToldUnmatched
    <3> QED
      BY <3>1, <3>3 DEF ToldOfQos, ToldUnmatched
  <2>3. CASE f.says[1] \notin {"qos", "unmatched"}
    BY <1>2, <2>3 DEF Told, ToldOfQos, ToldUnmatched
  <2> QED
    BY <2>1, <2>2, <2>3
<1>6. f.about = g.about
  BY <1>2, <1>4, <1>5 DEF IsFinding, FindingShape
<1> QED
  BY <1>2, <1>4, <1>5, <1>6 DEF IsFinding, FindingShape

(* sorted() has one answer: Before puts any two findings in order.         *)
LEMMA BeforeIsAnOrder ==
  ASSUME NEW named, NEW f, IsFinding(f), NEW g, IsFinding(g), NEW h, IsFinding(h)
  PROVE  /\ ~Before(f, f, named)
         /\ Before(f, g, named) /\ Before(g, h, named) => Before(f, h, named)
         /\ f # g => Before(f, g, named) \/ Before(g, f, named)
         /\ Before(f, g, named) => Severity(f) <= Severity(g)
<1>1. \A x, y : Before(x, y, named) <=> Lex(SortKey(x, named), SortKey(y, named), 7)
  BY DEF Before, Lex
<1>2. \A i \in 1..7 : /\ SortKey(f, named)[i] \in Nat /\ SortKey(g, named)[i] \in Nat
                      /\ SortKey(h, named)[i] \in Nat
  BY KeyIsNumbers
<1>3. /\ ~Before(f, f, named)
      /\ Before(f, g, named) /\ Before(g, h, named) => Before(f, h, named)
  BY <1>1, <1>2, LexIsAnOrder
<1>4. ASSUME f # g PROVE Before(f, g, named) \/ Before(g, f, named)
  <2>1. ~\A i \in 1..7 : SortKey(f, named)[i] = SortKey(g, named)[i]
    BY <1>4, KeyTellsFinding
  <2> QED
    BY <1>1, <1>2, <2>1, LexIsAnOrder
<1>5. ASSUME Before(f, g, named) PROVE Severity(f) <= Severity(g)
  <2>1. SortKey(f, named)[1] = Severity(f) /\ SortKey(g, named)[1] = Severity(g)
    BY DEF SortKey
  <2>2. Severity(f) \in Nat /\ Severity(g) \in Nat
    BY SeverityOf DEF IsFinding, FindingShape
  <2>3. PICK i \in 1..7 : /\ SortKey(f, named)[i] < SortKey(g, named)[i]
                          /\ \A j \in 1..(i - 1) : SortKey(f, named)[j] = SortKey(g, named)[j]
    BY <1>1, <1>5 DEF Lex
  <2>4. i = 1 \/ 1 \in 1..(i - 1)
    OBVIOUS
  <2> QED
    BY <2>1, <2>2, <2>3, <2>4
<1> QED
  BY <1>3, <1>4, <1>5

LEMMA FindingsInOrder ==
  ASSUME NEW F, IsFiniteSet(F), \A f \in F : IsFinding(f), NEW named
  PROVE  LET s == Ordered(F, named)
             n == Cardinality(F)
         IN  /\ n \in Nat /\ s \in Seq(F) /\ Len(s) = n
             /\ \A i, j \in 1..n : s[i] = s[j] => i = j
             /\ \A f \in F : \E i \in 1..n : s[i] = f
             /\ \A i, j \in 1..n : i < j => Severity(s[i]) <= Severity(s[j])
<1> DEFINE Earlier == [x \in F |-> {y \in F : Before(y, x, named)}]
           s == SortedBy(F, Earlier)
           n == Cardinality(F)
<1>1. Ordered(F, named) = s
  BY DEF Ordered, Sorted
<1>2. \A x, y \in F : x \in Earlier[y] <=> Before(x, y, named)
  OBVIOUS
<1>3. \A x \in F : Earlier[x] \subseteq F
  OBVIOUS
<1> HIDE DEF Earlier
<1>4. /\ \A x \in F : Earlier[x] \subseteq F \ {x}
      /\ \A x, y \in F : x # y => x \in Earlier[y] \/ y \in Earlier[x]
      /\ \A x, y \in F : x \in Earlier[y] => Earlier[x] \subseteq Earlier[y]
  BY <1>2, <1>3, BeforeIsAnOrder
<1>5. n \in Nat /\ s \in Seq(F) /\ Len(s) = n
  BY <1>4, OrderedIn
<1>6. /\ \A i, j \in 1..n : i < j => s[i] \in Earlier[s[j]]
      /\ \A i, j \in 1..n : s[i] = s[j] => i = j
      /\ \A x \in F : \E i \in 1..n : s[i] = x
  BY <1>4, SortedInPlace
<1> HIDE DEF s, n
<1>7. \A i \in 1..n : s[i] \in F
  BY <1>5
<1>8. \A i, j \in 1..n : i < j => Severity(s[i]) <= Severity(s[j])
  BY <1>2, <1>6, <1>7, BeforeIsAnOrder
<1> QED
  BY <1>1, <1>5, <1>6, <1>8 DEF n

(* [:n] of positions in order: so many of them, and none before one left   *)
(* out.                                                                    *)
LEMMA FirstOf ==
  ASSUME NEW S \in SUBSET Nat, IsFiniteSet(S), NEW n \in Nat
  PROVE  /\ First(S, n) \subseteq S
         /\ Cardinality(First(S, n)) = IF Cardinality(S) <= n THEN Cardinality(S) ELSE n
         /\ \A i \in First(S, n), j \in S \ First(S, n) : i < j
<1> DEFINE Upto(i) == {j \in S : j <= i}
           Earlier == [i \in S |-> {j \in S : j < i}]
           m == Cardinality(S)
           t == IF m <= n THEN m ELSE n
           places == SortedBy(S, Earlier)
<1>1. \A i, j \in S : i \in Earlier[j] <=> i < j
  OBVIOUS
<1>2. \A i \in S : Earlier[i] \subseteq S
  OBVIOUS
<1>3. ASSUME NEW i \in S PROVE Upto(i) = Earlier[i] \cup {i} /\ i \notin Earlier[i]
  <2>1. Earlier[i] = {j \in S : j < i} /\ i \in Nat
    OBVIOUS
  <2>2. \A j \in S : j <= i <=> j < i \/ j = i
    BY <2>1
  <2>3. i \notin Earlier[i]
    BY <2>1
  <2>4. Upto(i) = {j \in S : j < i} \cup {i}
    BY <2>2, Zenon
  <2> QED
    BY <2>1, <2>3, <2>4
<1> HIDE DEF Earlier
<1>4. /\ \A x \in S : Earlier[x] \subseteq S \ {x}
      /\ \A x, y \in S : x # y => x \in Earlier[y] \/ y \in Earlier[x]
      /\ \A x, y \in S : x \in Earlier[y] => Earlier[x] \subseteq Earlier[y]
  <2>1. \A i \in S : i \in Nat
    OBVIOUS
  <2>2. \A x, y \in S : ~(x < x) /\ (x # y => x < y \/ y < x)
    BY <2>1
  <2>3. \A x, y, z \in S : z < x /\ x < y => z < y
    BY <2>1
  <2> QED
    BY <1>1, <1>2, <2>2, <2>3
<1>5. m \in Nat /\ places \in Seq(S) /\ Len(places) = m /\ Enumerates(places, S, Earlier)
  BY <1>4, OrderedIn
<1> HIDE DEF places
<1>6. /\ \A k \in 1..m : places[k] \in S /\ Cardinality(Earlier[places[k]]) = k - 1
      /\ \A i \in S : /\ Cardinality(Earlier[i]) \in 0..(m - 1)
                      /\ places[Cardinality(Earlier[i]) + 1] = i
  BY <1>5 DEF Enumerates
<1>7. \A i \in S : IsFiniteSet(Upto(i)) /\ Cardinality(Upto(i)) = Cardinality(Earlier[i]) + 1
  <2> TAKE i \in S
  <2>1. Upto(i) = Earlier[i] \cup {i} /\ i \notin Earlier[i] /\ IsFiniteSet(Earlier[i])
    BY <1>2, <1>3, FS_Subset
  <2>2. PICK E : E = Earlier[i]
    OBVIOUS
  <2>3. IsFiniteSet(E \cup {i}) /\ Cardinality(E \cup {i}) = Cardinality(E) + 1
    BY <2>1, <2>2, FS_AddElement
  <2> HIDE DEF Upto
  <2> QED
    BY <2>1, <2>2, <2>3
<1>8. First(S, n) = {i \in S : Cardinality(Upto(i)) <= n}
  BY DEF First
<1> DEFINE f == [k \in 1..t |-> places[k]]
<1> HIDE DEF Upto
<1>9. t \in Nat /\ t <= m /\ t <= n
  BY <1>5
<1>10. f \in Bijection(1..t, First(S, n))
  <2> HIDE DEF m, t
  <2>1. \A k \in 1..t : f[k] \in S /\ Cardinality(Earlier[f[k]]) = k - 1
    BY <1>5, <1>6, <1>9
  <2>2. ASSUME NEW k \in 1..t PROVE f[k] \in First(S, n)
    <3>1. f[k] \in S /\ Cardinality(Upto(f[k])) = (k - 1) + 1
      BY <1>7, <2>1
    <3>2. (k - 1) + 1 <= n
      BY <1>9
    <3> QED
      BY <1>8, <3>1, <3>2
  <2>3. \A k, l \in 1..t : f[k] = f[l] => k = l
    <3> TAKE k, l \in 1..t
    <3> HAVE f[k] = f[l]
    <3>1. k - 1 = l - 1
      BY <2>1
    <3> QED
      BY <3>1
  <2>4. ASSUME NEW i \in First(S, n) PROVE \E k \in 1..t : f[k] = i
    <3>1. PICK k : k = Cardinality(Earlier[i]) + 1
      OBVIOUS
    <3>2. i \in S /\ Cardinality(Earlier[i]) \in 0..(m - 1) /\ places[k] = i
      BY <1>6, <1>8, <3>1
    <3>3. k \in 1..t
      BY <1>5, <1>7, <1>8, <3>1, <3>2 DEF t
    <3> QED
      BY <3>2, <3>3
  <2> QED
    BY <2>2, <2>3, <2>4 DEF Bijection, Injection, IsInjective, Surjection
<1> HIDE DEF f
<1>11. Cardinality(First(S, n)) = t
  <2>1. IsFiniteSet(1..t) /\ Cardinality(1..t) = t
    <3> HIDE DEF t
    <3> QED
      BY <1>9, FS_Interval
  <2> HIDE DEF t
  <2> QED
    BY <1>10, <2>1, FS_Bijection DEF ExistsBijection
<1>12. ASSUME NEW i \in First(S, n), NEW j \in S \ First(S, n) PROVE i < j
  <2>0. i \in S /\ i \in Nat /\ j \in Nat
    BY <1>8
  <2>1. SUFFICES ASSUME j <= i PROVE FALSE
    BY <2>0
  <2>2. Upto(j) \subseteq Upto(i) /\ i \in S
    <3>1. \A l \in S : l <= j => l <= i
      BY <2>0, <2>1
    <3> QED
      BY <2>0, <3>1 DEF Upto
  <2>3. Cardinality(Upto(j)) <= Cardinality(Upto(i))
    BY <1>7, <2>2, FS_Subset
  <2>4. Cardinality(Upto(i)) \in Int /\ Cardinality(Upto(j)) \in Int
    BY <1>7, <2>2, FS_CardinalityType
  <2> QED
    BY <1>8, <2>3, <2>4
<1> QED
  BY <1>8, <1>11, <1>12

(* The cap: of n findings in order, it keeps MAX_FINDINGS or all, those on *)
(* the named node before the others, and of each kind the first.           *)
LEMMA CapKeepsFirst ==
  ASSUME NEW F, IsFiniteSet(F), \A f \in F : IsFinding(f), NEW named
  PROVE  LET s == Ordered(F, named)
             kept == Range(Cap(F, named))
         IN  /\ kept \subseteq F
             /\ Cardinality(kept) = Min({MaxFindings, Cardinality(F)})
             /\ \A i, j \in DOMAIN s : s[i] \notin kept /\ s[j] \in kept =>
                  /\ Concerns(s[i], named) => Concerns(s[j], named)
                  /\ (Concerns(s[i], named) <=> Concerns(s[j], named)) => j < i
<1> DEFINE s == Ordered(F, named)
           n == Cardinality(F)
           kept == Range(Cap(F, named))
           mine == {i \in DOMAIN s : Concerns(s[i], named)}
           others == DOMAIN s \ mine
           a == Cardinality(First(mine, MaxFindings))
           chosen == First(mine, MaxFindings) \cup First(others, MaxFindings - a)
<1>1. /\ n \in Nat /\ s \in Seq(F) /\ Len(s) = n /\ DOMAIN s = 1..n
      /\ \A i, j \in 1..n : s[i] = s[j] => i = j
      /\ \A f \in F : \E i \in 1..n : s[i] = f
  BY FindingsInOrder
<1>2. MaxFindings \in Nat
  BY CapAssumption
<1>3. Cap(F, named) = IF n <= MaxFindings THEN s ELSE Select(s, chosen)
  BY <1>1 DEF Cap
<1>4. CASE n <= MaxFindings
  <2>1. kept = {s[i] : i \in 1..n}
    BY <1>1, <1>3, <1>4 DEF Range
  <2> HIDE DEF s
  <2>2. \A i \in 1..n : s[i] \in F
    BY <1>1
  <2>3. kept = F
    BY <1>1, <2>1, <2>2
  <2> HIDE DEF kept, n
  <2>4. n = Min({MaxFindings, n})
    <3>1. n \in Int /\ MaxFindings \in Int
      BY <1>1, <1>2
    <3>2. Min({MaxFindings, n}) \in {MaxFindings, n} /\ Min({MaxFindings, n}) <= n
      BY <3>1, SmallerOf
    <3> QED
      BY <1>4, <3>1, <3>2
  <2> QED
    BY <1>1, <2>2, <2>3, <2>4 DEF kept, s, n
<1>5. CASE n > MaxFindings
  <2>1. /\ mine \in SUBSET Nat /\ IsFiniteSet(mine) /\ mine \subseteq 1..n
        /\ others \in SUBSET Nat /\ IsFiniteSet(others) /\ others \subseteq 1..n
        /\ Cardinality(mine) + Cardinality(others) = n
        /\ Cardinality(mine) \in Nat /\ Cardinality(others) \in Nat
    <3>1. IsFiniteSet(1..n) /\ Cardinality(1..n) = n
      <4> HIDE DEF n
      <4> QED
        BY <1>1, FS_Interval
    <3>2. mine \subseteq 1..n /\ others = (1..n) \ mine
      BY <1>1
    <3> HIDE DEF mine, others
    <3>3. IsFiniteSet(mine) /\ IsFiniteSet(others)
      BY <3>1, <3>2, FS_Subset
    <3>4. Cardinality(others) = n - Cardinality((1..n) \cap mine)
      BY <3>1, <3>2, FS_Difference
    <3>5. Cardinality((1..n) \cap mine) = Cardinality(mine)
      <4>1. (1..n) \cap mine = mine
        BY <3>2
      <4> QED
        BY <4>1, Zenon
    <3>6. Cardinality(mine) \in Nat /\ Cardinality(others) \in Nat
      BY <3>3, FS_CardinalityType
    <3>7. Cardinality(mine) + Cardinality(others) = n
      <4> HIDE DEF n
      <4> QED
        BY <1>1, <3>4, <3>5, <3>6, SMT
    <3> HIDE DEF n
    <3>8. 1..n \subseteq Nat
      BY <1>1
    <3> QED
      BY <3>2, <3>3, <3>6, <3>7, <3>8
  <2> HIDE DEF mine, others, n
  <2>2. /\ First(mine, MaxFindings) \subseteq mine
        /\ a = IF Cardinality(mine) <= MaxFindings THEN Cardinality(mine) ELSE MaxFindings
        /\ \A i \in First(mine, MaxFindings), j \in mine \ First(mine, MaxFindings) : i < j
    BY <1>2, <2>1, FirstOf
  <2> HIDE DEF a
  <2>3. a \in Nat /\ MaxFindings - a \in Nat
    BY <1>2, <2>1, <2>2
  <2>4. /\ First(others, MaxFindings - a) \subseteq others
        /\ Cardinality(First(others, MaxFindings - a)) = MaxFindings - a
        /\ \A i \in First(others, MaxFindings - a),
              j \in others \ First(others, MaxFindings - a) : i < j
    <3>1. ~(Cardinality(others) <= MaxFindings - a) \/ Cardinality(others) = MaxFindings - a
      BY <1>1, <1>2, <1>5, <2>1, <2>2
    <3> QED
      BY <2>1, <2>3, <3>1, FirstOf
  <2>5. chosen \subseteq 1..n /\ IsFiniteSet(chosen) /\ Cardinality(chosen) = MaxFindings
    <3>1. First(mine, MaxFindings) \cap First(others, MaxFindings - a) = {}
      BY <2>2, <2>4 DEF others
    <3>2. /\ IsFiniteSet(First(mine, MaxFindings))
          /\ IsFiniteSet(First(others, MaxFindings - a))
      BY <2>1, <2>2, <2>4, FS_Subset
    <3>3. /\ IsFiniteSet(chosen)
          /\ Cardinality(chosen) = a + (MaxFindings - a) - 0
      BY <3>1, <3>2, <2>4, FS_Union, FS_EmptySet DEF a
    <3>4. chosen \subseteq 1..n
      BY <2>1, <2>2, <2>4
    <3>5. a + (MaxFindings - a) - 0 = MaxFindings
      BY <1>2, <2>3
    <3> QED
      BY <3>3, <3>4, <3>5
  <2> HIDE DEF chosen
  <2>6. kept = {s[i] : i \in chosen}
    <3>1. /\ Select(s, chosen) \in Seq({s[i] : i \in chosen})
          /\ Len(Select(s, chosen)) = Cardinality(chosen)
          /\ \A i \in chosen : \E k \in 1..Cardinality(chosen) : Select(s, chosen)[k] = s[i]
      <4> HIDE DEF s
      <4>1. s \in Seq(F) /\ chosen \in SUBSET DOMAIN s
        BY <1>1, <2>5
      <4> QED
        BY <4>1, Selected, SelectedAll
    <3>2. kept = Range(Select(s, chosen))
      BY <1>1, <1>2, <1>3, <1>5 DEF n
    <3> HIDE DEF kept
    <3> PICK t : t = Select(s, chosen)
      OBVIOUS
    <3>3. t \in Seq({s[i] : i \in chosen}) /\ Len(t) = Cardinality(chosen)
      BY <3>1
    <3>4. DOMAIN t = 1..Cardinality(chosen) /\ \A k \in DOMAIN t : t[k] \in {s[i] : i \in chosen}
      BY <3>3
    <3> QED
      BY <3>1, <3>2, <3>4 DEF Range
  <2> HIDE DEF kept, s
  <2>7. kept \subseteq F
    BY <1>1, <2>5, <2>6
  <2>8. \A i \in 1..n : s[i] \in kept <=> i \in chosen
    BY <1>1, <2>5, <2>6
  <2>9. Cardinality(kept) = MaxFindings
    <3> DEFINE f == [i \in chosen |-> s[i]]
    <3>1. f \in Bijection(chosen, kept)
      BY <1>1, <2>5, <2>6 DEF Bijection, Injection, IsInjective, Surjection
    <3> HIDE DEF f
    <3> QED
      BY <2>5, <3>1, FS_Bijection DEF ExistsBijection
  <2>10. MaxFindings = Min({MaxFindings, n})
    <3>1. n \in Int /\ MaxFindings \in Int
      BY <1>1, <1>2
    <3>2. Min({MaxFindings, n}) \in {MaxFindings, n} /\ Min({MaxFindings, n}) <= MaxFindings
      BY <3>1, SmallerOf
    <3> QED
      BY <1>5, <3>1, <3>2
  <2>11. ASSUME NEW i \in 1..n, NEW j \in 1..n, i \notin chosen, j \in chosen
         PROVE  /\ i \in mine => j \in mine
                /\ (i \in mine <=> j \in mine) => j < i
    <3>1. i \in mine \/ i \in others
      BY <1>1 DEF others
    <3>2. j \in First(mine, MaxFindings) \/ j \in First(others, MaxFindings - a)
      BY <2>11 DEF chosen
    <3>3. i \notin First(mine, MaxFindings) /\ i \notin First(others, MaxFindings - a)
      BY <2>11 DEF chosen
    <3>4. ASSUME i \in mine PROVE j \in mine
      <4>1. First(mine, MaxFindings) # mine
        BY <3>3, <3>4
      <4>2. a = MaxFindings
        BY <1>2, <2>1, <2>2, <4>1, FS_Subset DEF a
      <4>3. First(others, MaxFindings - a) = {}
        <5>1. Cardinality(First(others, MaxFindings - a)) = 0
          BY <1>2, <2>4, <4>2
        <5>2. IsFiniteSet(First(others, MaxFindings - a))
          BY <2>1, <2>4, FS_Subset
        <5> QED
          BY <5>1, <5>2, FS_EmptySet
      <4> QED
        BY <2>2, <3>2, <4>3
    <3>5. ASSUME i \in mine, j \in mine PROVE j < i
      <4>1. j \in First(mine, MaxFindings)
        BY <2>4, <3>2, <3>5 DEF others
      <4> QED
        BY <2>2, <3>3, <3>5, <4>1
    <3>6. ASSUME i \notin mine, j \notin mine PROVE j < i
      <4>1. j \in First(others, MaxFindings - a) /\ i \in others
        BY <2>2, <3>1, <3>2, <3>6
      <4> QED
        BY <2>4, <3>3, <4>1
    <3> QED
      BY <3>4, <3>5, <3>6
  <2>12. \A i \in 1..n : i \in mine <=> Concerns(s[i], named)
    BY <1>1 DEF mine
  <2>13. \A i, j \in 1..n : s[i] \notin kept /\ s[j] \in kept =>
           /\ Concerns(s[i], named) => Concerns(s[j], named)
           /\ (Concerns(s[i], named) <=> Concerns(s[j], named)) => j < i
    BY <2>8, <2>11, <2>12
  <2> QED
    BY <1>1, <2>7, <2>9, <2>10, <2>13 DEF s, n, kept
<1> QED
  BY <1>1, <1>2, <1>4, <1>5

-----------------------------------------------------------------------------
(* There are finitely many findings to make: what a finding says of which  *)
(* subject tells it apart.                                                 *)
LEMMA RangeFinite ==
  ASSUME NEW s, NEW n \in Nat, DOMAIN s = 1..n
  PROVE  IsFiniteSet(Range(s))
<1> DEFINE f == [i \in 1..n |-> s[i]]
<1>1. f \in Surjection(1..n, Range(s))
  BY DEF Surjection, Range
<1>2. IsFiniteSet(1..n)
  BY FS_Interval
<1> HIDE DEF f
<1> QED
  BY <1>1, <1>2, FS_Surjection

LEMMA AlphabetFinite == IsFiniteSet(Range(Alphabet))
<1>1. Len(Alphabet) \in Nat /\ DOMAIN Alphabet = 1..Len(Alphabet)
  BY AlphabetAssumption
<1> QED
  BY <1>1, RangeFinite

LEMMA ToldFinite == IsFiniteSet(Told)
<1> DEFINE S == Range(Sayings) \ {"unmatched", "qos"}
           One == {<<s>> : s \in S}
           f == [s \in S |-> <<s>>]
           g == [r \in Names |-> <<"unmatched", r>>]
           h == [x \in Names \X Names |-> <<"qos", x[1], x[2]>>]
<1>1. IsFiniteSet(Names)
  BY AlphabetFinite, FS_Subset DEF Names
<1>2. IsFiniteSet(S)
  <2>1. IsFiniteSet(Range(Sayings))
    <3>1. DOMAIN Sayings = 1..31
      BY DEF Sayings
    <3> QED
      BY <3>1, RangeFinite
  <2> QED
    BY <2>1, FS_Subset
<1> HIDE DEF S
<1>3. IsFiniteSet(One)
  <2>1. f \in Surjection(S, One)
    BY DEF Surjection
  <2> QED
    BY <1>2, <2>1, FS_Surjection
<1>4. IsFiniteSet(ToldUnmatched)
  <2>1. g \in Surjection(Names, ToldUnmatched)
    BY DEF Surjection, ToldUnmatched
  <2> QED
    BY <1>1, <2>1, FS_Surjection
<1>5. IsFiniteSet(ToldOfQos)
  <2>1. h \in Surjection(Names \X Names, ToldOfQos)
    <3>1. \A x \in Names \X Names : h[x] \in ToldOfQos
      BY DEF ToldOfQos
    <3>2. ASSUME NEW w \in Names, NEW p \in Names
          PROVE  \E x \in Names \X Names : h[x] = <<"qos", w, p>>
      <4>1. <<w, p>> \in Names \X Names /\ h[<<w, p>>] = <<"qos", w, p>>
        OBVIOUS
      <4> QED
        BY <4>1
    <3> HIDE DEF h
    <3>3. ASSUME NEW t \in ToldOfQos PROVE \E x \in Names \X Names : h[x] = t
      <4>1. PICK w \in Names, p \in Names : t = <<"qos", w, p>>
        BY DEF ToldOfQos
      <4> QED
        BY <3>2, <4>1
    <3>4. h \in [Names \X Names -> ToldOfQos]
      BY <3>1 DEF h
    <3> QED
      BY <3>3, <3>4 DEF Surjection
  <2>2. IsFiniteSet(Names \X Names)
    BY <1>1, FS_Product
  <2> QED
    BY <2>1, <2>2, FS_Surjection
<1>6. Told = One \cup ToldUnmatched \cup ToldOfQos
  BY DEF Told, S
<1> HIDE DEF One
<1> QED
  BY <1>3, <1>4, <1>5, <1>6, FS_Union

LEMMA FindingsFinite ==
  ASSUME NEW F, \A f \in F : IsFinding(f)
  PROVE  IsFiniteSet(F)
<1> DEFINE P == Range(Severities) \X Range(Checks)
           Q == Range(Alphabet) \X Told
           f == [x \in F |-> <<<<x.severity, x.check>>, <<x.subject, x.says>>>>]
<1>1. IsFiniteSet(P \X Q)
  <2>1. DOMAIN Severities = 1..3 /\ DOMAIN Checks = 1..7
    BY DEF Severities, Checks
  <2>2. /\ IsFiniteSet(Range(Severities)) /\ IsFiniteSet(Range(Checks))
        /\ IsFiniteSet(Range(Alphabet))
    BY <2>1, AlphabetFinite, RangeFinite
  <2>3. IsFiniteSet(P) /\ IsFiniteSet(Q)
    BY <2>2, ToldFinite, FS_Product
  <2> HIDE DEF P, Q
  <2> QED
    BY <2>3, FS_Product
<1>2. \A x \in F : f[x] \in P \X Q
  BY DEF IsFinding, FindingShape
<1>3. ASSUME NEW x \in F, NEW y \in F, f[x] = f[y] PROVE x = y
  <2>1. /\ x.severity = y.severity /\ x.check = y.check
        /\ x.subject = y.subject /\ x.says = y.says
    BY <1>3
  <2>2. x.about = y.about
    BY <2>1 DEF IsFinding, FindingShape
  <2> QED
    BY <2>1, <2>2 DEF IsFinding, FindingShape
<1>4. f \in Injection(F, P \X Q)
  BY <1>2, <1>3 DEF Injection, IsInjective
<1> HIDE DEF f, P, Q
<1> QED
  BY <1>1, <1>4, FS_Injection

-----------------------------------------------------------------------------
(* What each check makes of the robot is a finding, and one that it earns. *)
Earned(f) ==
  /\ f.says = <<"silent">> =>
       /\ \E a \in Answers(f.subject) : a.after > MinWait
       /\ f.severity = "critical" <=> f.subject = ask.node
  /\ f.says = <<"restarts">> =>
       /\ f.subject \in Names /\ Lives(robot, f.subject) >= 2
       /\ f.severity = "critical" => Lives(robot, f.subject) >= 3

Sound(f) == IsFinding(f) /\ Earned(f)

(* What the checks say that needs no more than a subject.                  *)
Remarks ==
  {"mock", "sros2", "duplicate", "empty", "lifecycle", "unknown", "waiting", "unheard", "typo",
   "left", "no endpoint", "stale", "two_parents", "cycle", "static_and_dynamic", "urdf link",
   "roots", "urdf", "no frame", "cut", "errors", "quiet", "params", "incomplete",
   "unreadable", "untested", "frame"}

LEMMA SayingsKnown == Remarks \cup {"restarts", "silent"} \subseteq Range(Sayings)
<1> DEFINE Said(i, s) == i \in DOMAIN Sayings /\ Sayings[i] = s
<1>1. /\ Said(1, "mock") /\ Said(2, "sros2") /\ Said(3, "duplicate") /\ Said(4, "empty")
      /\ Said(5, "lifecycle") /\ Said(6, "unknown") /\ Said(7, "waiting") /\ Said(8, "unheard")
      /\ Said(11, "typo") /\ Said(12, "restarts") /\ Said(13, "left") /\ Said(14, "no endpoint")
      /\ Said(15, "stale") /\ Said(16, "two_parents") /\ Said(17, "cycle")
      /\ Said(18, "static_and_dynamic") /\ Said(19, "urdf link") /\ Said(20, "roots")
      /\ Said(21, "urdf") /\ Said(22, "no frame") /\ Said(23, "cut") /\ Said(24, "errors")
      /\ Said(25, "quiet") /\ Said(26, "params") /\ Said(27, "incomplete") /\ Said(28, "silent")
      /\ Said(29, "unreadable") /\ Said(30, "untested") /\ Said(31, "frame")
  BY DEF Sayings
<1>2. \A i, s : Said(i, s) => s \in Range(Sayings)
  BY DEF Range
<1> HIDE DEF Said
<1>3. {"mock", "sros2", "duplicate", "empty", "lifecycle", "unknown", "waiting", "unheard",
       "typo", "restarts", "left", "no endpoint", "stale", "two_parents"} \subseteq Range(Sayings)
  BY <1>1, <1>2
<1>4. {"cycle", "static_and_dynamic", "urdf link", "roots", "urdf", "no frame", "cut", "errors",
       "quiet", "params", "incomplete", "silent", "unreadable", "untested", "frame"}
        \subseteq Range(Sayings)
  BY <1>1, <1>2
<1> QED
  BY <1>3, <1>4 DEF Remarks

LEMMA RangesKnown ==
  /\ Range(Severities) = {"critical", "warning", "info"}
  /\ Range(Checks) = {"environment", "nodes", "topics", "dds", "tf", "logs", "responsiveness"}
BY DEF Range, Severities, Checks

LEMMA ShortFinding ==
  ASSUME NEW severity \in {"critical", "warning", "info"}, NEW check \in Range(Checks),
         NEW subject \in Names \cup {None}, NEW s \in Remarks \cup {"restarts", "silent"}
  PROVE  /\ IsFinding(Finding(severity, check, subject, <<s>>))
         /\ s \in Remarks => Sound(Finding(severity, check, subject, <<s>>))
<1> DEFINE f == Finding(severity, check, subject, <<s>>)
<1>1. s \in Range(Sayings) \ {"unmatched", "qos"}
  BY SayingsKnown DEF Remarks
<1>2. <<s>> \in Told
  BY <1>1 DEF Told
<1>3. f.about = AboutOf(f.subject, f.severity, f.says)
  BY <1>1 DEF Finding, AboutOf
<1>4. IsFinding(f)
  BY <1>2, <1>3, RangesKnown, AmongNames DEF IsFinding, FindingShape, Finding
<1>5. s \in Remarks => Earned(f)
  BY DEF Earned, Finding, Remarks
<1> QED
  BY <1>4, <1>5 DEF Sound

LEMMA RemarkSound ==
  \A severity \in {"critical", "warning", "info"}, subject \in Names \cup {None}, s \in Remarks,
     check \in {"environment", "nodes", "topics", "dds", "tf", "logs", "responsiveness"} :
       Sound(Finding(severity, check, subject, <<s>>))
BY ShortFinding, RangesKnown

(* check_environment, check_nodes and check_topics.                        *)
LEMMA GraphChecksSound ==
  ASSUME IsRobot(robot)
  PROVE  /\ \A f \in EnvironmentFindings(robot) : Sound(f)
         /\ \A f \in NodesFindings(robot) : Sound(f)
         /\ \A f \in TopicsFindings(robot) : Sound(f)
<1>1. \A n \in robot.duplicates : n \in Names
  BY DEF IsRobot
<1>2. \A f \in EnvironmentFindings(robot) : Sound(f)
  BY RemarkSound DEF EnvironmentFindings, When, Remarks
<1>3. \A f \in NodesFindings(robot) : Sound(f)
  BY <1>1, RemarkSound DEF NodesFindings, When, Remarks
<1>4. \A f \in TopicsFindings(robot) : Sound(f)
  BY RemarkSound DEF TopicsFindings, When, Remarks
<1> QED
  BY <1>2, <1>3, <1>4

(* check_dds: a QoS finding is about the nodes of all its pairs.           *)
LEMMA QosFindingsSound ==
  ASSUME IsRobot(robot), NEW f \in QosFindings(robot)
  PROVE  Sound(f)
<1> DEFINE M == robot.mismatches
           U == robot.unmatched
           Like(p) == {q \in M : <<q.topic, q.writer, q.severity, q.policies>>
                                   = <<p.topic, p.writer, p.severity, p.policies>>}
           Apart(p) == {q \in U : <<q.topic, q.reason>> = <<p.topic, p.reason>>}
<1>1. /\ \A p \in M : /\ p.topic \in Names /\ p.writer \in Names /\ p.reader \in Names
                      /\ p.severity \in {"incompatible", "risky"} /\ p.policies \in Names
      /\ \A p \in U : /\ p.topic \in Names /\ p.reason \in Names
                      /\ p.writer \in Names /\ p.reader \in Names
      /\ \A t \in robot.typos : t \in Names
  BY DEF IsRobot
<1>2. \/ \E p \in M : f = [Finding(Weight(p.severity), "dds", p.topic,
                                   <<"qos", p.writer, p.policies>>)
                             EXCEPT !.about = Involved(Like(p))]
      \/ \E p \in U : f = [Finding("critical", "dds", p.topic, <<"unmatched", p.reason>>)
                             EXCEPT !.about = Involved(Apart(p))]
      \/ \E t \in robot.typos : f = Finding("warning", "dds", t, <<"typo">>)
  <2> DEFINE key(p) == <<p.topic, p.writer, p.severity, p.policies>>
             QosOne(k) == [Finding(IF k[3] = "incompatible" THEN "critical" ELSE "warning", "dds",
                                  k[1], <<"qos", k[2], k[4]>>)
                            EXCEPT !.about = Involved({q \in M : key(q) = k})]
             pair(p) == <<p.topic, p.reason>>
             UnmatchedOne(k) == [Finding("critical", "dds", k[1], <<"unmatched", k[2]>>)
                            EXCEPT !.about = Involved({q \in U : pair(q) = k})]
  <2>1. \/ \E p \in M : f = QosOne(key(p))
        \/ \E p \in U : f = UnmatchedOne(pair(p))
        \/ \E t \in robot.typos : f = Finding("warning", "dds", t, <<"typo">>)
    <3>1. QosFindings(robot) =
            {QosOne(k) : k \in {key(p) : p \in M}}
            \cup {UnmatchedOne(k) : k \in {pair(p) : p \in U}}
            \cup {Finding("warning", "dds", t, <<"typo">>) : t \in robot.typos}
      BY DEF QosFindings
    <3> HIDE DEF QosOne, UnmatchedOne, key, pair
    <3>2. CASE f \in {QosOne(k) : k \in {key(p) : p \in M}}
      BY <3>2
    <3>3. CASE f \in {UnmatchedOne(k) : k \in {pair(p) : p \in U}}
      BY <3>3
    <3>4. CASE f \in {Finding("warning", "dds", t, <<"typo">>) : t \in robot.typos}
      BY <3>4
    <3> QED
      BY <3>1, <3>2, <3>3, <3>4
  <2>2. \A p : QosOne(key(p)) = [Finding(Weight(p.severity), "dds", p.topic,
                                       <<"qos", p.writer, p.policies>>)
                                 EXCEPT !.about = Involved(Like(p))]
    BY DEF Weight
  <2>3. \A p : UnmatchedOne(pair(p)) =
                  [Finding("critical", "dds", p.topic, <<"unmatched", p.reason>>)
                     EXCEPT !.about = Involved(Apart(p))]
    OBVIOUS
  <2> HIDE DEF QosOne, UnmatchedOne, Like, Apart
  <2> QED
    BY <2>1, <2>2, <2>3
<1>3. \A p : Involved(Like(p)) \subseteq Names /\ Involved(Apart(p)) \subseteq Names
  BY <1>1 DEF Involved
<1>4. ASSUME NEW p \in M,
             f = [Finding(Weight(p.severity), "dds", p.topic, <<"qos", p.writer, p.policies>>)
                    EXCEPT !.about = Involved(Like(p))]
      PROVE  Sound(f)
  <2>1. /\ f.severity = Weight(p.severity) /\ f.check = "dds" /\ f.subject = p.topic
        /\ f.says = <<"qos", p.writer, p.policies>> /\ f.about = Involved(Like(p))
        /\ f = [severity |-> f.severity, check |-> f.check, subject |-> f.subject,
                says |-> f.says, about |-> f.about]
    BY <1>4 DEF Finding
  <2>2. f.severity \in Range(Severities) /\ f.check \in Range(Checks)
    BY <2>1, RangesKnown DEF Weight
  <2>3. f.subject \in Range(Alphabet) /\ f.says \in Told /\ f.about \subseteq Names
    BY <1>1, <1>3, <2>1 DEF Names, Told, ToldOfQos
  <2>4. f.about = AboutOf(f.subject, f.severity, f.says)
    <3>1. Like(p) = {q \in M : /\ q.topic = p.topic /\ Weight(q.severity) = Weight(p.severity)
                               /\ q.writer = p.writer /\ q.policies = p.policies}
      BY <1>1 DEF Weight
    <3>2. f.says[1] = "qos" /\ f.says[2] = p.writer /\ f.says[3] = p.policies
      BY <2>1
    <3> HIDE DEF Like
    <3> QED
      BY <2>1, <3>1, <3>2 DEF AboutOf
  <2>5. f.says # <<"silent">> /\ f.says # <<"restarts">>
    BY <2>1
  <2> QED
    BY <2>1, <2>2, <2>3, <2>4, <2>5 DEF Sound, IsFinding, FindingShape, Earned
<1>5. ASSUME NEW p \in U,
             f = [Finding("critical", "dds", p.topic, <<"unmatched", p.reason>>)
                    EXCEPT !.about = Involved(Apart(p))]
      PROVE  Sound(f)
  <2>1. /\ f.severity = "critical" /\ f.check = "dds" /\ f.subject = p.topic
        /\ f.says = <<"unmatched", p.reason>> /\ f.about = Involved(Apart(p))
        /\ f = [severity |-> f.severity, check |-> f.check, subject |-> f.subject,
                says |-> f.says, about |-> f.about]
    BY <1>5 DEF Finding
  <2>2. f.severity \in Range(Severities) /\ f.check \in Range(Checks)
    BY <2>1, RangesKnown
  <2>3. f.subject \in Range(Alphabet) /\ f.says \in Told /\ f.about \subseteq Names
    BY <1>1, <1>3, <2>1 DEF Names, Told, ToldUnmatched
  <2>4. f.about = AboutOf(f.subject, f.severity, f.says)
    <3>1. Apart(p) = {q \in U : q.topic = p.topic /\ q.reason = p.reason}
      OBVIOUS
    <3>2. f.says[1] = "unmatched" /\ f.says[2] = p.reason
      BY <2>1
    <3> HIDE DEF Apart
    <3> QED
      BY <2>1, <3>1, <3>2 DEF AboutOf
  <2>5. f.says # <<"silent">> /\ f.says # <<"restarts">>
    BY <2>1
  <2> QED
    BY <2>1, <2>2, <2>3, <2>4, <2>5 DEF Sound, IsFinding, FindingShape, Earned
<1>6. ASSUME NEW t \in robot.typos, f = Finding("warning", "dds", t, <<"typo">>)
      PROVE  Sound(f)
  BY <1>1, <1>6, RemarkSound DEF Remarks
<1> QED
  BY <1>2, <1>4, <1>5, <1>6

LEMMA RestartFindingsSound ==
  ASSUME IsRobot(robot), NEW f \in RestartFindings(robot)
  PROVE  Sound(f)
<1>1. PICK n \in NamesOf(robot) :
        /\ Lives(robot, n) >= 2
        /\ f = Finding(IF Lives(robot, n) >= 3 THEN "critical" ELSE "warning", "dds", n,
                       <<"restarts">>)
  BY DEF RestartFindings
<1>2. n \in Names
  BY NamesOfParticipants
<1>3. IsFinding(f)
  BY <1>1, <1>2, ShortFinding, RangesKnown
<1>4. f.severity = "critical" => Lives(robot, n) >= 3
  BY <1>1 DEF Finding
<1>5. f.says = <<"restarts">> /\ f.subject = n
  BY <1>1 DEF Finding
<1> QED
  BY <1>1, <1>2, <1>3, <1>4, <1>5 DEF Sound, Earned

LEMMA DdsFindingsSound ==
  ASSUME IsRobot(robot)
  PROVE  \A f \in DdsFindings(robot) : Sound(f)
BY QosFindingsSound, RestartFindingsSound, RemarkSound DEF DdsFindings, When, Remarks

(* check_tf and _frame_id_findings.                                        *)
LEMMA TfFindingsSound ==
  ASSUME IsRobot(robot), NEW window
  PROVE  \A f \in TfFindings(robot, window) : Sound(f)
<1> DEFINE Faults == {Finding("warning", "tf", f.subject, <<f.kind>>) :
                        f \in {x \in robot.tf.faults : x.needs <= window}}
           Missing == {Finding("warning", "tf", l, <<"urdf link">>) : l \in robot.tf.missing}
<1>1. \A f \in Faults : Sound(f)
  <2>1. \A x \in robot.tf.faults :
          x.subject \in Names /\ x.kind \in {"stale", "two_parents", "cycle", "static_and_dynamic"}
    BY DEF IsRobot
  <2>2. \A x \in robot.tf.faults : x.kind \in Remarks
    BY <2>1 DEF Remarks
  <2> QED
    BY <2>1, <2>2, RemarkSound
<1>2. \A f \in Missing : Sound(f)
  <2>1. \A l \in robot.tf.missing : l \in Names
    BY DEF IsRobot
  <2> QED
    BY <2>1, RemarkSound DEF Remarks
<1>3. \A f \in TfFindings(robot, window) :
        f \in Faults \/ f \in Missing \/ \E s \in Remarks : f = Finding("info", "tf", None, <<s>>)
  <2> HIDE DEF Faults, Missing
  <2> QED
    BY DEF TfFindings, When, Remarks, Faults, Missing
<1> HIDE DEF Faults, Missing
<1> QED
  BY <1>1, <1>2, <1>3, RemarkSound

LEMMA FrameFindingsSound ==
  ASSUME IsRobot(robot), NEW t \in robot.topics
  PROVE  \A f \in FrameFindings(robot, t) : Sound(f)
<1>1. t.name \in Names
  BY DEF IsRobot
<1> QED
  BY <1>1, RemarkSound DEF FrameFindings, When, Remarks

(* check_logs and check_responsiveness.                                    *)
LEMMA LogFindingsSound ==
  ASSUME IsRobot(robot), NEW seconds
  PROVE  \A f \in LogFindings(robot, seconds) : Sound(f)
<1>1. \A l \in robot.loggers : l.node \in Names
  BY DEF IsRobot
<1> QED
  BY <1>1, RemarkSound DEF LogFindings, When, Remarks

LEMMA NodeFindingsSound ==
  ASSUME NEW n \in Names, NEW wasRead, NEW unreadable, NEW untested
  PROVE  /\ \A f \in ParamFindings(robot, n, wasRead) : Sound(f)
         /\ \A f \in UnjudgedFindings(unreadable, untested) : Sound(f)
BY RemarkSound DEF ParamFindings, UnjudgedFindings, When, Remarks

(* A node said to be silent did not answer a read of MinWait or more, and  *)
(* is said so for sure when it is the one the caller named.                *)
LEMMA SilentSound ==
  ASSUME NEW n \in Names, NEW named \in BOOLEAN, named <=> n = ask.node,
         \E a \in Answers(n) : a.after > MinWait
  PROVE  Sound(Silent(n, named))
<1>1. IsFinding(Silent(n, named))
  BY ShortFinding, RangesKnown DEF Silent
<1>2. /\ Silent(n, named).subject = n /\ Silent(n, named).says = <<"silent">>
      /\ Silent(n, named).severity = "critical" <=> named
  BY DEF Silent, Finding
<1> QED
  BY <1>1, <1>2 DEF Sound, Earned

-----------------------------------------------------------------------------
(* The sweep.  Its types...                                                *)
ReadingShape ==
  [todo : Seq(Names), again : Names \cup {None}, untested : SUBSET Names,
   unreadable : SUBSET Names, answered : BOOLEAN, found : SUBSET FindingShape]

SweepTypeOK ==
  /\ IsRobot(robot) /\ IsCall(ask)
  /\ left \in Nat
  /\ plan \in Seq(Range(Checks))
  /\ reading \in ReadingShape
  /\ stamped \in Seq(robot.topics)
  /\ phase \in {"checks", "reading", "frames", "done"}

(* ... each check ahead of it is neither run nor skipped yet, and none is  *)
(* lost on the way...                                                      *)
Planned ==
  /\ ran \cup {x[1] : x \in skipped} \cup Range(plan) = Range(ScopeChecks(ask.scope))
  /\ ran \cap Range(plan) = {}
  /\ \A i, j \in DOMAIN plan : plan[i] = plan[j] => i = j
  /\ phase = "reading" => plan # <<>> /\ Head(plan) = "responsiveness"
  /\ phase \in {"frames", "done"} => plan = <<>>

(* ... every finding is earned, and so is a second read of a node...       *)
AllSound == \A f \in findings \cup reading.found : Sound(f)

SilentSoFar ==
  reading.again # None =>
    reading.again # ask.node /\ \E a \in Answers(reading.again) : a.after > MinWait

(* ... a check that ran has told what it found...                          *)
RanTold ==
  /\ "nodes" \in ran => NodesFindings(robot) \subseteq findings
  /\ "dds" \in ran => DdsFindings(robot) \subseteq findings
  /\ "tf" \in ran => \E window \in Int : TfFindings(robot, window) \subseteq findings
  /\ "logs" \in ran => \E seconds \in Nat \ {0} : LogFindings(robot, seconds) \subseteq findings

(* ... and the node the caller named, if it never answers, is still to be  *)
(* read, or is not judged, or is found silent.                             *)
Unjudged == ask.node \in reading.untested \cup reading.unreadable
NamedJudged ==
  NeverAnswers(ask.node) =>
    /\ "responsiveness" \in ran => Unjudged \/ Silent(ask.node, TRUE) \in findings
    /\ phase = "reading" =>
         ask.node \in Range(reading.todo) \/ Unjudged \/ Silent(ask.node, TRUE) \in reading.found

SweepInv == SweepTypeOK /\ Planned /\ AllSound /\ SilentSoFar /\ RanTold /\ NamedJudged

-----------------------------------------------------------------------------
LEMMA TailOf ==
  ASSUME NEW S, NEW s \in Seq(S), s # <<>>
  PROVE  /\ Tail(s) \in Seq(S) /\ Head(s) \in S
         /\ Range(s) = {Head(s)} \cup Range(Tail(s))
         /\ (\A i, j \in DOMAIN s : s[i] = s[j] => i = j) =>
              /\ Head(s) \notin Range(Tail(s))
              /\ \A i, j \in DOMAIN Tail(s) : Tail(s)[i] = Tail(s)[j] => i = j
<1> DEFINE n == Len(s)
           t == Tail(s)
<1>1. /\ n \in Nat \ {0} /\ DOMAIN s = 1..n /\ Head(s) = s[1]
      /\ t \in Seq(S) /\ DOMAIN t = 1..(n - 1) /\ \A i \in 1..(n - 1) : t[i] = s[i + 1]
      /\ \A i \in 1..n : s[i] \in S
  OBVIOUS
<1> HIDE DEF t, n
<1>2. \A i \in 1..n : i = 1 \/ (i - 1 \in 1..(n - 1) /\ s[i] = t[i - 1])
  BY <1>1
<1>3. \A i \in 1..(n - 1) : i + 1 \in 1..n /\ 1 \in 1..n /\ i + 1 # 1
  BY <1>1
<1>4. 1 \in 1..n
  BY <1>1
<1>5. Range(s) = {Head(s)} \cup Range(t)
  <2>1. Range(s) = {s[i] : i \in 1..n} /\ Range(t) = {t[i] : i \in 1..(n - 1)}
    BY <1>1 DEF Range
  <2>2. \A i \in 1..n : s[i] = Head(s) \/ s[i] \in {t[k] : k \in 1..(n - 1)}
    BY <1>1, <1>2
  <2>3. \A i \in 1..(n - 1) : t[i] \in {s[k] : k \in 1..n}
    BY <1>1, <1>3
  <2>4. Head(s) \in {s[k] : k \in 1..n}
    BY <1>1, <1>4
  <2> QED
    BY <2>1, <2>2, <2>3, <2>4
<1>6. ASSUME \A i, j \in DOMAIN s : s[i] = s[j] => i = j
      PROVE  /\ Head(s) \notin Range(t)
             /\ \A i, j \in DOMAIN t : t[i] = t[j] => i = j
  <2>1. Head(s) \notin Range(t)
    BY <1>1, <1>3, <1>6 DEF Range
  <2>2. ASSUME NEW i \in 1..(n - 1), NEW j \in 1..(n - 1), t[i] = t[j] PROVE i = j
    <3>1. i + 1 \in DOMAIN s /\ j + 1 \in DOMAIN s
      BY <1>1, <1>3
    <3>2. s[i + 1] = s[j + 1]
      BY <1>1, <2>2
    <3>3. i + 1 = j + 1
      BY <1>6, <3>1, <3>2
    <3> QED
      BY <3>3
  <2> QED
    BY <1>1, <2>1, <2>2
<1> QED
  BY <1>1, <1>4, <1>5, <1>6 DEF t

(* The nodes to read: the one named is first.                              *)
LEMMA CandidatesTyped ==
  ASSUME IsRobot(robot), NEW named \in Names \cup {None}, NEW listed
  PROVE  /\ Candidates(robot, named, listed) \in Seq(Names)
         /\ named # None => named \in Range(Candidates(robot, named, listed))
<1> DEFINE Later(n) == IF n \in robot.lifecycle THEN 0 ELSE 1
           Sooner(n, m) == Later(n) < Later(m) \/ (Later(n) = Later(m) /\ Place(n) < Place(m))
           pool == (IF listed THEN robot.nodes ELSE {}) \ (robot.cliNodes \cup {named})
           Earlier == [x \in pool |-> {y \in pool : Sooner(y, x)}]
           s == SortedBy(pool, Earlier)
           first == IF named = None THEN <<>> ELSE <<named>>
<1>1. Candidates(robot, named, listed) = first \o s
  BY DEF Candidates, Sorted
<1>2. pool \subseteq Names
  BY DEF IsRobot
<1>3. IsFiniteSet(pool)
  BY <1>2, AlphabetFinite, FS_Subset DEF Names
<1>4. \A n \in pool : Place(n) \in Nat /\ Later(n) \in {0, 1}
  BY <1>2, PlaceOfName, AlphabetAssumption DEF Names
<1>5. \A n, m \in pool : Place(n) = Place(m) => n = m
  BY <1>2, PlaceOfName DEF Names
<1> HIDE DEF pool, Later
<1>6. /\ \A x \in pool : Earlier[x] \subseteq pool \ {x}
      /\ \A x, y \in pool : x # y => x \in Earlier[y] \/ y \in Earlier[x]
      /\ \A x, y \in pool : x \in Earlier[y] => Earlier[x] \subseteq Earlier[y]
  <2>1. \A x, y, z \in pool :
          /\ ~Sooner(x, x)
          /\ x # y => Sooner(x, y) \/ Sooner(y, x)
          /\ Sooner(z, x) /\ Sooner(x, y) => Sooner(z, y)
    BY <1>4, <1>5
  <2>2. \A x, y \in pool : x \in Earlier[y] <=> Sooner(x, y)
    OBVIOUS
  <2>3. \A x \in pool : Earlier[x] \subseteq pool
    OBVIOUS
  <2> HIDE DEF Sooner, Earlier
  <2> QED
    BY <2>1, <2>2, <2>3
<1> HIDE DEF Earlier
<1>7. s \in Seq(pool)
  BY <1>3, <1>6, OrderedIn
<1> HIDE DEF s
<1>8. s \in Seq(Names)
  BY <1>2, <1>7
<1>9. CASE named = None
  BY <1>1, <1>8, <1>9
<1>10. CASE named # None
  <2>1. <<named>> \in Seq(Names) /\ first = <<named>> /\ named \in Names
    BY <1>10
  <2> HIDE DEF first
  <2>2. first \o s \in Seq(Names) /\ 1 \in DOMAIN (first \o s) /\ (first \o s)[1] = named
    BY <1>8, <2>1
  <2> QED
    BY <1>1, <2>2 DEF Range
<1> QED
  BY <1>9, <1>10

(* The topics to sample are topics.                                        *)
LEMMA StampedTyped ==
  ASSUME IsRobot(robot)
  PROVE  StampedTopics(robot) \in Seq(robot.topics)
<1> DEFINE pool == {t \in Counted(robot) : t.rank > 0 /\ t.pubs > 0}
           Sooner(t, u) == t.rank < u.rank \/ (t.rank = u.rank /\ Place(t.name) < Place(u.name))
           Earlier == [x \in pool |-> {y \in pool : Sooner(y, x)}]
           s == SortedBy(pool, Earlier)
<1>1. StampedTopics(robot) = SubSeq(s, 1, Min({FrameTopics, Len(s)}))
  BY DEF StampedTopics, Sorted
<1>2. pool \subseteq robot.topics /\ IsFiniteSet(pool)
  <2>1. IsFiniteSet(robot.topics)
    BY DEF IsRobot
  <2>2. pool \subseteq robot.topics
    BY DEF Counted
  <2> QED
    BY <2>1, <2>2, FS_Subset
<1>3. \A t \in pool : t.rank \in Nat /\ t.name \in Names
  <2>1. robot.topics \subseteq [name : Names, pubs : Nat, subs : Nat, unknown : BOOLEAN,
                               rank : Nat, frame : STRING]
    BY DEF IsRobot
  <2> QED
    BY <1>2, <2>1
<1>4. \A t \in pool : Place(t.name) \in Nat
  BY <1>3, PlaceOfName, AlphabetAssumption DEF Names
<1>5. \A t, u \in pool : Place(t.name) = Place(u.name) => t = u
  <2>1. \A t, u \in pool : Place(t.name) = Place(u.name) => t.name = u.name
    BY <1>3, PlaceOfName DEF Names
  <2> QED
    BY <1>2, <2>1 DEF IsRobot
<1> HIDE DEF pool
<1>6. /\ \A x \in pool : Earlier[x] \subseteq pool \ {x}
      /\ \A x, y \in pool : x # y => x \in Earlier[y] \/ y \in Earlier[x]
      /\ \A x, y \in pool : x \in Earlier[y] => Earlier[x] \subseteq Earlier[y]
  <2>1. \A x, y, z \in pool :
          /\ ~Sooner(x, x)
          /\ x # y => Sooner(x, y) \/ Sooner(y, x)
          /\ Sooner(z, x) /\ Sooner(x, y) => Sooner(z, y)
    BY <1>3, <1>4, <1>5
  <2>2. \A x, y \in pool : x \in Earlier[y] <=> Sooner(x, y)
    OBVIOUS
  <2>3. \A x \in pool : Earlier[x] \subseteq pool
    OBVIOUS
  <2> HIDE DEF Sooner, Earlier
  <2> QED
    BY <2>1, <2>2, <2>3
<1> HIDE DEF Earlier
<1>7. s \in Seq(pool)
  BY <1>2, <1>6, OrderedIn
<1> HIDE DEF s
<1>8. s \in Seq(robot.topics)
  BY <1>2, <1>7
<1>9. PICK m \in 0..Len(s) : StampedTopics(robot) = SubSeq(s, 1, m)
  <2>1. Len(s) \in Nat /\ FrameTopics = 3
    BY <1>8 DEF FrameTopics
  <2>2. /\ Min({FrameTopics, Len(s)}) \in {FrameTopics, Len(s)}
        /\ Min({FrameTopics, Len(s)}) <= Len(s)
    BY <2>1, SmallerOf
  <2>3. Min({FrameTopics, Len(s)}) \in 0..Len(s)
    BY <2>1, <2>2
  <2> QED
    BY <1>1, <2>3
<1>10. PICK T : T = robot.topics
  OBVIOUS
<1>11. m \in Int /\ 1 \in Int /\ \A i \in 1..m : s[i] \in T
  BY <1>8, <1>10
<1>12. SubSeq(s, 1, m) \in Seq(T)
  BY <1>11, SubSeqProperties
<1> QED
  BY <1>9, <1>10, <1>12

-----------------------------------------------------------------------------
(* The plan of a scope has each of its checks once.                        *)
LEMMA PlanOfScope ==
  ASSUME NEW scope \in {"all", "graph", "tf", "dds", "logs"}
  PROVE  /\ ScopeChecks(scope) \in Seq(Range(Checks))
         /\ \A i, j \in DOMAIN ScopeChecks(scope) :
              ScopeChecks(scope)[i] = ScopeChecks(scope)[j] => i = j
<1>1. CASE scope = "all"
  <2>1. ScopeChecks(scope) = Checks
    BY <1>1 DEF ScopeChecks
  <2>2. DOMAIN Checks = 1..7 /\ \A i \in 1..7 : Checks[i] \in Range(Checks)
    BY DEF Checks, Range
  <2>3. Checks \in Seq(Range(Checks))
    <3>1. Checks = [i \in 1..7 |-> Checks[i]]
      BY DEF Checks
    <3> QED
      BY <2>2, <3>1, SeqDef
  <2>4. \A i, j \in DOMAIN Checks : Checks[i] = Checks[j] => i = j
    BY DEF Checks
  <2> QED
    BY <2>1, <2>3, <2>4
<1>2. CASE scope = "graph"
  <2>1. ScopeChecks(scope) = <<"environment", "nodes", "topics", "responsiveness">>
    BY <1>2 DEF ScopeChecks
  <2> QED
    BY <2>1, RangesKnown
<1>3. CASE scope \notin {"all", "graph"}
  <2>1. ScopeChecks(scope) = <<"environment", scope>>
    BY <1>3 DEF ScopeChecks
  <2> QED
    BY <1>3, <2>1, RangesKnown
<1> QED
  BY <1>1, <1>2, <1>3

(* A sweep starts with its whole plan, and nothing found.                  *)
LEMMA InitSweepInv == Init => SweepInv
<1> SUFFICES ASSUME Init PROVE SweepInv
  OBVIOUS
<1>1. IsRobot(robot) /\ IsCall(ask)
  BY SweepsAssumption DEF Init
<1>2. left \in Nat
  <2>1. ask.budget \in Nat /\ ask.guard \in Nat /\ ask.guard >= Reserve /\ Reserve = 2
    BY <1>1 DEF IsCall, Reserve
  <2>2. ask.budget \in Int /\ ask.guard - Reserve \in Int /\ ask.guard - Reserve >= 0
    BY <2>1
  <2>3. Min({ask.budget, ask.guard - Reserve}) \in {ask.budget, ask.guard - Reserve}
    BY <2>2, SmallerOf
  <2>4. left = Min({ask.budget, ask.guard - Reserve})
    BY DEF Init
  <2> QED
    BY <2>1, <2>2, <2>3, <2>4
<1>3. /\ plan = ScopeChecks(ask.scope) /\ ran = {} /\ skipped = {} /\ findings = {}
      /\ stamped = <<>> /\ phase = "checks" /\ reading = NotReading
  BY DEF Init
<1>4. /\ plan \in Seq(Range(Checks))
      /\ \A i, j \in DOMAIN plan : plan[i] = plan[j] => i = j
  BY <1>1, <1>3, PlanOfScope DEF IsCall
<1>5. SweepTypeOK
  <2>1. NotReading \in ReadingShape
    BY DEF NotReading, ReadingShape
  <2> QED
    BY <1>1, <1>2, <1>3, <1>4, <2>1 DEF SweepTypeOK
<1>6. Planned
  BY <1>3, <1>4 DEF Planned
<1>7. AllSound /\ SilentSoFar /\ RanTold /\ NamedJudged
  BY <1>3 DEF AllSound, SilentSoFar, RanTold, NamedJudged, NotReading
<1> QED
  BY <1>5, <1>6, <1>7 DEF SweepInv

-----------------------------------------------------------------------------
(* What is said of the robot stays said: it does not change.               *)
LEMMA RobotStays ==
  ASSUME robot' = robot, ask' = ask
  PROVE  /\ IsRobot(robot)' <=> IsRobot(robot)
         /\ IsCall(ask)' <=> IsCall(ask)
         /\ NeverAnswers(ask.node)' <=> NeverAnswers(ask.node)
BY DEF IsRobot, IsCall, NeverAnswers

LEMMA SoundStays ==
  ASSUME robot' = robot, ask' = ask, NEW f
  PROVE  Sound(f)' <=> Sound(f)
<1>1. IsFinding(f)' <=> IsFinding(f)
  BY DEF IsFinding, FindingShape, AboutOf
<1>2. Earned(f)' <=> Earned(f)
  BY DEF Earned, Answers
<1> QED
  BY <1>1, <1>2 DEF Sound

(* A check that is skipped is out of the plan, and nothing else changes.   *)
LEMMA SkipStep ==
  ASSUME SweepInv, plan # <<>>, NEW why, SkipFor(Head(plan), why),
         left' \in Nat, reading' = reading, phase' = "checks"
  PROVE  SweepInv'
<1>1. /\ robot' = robot /\ ask' = ask /\ plan' = Tail(plan) /\ findings' = findings
      /\ ran' = ran /\ stamped' = stamped
      /\ skipped' = skipped \cup {<<Head(plan), why>>}
  BY DEF SkipFor
<1>2. /\ Tail(plan) \in Seq(Range(Checks)) /\ Range(plan) = {Head(plan)} \cup Range(Tail(plan))
      /\ \A i, j \in DOMAIN Tail(plan) : Tail(plan)[i] = Tail(plan)[j] => i = j
  BY TailOf DEF SweepInv, SweepTypeOK, Planned
<1>3. SweepTypeOK'
  BY <1>1, <1>2, RobotStays DEF SweepInv, SweepTypeOK
<1>4. Planned'
  <2>1. {x[1] : x \in skipped'} = {x[1] : x \in skipped} \cup {Head(plan)}
    <3> DEFINE entry == <<Head(plan), why>>
    <3>1. entry[1] = Head(plan) /\ skipped' = skipped \cup {entry}
      BY <1>1
    <3> HIDE DEF entry
    <3> QED
      BY <3>1
  <2>2. ran \cup {x[1] : x \in skipped} \cup Range(plan) = Range(ScopeChecks(ask.scope))
        /\ ran \cap Range(plan) = {}
    BY DEF SweepInv, Planned
  <2>3. ran \cup {x[1] : x \in skipped'} \cup Range(Tail(plan)) = Range(ScopeChecks(ask.scope))
        /\ ran \cap Range(Tail(plan)) = {}
    BY <1>2, <2>1, <2>2
  <2> QED
    BY <1>1, <1>2, <2>3 DEF Planned
<1>5. AllSound'
  BY <1>1, SoundStays DEF SweepInv, AllSound
<1>6. SilentSoFar' /\ RanTold'
  BY <1>1 DEF SweepInv, SilentSoFar, RanTold, Answers
<1>7. NamedJudged'
  BY <1>1, RobotStays DEF SweepInv, NamedJudged, Unjudged
<1> QED
  BY <1>3, <1>4, <1>5, <1>6, <1>7 DEF SweepInv

(* A check that ran is out of the plan, and told what it found.            *)
LEMMA DoneStep ==
  ASSUME SweepInv, NEW check, Due(check), NEW found, NEW learned, Done(check, found, learned),
         left' \in Nat, \A f \in found : Sound(f), check # "responsiveness",
         check = "nodes" => NodesFindings(robot) \subseteq found,
         check = "dds" => DdsFindings(robot) \subseteq found,
         check = "tf" => \E window \in Int : TfFindings(robot, window) \subseteq found,
         check = "logs" => \E seconds \in Nat \ {0} : LogFindings(robot, seconds) \subseteq found
  PROVE  SweepInv'
<1>1. /\ robot' = robot /\ ask' = ask /\ plan' = Tail(plan) /\ findings' = findings \cup found
      /\ ran' = ran \cup {check} /\ skipped' = skipped /\ reading' = reading
      /\ stamped' = stamped /\ phase' = phase
  BY DEF Done
<1>2. phase = "checks" /\ plan # <<>> /\ Head(plan) = check
  BY DEF Due
<1>3. /\ Tail(plan) \in Seq(Range(Checks)) /\ Range(plan) = {check} \cup Range(Tail(plan))
      /\ check \notin Range(Tail(plan))
      /\ \A i, j \in DOMAIN Tail(plan) : Tail(plan)[i] = Tail(plan)[j] => i = j
  BY <1>2, TailOf DEF SweepInv, SweepTypeOK, Planned
<1>4. SweepTypeOK'
  BY <1>1, <1>3, RobotStays DEF SweepInv, SweepTypeOK
<1>5. Planned'
  <2>1. ran \cup {x[1] : x \in skipped} \cup Range(plan) = Range(ScopeChecks(ask.scope))
        /\ ran \cap Range(plan) = {}
    BY DEF SweepInv, Planned
  <2>2. /\ (ran \cup {check}) \cup {x[1] : x \in skipped} \cup Range(Tail(plan))
             = Range(ScopeChecks(ask.scope))
        /\ (ran \cup {check}) \cap Range(Tail(plan)) = {}
    BY <1>3, <2>1
  <2> QED
    BY <1>1, <1>2, <1>3, <2>2 DEF Planned
<1>6. AllSound'
  BY <1>1, SoundStays DEF SweepInv, AllSound
<1>7. SilentSoFar' /\ RanTold'
  BY <1>1 DEF SweepInv, SilentSoFar, RanTold, Answers
<1>8. NamedJudged'
  BY <1>1, RobotStays DEF SweepInv, NamedJudged, Unjudged
<1> QED
  BY <1>4, <1>5, <1>6, <1>7, <1>8 DEF SweepInv

-----------------------------------------------------------------------------
(* What reading a node costs and says: never more than is left; a timeout  *)
(* only after MinWait; and of a node slower than any wait, no answer.      *)
LEMMA AnswersTyped ==
  ASSUME IsRobot(robot), NEW n, NEW a \in Answers(n)
  PROVE  a.after \in Nat /\ (a.kind = "no service" => a.after = 0)
<1>1. CASE n \in DOMAIN robot.reads
  BY <1>1 DEF Answers, IsRobot
<1>2. CASE n \notin DOMAIN robot.reads
  <2>1. a = NoAnswer
    BY <1>2 DEF Answers
  <2> QED
    BY <2>1 DEF NoAnswer
<1> QED
  BY <1>1, <1>2

LEMMA WaitTyped ==
  ASSUME left \in Nat, NEW timeout \in Nat, NEW d \in Nat
  PROVE  /\ Wait(timeout, d) \in Int /\ Wait(timeout, d) <= timeout
         /\ Wait(timeout, d) <= left - d - StopReserve
<1>1. left - d - StopReserve \in Int /\ timeout \in Int
  BY DEF StopReserve
<1> DEFINE rest == left - d - StopReserve
<1>2. Min({timeout, rest}) \in {timeout, rest} /\ Min({timeout, rest}) <= timeout
      /\ Min({timeout, rest}) <= rest
  BY <1>1, SmallerOf
<1>3. Wait(timeout, d) = Min({timeout, rest})
  BY DEF Wait
<1> HIDE DEF rest
<1>4. rest \in Int /\ rest = left - d - StopReserve
  BY <1>1 DEF rest
<1> QED
  BY <1>2, <1>3, <1>4

LEMMA ReadNodeResult ==
  ASSUME IsRobot(robot), left \in Nat, NEW n, NEW timeout \in Nat, NEW d \in Delays,
         NEW a \in Answers(n)
  PROVE  LET r == ReadNode(n, timeout, d, a) IN
         /\ r.spent \in Nat /\ r.spent <= left
         /\ r.status = "timeout" => a.after > MinWait
         /\ n \in DOMAIN robot.reads /\ a.after > NamedNodeRead /\ timeout <= NamedNodeRead =>
              r.status \in {"error", "no_budget", "timeout"}
<1> DEFINE r == ReadNode(n, timeout, d, a)
           wait == Wait(timeout, d)
           cost == Min({d, left})
           t == a.after
<1> SUFFICES /\ r.spent \in Nat /\ r.spent <= left
             /\ r.status = "timeout" => t > MinWait
             /\ n \in DOMAIN robot.reads /\ t > NamedNodeRead
                  /\ timeout <= NamedNodeRead => r.status \in {"error", "no_budget", "timeout"}
  OBVIOUS
<1>1. d \in Nat /\ d \in Int /\ left \in Int
  BY SweepsAssumption
<1>2. t \in Nat
  BY AnswersTyped
<1>3. a.kind = "no service" => t = 0
  BY AnswersTyped
<1>4. wait \in Int /\ wait <= timeout /\ wait <= left - d - 2
  BY <1>1, WaitTyped DEF StopReserve
<1>5. cost \in Nat /\ cost <= left
  <2>1. cost \in {d, left} /\ cost <= d /\ cost <= left
    BY <1>1, SmallerOf
  <2> HIDE DEF cost
  <2> QED
    BY <1>1, <2>1
<1>6. IsEnough(wait) <=> wait >= 2
  BY DEF IsEnough, MinWait
<1> DEFINE Gone == d > left \/ n \notin DOMAIN robot.reads
<1>7. r = IF Gone THEN Outcome("error", cost)
          ELSE IF a.kind = "no service" THEN Outcome("no_parameter_services", d)
          ELSE IF ~IsEnough(wait) THEN Outcome("no_budget", d)
          ELSE IF t > wait THEN Outcome("timeout", d + wait)
          ELSE Outcome(IF a.kind = "fails" THEN "failed" ELSE "read", d + t)
  BY DEF ReadNode
<1>8. \A status, spent : Outcome(status, spent).status = status
                         /\ Outcome(status, spent).spent = spent
  BY DEF Outcome
<1>9. ~Gone => d <= left
  BY <1>1
<1> HIDE DEF r, wait, cost, Gone, t
<1>10. CASE Gone
  <2>1. r.status = "error" /\ r.spent = cost
    BY <1>7, <1>8, <1>10
  <2>2. r.spent \in Nat /\ r.spent <= left
    BY <1>5, <2>1
  <2>3. r.status # "timeout"
    BY <2>1
  <2>4. r.status \in {"error", "no_budget", "timeout"}
    BY <2>1
  <2> QED
    BY <2>2, <2>3, <2>4
<1>11. CASE ~Gone /\ a.kind = "no service"
  <2>1. r.status = "no_parameter_services" /\ r.spent = d
    BY <1>7, <1>8, <1>11
  <2>2. r.spent \in Nat /\ r.spent <= left
    BY <1>1, <1>9, <1>11, <2>1
  <2>3. ~(t > NamedNodeRead)
    <3>1. t = 0
      BY <1>3, <1>11
    <3> QED
      BY <3>1 DEF NamedNodeRead
  <2>4. r.status # "timeout"
    BY <2>1
  <2> QED
    BY <2>2, <2>3, <2>4
<1>12. CASE ~Gone /\ a.kind # "no service" /\ ~IsEnough(wait)
  <2>1. r.status = "no_budget" /\ r.spent = d
    BY <1>7, <1>8, <1>12
  <2>2. r.spent \in Nat /\ r.spent <= left
    BY <1>1, <1>9, <1>12, <2>1
  <2>3. r.status # "timeout" /\ r.status \in {"error", "no_budget", "timeout"}
    BY <2>1
  <2> QED
    BY <2>2, <2>3
<1>13. CASE ~Gone /\ a.kind # "no service" /\ IsEnough(wait) /\ t > wait
  <2>1. r.status = "timeout" /\ r.spent = d + wait
    BY <1>7, <1>8, <1>13
  <2>2. wait >= 2 /\ t > wait
    BY <1>6, <1>13
  <2>3. r.spent \in Nat /\ r.spent <= left /\ t > MinWait
    BY <1>1, <1>2, <1>4, <2>1, <2>2 DEF MinWait
  <2>4. r.status \in {"error", "no_budget", "timeout"}
    BY <2>1
  <2> QED
    BY <2>2, <2>3, <2>4
<1>14. CASE ~Gone /\ a.kind # "no service" /\ IsEnough(wait) /\ ~(t > wait)
  <2>1. r.status \in {"failed", "read"} /\ r.spent = d + t
    BY <1>7, <1>8, <1>14
  <2>2. ~(t > wait)
    BY <1>14
  <2>3. r.spent \in Nat /\ r.spent <= left
    BY <1>1, <1>2, <1>4, <2>1, <2>2
  <2>4. timeout <= NamedNodeRead => ~(t > NamedNodeRead)
    BY <1>2, <1>4, <2>2 DEF NamedNodeRead
  <2>5. r.status # "timeout"
    BY <2>1
  <2> QED
    BY <2>3, <2>4, <2>5
<1> QED
  BY <1>10, <1>11, <1>12, <1>13, <1>14

-----------------------------------------------------------------------------
(* The loop over the nodes.  While it runs its check is not in ran yet, so *)
(* what it must keep is what it owes the named node.                       *)
LEMMA NotRanYet == SweepInv /\ phase = "reading" => "responsiveness" \notin ran
<1> SUFFICES ASSUME SweepInv, phase = "reading" PROVE "responsiveness" \notin ran
  OBVIOUS
<1>1. plan \in Seq(Range(Checks)) /\ plan # <<>> /\ Head(plan) = "responsiveness"
  BY DEF SweepInv, SweepTypeOK, Planned
<1>2. "responsiveness" \in Range(plan)
  BY <1>1, TailOf
<1> QED
  BY <1>2 DEF SweepInv, Planned

LEMMA LoopStep ==
  ASSUME SweepInv, phase = "reading", InReading, left' \in Nat, reading' \in ReadingShape,
         \A f \in reading'.found : Sound(f),
         reading'.again # None =>
           reading'.again # ask.node /\ \E a \in Answers(reading'.again) : a.after > MinWait,
         NeverAnswers(ask.node) =>
           \/ ask.node \in Range(reading'.todo)
           \/ ask.node \in reading'.untested \cup reading'.unreadable
           \/ Silent(ask.node, TRUE) \in reading'.found
  PROVE  SweepInv'
<1>1. /\ robot' = robot /\ ask' = ask /\ plan' = plan /\ findings' = findings
      /\ ran' = ran /\ skipped' = skipped /\ stamped' = stamped /\ phase' = phase
  BY DEF InReading
<1>2. SweepTypeOK'
  <2>1. ReadingShape' = ReadingShape
    BY DEF ReadingShape, FindingShape
  <2> QED
    BY <1>1, <2>1, RobotStays DEF SweepInv, SweepTypeOK
<1>3. Planned'
  BY <1>1 DEF SweepInv, Planned
<1>4. AllSound'
  BY <1>1, SoundStays DEF SweepInv, AllSound
<1>5. SilentSoFar'
  BY <1>1 DEF SilentSoFar, Answers
<1>6. RanTold'
  BY <1>1 DEF SweepInv, RanTold
<1>7. NamedJudged'
  BY <1>1, NotRanYet, RobotStays DEF NamedJudged, Unjudged
<1> QED
  BY <1>2, <1>3, <1>4, <1>5, <1>6, <1>7 DEF SweepInv

(* A node that never answers is one the robot could be asked about.        *)
LEMMA NeverAnswersNamed ==
  ASSUME IsRobot(robot), NEW n, NeverAnswers(n)
  PROVE  n \in DOMAIN robot.reads /\ n \in Names /\ n # None
<1>1. n \in DOMAIN robot.reads /\ DOMAIN robot.reads \subseteq Names
  BY DEF NeverAnswers, IsRobot
<1> QED
  BY <1>1, AmongNames

LEMMA StartReadingStep == SweepInv /\ StartReading => SweepInv'
<1> SUFFICES ASSUME SweepInv, StartReading PROVE SweepInv'
  OBVIOUS
<1> DEFINE todo == Candidates(robot, ask.node, "nodes" \in known)
<1>1. /\ robot' = robot /\ ask' = ask /\ left' = left /\ plan' = plan /\ findings' = findings
      /\ ran' = ran /\ skipped' = skipped /\ stamped' = stamped /\ phase' = "reading"
      /\ phase = "checks" /\ plan # <<>> /\ Head(plan) = "responsiveness"
  BY DEF StartReading, Due
<1>2. todo \in Seq(Names) /\ (ask.node # None => ask.node \in Range(todo))
  <2>1. IsRobot(robot) /\ ask.node \in Names \cup {None}
    BY DEF SweepInv, SweepTypeOK, IsCall
  <2> QED
    BY <2>1, CandidatesTyped
<1>3. reading' = [NotReading EXCEPT !.todo = todo]
  BY DEF StartReading
<1> HIDE DEF todo
<1>4. /\ reading'.todo = todo /\ reading'.again = None /\ reading'.found = {}
      /\ reading' \in ReadingShape
  BY <1>2, <1>3 DEF NotReading, ReadingShape
<1>5. SweepTypeOK'
  <2>1. ReadingShape' = ReadingShape
    BY DEF ReadingShape, FindingShape
  <2> QED
    BY <1>1, <1>4, <2>1, RobotStays DEF SweepInv, SweepTypeOK
<1>6. Planned'
  BY <1>1 DEF SweepInv, Planned
<1>7. AllSound'
  BY <1>1, <1>4, SoundStays DEF SweepInv, AllSound
<1>8. SilentSoFar' /\ RanTold'
  BY <1>1, <1>4 DEF SweepInv, SilentSoFar, RanTold
<1>9. NamedJudged'
  <2>1. "responsiveness" \notin ran
    <3>1. plan \in Seq(Range(Checks))
      BY DEF SweepInv, SweepTypeOK
    <3>2. "responsiveness" \in Range(plan)
      BY <1>1, <3>1, TailOf
    <3> QED
      BY <3>2 DEF SweepInv, Planned
  <2>2. NeverAnswers(ask.node) => ask.node \in Range(todo)
    BY <1>2, NeverAnswersNamed DEF SweepInv, SweepTypeOK
  <2> QED
    BY <1>1, <1>4, <2>1, <2>2, RobotStays DEF NamedJudged
<1> QED
  BY <1>5, <1>6, <1>7, <1>8, <1>9 DEF SweepInv

(* What the loop owes the named node, before a step of it.                 *)
LEMMA OwedToNamed ==
  ASSUME SweepInv, phase = "reading", NeverAnswers(ask.node)
  PROVE  \/ ask.node \in Range(reading.todo)
         \/ ask.node \in reading.untested \cup reading.unreadable
         \/ Silent(ask.node, TRUE) \in reading.found
BY DEF SweepInv, NamedJudged, Unjudged

LEMMA OutOfTimeStep == SweepInv /\ OutOfTime => SweepInv'
<1> SUFFICES ASSUME SweepInv, OutOfTime PROVE SweepInv'
  OBVIOUS
<1>1. /\ phase = "reading" /\ InReading /\ left' = left /\ reading.again = None
      /\ reading' = [reading EXCEPT !.untested = @ \cup Range(reading.todo), !.todo = <<>>]
  BY DEF OutOfTime, Reading
<1>2. reading \in ReadingShape /\ left \in Nat
  BY DEF SweepInv, SweepTypeOK
<1>3. Range(reading.todo) \subseteq Names
  <2>1. reading.todo \in Seq(Names)
    BY <1>2 DEF ReadingShape
  <2> QED
    BY <2>1 DEF Range
<1>4. /\ reading' \in ReadingShape /\ reading'.found = reading.found /\ reading'.again = None
      /\ reading'.untested = reading.untested \cup Range(reading.todo)
      /\ reading'.unreadable = reading.unreadable
  <2> DEFINE more == reading.untested \cup Range(reading.todo)
  <2>1. more \in SUBSET Names /\ <<>> \in Seq(Names)
    BY <1>2, <1>3 DEF ReadingShape
  <2>2. reading' = [reading EXCEPT !.untested = more, !.todo = <<>>]
    BY <1>1
  <2>3. more = reading.untested \cup Range(reading.todo)
    OBVIOUS
  <2> HIDE DEF more
  <2> QED
    BY <1>1, <1>2, <2>1, <2>2, <2>3 DEF ReadingShape
<1>5. \A f \in reading'.found : Sound(f)
  BY <1>4 DEF SweepInv, AllSound
<1>6. NeverAnswers(ask.node) =>
        \/ ask.node \in reading'.untested \cup reading'.unreadable
        \/ Silent(ask.node, TRUE) \in reading'.found
  BY <1>1, <1>4, OwedToNamed
<1> QED
  BY <1>1, <1>2, <1>4, <1>5, <1>6, LoopStep

LEMMA SettledStep ==
  ASSUME SweepInv, phase = "reading", reading.again # None, InReading, left' \in Nat,
         NEW silent, reading' = Settled(silent)
  PROVE  SweepInv'
<1> DEFINE n == reading.again
<1>1. reading \in ReadingShape /\ n \in Names /\ n # ask.node /\ n # None
      /\ \E a \in Answers(n) : a.after > MinWait
  <2>1. reading \in ReadingShape /\ reading.again \in Names \cup {None}
    BY DEF SweepInv, SweepTypeOK, ReadingShape
  <2> QED
    BY <2>1 DEF SweepInv, SilentSoFar
<1> HIDE DEF n
<1>2. Sound(Silent(n, FALSE)) /\ Silent(n, FALSE) \in FindingShape
  <2>1. Sound(Silent(n, FALSE))
    BY <1>1, SilentSound
  <2> QED
    BY <2>1 DEF Sound, IsFinding
<1>3. reading' = [reading EXCEPT !.again = None,
                                 !.found = @ \cup When(silent, {Silent(n, FALSE)})]
  BY DEF Settled, n
<1>4. When(silent, {Silent(n, FALSE)}) \subseteq {Silent(n, FALSE)}
  BY DEF When
<1>5. /\ reading' \in ReadingShape /\ reading'.again = None /\ reading'.todo = reading.todo
      /\ reading'.untested = reading.untested /\ reading'.unreadable = reading.unreadable
      /\ reading'.found \subseteq reading.found \cup {Silent(n, FALSE)}
      /\ reading.found \subseteq reading'.found
  BY <1>1, <1>2, <1>3, <1>4 DEF ReadingShape
<1>6. \A f \in reading'.found : Sound(f)
  BY <1>2, <1>5 DEF SweepInv, AllSound
<1>7. NeverAnswers(ask.node) =>
        \/ ask.node \in Range(reading'.todo)
        \/ ask.node \in reading'.untested \cup reading'.unreadable
        \/ Silent(ask.node, TRUE) \in reading'.found
  BY <1>5, OwedToNamed
<1> QED
  BY <1>5, <1>6, <1>7, LoopStep

LEMMA RetrySteps == SweepInv /\ (Retry \/ NoRetry) => SweepInv'
<1>1. ASSUME SweepInv, NoRetry PROVE SweepInv'
  <2>1. /\ phase = "reading" /\ reading.again # None /\ reading' = Settled(TRUE)
        /\ left' = left /\ InReading
    BY <1>1 DEF NoRetry
  <2>2. left' \in Nat
    BY <1>1, <2>1 DEF SweepInv, SweepTypeOK
  <2> QED
    BY <1>1, <2>1, <2>2, SettledStep
<1>2. ASSUME SweepInv, Retry PROVE SweepInv'
  <2>1. /\ phase = "reading" /\ reading.again # None /\ InReading
        /\ \E d \in Delays, a \in Answers(reading.again) :
             LET r == ReadNode(reading.again, NodeRead, d, a)
             IN  left' = left - r.spent /\ reading' = Settled(r.status \in {"timeout", "error"})
    BY <1>2 DEF Retry
  <2>2. PICK d \in Delays, a \in Answers(reading.again) :
          LET r == ReadNode(reading.again, NodeRead, d, a)
          IN  left' = left - r.spent /\ reading' = Settled(r.status \in {"timeout", "error"})
    BY <2>1
  <2> DEFINE r == ReadNode(reading.again, NodeRead, d, a)
  <2>3. left' = left - r.spent /\ reading' = Settled(r.status \in {"timeout", "error"})
    BY <2>2
  <2>4. IsRobot(robot) /\ left \in Nat /\ NodeRead \in Nat
    BY <1>2 DEF SweepInv, SweepTypeOK, NodeRead
  <2>5. r.spent \in Nat /\ r.spent <= left
    BY <2>4, ReadNodeResult
  <2> HIDE DEF r
  <2>6. left' \in Nat
    BY <2>3, <2>4, <2>5
  <2> QED
    BY <1>2, <2>1, <2>3, <2>6, SettledStep
<1> QED
  BY <1>1, <1>2

(* One node read, whatever comes of it.                                    *)
LEMMA TimeoutTyped ==
  ASSUME left \in Nat, NEW n
  PROVE  Timeout(n) \in Nat /\ Timeout(n) <= NamedNodeRead
<1> DEFINE most == IF n = ask.node THEN NamedNodeRead ELSE NodeRead
<1>1. most \in Nat /\ most \in Int /\ left \in Int /\ most <= NamedNodeRead
  BY DEF NamedNodeRead, NodeRead
<1>2. Timeout(n) = Min({most, left})
  BY DEF Timeout
<1> HIDE DEF most
<1>3. Min({most, left}) \in {most, left} /\ Min({most, left}) <= most
  BY <1>1, SmallerOf
<1>4. NamedNodeRead \in Int
  BY DEF NamedNodeRead
<1> QED
  BY <1>1, <1>2, <1>3, <1>4

LEMMA JudgedFields ==
  ASSUME reading \in ReadingShape, NEW n, NEW r
  PROVE  /\ Judged(n, r).todo = Tail(reading.todo)
         /\ Judged(n, r).untested =
              IF r.status = "no_budget" THEN reading.untested \cup {n} ELSE reading.untested
         /\ Judged(n, r).unreadable =
              IF r.status \in {"error", "failed"} THEN reading.unreadable \cup {n}
              ELSE reading.unreadable
         /\ Judged(n, r).again = IF r.status = "timeout" /\ n # ask.node THEN n ELSE None
         /\ Judged(n, r).found =
              reading.found \cup When(r.status = "timeout" /\ n = ask.node, {Silent(n, TRUE)})
              \cup When(n = ask.node /\ ask.params /\ r.status # "error",
                        ParamFindings(robot, n, r.status = "read"))
         /\ Judged(n, r).answered \in BOOLEAN
         /\ DOMAIN Judged(n, r) = DOMAIN reading
         /\ Judged(n, r) = [x \in DOMAIN reading |-> Judged(n, r)[x]]
<1> DEFINE t == Tail(reading.todo)
           u == IF r.status = "no_budget" THEN reading.untested \cup {n} ELSE reading.untested
           g == IF r.status \in {"error", "failed"} THEN reading.unreadable \cup {n}
                ELSE reading.unreadable
           b == reading.answered \/ r.status \in {"timeout", "read", "no_parameter_services"}
           w == IF r.status = "timeout" /\ n # ask.node THEN n ELSE None
           o == reading.found \cup When(r.status = "timeout" /\ n = ask.node, {Silent(n, TRUE)})
                \cup When(n = ask.node /\ ask.params /\ r.status # "error",
                          ParamFindings(robot, n, r.status = "read"))
<1>1. Judged(n, r) = [reading EXCEPT !.todo = t, !.untested = u, !.unreadable = g,
                                     !.answered = b, !.again = w, !.found = o]
  BY Zenon DEF Judged
<1>2. b \in BOOLEAN
  OBVIOUS
<1>3. DOMAIN reading = {"todo", "again", "untested", "unreadable", "answered", "found"}
  BY DEF ReadingShape
<1> HIDE DEF t, u, g, b, w, o
<1>4. /\ Judged(n, r).todo = t /\ Judged(n, r).untested = u /\ Judged(n, r).unreadable = g
      /\ Judged(n, r).answered = b /\ Judged(n, r).again = w /\ Judged(n, r).found = o
      /\ DOMAIN Judged(n, r) = DOMAIN reading
      /\ Judged(n, r) = [x \in DOMAIN reading |-> Judged(n, r)[x]]
  BY <1>1, <1>3
<1> QED
  BY <1>2, <1>4 DEF t, u, g, b, w, o

LEMMA JudgedStep ==
  ASSUME SweepInv, Reading, InReading, left' \in Nat, NEW r, NEW a \in Answers(Head(reading.todo)),
         reading' = Judged(Head(reading.todo), r),
         r.status = "timeout" => a.after > MinWait,
         Head(reading.todo) \in DOMAIN robot.reads /\ a.after > NamedNodeRead =>
           r.status \in {"error", "no_budget", "timeout"}
  PROVE  SweepInv'
<1> DEFINE n == Head(reading.todo)
           j == Judged(n, r)
<1>1. reading \in ReadingShape /\ IsRobot(robot) /\ phase = "reading" /\ reading.todo # <<>>
  BY DEF SweepInv, SweepTypeOK, Reading
<1>2. /\ n \in Names /\ Tail(reading.todo) \in Seq(Names)
      /\ Range(reading.todo) = {n} \cup Range(Tail(reading.todo))
  <2>1. reading.todo \in Seq(Names)
    BY <1>1 DEF ReadingShape
  <2> QED
    BY <1>1, <2>1, TailOf
<1>3. reading' = j
  OBVIOUS
<1>4. /\ r.status = "timeout" => a.after > MinWait
      /\ n \in DOMAIN robot.reads /\ a.after > NamedNodeRead =>
           r.status \in {"error", "no_budget", "timeout"}
      /\ a \in Answers(n)
  OBVIOUS
<1> HIDE DEF n
<1>5. /\ j.todo = Tail(reading.todo)
      /\ j.untested = IF r.status = "no_budget" THEN reading.untested \cup {n} ELSE reading.untested
      /\ j.unreadable = IF r.status \in {"error", "failed"} THEN reading.unreadable \cup {n}
                        ELSE reading.unreadable
      /\ j.again = IF r.status = "timeout" /\ n # ask.node THEN n ELSE None
      /\ j.found = reading.found
           \cup When(r.status = "timeout" /\ n = ask.node, {Silent(n, TRUE)})
           \cup When(n = ask.node /\ ask.params /\ r.status # "error",
                     ParamFindings(robot, n, r.status = "read"))
      /\ j.answered \in BOOLEAN
      /\ DOMAIN j = DOMAIN reading
      /\ j = [x \in DOMAIN reading |-> j[x]]
  BY <1>1, JudgedFields
<1> HIDE DEF j
<1>6. \A f \in j.found : Sound(f)
  <2>1. \A f \in reading.found : Sound(f)
    BY DEF SweepInv, AllSound
  <2>2. r.status = "timeout" /\ n = ask.node => Sound(Silent(n, TRUE))
    <3>1. ASSUME r.status = "timeout", n = ask.node PROVE Sound(Silent(n, TRUE))
      <4>1. \E x \in Answers(n) : x.after > MinWait
        BY <1>4, <3>1
      <4> QED
        BY <1>2, <3>1, <4>1, SilentSound
    <3> QED
      BY <3>1
  <2>3. \A f \in ParamFindings(robot, n, r.status = "read") : Sound(f)
    BY <1>2, NodeFindingsSound
  <2> QED
    BY <1>5, <2>1, <2>2, <2>3 DEF When
<1>7. j.found \in SUBSET FindingShape
  BY <1>6 DEF Sound, IsFinding
<1>8. j \in ReadingShape
  <2>1. /\ DOMAIN reading = {"todo", "again", "untested", "unreadable", "answered", "found"}
        /\ reading.untested \in SUBSET Names /\ reading.unreadable \in SUBSET Names
    BY <1>1 DEF ReadingShape
  <2>2. /\ j.todo \in Seq(Names) /\ j.again \in Names \cup {None}
        /\ j.untested \in SUBSET Names /\ j.unreadable \in SUBSET Names
    BY <1>2, <1>5, <2>1
  <2> QED
    BY <1>5, <1>7, <2>1, <2>2 DEF ReadingShape
<1>9. j.again # None => j.again # ask.node /\ \E x \in Answers(j.again) : x.after > MinWait
  <2>1. ASSUME j.again # None PROVE j.again = n /\ n # ask.node /\ r.status = "timeout"
    BY <1>5, <2>1
  <2> QED
    BY <1>4, <2>1
<1>10. NeverAnswers(ask.node) =>
         \/ ask.node \in Range(j.todo)
         \/ ask.node \in j.untested \cup j.unreadable
         \/ Silent(ask.node, TRUE) \in j.found
  <2> SUFFICES ASSUME NeverAnswers(ask.node)
               PROVE  \/ ask.node \in Range(j.todo)
                      \/ ask.node \in j.untested \cup j.unreadable
                      \/ Silent(ask.node, TRUE) \in j.found
    OBVIOUS
  <2>1. CASE ask.node = n
    <3>1. n \in DOMAIN robot.reads /\ a.after > NamedNodeRead
      BY <1>4, <2>1 DEF NeverAnswers, Answers
    <3>2. r.status \in {"error", "no_budget", "timeout"}
      BY <1>4, <3>1
    <3>3. CASE r.status = "timeout"
      BY <1>5, <2>1, <3>3 DEF When
    <3>4. CASE r.status \in {"error", "no_budget"}
      BY <1>5, <2>1, <3>4
    <3> QED
      BY <3>2, <3>3, <3>4
  <2>2. CASE ask.node # n
    <3>1. \/ ask.node \in Range(Tail(reading.todo))
          \/ ask.node \in reading.untested \cup reading.unreadable
          \/ Silent(ask.node, TRUE) \in reading.found
      BY <1>1, <1>2, <2>2, OwedToNamed
    <3>2. reading.untested \subseteq j.untested /\ reading.unreadable \subseteq j.unreadable
          /\ reading.found \subseteq j.found /\ j.todo = Tail(reading.todo)
      BY <1>5
    <3> QED
      BY <3>1, <3>2
  <2> QED
    BY <2>1, <2>2
<1> QED
  BY <1>1, <1>3, <1>6, <1>8, <1>9, <1>10, LoopStep

LEMMA ReadStep == SweepInv /\ Read => SweepInv'
<1> SUFFICES ASSUME SweepInv, Read PROVE SweepInv'
  OBVIOUS
<1> DEFINE n == Head(reading.todo)
<1>1. Reading /\ InReading
  BY DEF Read
<1>2. PICK d \in Delays, a \in Answers(n) :
        LET r == ReadNode(n, Timeout(n), d, a)
        IN  left' = left - r.spent /\ reading' = Judged(n, r)
  BY DEF Read
<1> DEFINE r == ReadNode(n, Timeout(n), d, a)
<1>3. left' = left - r.spent /\ reading' = Judged(n, r)
  BY <1>2
<1>4. IsRobot(robot) /\ left \in Nat
  BY DEF SweepInv, SweepTypeOK
<1>5. Timeout(n) \in Nat /\ Timeout(n) <= NamedNodeRead
  BY <1>4, TimeoutTyped
<1>6. /\ r.spent \in Nat /\ r.spent <= left
      /\ r.status = "timeout" => a.after > MinWait
      /\ n \in DOMAIN robot.reads /\ a.after > NamedNodeRead =>
           r.status \in {"error", "no_budget", "timeout"}
  BY <1>4, <1>5, ReadNodeResult
<1> HIDE DEF r
<1>7. left' \in Nat
  BY <1>3, <1>4, <1>6
<1> QED
  BY <1>1, <1>3, <1>6, <1>7, JudgedStep

-----------------------------------------------------------------------------
(* The end of the loop, and the frames sampled after the checks.           *)
LEMMA NoneReadStep == SweepInv /\ NoneRead => SweepInv'
<1> SUFFICES ASSUME SweepInv, NoneRead PROVE SweepInv'
  OBVIOUS
<1>1. /\ phase = "reading" /\ SkipFor("responsiveness", "adapter error")
      /\ left' = left /\ reading' = reading /\ phase' = "checks"
  BY DEF NoneRead, Concluded
<1>2. plan # <<>> /\ Head(plan) = "responsiveness" /\ left \in Nat
  BY <1>1 DEF SweepInv, Planned, SweepTypeOK
<1> QED
  BY <1>1, <1>2, SkipStep

LEMMA ReadingDoneStep == SweepInv /\ ReadingDone => SweepInv'
<1> SUFFICES ASSUME SweepInv, ReadingDone PROVE SweepInv'
  OBVIOUS
<1> DEFINE more == UnjudgedFindings(reading.unreadable, reading.untested)
<1>1. /\ robot' = robot /\ ask' = ask /\ left' = left /\ plan' = Tail(plan)
      /\ findings' = findings \cup reading.found \cup more
      /\ ran' = ran \cup {"responsiveness"} /\ skipped' = skipped /\ reading' = reading
      /\ stamped' = stamped /\ phase' = "checks" /\ phase = "reading" /\ reading.todo = <<>>
  BY DEF ReadingDone, Concluded
<1>2. plan \in Seq(Range(Checks)) /\ plan # <<>> /\ Head(plan) = "responsiveness"
  BY <1>1 DEF SweepInv, SweepTypeOK, Planned
<1>3. /\ Tail(plan) \in Seq(Range(Checks))
      /\ Range(plan) = {"responsiveness"} \cup Range(Tail(plan))
      /\ "responsiveness" \notin Range(Tail(plan))
      /\ \A i, j \in DOMAIN Tail(plan) : Tail(plan)[i] = Tail(plan)[j] => i = j
  BY <1>2, TailOf DEF SweepInv, Planned
<1>4. \A f \in more : Sound(f)
  <2>1. "nodes" \in Range(Checks) /\ "nodes" # None
    BY RangesKnown DEF None
  <2>2. "nodes" \in Names
    BY <2>1, AlphabetAssumption DEF Names
  <2> QED
    BY <2>2, NodeFindingsSound
<1> HIDE DEF more
<1>5. SweepTypeOK'
  <2>1. ReadingShape' = ReadingShape
    BY DEF ReadingShape, FindingShape
  <2> QED
    BY <1>1, <1>3, <2>1, RobotStays DEF SweepInv, SweepTypeOK
<1>6. Planned'
  <2>1. ran \cup {x[1] : x \in skipped} \cup Range(plan) = Range(ScopeChecks(ask.scope))
        /\ ran \cap Range(plan) = {}
    BY DEF SweepInv, Planned
  <2>2. /\ (ran \cup {"responsiveness"}) \cup {x[1] : x \in skipped} \cup Range(Tail(plan))
             = Range(ScopeChecks(ask.scope))
        /\ (ran \cup {"responsiveness"}) \cap Range(Tail(plan)) = {}
    BY <1>3, <2>1
  <2> QED
    BY <1>1, <1>3, <2>2 DEF Planned
<1>7. AllSound'
  BY <1>1, <1>4, SoundStays DEF SweepInv, AllSound
<1>8. SilentSoFar' /\ RanTold'
  BY <1>1 DEF SweepInv, SilentSoFar, RanTold, Answers
<1>9. NamedJudged'
  <2>1. Range(reading.todo) = {}
    BY <1>1 DEF Range
  <2>2. NeverAnswers(ask.node) => Unjudged \/ Silent(ask.node, TRUE) \in findings'
    BY <1>1, <2>1 DEF SweepInv, NamedJudged
  <2> QED
    BY <1>1, <2>2, RobotStays DEF NamedJudged, Unjudged
<1> QED
  BY <1>5, <1>6, <1>7, <1>8, <1>9 DEF SweepInv

LEMMA FramesSteps == SweepInv /\ (StartFrames \/ SampleFrame \/ Assemble) => SweepInv'
<1> SUFFICES ASSUME SweepInv, StartFrames \/ SampleFrame \/ Assemble PROVE SweepInv'
  OBVIOUS
<1>1. /\ robot' = robot /\ ask' = ask /\ plan' = plan /\ ran' = ran /\ skipped' = skipped
      /\ reading' = reading /\ phase' \in {"frames", "done"} /\ plan = <<>>
  BY DEF SweepInv, Planned, StartFrames, SampleFrame, Assemble
<1>2. IsRobot(robot) /\ stamped \in Seq(robot.topics) /\ left \in Nat
  BY DEF SweepInv, SweepTypeOK
<1>3. left' \in Nat
  <2>1. CASE StartFrames \/ Assemble
    BY <1>2, <2>1 DEF StartFrames, Assemble
  <2>2. CASE SampleFrame
    <3>1. PICK d \in Delays : left' = left - Min({d, FrameSample, left})
      BY <2>2 DEF SampleFrame
    <3> DEFINE taken == Min({d, FrameSample, left})
    <3>2. d \in Int /\ FrameSample = 4 /\ d >= 0
      BY SweepsAssumption DEF FrameSample
    <3>3. \E x \in {d, FrameSample, left} : \A y \in {d, FrameSample, left} : x =< y
      <4>1. (d <= 4 /\ d <= left) \/ (4 <= d /\ 4 <= left) \/ (left <= d /\ left <= 4)
        BY <1>2, <3>2
      <4> QED
        BY <1>2, <3>2, <4>1
    <3>4. taken \in {d, FrameSample, left} /\ taken =< left
      BY <3>3 DEF Min
    <3> HIDE DEF taken
    <3>5. taken \in Nat /\ taken <= left
      BY <1>2, <3>2, <3>4
    <3>6. left' = left - taken
      BY <3>1 DEF taken
    <3> QED
      BY <1>2, <3>5, <3>6
  <2> QED
    BY <2>1, <2>2
<1>4. stamped' \in Seq(robot.topics)
  <2>1. CASE StartFrames
    <3>1. <<>> \in Seq(robot.topics) /\ StampedTopics(robot) \in Seq(robot.topics)
      BY <1>2, StampedTyped
    <3> QED
      BY <2>1, <3>1 DEF StartFrames
  <2>2. CASE SampleFrame
    <3>1. stamped # <<>> /\ stamped' = Tail(stamped)
      BY <2>2 DEF SampleFrame
    <3> QED
      BY <1>2, <3>1, TailOf
  <2>3. CASE Assemble
    BY <1>2, <2>3 DEF Assemble
  <2> QED
    BY <2>1, <2>2, <2>3
<1>5. findings \subseteq findings' /\ \A f \in findings' : Sound(f)
  <2>1. \A f \in findings : Sound(f)
    BY DEF SweepInv, AllSound
  <2>2. CASE StartFrames \/ Assemble
    BY <2>1, <2>2 DEF StartFrames, Assemble
  <2>3. CASE SampleFrame
    <3>1. /\ stamped # <<>>
          /\ findings' \in {findings, findings \cup FrameFindings(robot, Head(stamped))}
      BY <2>3 DEF SampleFrame
    <3>2. Head(stamped) \in robot.topics
      BY <1>2, <3>1, TailOf
    <3>3. \A f \in FrameFindings(robot, Head(stamped)) : Sound(f)
      BY <1>2, <3>2, FrameFindingsSound
    <3> QED
      BY <2>1, <3>1, <3>3
  <2> QED
    BY <2>2, <2>3
<1>6. SweepTypeOK'
  <2>1. ReadingShape' = ReadingShape
    BY DEF ReadingShape, FindingShape
  <2> QED
    BY <1>1, <1>3, <1>4, <2>1, RobotStays DEF SweepInv, SweepTypeOK
<1>7. Planned'
  BY <1>1 DEF SweepInv, Planned
<1>8. AllSound'
  BY <1>1, <1>5, SoundStays DEF SweepInv, AllSound
<1>9. SilentSoFar'
  BY <1>1 DEF SweepInv, SilentSoFar, Answers
<1>10. RanTold'
  BY <1>1, <1>5 DEF SweepInv, RanTold
<1>11. NamedJudged'
  BY <1>1, <1>5, RobotStays DEF SweepInv, NamedJudged, Unjudged
<1> QED
  BY <1>6, <1>7, <1>8, <1>9, <1>10, <1>11 DEF SweepInv

-----------------------------------------------------------------------------
(* The checks: each is skipped, raises, or runs on time that is left.      *)
LEMMA SkippedSteps ==
  ASSUME SweepInv,
         (\E c \in Range(Checks) : Skip(c) \/ Raises(c)) \/ TfSkip \/ NoNodeList
  PROVE  SweepInv'
<1>1. left \in Nat
  BY DEF SweepInv, SweepTypeOK
<1>2. ASSUME NEW c, Skip(c) PROVE SweepInv'
  <2>1. plan # <<>> /\ SkipFor(Head(plan), Reason(c)) /\ left' = left /\ reading' = reading
        /\ phase' = "checks"
    BY <1>2 DEF Skip, Due
  <2> QED
    BY <1>1, <2>1, SkipStep
<1>3. ASSUME NEW c, Raises(c) PROVE SweepInv'
  <2>1. plan # <<>> /\ SkipFor(Head(plan), "adapter error") /\ reading' = reading
        /\ phase' = "checks" /\ \E d \in Delays : left' = Max({0, left - d})
    BY <1>3 DEF Raises, Due
  <2>2. PICK d \in Delays : left' = Max({0, left - d})
    BY <2>1
  <2>3. 0 \in Int /\ left - d \in Int
    BY <1>1, SweepsAssumption
  <2>4. left' \in {0, left - d} /\ left' >= 0
    BY <2>2, <2>3, LargerOf
  <2>5. left' \in Nat
    BY <2>3, <2>4
  <2> QED
    BY <2>1, <2>5, SkipStep
<1>4. ASSUME TfSkip PROVE SweepInv'
  <2>1. plan # <<>> /\ SkipFor(Head(plan), "budget") /\ left' = left /\ reading' = reading
        /\ phase' = "checks"
    BY <1>4 DEF TfSkip, Due
  <2> QED
    BY <1>1, <2>1, SkipStep
<1>5. ASSUME NoNodeList PROVE SweepInv'
  <2>1. plan # <<>> /\ SkipFor(Head(plan), "adapter error") /\ left' = left
        /\ reading' = reading /\ phase' = "checks"
    BY <1>5 DEF NoNodeList, Due
  <2> QED
    BY <1>1, <2>1, SkipStep
<1> QED
  BY <1>2, <1>3, <1>4, <1>5

LEMMA QuerySteps ==
  SweepInv /\ (CheckEnvironment \/ CheckNodes \/ CheckTopics \/ CheckDds) => SweepInv'
<1> SUFFICES ASSUME SweepInv, CheckEnvironment \/ CheckNodes \/ CheckTopics \/ CheckDds
             PROVE  SweepInv'
  OBVIOUS
<1>1. IsRobot(robot) /\ left \in Nat
  BY DEF SweepInv, SweepTypeOK
<1>2. \A check, found, learned : Query(check, found, learned) =>
        Due(check) /\ Done(check, found, learned) /\ left' \in Nat
  <2>1. ASSUME NEW check, NEW found, NEW learned, Query(check, found, learned)
        PROVE  Due(check) /\ Done(check, found, learned) /\ left' \in Nat
    <3>1. PICK d \in Delays : d <= left /\ left' = left - d
      BY <2>1 DEF Query
    <3>2. d \in Nat
      BY SweepsAssumption
    <3>3. left' \in Nat
      BY <1>1, <3>1, <3>2
    <3> QED
      BY <2>1, <3>3 DEF Query
  <2> QED
    BY <2>1
<1>3. CASE CheckEnvironment
  <2>1. /\ Due("environment") /\ Done("environment", EnvironmentFindings(robot), {})
        /\ left' \in Nat
    BY <1>1, <1>3 DEF CheckEnvironment
  <2> QED
    BY <1>1, <2>1, GraphChecksSound, DoneStep
<1>4. CASE CheckNodes
  <2>1. Due("nodes") /\ Done("nodes", NodesFindings(robot), {"nodes"}) /\ left' \in Nat
    BY <1>2, <1>4 DEF CheckNodes
  <2> QED
    BY <1>1, <2>1, GraphChecksSound, DoneStep
<1>5. CASE CheckTopics
  <2>1. Due("topics") /\ Done("topics", TopicsFindings(robot), {"topics"}) /\ left' \in Nat
    BY <1>2, <1>5 DEF CheckTopics
  <2> QED
    BY <1>1, <2>1, GraphChecksSound, DoneStep
<1>6. CASE CheckDds
  <2>1. Due("dds") /\ Done("dds", DdsFindings(robot), {}) /\ left' \in Nat
    BY <1>2, <1>6 DEF CheckDds
  <2> QED
    BY <1>1, <2>1, DdsFindingsSound, DoneStep
<1> QED
  BY <1>3, <1>4, <1>5, <1>6

LEMMA WindowTyped ==
  ASSUME left \in Nat
  PROVE  Window \in Int /\ Window <= left
<1> DEFINE after == left - TfOverhead - (IF ask.scope = "all" THEN Floor("logs") ELSE 0)
<1>1. after \in Int /\ TfWindow \in Int /\ after <= left
  BY DEF TfOverhead, Floor, TfWindow
<1>2. Window = Min({TfWindow, after})
  BY DEF Window
<1> HIDE DEF after
<1>3. Window \in {TfWindow, after} /\ Window <= TfWindow /\ Window <= after
  BY <1>1, <1>2, SmallerOf
<1> QED
  BY <1>1, <1>3

LEMMA TfStep == SweepInv /\ CheckTf => SweepInv'
<1> SUFFICES ASSUME SweepInv, CheckTf PROVE SweepInv'
  OBVIOUS
<1>1. IsRobot(robot) /\ left \in Nat
  BY DEF SweepInv, SweepTypeOK
<1>2. PICK d \in Delays : Window + d <= left /\ left' = left - Window - d
  BY DEF CheckTf
<1>3. Window \in Int /\ d \in Nat
  BY <1>1, WindowTyped, SweepsAssumption
<1>4. left' \in Nat
  BY <1>1, <1>2, <1>3
<1>5. /\ Due("tf")
      /\ Done("tf", TfFindings(robot, Window), When(TfComplete(robot, Window), {"tf"}))
  BY DEF CheckTf
<1>6. \A f \in TfFindings(robot, Window) : Sound(f)
  BY <1>1, TfFindingsSound
<1> QED
  BY <1>3, <1>4, <1>5, <1>6, DoneStep

LEMMA LogsStep == SweepInv /\ CheckLogs => SweepInv'
<1> SUFFICES ASSUME SweepInv, CheckLogs PROVE SweepInv'
  OBVIOUS
<1> DEFINE timeout == Min({LogTimeout, left - LogStopReserve})
<1>1. IsRobot(robot) /\ left \in Nat
  BY DEF SweepInv, SweepTypeOK
<1>2. Due("logs") /\ timeout > 0
  BY DEF CheckLogs
<1>3. PICK d \in {x \in Delays : x <= timeout} :
        LET listened == Max({timeout - d, MinEcho})
        IN  left' = left - d - listened /\ Done("logs", LogFindings(robot, listened), {})
  BY DEF CheckLogs
<1> DEFINE listened == Max({timeout - d, MinEcho})
<1>4. left' = left - d - listened /\ Done("logs", LogFindings(robot, listened), {})
  BY <1>3
<1>5. timeout \in Int /\ timeout <= left - 3
  <2>1. LogTimeout \in Int /\ left - LogStopReserve \in Int /\ LogStopReserve = 3
    BY <1>1 DEF LogTimeout, LogStopReserve
  <2>2. timeout \in {LogTimeout, left - LogStopReserve} /\ timeout <= left - LogStopReserve
    BY <2>1, SmallerOf
  <2> HIDE DEF timeout
  <2> QED
    BY <2>1, <2>2
<1> HIDE DEF timeout
<1>6. d \in Nat /\ d <= timeout
  BY SweepsAssumption
<1>7. /\ listened \in {timeout - d, MinEcho} /\ listened >= timeout - d /\ listened >= MinEcho
      /\ MinEcho = 1
  <2>1. timeout - d \in Int /\ MinEcho \in Int /\ MinEcho = 1
    BY <1>5, <1>6 DEF MinEcho
  <2> QED
    BY <2>1, LargerOf
<1> HIDE DEF listened
<1>8. listened \in Nat \ {0} /\ left' \in Nat
  BY <1>1, <1>4, <1>5, <1>6, <1>7
<1>9. \A f \in LogFindings(robot, listened) : Sound(f)
  BY <1>1, LogFindingsSound
<1> QED
  BY <1>2, <1>4, <1>8, <1>9, DoneStep

(* SweepInv is inductive.                                                  *)
LEMMA NextSweepInv == SweepInv /\ [Next]_vars => SweepInv'
<1> SUFFICES ASSUME SweepInv, [Next]_vars PROVE SweepInv'
  OBVIOUS
<1>1. CASE UNCHANGED vars
  <2>1. /\ robot' = robot /\ ask' = ask /\ left' = left /\ plan' = plan /\ findings' = findings
        /\ ran' = ran /\ skipped' = skipped /\ reading' = reading /\ stamped' = stamped
        /\ phase' = phase
    BY <1>1 DEF vars
  <2>2. SweepTypeOK' /\ Planned'
    BY <2>1, RobotStays DEF SweepInv, SweepTypeOK, Planned, ReadingShape, FindingShape
  <2>3. AllSound' /\ SilentSoFar'
    BY <2>1, SoundStays DEF SweepInv, AllSound, SilentSoFar, Answers
  <2>4. RanTold' /\ NamedJudged'
    BY <2>1, RobotStays DEF SweepInv, RanTold, NamedJudged, Unjudged
  <2> QED
    BY <2>2, <2>3, <2>4 DEF SweepInv
<1>2. CASE Next
  BY <1>2, SkippedSteps, QuerySteps, TfStep, LogsStep, StartReadingStep, OutOfTimeStep, ReadStep,
     RetrySteps, NoneReadStep, ReadingDoneStep, FramesSteps DEF Next
<1> QED
  BY <1>1, <1>2

-----------------------------------------------------------------------------
(* A fault of the robot is a grave finding of the check that looks for it. *)
LEMMA FaultsAreGrave ==
  ASSUME NEW F, Grave(F) = {}, IsRobot(robot)
  PROVE  /\ NodesFindings(robot) \subseteq F =>
              robot.duplicates = {} /\ (robot.nodes # {} \/ robot.mode = "mock")
         /\ DdsFindings(robot) \subseteq F =>
              /\ robot.mismatches = {} /\ robot.unmatched = {} /\ robot.typos = {}
              /\ \A n \in NamesOf(robot) : ~Restarted(n)
         /\ \A window : TfFindings(robot, window) \subseteq F =>
              /\ robot.tf.missing = {}
              /\ \A f \in robot.tf.faults : ~(f.needs <= window)
         /\ \A seconds : LogFindings(robot, seconds) \subseteq F =>
              \A l \in robot.loggers : ~(l.every <= seconds)
<1>1. \A f \in F : f.severity = "info"
  BY DEF Grave
<1>2. \A severity, check, subject, says :
        Finding(severity, check, subject, says).severity = severity
  BY DEF Finding
<1>3. ASSUME NodesFindings(robot) \subseteq F
      PROVE  robot.duplicates = {} /\ (robot.nodes # {} \/ robot.mode = "mock")
  <2>1. \A n \in robot.duplicates :
          Finding("warning", "nodes", n, <<"duplicate">>) \in NodesFindings(robot)
    BY DEF NodesFindings
  <2>2. robot.nodes = {} /\ robot.mode = "live" =>
          Finding("warning", "nodes", None, <<"empty">>) \in NodesFindings(robot)
    BY DEF NodesFindings, When
  <2>3. robot.mode \in {"live", "mock"}
    BY DEF IsRobot
  <2> QED
    BY <1>1, <1>2, <1>3, <2>1, <2>2, <2>3
<1>4. ASSUME DdsFindings(robot) \subseteq F
      PROVE  /\ robot.mismatches = {} /\ robot.unmatched = {} /\ robot.typos = {}
             /\ \A n \in NamesOf(robot) : ~Restarted(n)
  <2>1. QosFindings(robot) \subseteq F /\ RestartFindings(robot) \subseteq F
    BY <1>4 DEF DdsFindings
  <2>2. robot.mismatches = {}
    <3> SUFFICES ASSUME NEW p \in robot.mismatches PROVE FALSE
      OBVIOUS
    <3> DEFINE Key(q) == <<q.topic, q.writer, q.severity, q.policies>>
               Members(k) == {q \in robot.mismatches : Key(q) = k}
               Made(k) == [Finding(IF k[3] = "incompatible" THEN "critical" ELSE "warning", "dds",
                                   k[1], <<"qos", k[2], k[4]>>)
                             EXCEPT !.about = Involved(Members(k))]
    <3>1. {Made(k) : k \in {Key(q) : q \in robot.mismatches}} \subseteq QosFindings(robot)
      BY DEF QosFindings
    <3>2. \A k : Made(k).severity # "info"
      BY DEF Finding
    <3> HIDE DEF Made, Key
    <3> QED
      BY <1>1, <2>1, <3>1, <3>2
  <2>3. robot.unmatched = {}
    <3> SUFFICES ASSUME NEW p \in robot.unmatched PROVE FALSE
      OBVIOUS
    <3> DEFINE Reasoned(q) == <<q.topic, q.reason>>
               Unmatched(k) == {q \in robot.unmatched : Reasoned(q) = k}
               Made(k) == [Finding("critical", "dds", k[1], <<"unmatched", k[2]>>)
                             EXCEPT !.about = Involved(Unmatched(k))]
    <3>1. {Made(k) : k \in {Reasoned(q) : q \in robot.unmatched}} \subseteq QosFindings(robot)
      BY DEF QosFindings
    <3>2. \A k : Made(k).severity # "info"
      BY DEF Finding
    <3> HIDE DEF Made, Reasoned
    <3> QED
      BY <1>1, <2>1, <3>1, <3>2
  <2>4. robot.typos = {}
    <3>1. \A t \in robot.typos : Finding("warning", "dds", t, <<"typo">>) \in QosFindings(robot)
      BY DEF QosFindings
    <3> QED
      BY <1>1, <1>2, <2>1, <3>1
  <2>5. ASSUME NEW n \in NamesOf(robot), Restarted(n) PROVE FALSE
    <3>1. Lives(robot, n) >= 2
      BY <2>5, NamesOfParticipants, RestartIsTwoLives
    <3>2. \E severity \in {"critical", "warning"} :
            Finding(severity, "dds", n, <<"restarts">>) \in RestartFindings(robot)
      BY <3>1 DEF RestartFindings
    <3> QED
      BY <1>1, <1>2, <2>1, <3>2
  <2> QED
    BY <2>2, <2>3, <2>4, <2>5
<1>5. ASSUME NEW window, TfFindings(robot, window) \subseteq F
      PROVE  robot.tf.missing = {} /\ \A f \in robot.tf.faults : ~(f.needs <= window)
  <2>1. \A l \in robot.tf.missing :
          Finding("warning", "tf", l, <<"urdf link">>) \in TfFindings(robot, window)
    BY DEF TfFindings
  <2>2. \A f \in robot.tf.faults : f.needs <= window =>
          Finding("warning", "tf", f.subject, <<f.kind>>) \in TfFindings(robot, window)
    BY DEF TfFindings
  <2>3. ASSUME NEW l \in robot.tf.missing PROVE FALSE
    <3> DEFINE g == Finding("warning", "tf", l, <<"urdf link">>)
    <3>1. g \in F
      BY <1>5, <2>1
    <3>2. g.severity = "warning"
      BY <1>2
    <3> HIDE DEF g
    <3> QED
      BY <1>1, <3>1, <3>2
  <2>4. ASSUME NEW f \in robot.tf.faults, f.needs <= window PROVE FALSE
    <3> DEFINE g == Finding("warning", "tf", f.subject, <<f.kind>>)
    <3>1. g \in F
      BY <1>5, <2>2, <2>4
    <3>2. g.severity = "warning"
      BY <1>2
    <3> HIDE DEF g
    <3> QED
      BY <1>1, <3>1, <3>2
  <2> QED
    BY <2>3, <2>4
<1>6. ASSUME NEW seconds, LogFindings(robot, seconds) \subseteq F
      PROVE  \A l \in robot.loggers : ~(l.every <= seconds)
  <2>1. \A l \in robot.loggers : l.every <= seconds =>
          Finding("warning", "logs", l.node, <<"errors">>) \in LogFindings(robot, seconds)
    BY DEF LogFindings
  <2> QED
    BY <1>1, <1>2, <1>6, <2>1
<1> QED
  BY <1>3, <1>4, <1>5, <1>6

(* What is said to be a fault is one, and a silent node was waited for.    *)
LEMMA SoundIsEarned ==
  ASSUME IsRobot(robot), NEW f, Sound(f)
  PROVE  /\ f.says = <<"silent">> =>
              /\ \E a \in Answers(f.subject) : a.after > MinWait
              /\ f.severity = "critical" <=> f.subject = ask.node
         /\ f.says = <<"restarts">> =>
              /\ Restarted(f.subject)
              /\ f.severity = "critical" =>
                   Cardinality({p \in Carry(f.subject) \cup Named(f.subject) : OnTheBus(p)}) > 2
<1>1. ASSUME f.says = <<"restarts">>
      PROVE  /\ Restarted(f.subject)
             /\ f.severity = "critical" =>
                  Cardinality({p \in Carry(f.subject) \cup Named(f.subject) : OnTheBus(p)}) > 2
  <2>1. /\ f.subject \in Names /\ Lives(robot, f.subject) >= 2
        /\ f.severity = "critical" => Lives(robot, f.subject) >= 3
    BY <1>1 DEF Sound, Earned
  <2> QED
    BY <2>1, RestartIsTwoLives, LoopIsThreeLives
<1>2. f.says = <<"silent">> =>
        /\ \E a \in Answers(f.subject) : a.after > MinWait
        /\ f.severity = "critical" <=> f.subject = ask.node
  BY DEF Sound, Earned
<1> QED
  BY <1>1, <1>2

(* A clean line: every check ran, none has a grave finding, and so there   *)
(* is no fault it would have found.                                        *)
LEMMA CleanIsEarned == SweepInv => AllClearIsEarned
<1> SUFFICES ASSUME SweepInv, phase = "done", verdict = "clean"
             PROVE  /\ ran = Range(Checks)
                    /\ robot.duplicates = {} /\ (robot.nodes # {} \/ robot.mode = "mock")
                    /\ robot.mismatches = {} /\ robot.unmatched = {} /\ robot.typos = {}
                    /\ \A n \in NamesOf(robot) : ~Restarted(n)
                    /\ robot.tf.missing = {}
                    /\ \A f \in robot.tf.faults :
                         \/ f.needs > TfWindow
                         \/ \E g \in findings : g.check = "tf" /\ g.says = <<"cut">>
                    /\ \A l \in robot.loggers : l.every > 1
                    /\ NeverAnswers(ask.node) =>
                         ask.node \in reading.untested \cup reading.unreadable
  BY DEF AllClearIsEarned
<1>1. skipped = {} /\ ask.scope = "all" /\ Grave(findings) = {}
  BY DEF verdict, Verdict
<1>2. IsRobot(robot)
  BY DEF SweepInv, SweepTypeOK
<1>3. ran = Range(Checks)
  <2>1. ran \cup {x[1] : x \in skipped} \cup Range(plan) = Range(ScopeChecks(ask.scope))
        /\ plan = <<>>
    BY DEF SweepInv, Planned
  <2>2. Range(plan) = {} /\ {x[1] : x \in skipped} = {}
    BY <1>1, <2>1 DEF Range
  <2>3. ScopeChecks(ask.scope) = Checks
    BY <1>1 DEF ScopeChecks
  <2> QED
    BY <2>1, <2>2, <2>3
<1>4. {"nodes", "dds", "tf", "logs", "responsiveness"} \subseteq ran
  BY <1>3, RangesKnown
<1>5. /\ NodesFindings(robot) \subseteq findings /\ DdsFindings(robot) \subseteq findings
      /\ \E window \in Int : TfFindings(robot, window) \subseteq findings
      /\ \E seconds \in Nat \ {0} : LogFindings(robot, seconds) \subseteq findings
  BY <1>4 DEF SweepInv, RanTold
<1>6. /\ robot.duplicates = {} /\ (robot.nodes # {} \/ robot.mode = "mock")
      /\ robot.mismatches = {} /\ robot.unmatched = {} /\ robot.typos = {}
      /\ \A n \in NamesOf(robot) : ~Restarted(n)
  BY <1>1, <1>2, <1>5, FaultsAreGrave
<1>7. /\ robot.tf.missing = {}
      /\ \A f \in robot.tf.faults :
           f.needs > TfWindow \/ \E g \in findings : g.check = "tf" /\ g.says = <<"cut">>
  <2>1. PICK window \in Int : TfFindings(robot, window) \subseteq findings
    BY <1>5
  <2>2. robot.tf.missing = {} /\ \A f \in robot.tf.faults : ~(f.needs <= window)
    BY <1>1, <1>2, <2>1, FaultsAreGrave
  <2>3. CASE window < TfWindow
    <3> DEFINE g == Finding("info", "tf", None, <<"cut">>)
    <3>1. g \in findings
      BY <2>1, <2>3 DEF TfFindings, When
    <3>2. g.check = "tf" /\ g.says = <<"cut">>
      BY DEF Finding
    <3> QED
      BY <2>2, <3>1, <3>2
  <2>4. CASE ~(window < TfWindow)
    <3>1. \A f \in robot.tf.faults : f.needs \in Nat
      BY <1>2 DEF IsRobot
    <3>2. window >= 8 /\ TfWindow = 8
      BY <2>4 DEF TfWindow
    <3>3. \A f \in robot.tf.faults : f.needs > TfWindow
      BY <2>2, <3>1, <3>2
    <3> QED
      BY <2>2, <3>3
  <2> QED
    BY <2>3, <2>4
<1>8. \A l \in robot.loggers : l.every > 1
  <2>1. PICK seconds \in Nat \ {0} : LogFindings(robot, seconds) \subseteq findings
    BY <1>5
  <2>2. \A l \in robot.loggers : ~(l.every <= seconds)
    BY <1>1, <1>2, <2>1, FaultsAreGrave
  <2>3. \A l \in robot.loggers : l.every \in Nat
    BY <1>2 DEF IsRobot
  <2> QED
    BY <2>2, <2>3
<1>9. NeverAnswers(ask.node) => ask.node \in reading.untested \cup reading.unreadable
  <2>1. Silent(ask.node, TRUE).severity = "critical"
    BY DEF Silent, Finding
  <2>2. Silent(ask.node, TRUE) \notin findings
    BY <1>1, <2>1 DEF Grave
  <2> QED
    BY <1>4, <2>2 DEF SweepInv, NamedJudged, Unjudged
<1> QED
  BY <1>3, <1>6, <1>7, <1>8, <1>9

(* The cap, over findings that are each one of a kind.                     *)
LEMMA CapFair == SweepInv => CapIsFair
<1> SUFFICES ASSUME SweepInv PROVE CapIsFair
  OBVIOUS
<1> DEFINE s == Ordered(findings, ask.node)
           n == Cardinality(findings)
           kept == Range(Cap(findings, ask.node))
           Mine(f) == ask.node # None /\ (f.subject = ask.node \/ ask.node \in f.about)
<1>1. \A f \in findings : IsFinding(f)
  BY DEF SweepInv, AllSound, Sound
<1>2. IsFiniteSet(findings)
  BY <1>1, FindingsFinite
<1>3. /\ n \in Nat /\ s \in Seq(findings) /\ Len(s) = n
      /\ \A f \in findings : \E i \in 1..n : s[i] = f
      /\ \A i, j \in 1..n : i < j => Severity(s[i]) <= Severity(s[j])
  BY <1>1, <1>2, FindingsInOrder
<1>4. /\ kept \subseteq findings /\ Cardinality(kept) = Min({MaxFindings, n})
      /\ \A i, j \in DOMAIN s : s[i] \notin kept /\ s[j] \in kept =>
           /\ Concerns(s[i], ask.node) => Concerns(s[j], ask.node)
           /\ (Concerns(s[i], ask.node) <=> Concerns(s[j], ask.node)) => j < i
  BY <1>1, <1>2, CapKeepsFirst
<1>5. \A f : Mine(f) \in BOOLEAN /\ (Concerns(f, ask.node) <=> Mine(f))
  BY DEF Concerns
<1>6. DOMAIN s = 1..n
  BY <1>3
<1>7. Range(answer) = kept
  BY DEF answer
<1> HIDE DEF s, n, kept, Mine
<1>8. ASSUME NEW f \in findings \ kept, NEW g \in kept
      PROVE  /\ Mine(f) => Mine(g)
             /\ Mine(f) = Mine(g) => Severity(g) <= Severity(f)
  <2>1. g \in findings
    BY <1>4
  <2>2. PICK i \in 1..n : s[i] = f
    BY <1>3
  <2>3. PICK j \in 1..n : s[j] = g
    BY <1>3, <2>1
  <2>4. /\ Mine(f) => Mine(g)
        /\ (Mine(f) <=> Mine(g)) => j < i
    BY <1>4, <1>5, <1>6, <2>2, <2>3
  <2>5. Mine(f) = Mine(g) => (Mine(f) <=> Mine(g))
    OBVIOUS
  <2> QED
    BY <1>3, <2>2, <2>3, <2>4, <2>5
<1> QED
  BY <1>4, <1>7, <1>8 DEF CapIsFair, Mine, n

-----------------------------------------------------------------------------
(* The state of the sweep stays of its types: left is never below zero, so *)
(* no call it makes outlasts the deadline, and a check is in the plan once.*)
THEOREM SweepInBudget == Spec => [](SweepTypeOK /\ Planned)
<1>1. SweepInv => SweepTypeOK /\ Planned
  BY DEF SweepInv
<1> QED
  BY <1>1, InitSweepInv, NextSweepInv, PTL DEF Spec

(* "Never healthy with a skip": the clean line is given only when all      *)
(* seven checks ran and the robot shows none of the faults they look for   *)
(* (_verdict, diagnose.py).                                                *)
THEOREM SweepAllClear == Spec => []AllClearIsEarned
BY InitSweepInv, NextSweepInv, CleanIsEarned, PTL DEF Spec

(* No false alarm: a silent node was waited for longer than MinWait, and a *)
(* restart loop is as long as it is said to be.                            *)
THEOREM SweepAlarms == Spec => []AlarmsAreEarned
<1>1. SweepInv => AlarmsAreEarned
  BY SoundIsEarned DEF SweepInv, SweepTypeOK, AllSound, AlarmsAreEarned
<1> QED
  BY <1>1, InitSweepInv, NextSweepInv, PTL DEF Spec

(* An active node, or one that restarted, is never reported as left        *)
(* (check_dds).                                                            *)
THEOREM SweepGone == Spec => []GoneMeansGone
<1>1. SweepInv => GoneMeansGone
  BY LeftIsGone DEF SweepInv, SweepTypeOK
<1> QED
  BY <1>1, InitSweepInv, NextSweepInv, PTL DEF Spec

(* _cap drops a finding on the named node for none on another, and a grave *)
(* one for none less grave, whatever MAX_FINDINGS is.                      *)
THEOREM SweepCap == Spec => []CapIsFair
BY InitSweepInv, NextSweepInv, CapFair, PTL DEF Spec

=============================================================================
