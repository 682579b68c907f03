------------------------------ MODULE Observer ------------------------------
(***************************************************************************)
(* Whose participants the listing shows: the warm-up of DiscoveryTracker,  *)
(* NodeNameCache (adapters/common/ros_discovery.py), the ring of spawned   *)
(* processes (spawned_pids.py) and the is_topicforge_cli flag that         *)
(* CompositeAdapter.list_participants sets.  A process of the bus is one   *)
(* participant; it announces its node names on ros_discovery_info, and     *)
(* those of TopicForge are ros2 commands that run_process starts.  Time is *)
(* in seconds, a pass is due every second.                                 *)
(***************************************************************************)
EXTENDS OrderedMap, Integers, FiniteSets, SequencesExt

CONSTANTS Procs,      \* process -> [pid, host, vendor, tells, own, names]
          Here,       \* this machine
          MaxTime,    \* bound of the clock
          MaxStarts,  \* bound of the processes that start
          MaxFails,   \* bound of the passes that fail
          GhostWindow, Correlation,   \* CLI_GHOST_WINDOW_S, CLI_CORRELATION_S
          MaxSpawns                   \* MAX_SPAWNS

ASSUME BoundsAreUseful ==
  /\ MaxSpawns \in Nat \ {0} /\ GhostWindow \in Nat /\ Correlation \in Nat
  /\ MaxTime \in Nat

Proc == DOMAIN Procs
ASSUME ProcsAssumption ==
  /\ IsFiniteSet(Proc)
  /\ \A p \in Proc : Procs[p].pid \in Nat
Own == {p \in Proc : Procs[p].own}
None == -1

VARIABLES now,
          life,      \* process -> "unborn", "up" or "gone"
          born,      \* process -> when it started, as the observer's reader has it
          said,      \* process -> the node lists it announced
          unread,    \* process -> its ros_discovery_info messages not taken yet
          known,     \* LifecycleBuffer: process -> [status, first]
          names,     \* NodeNameCache: process -> [now, last]
          spawns,    \* the ring: [pid, at]
          passes, fails, due,   \* the tracker's counters; due: the next pass is due
          call       \* await_discovery_ready: [at, warm], at the time it began

vars == <<now, life, born, said, unread, known, names, spawns, passes, fails, due, call>>

NoCall == [at |-> None, warm |-> FALSE, answered |-> None]

Init ==
  /\ now = 0
  /\ life = [p \in Proc |-> "unborn"] /\ born = [p \in Proc |-> None]
  /\ said = [p \in Proc |-> <<>>]
  /\ unread = [p \in Proc |-> <<>>]
  /\ names = [p \in Proc |-> [now |-> {}, last |-> {}]]
  /\ spawns = <<>>
  /\ known = [p \in Proc |-> [status |-> "unknown", first |-> None]]
  /\ passes = 0 /\ fails = 0 /\ due = TRUE
  /\ call = NoCall

-----------------------------------------------------------------------------
(* The bus.  A process starts, says which nodes it has, and ends cleanly,  *)
(* saying that it has none any more, or at once.  One of TopicForge's is   *)
(* recorded in the ring as soon as it is started.                          *)
RecordSpawn_full(pid) ==
  IF Len(spawns) = MaxSpawns THEN spawns ELSE Append(spawns, [pid |-> pid, at |-> now])
RecordSpawn(pid) == Push(spawns, [pid |-> pid, at |-> now], MaxSpawns)

Start(p) ==
  /\ life[p] = "unborn"
  /\ Cardinality({q \in Proc : life[q] # "unborn"}) < MaxStarts
  /\ life' = [life EXCEPT ![p] = "up"]
  /\ born' = [born EXCEPT ![p] = now]
  /\ spawns' = IF p \in Own THEN RecordSpawn(Procs[p].pid) ELSE spawns
  /\ UNCHANGED <<now, said, unread, known, names, passes, fails, due, call>>

LastSaid(p) == IF said[p] = <<>> THEN {} ELSE Last(said[p])

Announce(p, list) ==
  /\ life[p] = "up" /\ LastSaid(p) # list
  /\ said' = [said EXCEPT ![p] = Append(@, list)]
  /\ unread' = [unread EXCEPT ![p] = Append(@, list)]

Speak(p) ==
  /\ Announce(p, Procs[p].names)
  /\ UNCHANGED <<now, life, born, known, names, spawns, passes, fails, due, call>>

Leave(p) ==
  /\ life[p] = "up"
  /\ life' = [life EXCEPT ![p] = "gone"]
  /\ Announce(p, {}) \/ UNCHANGED <<said, unread>>
  /\ UNCHANGED <<now, born, known, names, spawns, passes, fails, due, call>>

-----------------------------------------------------------------------------
(* A pass: the participants first, then the node names (apply_info_samples *)
(* puts each list in NodeNameCache, which keeps the last that had a node). *)
Seen(p) ==
  LET first == IF known[p].first = None THEN now ELSE known[p].first
  IN  CASE life[p] = "up" -> [status |-> "active", first |-> first]
        [] life[p] = "gone" -> [status |-> "left", first |-> first]
        [] OTHER -> known[p]

PutNames_latest(before, list) == [now |-> list, last |-> list]
PutNames(before, list) ==
  [now |-> list, last |-> IF list # {} THEN list ELSE before.last]

ApplyInfo(p) ==
  LET put[n \in 0..Len(unread[p])] ==
        IF n = 0 THEN names[p] ELSE PutNames(put[n - 1], unread[p][n])
  IN  put[Len(unread[p])]

Pass ==
  /\ due /\ due' = FALSE
  /\ known' = [p \in Proc |-> Seen(p)]
  /\ names' = [p \in Proc |-> ApplyInfo(p)]
  /\ unread' = [p \in Proc |-> <<>>]
  /\ passes' = IF passes < 2 THEN passes + 1 ELSE passes
  /\ UNCHANGED <<now, life, born, said, spawns, fails, call>>

(* A take raises: what was taken stays in the sinks for the next pass.     *)
PassFails ==
  /\ due /\ due' = FALSE
  /\ fails < MaxFails /\ fails' = fails + 1
  /\ UNCHANGED <<now, life, born, said, unread, known, names, spawns, passes, call>>

-----------------------------------------------------------------------------
(* is_warm and wait_warm, which a call polls: the clock does not pass      *)
(* while one could answer.                                                 *)
WarmMinPasses == 2
WarmMinAge == 2
WarmMaxWait == 3

IsWarm_ageOnly == now >= WarmMinAge
IsWarm == now >= WarmMaxWait \/ (passes >= WarmMinPasses /\ now >= WarmMinAge)
GivesUp == now >= call.at + WarmMaxWait
Waiting == call.at # None /\ call.answered = None

Ask ==
  /\ call.at = None
  /\ call' = [NoCall EXCEPT !.at = now]
  /\ UNCHANGED <<now, life, born, said, unread, known, names, spawns, passes, fails, due>>

Answer ==
  /\ Waiting /\ (IsWarm \/ GivesUp)
  /\ call' = [call EXCEPT !.warm = IsWarm, !.answered = now]
  /\ UNCHANGED <<now, life, born, said, unread, known, names, spawns, passes, fails, due>>

Tick ==
  /\ now < MaxTime /\ ~due
  /\ ~(Waiting /\ (IsWarm \/ GivesUp))
  /\ now' = now + 1 /\ due' = TRUE
  /\ UNCHANGED <<life, born, said, unread, known, names, spawns, passes, fails, call>>

Next ==
  \/ \E p \in Proc : Start(p) \/ Speak(p) \/ Leave(p)
  \/ Pass \/ PassFails \/ Ask \/ Answer \/ Tick

Spec == Init /\ [][Next]_vars

-----------------------------------------------------------------------------
(* list_participants.  with_node_names: a participant that left falls back *)
(* to the last list that had a node.                                       *)
Listed == {p \in Proc : known[p].status # "unknown"}

NodeNames(p) ==
  IF names[p].now = {} /\ known[p].status = "left" THEN names[p].last ELSE names[p].now

(* flag_topicforge_cli: the spawns of the last GhostWindow seconds.        *)
Recent == {spawns[i] : i \in {j \in DOMAIN spawns : spawns[j].at >= now - GhostWindow}}
RecentPids == {s.pid : s \in Recent}

CliPidOfNode(name) == IF name.cli THEN name.pid ELSE None
LowBits(pid) == pid % 16
DeclaredPid(p) ==
  IF known[p].status = "active" /\ Procs[p].vendor = "cyclone" THEN Procs[p].pid ELSE None

SameHost(p) ==
  IF ~Procs[p].tells THEN "unknown" ELSE IF Procs[p].host = Here THEN "here" ELSE "elsewhere"

MatchesPid_anyHost(p) ==
  \/ \E n \in NodeNames(p) : CliPidOfNode(n) \in RecentPids
  \/ DeclaredPid(p) \in RecentPids
  \/ /\ Procs[p].vendor = "fast"
     /\ \E pid \in RecentPids : LowBits(pid) = LowBits(Procs[p].pid)

MatchesPid(p) ==
  /\ SameHost(p) # "elsewhere"
  /\ \/ \E n \in NodeNames(p) : CliPidOfNode(n) \in RecentPids
     \/ /\ SameHost(p) = "here"
        /\ \/ DeclaredPid(p) \in RecentPids
           \/ /\ Procs[p].vendor = "fast"
              /\ \E pid \in RecentPids : LowBits(pid) = LowBits(Procs[p].pid)

Flagged == {p \in Listed : MatchesPid(p)}

(* probable_ghost_count: active ones first seen just after a spawn.        *)
Probable ==
  {p \in Listed \ Flagged :
     /\ known[p].status = "active"
     /\ \E s \in Recent : known[p].first - s.at \in 0 .. Correlation}

-----------------------------------------------------------------------------
(* A participant that is gone keeps the names of the nodes it last had,    *)
(* also when it said goodbye with an empty list; one that is up has the    *)
(* nodes it last said it has.                                              *)
NamesSurviveGoodbye ==
  \A p \in Listed :
    unread[p] = <<>> /\ said[p] # <<>>
      => NodeNames(p) = IF known[p].status = "left" THEN Procs[p].names ELSE LastSaid(p)

(* No process of the robot is taken for a ros2 command of TopicForge, be   *)
(* it on a machine where the same pid means another process, while the pid *)
(* of a command, or the part of it that Fast DDS tells, is not that of     *)
(* another process of this machine, nor of a ros2 command on a machine     *)
(* that does not tell its name.                                            *)
PidsDiffer ==
  \A p \in Proc \ Own, o \in Own :
    LET pid == Procs[p].pid IN
    /\ SameHost(p) # "elsewhere" =>
         \A n \in Procs[p].names : n.cli => n.pid # Procs[o].pid
    /\ SameHost(p) = "here" =>
         /\ Procs[p].vendor = "cyclone" => pid # Procs[o].pid
         /\ Procs[p].vendor = "fast" => LowBits(pid) # LowBits(Procs[o].pid)
RobotsAreNotGhosts == PidsDiffer => Flagged \subseteq Own

(* A ros2 command of TopicForge never passes for a robot's participant:    *)
(* while it is one of the last MaxSpawns started and younger than the      *)
(* window, it is flagged, or a probable ghost if it was seen in time.      *)
Young(p) == p \in Own /\ born[p] # None /\ born[p] >= now - GhostWindow

GhostsAreTold ==
  Cardinality({p \in Own : Young(p)}) <= MaxSpawns
    => \A p \in Listed :
         /\ Young(p) /\ known[p].status = "active"
         /\ known[p].first <= born[p] + Correlation
         => p \in Flagged \cup Probable

(* A call that finds the observer warm before it gave up waiting has two   *)
(* passes behind it: every process up since two seconds is listed.  And no *)
(* call waits once the observer is as old as the longest wait: one whose   *)
(* passes all fail does not hold up each call anew.                        *)
WarmUpIsHonest ==
  /\ call.answered # None /\ call.answered = now /\ call.warm /\ now < WarmMaxWait
       => \A p \in Proc : life[p] = "up" /\ born[p] <= now - 2 => p \in Listed
  /\ Waiting => now <= WarmMaxWait \/ now = call.at
  /\ call.answered > WarmMaxWait => call.answered = call.at
=============================================================================
