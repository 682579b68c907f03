------------------------------- MODULE QosScan -------------------------------
(* The whole-bus QoS scan (adapters/common/qos_scan.py) and the fixes it    *)
(* suggests (adapters/common/qos_fixes.py), as operators on the endpoints   *)
(* discovery lists. A topic is its rank in the order of names. A fix is     *)
(* the values it makes the endpoints of one side announce; its text is      *)
(* left out, and so are the hints on names and the wording of the others.   *)
EXTENDS QosRules, OrderedMap, SequencesExt

CONSTANTS
  Builtin,     \* topics named DCPS...
  Internal,    \* ros_discovery_info
  RosTopics,   \* topics of ROS, whose policies ROS may override
  HostName,    \* participant -> the host it announced, or NoHost
  NoHost, NoType, NoParticipant,
  LateJoin,    \* _LATE_JOIN_NS
  MaxItems     \* MAX_ITEMS

ASSUME ScanAssumption ==
  /\ LateJoin \in Nat /\ MaxItems \in Nat \ {0}
  /\ NoParticipant \notin DOMAIN HostName

WholeBus == 0     \* a scan not scoped to a topic
NoTime == -1

-----------------------------------------------------------------------------
(* Fixes. *)

Supported ==
  {"Reliability", "Durability", "Deadline", "Liveliness", "Ownership", "LatencyBudget"}
RosOverridable == {"Reliability", "Durability"}
RosDurability == {"VOLATILE", "TRANSIENT_LOCAL"}

(* What the side that changes must announce to satisfy the other side. *)
LivelinessTarget_kindOnly(side, requested, offered) ==
  IF side = "reader" THEN [requested EXCEPT !.kind = offered.kind]
  ELSE [offered EXCEPT !.kind = requested.kind]
LivelinessTarget(side, requested, offered) ==
  LET mine == IF side = "reader" THEN requested ELSE offered
      other == IF side = "reader" THEN offered ELSE requested
      kindOk == Rank(LivelinessOrder, offered.kind) >= Rank(LivelinessOrder, requested.kind)
      leaseOk == offered.lease <= requested.lease
  IN [kind |-> IF kindOk THEN mine.kind ELSE other.kind,
      lease |-> IF leaseOk THEN mine.lease ELSE other.lease]
Targets(side, policies, r, w) ==
  LET other == IF side = "reader" THEN w ELSE r IN
  [p \in policies |->
     CASE p = "Reliability" -> IF side = "reader" THEN "BEST_EFFORT" ELSE "RELIABLE"
       [] p = "Liveliness" -> LivelinessTarget(side, r.says[p], w.says[p])
       [] OTHER -> other.says[p]]

(* The usual safer side first. *)
SideOrder(policies) ==
  IF policies \cap RosOverridable # {} THEN <<"writer", "reader">>
  ELSE <<"reader", "writer">>

FixKind(topic, values) ==
  IF /\ topic \in RosTopics
     /\ DOMAIN values \subseteq RosOverridable
     /\ "Durability" \in DOMAIN values => values["Durability"] \in RosDurability
  THEN "qos_override" ELSE "dds_profile"

(* The pairs a fix is for are a set of <<reader, writer>>. *)
Fix(topic, side, pairs, values) ==
  [kind |-> FixKind(topic, values), side |-> side, topic |-> topic,
   pairs |-> pairs, values |-> values]

RxoFixes(infos, entry, pairs, policies) ==
  LET r == infos[entry.reader].profile
      w == infos[entry.writer].profile
      fix(side) == Fix(entry.topic, side, pairs, Targets(side, policies, r, w))
  IN [i \in 1..2 |-> fix(SideOrder(policies)[i])]

Twins(signatures, i) == {j \in DOMAIN signatures : signatures[j] = signatures[i]}
PairsOf(entries, indices) == {<<entries[j].reader, entries[j].writer>> : j \in indices}
IsFirst(indices, i) == \A j \in indices : i <= j

(* Identical findings share the fixes of the first report. *)
FindingSignature(entry) == <<entry.topic, Details(entry.analysis)>>
AttachQosFixes(infos, entries) ==
  LET signatures == [i \in DOMAIN entries |-> FindingSignature(entries[i])]
      fixesOf(i) ==
        LET twins == Twins(signatures, i)
            policies == Supported \cap DOMAIN Details(entries[i].analysis)
        IN IF IsFirst(twins, i) /\ policies # {}
           THEN RxoFixes(infos, entries[i], PairsOf(entries, twins), policies)
           ELSE <<>>
  IN [i \in DOMAIN entries |-> [pair |-> entries[i], fixes |-> fixesOf(i)]]

Partitions(info) == info.profile.says["Partition"]
Concrete(partitions) ==
  Select(partitions, {i \in DOMAIN partitions : partitions[i] \notin Wild})
(* The side adds the first concrete partition of the other, if there is    *)
(* one.                                                                    *)
PartitionFix_instead(topic, side, pairs, mine, others) ==
  LET concrete == Concrete(others) IN
  IF concrete = <<>> THEN <<>>
  ELSE <<Fix(topic, side, pairs, [Partition |-> <<Head(concrete)>>])>>
PartitionFix(topic, side, pairs, mine, others) ==
  LET concrete == Concrete(others) IN
  IF concrete = <<>> THEN <<>>
  ELSE <<Fix(topic, side, pairs,
             [Partition |-> IF Contains(mine, Head(concrete)) THEN mine
                            ELSE Append(mine, Head(concrete))])>>
AttachPartitionFixes(infos, entries) ==
  LET signatures ==
        [i \in DOMAIN entries |->
           <<entries[i].topic, entries[i].apart,
             Partitions(infos[entries[i].reader]), Partitions(infos[entries[i].writer])>>]
      fixesOf(i) ==
        LET e == entries[i]
            twins == Twins(signatures, i)
            pairs == PairsOf(entries, twins)
            reader == Partitions(infos[e.reader])
            writer == Partitions(infos[e.writer])
        IN IF e.apart = "partition" /\ IsFirst(twins, i)
           THEN PartitionFix(e.topic, "reader", pairs, reader, writer)
                \o PartitionFix(e.topic, "writer", pairs, writer, reader)
           ELSE <<>>
  IN [i \in DOMAIN entries |-> [pair |-> entries[i], fixes |-> fixesOf(i)]]

-----------------------------------------------------------------------------
(* The scan. *)

(* Why DDS will not match a pair, QoS aside. *)
Separation(r, w) ==
  CASE ~PartitionsMatch(Partitions(r), Partitions(w)) -> "partition"
    [] /\ PartitionsMatch(Partitions(r), Partitions(w))
       /\ NoType \notin {r.type, w.type} /\ r.type # w.type -> "type_name"
    [] OTHER -> "none"

SameHost(r, w) ==
  LET host(e) == IF e.participant \in DOMAIN HostName
                 THEN HostName[e.participant] ELSE NoHost
  IN \/ r.participant = w.participant /\ r.participant # NoParticipant
     \/ host(r) # NoHost /\ host(r) = host(w)
LateJoiner(r, w) ==
  /\ w.profile.says["Durability"] = "VOLATILE"
  /\ r.announced # NoTime /\ w.announced # NoTime
  /\ r.announced - w.announced > LateJoin
  /\ SameHost(r, w)

Scanned(infos) == {i \in DOMAIN infos : ~infos[i].observer /\ infos[i].topic \notin Builtin}
Scope(infos, topic) ==
  {t \in {infos[i].topic : i \in Scanned(infos)} :
     (topic = WholeBus /\ t \notin Internal) \/ t = topic}
InScope(infos, topic) ==
  {i \in Scanned(infos) : infos[i].topic \in Scope(infos, topic)}

Pair(infos, r, w) ==
  [reader |-> r, writer |-> w, topic |-> infos[r].topic,
   apart |-> Separation(infos[r], infos[w]),
   analysis |-> AnalyzePair(infos[r].profile, infos[w].profile)]
(* By topic, then reader and writer as they are listed. *)
Pairs(infos, topic) ==
  LET usable(role) ==
        {i \in InScope(infos, topic) : infos[i].role = role /\ infos[i].usable}
      facing == {p \in usable("reader") \X usable("writer") :
                   infos[p[1]].topic = infos[p[2]].topic}
      before(p, q) ==
        \/ infos[p[1]].topic < infos[q[1]].topic
        \/ /\ infos[p[1]].topic = infos[q[1]].topic
           /\ p[1] < q[1] \/ (p[1] = q[1] /\ p[2] < q[2])
      ordered == SortedBy(facing, [p \in facing |-> {q \in facing : before(q, p)}])
  IN [i \in DOMAIN ordered |-> Pair(infos, ordered[i][1], ordered[i][2])]

Severity(analysis) ==
  IF DOMAIN analysis.incompatible # {} THEN "incompatible" ELSE "risky"
(* Incompatible reports first, otherwise as they came. *)
BySeverity_asFound(reports) == reports
BySeverity(reports) ==
  LET graded(severity) ==
        {i \in DOMAIN reports : Severity(reports[i].pair.analysis) = severity}
  IN Select(reports, graded("incompatible")) \o Select(reports, graded("risky"))
Cut(items) == SubSeq(items, 1, IF Len(items) < MaxItems THEN Len(items) ELSE MaxItems)

ScanEndpoints(infos, topic) ==
  LET pairs == Pairs(infos, topic)
      facing == Select(pairs, {i \in DOMAIN pairs : pairs[i].apart = "none"})
      entries == Select(facing, {i \in DOMAIN facing :
                                   DOMAIN Details(facing[i].analysis) # {}})
      matched == Select(facing, {i \in DOMAIN facing :
                                   DOMAIN facing[i].analysis.incompatible = {}})
      apart == Select(pairs, {i \in DOMAIN pairs : pairs[i].apart # "none"})
      reports == BySeverity(AttachQosFixes(infos, entries))
  IN [reports |-> Cut(reports),
      matched |-> Cut([i \in DOMAIN matched |->
                         [pair |-> matched[i],
                          late |-> LateJoiner(infos[matched[i].reader],
                                              infos[matched[i].writer])]]),
      notMatched |-> Cut(AttachPartitionFixes(infos, apart)),
      totals |-> [incompatible |-> Cardinality({i \in DOMAIN entries :
                                   Severity(entries[i].analysis) = "incompatible"}),
                  reports |-> Len(entries), matched |-> Len(matched),
                  notMatched |-> Len(apart)],
      checked |-> Len(pairs),
      unchecked |-> UNION {facing[i].analysis.unchecked : i \in DOMAIN facing},
      skipped |-> Cardinality({i \in InScope(infos, topic) : ~infos[i].usable})]
=============================================================================
