------------------------------ MODULE QosRules ------------------------------
(* What discovery announces of an endpoint's QoS, as a profile             *)
(* (adapters/common/qos_normalize.py), and the rules that compare the      *)
(* profiles of a reader and a writer (adapters/common/qos_analyzer.py).    *)
(*                                                                         *)
(* A sample is a function on the policies announced, with the values of    *)
(* the binding. A profile says a value for the policies that could be      *)
(* read; a policy is silent when the code holds None for it, and unknown   *)
(* when it was announced with a duration nobody could read. Durations are  *)
(* nanoseconds. History has a kind and a depth (0 for none), Liveliness a  *)
(* kind and a lease, DataRepresentation is the set of its flags, Partition *)
(* a sequence of names.                                                    *)
EXTENDS Integers, Sequences, FiniteSets

CONSTANTS
  Names,   \* the names of partitions
  Wild,    \* the names that hold a wildcard
  Covers   \* <<pattern, name>>: the pattern matches the concrete name

ASSUME CoversAssumption ==
  /\ "" \in Names \ Wild /\ Wild \subseteq Names
  /\ Covers \subseteq Wild \X (Names \ Wild)

(* What the code models as infinite: None, where a duration was read. *)
Infinite == 2147483647
Unreadable == -1

RxoPolicies ==
  <<"Reliability", "Durability", "Deadline", "Liveliness", "LatencyBudget",
    "Ownership", "DestinationOrder", "DataRepresentation">>
Rxo == {RxoPolicies[i] : i \in DOMAIN RxoPolicies}
(* Left unchecked when a side is silent. *)
Optional == Rxo \ {"Reliability", "Durability", "Deadline"}
Timed == {"Deadline", "Liveliness", "LatencyBudget"}

DurabilityOrder == <<"VOLATILE", "TRANSIENT_LOCAL", "TRANSIENT", "PERSISTENT">>
LivelinessOrder == <<"AUTOMATIC", "MANUAL_BY_PARTICIPANT", "MANUAL_BY_TOPIC">>
DestinationOrders == <<"BY_RECEPTION_TIMESTAMP", "BY_SOURCE_TIMESTAMP">>
Rank(order, value) == CHOOSE i \in DOMAIN order : order[i] = value

(* The function f, and g where f is not defined. *)
Over(f, g) == [x \in DOMAIN f \cup DOMAIN g |-> IF x \in DOMAIN f THEN f[x] ELSE g[x]]

-----------------------------------------------------------------------------
(* Normalization. *)

DurationIn(policy, value) == IF policy = "Liveliness" THEN value.lease ELSE value

UnknownPolicies(sample) ==
  {p \in Timed \cap DOMAIN sample : DurationIn(p, sample[p]) = Unreadable}
Read(policy, value) ==
  CASE policy = "Deadline" /\ value = Unreadable -> Infinite
    [] policy = "Liveliness" /\ value.lease = Unreadable ->
         [value EXCEPT !.lease = Infinite]
    [] OTHER -> value
(* A latency budget that is infinite is held as None, like an absent one. *)
ReadAsNone(policy, value) ==
  \/ policy = "LatencyBudget" /\ value \in {Unreadable, Infinite}
  \/ policy = "DataRepresentation" /\ value = {}
  \/ policy = "Partition" /\ value = <<>>
Defaults == [Deadline |-> Infinite, Partition |-> <<"">>]

(* An endpoint has a profile only if it announced these two. *)
HasProfile(sample) == {"Reliability", "Durability"} \subseteq DOMAIN sample
Profile(sample) ==
  LET spoken == {p \in DOMAIN sample : ~ReadAsNone(p, sample[p])} IN
  [says |-> Over([p \in spoken |-> Read(p, sample[p])], Defaults),
   unknown |-> UnknownPolicies(sample)]

Says(profile, policy) == policy \in DOMAIN profile.says

(* History is believed only where it cannot be the binding's default. *)
HistoryAnnounced(profile, vendor) ==
  /\ vendor = "cyclone"
  /\ Says(profile, "History")
  /\ profile.says["History"] \notin [kind : {"KEEP_LAST"}, depth : {0, 1}]
ApplyHistoryPolicy(profile, vendor) ==
  IF HistoryAnnounced(profile, vendor) THEN profile
  ELSE [profile EXCEPT
         !.says = [p \in DOMAIN profile.says \ {"History"} |-> profile.says[p]]]

-----------------------------------------------------------------------------
(* Partitions, which are evaluated before any of the rules below. *)

PartitionPairMatches_sameWildcard(rp, wp) ==
  \/ rp = wp \/ <<rp, wp>> \in Covers \/ <<wp, rp>> \in Covers
PartitionPairMatches(rp, wp) ==
  \/ rp \notin Wild /\ wp \notin Wild /\ rp = wp
  \/ wp \notin Wild /\ <<rp, wp>> \in Covers
  \/ rp \notin Wild /\ <<wp, rp>> \in Covers
PartitionsMatch(reader, writer) ==
  \E i \in DOMAIN reader, j \in DOMAIN writer :
    PartitionPairMatches(reader[i], writer[j])

-----------------------------------------------------------------------------
(* The pair rules. *)

(* What a reader requests is more than what the writer offers. *)
Clash(policy, requested, offered) ==
  \/ policy = "Reliability" /\ requested = "RELIABLE" /\ offered = "BEST_EFFORT"
  \/ /\ policy = "Durability"
     /\ Rank(DurabilityOrder, requested) > Rank(DurabilityOrder, offered)
  \/ policy \in {"Deadline", "LatencyBudget"} /\ offered > requested
  \/ /\ policy = "Liveliness"
     /\ \/ Rank(LivelinessOrder, offered.kind) < Rank(LivelinessOrder, requested.kind)
        \/ offered.lease > requested.lease
  \/ policy = "Ownership" /\ requested # offered
  \/ /\ policy = "DestinationOrder"
     /\ Rank(DestinationOrders, offered) < Rank(DestinationOrders, requested)
  \/ policy = "DataRepresentation" /\ requested \cap offered = {}

Unchecked_infinite(r, w) == Optional \ (DOMAIN r.says \cap DOMAIN w.says)
Unchecked(r, w) ==
  (Optional \ (DOMAIN r.says \cap DOMAIN w.says)) \cup r.unknown \cup w.unknown

(* A duration as it is written: the largest unit that fits, whole or to    *)
(* six significant digits.                                                 *)
Step(ns) ==
  CHOOSE s \in {1, 10, 100, 1000, 10000} :
    ns \div s < 1000000 /\ (s = 1 \/ ns \div s >= 100000)
FormatDuration(ns) ==
  LET unit == CHOOSE u \in {1000000000, 1000000, 1000, 1} :
                /\ ns >= u \/ u = 1
                /\ u = 1000000000 \/ ns < 1000 * u
  IN CASE ns = Infinite -> <<0, Infinite>>
       [] ns # Infinite /\ ns % unit = 0 -> <<unit, ns>>
       [] OTHER -> <<unit, Step(ns) * ((ns + Step(ns) \div 2) \div Step(ns))>>
Text(policy, value) ==
  CASE policy \in {"Deadline", "LatencyBudget"} -> FormatDuration(value)
    [] policy = "Liveliness" -> <<value.kind, FormatDuration(value.lease)>>
    [] OTHER -> value

(* Findings are a function on the policies found, to the two texts. *)
Finding(r, w, policies) ==
  [p \in policies |-> <<Text(p, r.says[p]), Text(p, w.says[p])>>]

Incompatible(r, w) ==
  Finding(r, w, {p \in Rxo \ Unchecked(r, w) : Clash(p, r.says[p], w.says[p])})

HistoryIn(profile, kinds) ==
  Says(profile, "History") => profile.says["History"].kind \in kinds
HistoryUnknown(r, w) ==
  /\ ~(Says(r, "History") /\ Says(w, "History"))
  /\ HistoryIn(r, {"KEEP_ALL"}) /\ HistoryIn(w, {"KEEP_LAST"})
Risky(r, w) ==
  LET lossy == /\ Says(r, "History") /\ Says(w, "History")
               /\ HistoryIn(r, {"KEEP_ALL"}) /\ HistoryIn(w, {"KEEP_LAST"})
  IN [p \in IF lossy THEN {"History"} ELSE {} |->
       <<"KEEP_ALL", w.says["History"].depth>>]

AnalyzePair(r, w) ==
  [incompatible |-> Incompatible(r, w), risky |-> Risky(r, w),
   unchecked |-> Unchecked(r, w), historyUnknown |-> HistoryUnknown(r, w)]
Details(analysis) == Over(analysis.incompatible, analysis.risky)
=============================================================================
