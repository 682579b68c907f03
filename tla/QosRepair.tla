------------------------------ MODULE QosRepair ------------------------------
(* Diagnose, propose, apply, verify: a client scans the bus for QoS         *)
(* mismatches, a human applies one of the fixes the scan lists to all the   *)
(* endpoints it names, and the client scans the topic of the fix again, as  *)
(* the fix says (qos_fixes.py, SuggestedFix.verify_with).                   *)
(*                                                                          *)
(* The endpoints are external: each has its whole QoS, of which discovery   *)
(* announces a part, some of it garbled. What DDS does with a pair (Flows)  *)
(* depends on the QoS the endpoints have; what the scan says of it, on what *)
(* was announced (Listing).                                                 *)
EXTENDS QosScan

CONSTANTS
  Buses,     \* families of buses to start from; a bus is a sequence of endpoints
  Skew       \* host -> how far its clock is ahead

(* The values a policy may have. *)
Qos ==
  [Reliability : {"RELIABLE", "BEST_EFFORT"}, Durability : Range(DurabilityOrder),
   Deadline : Nat, Liveliness : [kind : Range(LivelinessOrder), lease : Nat],
   LatencyBudget : Nat, Ownership : {"SHARED", "EXCLUSIVE"},
   DestinationOrder : Range(DestinationOrders), DataRepresentation : Seq(STRING),
   Partition : Seq(Names), History : [kind : {"KEEP_LAST", "KEEP_ALL"}, depth : Nat]]
(* An endpoint has a value for each, and tells those that are not the      *)
(* defaults a reader of discovery may assume; a host announced is its own. *)
IsEndpoint(e) ==
  /\ {"topic", "type", "host", "joined", "participant", "role", "observer", "tellsType",
      "dated", "vendor", "garbled", "tells", "qos"} = DOMAIN e
  /\ e.topic \in Nat /\ e.type # NoType
  /\ e.host \in DOMAIN Skew /\ e.joined \in Int
  /\ e.participant \in DOMAIN HostName => HostName[e.participant] \in {e.host, NoHost}
  /\ e.qos \in Qos
  /\ "Deadline" \notin e.tells => e.qos.Deadline = Infinite
  /\ "Partition" \notin e.tells => e.qos.Partition = <<>>
(* The endpoints of a participant are on its host. *)
IsBus(b) ==
  /\ Len(b) \in Nat /\ DOMAIN b = 1..Len(b)
  /\ \A i \in DOMAIN b : IsEndpoint(b[i])
  /\ \A i, j \in DOMAIN b :
       b[i].participant = b[j].participant /\ b[i].participant # NoParticipant
         => b[i].host = b[j].host
ASSUME BusAssumption ==
  /\ \A h \in DOMAIN Skew : Skew[h] \in Int
  /\ \A family \in Buses : \A b \in family : IsBus(b)

VARIABLES
  bus,       \* the endpoints, in the order discovery lists them
  scan,      \* the result of the last scan
  asked,     \* the topic of the last or next scan
  phase,     \* "scan" when a scan was asked for, "read" when it is answered
  applied    \* what was changed since the scan before: pairs, policies, and
             \* whether the pairs of the fix had the same values

vars == <<bus, scan, asked, phase, applied>>

-----------------------------------------------------------------------------
(* The bus. *)

(* A DataRepresentation is a sequence, of which a writer uses the first;    *)
(* the binding gives it as two flags.                                       *)
Sent(e, policy) ==
  LET value == e.qos[policy] IN
  CASE policy = "DataRepresentation" -> Range(value)
    [] policy = "Liveliness" /\ policy \in e.garbled -> [value EXCEPT !.lease = Unreadable]
    [] policy \in {"Deadline", "LatencyBudget"} \cap e.garbled -> Unreadable
    [] OTHER -> value
(* The binding fills a History that was not sent with its own default. *)
BindingDefaults == [History |-> [kind |-> "KEEP_LAST", depth |-> 1]]
Sample(e) == Over([p \in e.tells |-> Sent(e, p)], BindingDefaults)

EndpointInfo(e) ==
  [role |-> e.role, topic |-> e.topic, observer |-> e.observer,
   type |-> IF e.tellsType THEN e.type ELSE NoType,
   participant |-> e.participant,
   announced |-> IF e.dated THEN e.joined + Skew[e.host] ELSE NoTime,
   usable |-> HasProfile(Sample(e)),
   profile |-> ApplyHistoryPolicy(Profile(Sample(e)), e.vendor)]
Listing == [i \in DOMAIN bus |-> EndpointInfo(bus[i])]

(* What DDS does. *)
Serves(policy, offered, requested) ==
  CASE policy = "Reliability" -> offered = "RELIABLE" \/ requested = "BEST_EFFORT"
    [] policy = "Durability" ->
         \A i \in 1..Rank(DurabilityOrder, requested) :
           \E j \in i..4 : DurabilityOrder[j] = offered
    [] policy \in {"Deadline", "LatencyBudget"} -> offered <= requested
    [] policy = "Liveliness" ->
         /\ offered.lease <= requested.lease
         /\ \/ requested.kind = "AUTOMATIC" \/ offered.kind = "MANUAL_BY_TOPIC"
            \/ offered.kind = requested.kind
    [] policy = "Ownership" -> offered = requested
    [] policy = "DestinationOrder" ->
         offered = "BY_SOURCE_TIMESTAMP" \/ requested = "BY_RECEPTION_TIMESTAMP"
    [] policy = "DataRepresentation" -> Contains(requested, Head(offered))
Joined(r, w) ==
  LET names(e) == IF e.qos["Partition"] = <<>> THEN <<"">> ELSE e.qos["Partition"]
  IN \E p \in Range(names(r)), q \in Range(names(w)) :
       \/ p = q /\ p \notin Wild
       \/ {<<p, q>>, <<q, p>>} \cap Covers # {}
Flows(r, w) ==
  /\ r.topic = w.topic /\ r.type = w.type /\ Joined(r, w)
  /\ \A p \in Rxo : Serves(p, w.qos[p], r.qos[p])

-----------------------------------------------------------------------------
NoScan == ScanEndpoints(<<>>, WholeBus)
NothingApplied == [pairs |-> {}, policies |-> {}, exact |-> TRUE]

Init ==
  /\ \E family \in Buses : bus \in family
  /\ scan = NoScan /\ asked = WholeBus /\ phase = "scan"
  /\ applied = NothingApplied

Scan ==
  /\ phase = "scan" /\ phase' = "read"
  /\ scan' = ScanEndpoints(Listing, asked)
  /\ UNCHANGED <<bus, asked, applied>>

Ask(topic) ==
  /\ phase = "read" /\ phase' = "scan"
  /\ asked' = topic /\ applied' = NothingApplied
  /\ UNCHANGED <<bus, scan>>

ListedFixes ==
  UNION {Range(x.fixes) : x \in Range(scan.reports) \cup Range(scan.notMatched)}

(* The endpoints of the side that changes. *)
Targeted(fix) == {IF fix.side = "reader" THEN p[1] ELSE p[2] : p \in fix.pairs}
Edited(e, values) ==
  [e EXCEPT !.qos = Over(values, e.qos), !.tells = e.tells \cup DOMAIN values]
Exact(fix) ==
  \A p, q \in fix.pairs, policy \in DOMAIN fix.values :
    /\ bus[p[1]].qos[policy] = bus[q[1]].qos[policy]
    /\ bus[p[2]].qos[policy] = bus[q[2]].qos[policy]
Apply(fix) ==
  /\ phase = "read" /\ phase' = "scan"
  /\ bus' = [i \in DOMAIN bus |->
               IF i \in Targeted(fix) THEN Edited(bus[i], fix.values) ELSE bus[i]]
  /\ asked' = fix.topic
  /\ applied' = [pairs |-> fix.pairs, policies |-> DOMAIN fix.values,
                 exact |-> Exact(fix)]
  /\ UNCHANGED scan

Next ==
  \/ Scan
  \/ \E topic \in {WholeBus} \cup {bus[i].topic : i \in DOMAIN bus} : Ask(topic)
  \/ \E fix \in ListedFixes : Apply(fix)

Spec == Init /\ [][Next]_vars

-----------------------------------------------------------------------------
(* Properties. *)

Listed(items) == {items[i].pair : i \in DOMAIN items}
PairFlows(pair) == Flows(bus[pair.reader], bus[pair.writer])
Answered == phase = "read"

(* No false alarm, whatever was announced, garbled or left out: a pair      *)
(* reported incompatible or never matching gets no data, and a risky one    *)
(* has a reader that keeps all of a writer that does not (analyze_pair,     *)
(* _separation, apply_history_policy).                                      *)
AlarmsAreTrue ==
  Answered =>
    /\ \A pair \in Listed(scan.notMatched) : ~PairFlows(pair)
    /\ \A pair \in Listed(scan.reports) :
         /\ DOMAIN pair.analysis.incompatible # {} => ~PairFlows(pair)
         /\ DOMAIN pair.analysis.risky # {} =>
              /\ bus[pair.reader].qos["History"].kind = "KEEP_ALL"
              /\ bus[pair.writer].qos["History"].kind = "KEEP_LAST"

(* No false all-clear: where every compared policy was announced, no        *)
(* endpoint was left out, types are known and no writer offers several      *)
(* representations (their order is lost, _check_representation), a pair     *)
(* the scan calls matched gets its data; and a late joiner did join later   *)
(* than its VOLATILE writer, however the hosts' clocks differ               *)
(* (_late_joiner_note).                                                     *)
Complete ==
  /\ scan.unchecked = {} /\ scan.skipped = 0
  /\ \A i \in DOMAIN bus :
       /\ bus[i].tellsType
       /\ bus[i].role = "writer" => Len(bus[i].qos["DataRepresentation"]) = 1
AllClearIsTrue ==
  Answered =>
    /\ Complete => \A pair \in Listed(scan.matched) : PairFlows(pair)
    /\ \A i \in DOMAIN scan.matched :
         scan.matched[i].late =>
           LET r == bus[scan.matched[i].pair.reader]
               w == bus[scan.matched[i].pair.writer]
           IN r.joined - w.joined > LateJoin /\ w.qos["Durability"] = "VOLATILE"

(* What a scan says of a pair, good or bad, agrees with what DDS does.      *)
VerdictsAreTrue == AlarmsAreTrue /\ AllClearIsTrue

(* A fix cures: after it was applied to the endpoints it names, its         *)
(* policies part none of its pairs, and the scan of its topic confirms that *)
(* (_targets, _partition_fix), when the pairs that share the fix had the    *)
(* same values.                                                             *)
Cured(r, w) ==
  \A p \in applied.policies :
    IF p = "Partition" THEN Joined(r, w) ELSE Serves(p, w.qos[p], r.qos[p])
Unconfirmed ==
  \/ \E x \in Range(scan.reports) :
       /\ <<x.pair.reader, x.pair.writer>> \in applied.pairs
       /\ DOMAIN Details(x.pair.analysis) \cap applied.policies # {}
  \/ \E x \in Range(scan.notMatched) :
       /\ <<x.pair.reader, x.pair.writer>> \in applied.pairs
       /\ x.pair.apart = "partition" /\ "Partition" \in applied.policies
AllCured == \A p \in applied.pairs : Cured(bus[p[1]], bus[p[2]])
FixFits == applied.exact => AllCured /\ (Answered => ~Unconfirmed)

(* Nor does truncation hide it: among the listed items, each finding with a *)
(* supported policy is on or after the report that carries the fixes of its *)
(* group, and no risky report is listed before an incompatible one          *)
(* (scan_endpoints, attach_qos_fixes).                                      *)
CureIsListed ==
  /\ \A i \in DOMAIN scan.reports :
       LET pair == scan.reports[i].pair IN
       DOMAIN Details(pair.analysis) \cap Supported # {} =>
         \E j \in 1..i : \E fix \in Range(scan.reports[j].fixes) :
           <<pair.reader, pair.writer>> \in fix.pairs
  /\ \A i \in DOMAIN scan.reports :
       Severity(scan.reports[i].pair.analysis) = "risky" =>
         i > scan.totals.incompatible

(* And a fix breaks nothing: no pair that got its data loses it by a fix,   *)
(* but for a change of Ownership, whose tradeoff says so.                   *)
FixBreaksNothing ==
  (bus' # bus /\ applied'.exact /\ "Ownership" \notin applied'.policies) =>
    \A i, j \in DOMAIN bus :
      (bus[i].role = "reader" /\ bus[j].role = "writer" /\ Flows(bus[i], bus[j]))
        => Flows(bus'[i], bus'[j])

(* What a scan offers as a fix is one, whatever the bus and the order of    *)
(* scans and fixes: it is found, it cures, and it costs nobody else.  (At   *)
(* first nothing is scanned yet.)                                           *)
FixCures == [][FixFits' /\ CureIsListed' /\ FixBreaksNothing]_vars
=============================================================================
