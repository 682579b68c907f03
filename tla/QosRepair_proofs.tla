-------------------------- MODULE QosRepair_proofs --------------------------
(* For all durations and all kinds: the values of a fix serve the pair they *)
(* were made for, and take nothing from any other pair. For every bus: what *)
(* a scan says of a pair agrees with what DDS does, and a listed fix cures  *)
(* the pairs it is for and breaks no other.                                 *)
EXTENDS QosRepair, OrderedMapLemmas

(* The values of the policies a fix can be built for. *)
Kinds == {"AUTOMATIC", "MANUAL_BY_PARTICIPANT", "MANUAL_BY_TOPIC"}
Durabilities == {"VOLATILE", "TRANSIENT_LOCAL", "TRANSIENT", "PERSISTENT"}
Valid(policy, value) ==
  /\ policy = "Reliability" => value \in {"RELIABLE", "BEST_EFFORT"}
  /\ policy = "Durability" => value \in Durabilities
  /\ policy \in {"Deadline", "LatencyBudget"} => value \in Nat
  /\ policy = "Liveliness" => value \in [kind : Kinds, lease : Nat]
  /\ policy = "Ownership" => value \in {"SHARED", "EXCLUSIVE"}

LEMMA DurabilityRank ==
  /\ Rank(DurabilityOrder, "VOLATILE") = 1
  /\ Rank(DurabilityOrder, "TRANSIENT_LOCAL") = 2
  /\ Rank(DurabilityOrder, "TRANSIENT") = 3
  /\ Rank(DurabilityOrder, "PERSISTENT") = 4
<1>1. DOMAIN DurabilityOrder = {1, 2, 3, 4}
  BY DEF DurabilityOrder
<1>2. /\ DurabilityOrder[1] = "VOLATILE" /\ DurabilityOrder[2] = "TRANSIENT_LOCAL"
      /\ DurabilityOrder[3] = "TRANSIENT" /\ DurabilityOrder[4] = "PERSISTENT"
  BY DEF DurabilityOrder
<1> QED
  BY <1>1, <1>2 DEF Rank

LEMMA LivelinessRank ==
  /\ Rank(LivelinessOrder, "AUTOMATIC") = 1
  /\ Rank(LivelinessOrder, "MANUAL_BY_PARTICIPANT") = 2
  /\ Rank(LivelinessOrder, "MANUAL_BY_TOPIC") = 3
<1>1. DOMAIN LivelinessOrder = {1, 2, 3}
  BY DEF LivelinessOrder
<1>2. /\ LivelinessOrder[1] = "AUTOMATIC" /\ LivelinessOrder[2] = "MANUAL_BY_PARTICIPANT"
      /\ LivelinessOrder[3] = "MANUAL_BY_TOPIC"
  BY DEF LivelinessOrder
<1> QED
  BY <1>1, <1>2 DEF Rank

LEMMA DurationServed ==
  ASSUME NEW policy \in {"Deadline", "LatencyBudget"}, NEW offered, NEW requested
  PROVE  Serves(policy, offered, requested) <=> offered <= requested
<1>1. CASE policy = "Deadline"
  BY <1>1 DEF Serves
<1>2. CASE policy = "LatencyBudget"
  BY <1>2 DEF Serves
<1> QED
  BY <1>1, <1>2

(* DDS serves a durability by any that ranks at least as high. *)
LEMMA DurabilityServed ==
  ASSUME NEW offered \in Durabilities, NEW requested \in Durabilities
  PROVE  Serves("Durability", offered, requested)
           <=> Rank(DurabilityOrder, requested) <= Rank(DurabilityOrder, offered)
<1> DEFINE rank(x) == Rank(DurabilityOrder, x)
<1>1. \A x \in Durabilities : rank(x) \in 1..4 /\ DurabilityOrder[rank(x)] = x
  BY DurabilityRank DEF Durabilities, DurabilityOrder
<1>2. \A j \in 1..4, x \in Durabilities : DurabilityOrder[j] = x => j = rank(x)
  BY DurabilityRank DEF Durabilities, DurabilityOrder
<1>3. Serves("Durability", offered, requested)
        <=> \A i \in 1..rank(requested) : \E j \in i..4 : DurabilityOrder[j] = offered
  BY DEF Serves
<1>4. ASSUME \A i \in 1..rank(requested) : \E j \in i..4 : DurabilityOrder[j] = offered
      PROVE  rank(requested) <= rank(offered)
  <2>1. PICK j \in rank(requested)..4 : DurabilityOrder[j] = offered
    BY <1>1, <1>4
  <2> QED
    BY <1>1, <1>2, <2>1
<1>5. ASSUME rank(requested) <= rank(offered), NEW i \in 1..rank(requested)
      PROVE  \E j \in i..4 : DurabilityOrder[j] = offered
  <2>1. rank(offered) \in i..4
    BY <1>1, <1>5
  <2> QED
    BY <1>1, <2>1
<1> QED
  BY <1>3, <1>4, <1>5

(* DDS serves a liveliness by a kind that ranks at least as high and a      *)
(* lease that is not longer.                                                *)
LEMMA LivelinessServed ==
  ASSUME NEW offered \in [kind : Kinds, lease : Nat],
         NEW requested \in [kind : Kinds, lease : Nat]
  PROVE  Serves("Liveliness", offered, requested)
           <=> /\ Rank(LivelinessOrder, requested.kind) <= Rank(LivelinessOrder, offered.kind)
               /\ offered.lease <= requested.lease
<1>1. Serves("Liveliness", offered, requested)
        <=> /\ offered.lease <= requested.lease
            /\ \/ requested.kind = "AUTOMATIC" \/ offered.kind = "MANUAL_BY_TOPIC"
               \/ offered.kind = requested.kind
  BY DEF Serves
<1>2. offered.kind \in Kinds /\ requested.kind \in Kinds
  OBVIOUS
<1> QED
  BY <1>1, <1>2, LivelinessRank DEF Kinds

-----------------------------------------------------------------------------
(* What an endpoint announces of a policy when the fix for its side is      *)
(* applied.                                                                 *)
Offered(side, policy, policies, r, w) ==
  IF side = "writer" THEN Targets(side, policies, r, w)[policy] ELSE w.says[policy]
Requested(side, policy, policies, r, w) ==
  IF side = "reader" THEN Targets(side, policies, r, w)[policy] ELSE r.says[policy]

(* The value of a fix, by policy. *)
LEMMA TargetOf ==
  ASSUME NEW side, NEW policies, NEW policy \in policies, NEW r, NEW w
  PROVE  /\ policy = "Reliability" =>
              Targets(side, policies, r, w)[policy]
                = IF side = "reader" THEN "BEST_EFFORT" ELSE "RELIABLE"
         /\ policy = "Liveliness" =>
              Targets(side, policies, r, w)[policy]
                = LivelinessTarget(side, r.says[policy], w.says[policy])
         /\ policy \notin {"Reliability", "Liveliness"} =>
              Targets(side, policies, r, w)[policy]
                = IF side = "reader" THEN w.says[policy] ELSE r.says[policy]
  BY DEF Targets

LEMMA LivelinessTargetFits ==
  ASSUME NEW side \in {"reader", "writer"},
         NEW requested \in [kind : Kinds, lease : Nat],
         NEW offered \in [kind : Kinds, lease : Nat]
  PROVE  LET target == LivelinessTarget(side, requested, offered) IN
         /\ target \in [kind : Kinds, lease : Nat]
         /\ side = "reader" =>
              /\ Serves("Liveliness", offered, target)
              /\ Rank(LivelinessOrder, target.kind) <= Rank(LivelinessOrder, requested.kind)
              /\ target.lease >= requested.lease
         /\ side = "writer" =>
              /\ Serves("Liveliness", target, requested)
              /\ Rank(LivelinessOrder, target.kind) >= Rank(LivelinessOrder, offered.kind)
              /\ target.lease <= offered.lease
<1> DEFINE target == LivelinessTarget(side, requested, offered)
           rank(x) == Rank(LivelinessOrder, x)
<1>1. \A k \in Kinds : rank(k) \in 1..3
  BY LivelinessRank DEF Kinds
<1>2. requested.kind \in Kinds /\ requested.lease \in Nat
      /\ offered.kind \in Kinds /\ offered.lease \in Nat
  OBVIOUS
<1>3. CASE side = "reader"
  <2>1. /\ target.kind = IF rank(offered.kind) >= rank(requested.kind)
                         THEN requested.kind ELSE offered.kind
        /\ target.lease = IF offered.lease <= requested.lease
                          THEN requested.lease ELSE offered.lease
        /\ target \in [kind : Kinds, lease : Nat]
    BY <1>2, <1>3 DEF LivelinessTarget
  <2>2. /\ rank(target.kind) <= rank(offered.kind) /\ rank(target.kind) <= rank(requested.kind)
        /\ target.lease >= offered.lease /\ target.lease >= requested.lease
    <3> HIDE DEF target, rank
    <3> QED BY <1>1, <1>2, <2>1
  <2>3. Serves("Liveliness", offered, target)
    <3> HIDE DEF target
    <3> QED BY <1>2, <2>1, <2>2, LivelinessServed
  <2> QED
    BY <1>3, <2>1, <2>2, <2>3
<1>4. CASE side = "writer"
  <2>1. /\ target.kind = IF rank(offered.kind) >= rank(requested.kind)
                         THEN offered.kind ELSE requested.kind
        /\ target.lease = IF offered.lease <= requested.lease
                          THEN offered.lease ELSE requested.lease
        /\ target \in [kind : Kinds, lease : Nat]
    BY <1>2, <1>4 DEF LivelinessTarget
  <2>2. /\ rank(requested.kind) <= rank(target.kind) /\ rank(target.kind) >= rank(offered.kind)
        /\ target.lease <= offered.lease /\ target.lease <= requested.lease
    <3> HIDE DEF target, rank
    <3> QED BY <1>1, <1>2, <2>1
  <2>3. Serves("Liveliness", target, requested)
    <3> HIDE DEF target
    <3> QED BY <1>2, <2>1, <2>2, LivelinessServed
  <2> QED
    BY <1>4, <2>1, <2>2, <2>3
<1> QED
  BY <1>3, <1>4

(* A fix cures the pair it was made from: with the values for either side,  *)
(* DDS serves every policy of the fix (_targets).                           *)
THEOREM FixServes ==
  ASSUME NEW side \in {"reader", "writer"},
         NEW policies \in SUBSET Supported, NEW policy \in policies, NEW r, NEW w,
         Valid(policy, r.says[policy]), Valid(policy, w.says[policy])
  PROVE  Serves(policy, Offered(side, policy, policies, r, w),
                        Requested(side, policy, policies, r, w))
<1> DEFINE target == Targets(side, policies, r, w)[policy]
           offered == w.says[policy]
           requested == r.says[policy]
<1>1. policy \in {"Reliability", "Durability", "Deadline", "Liveliness", "Ownership",
                   "LatencyBudget"}
  BY DEF Supported
<1>2. CASE policy = "Reliability"
  BY <1>2, TargetOf DEF Offered, Requested, Serves
<1>3. CASE policy = "Durability"
  <2>1. \A x \in Durabilities : Serves("Durability", x, x)
    BY DurabilityServed, DurabilityRank DEF Durabilities
  <2>2. offered \in Durabilities /\ requested \in Durabilities
    BY <1>3 DEF Valid
  <2>3. target = IF side = "reader" THEN offered ELSE requested
    BY <1>3, TargetOf
  <2> QED
    BY <1>3, <2>1, <2>2, <2>3 DEF Offered, Requested
<1>4. CASE policy \in {"Deadline", "LatencyBudget"}
  <2>1. offered \in Nat /\ requested \in Nat
    BY <1>4 DEF Valid
  <2>2. target = IF side = "reader" THEN offered ELSE requested
    BY <1>4, TargetOf
  <2>3. Offered(side, policy, policies, r, w) <= Requested(side, policy, policies, r, w)
    BY <2>1, <2>2 DEF Offered, Requested
  <2> QED
    BY <1>4, <2>3, DurationServed
<1>5. CASE policy = "Ownership"
  BY <1>5, TargetOf DEF Offered, Requested, Serves
<1>6. CASE policy = "Liveliness"
  <2>1. offered \in [kind : Kinds, lease : Nat] /\ requested \in [kind : Kinds, lease : Nat]
    BY <1>6 DEF Valid
  <2>2. target = LivelinessTarget(side, requested, offered)
    BY <1>6, TargetOf
  <2> QED
    BY <1>6, <2>1, <2>2, LivelinessTargetFits DEF Offered, Requested
<1> QED
  BY <1>1, <1>2, <1>3, <1>4, <1>5, <1>6

(* A fix takes nothing from others: where its pair clashed, what a writer   *)
(* of any other pair offers still serves the reader that was relaxed, and   *)
(* what a reader requests is still served by the writer that was raised.    *)
(* Ownership is excluded, and its tradeoff says why (_TRADEOFFS).           *)
THEOREM FixRelaxes ==
  ASSUME NEW side \in {"reader", "writer"},
         NEW policies \in SUBSET Supported, NEW policy \in policies \ {"Ownership"},
         NEW r, NEW w, NEW other,
         Valid(policy, r.says[policy]), Valid(policy, w.says[policy]), Valid(policy, other),
         Clash(policy, r.says[policy], w.says[policy])
  PROVE  /\ side = "reader" /\ Serves(policy, other, r.says[policy]) =>
              Serves(policy, other, Requested(side, policy, policies, r, w))
         /\ side = "writer" /\ Serves(policy, w.says[policy], other) =>
              Serves(policy, Offered(side, policy, policies, r, w), other)
<1> DEFINE target == Targets(side, policies, r, w)[policy]
           offered == w.says[policy]
           requested == r.says[policy]
<1>a. policy \in policies
  OBVIOUS
<1>1. policy \in {"Reliability", "Durability", "Deadline", "Liveliness", "LatencyBudget"}
  BY DEF Supported
<1>2. CASE policy = "Reliability"
  <2>1. target = IF side = "reader" THEN "BEST_EFFORT" ELSE "RELIABLE"
    BY <1>a, <1>2, TargetOf
  <2> QED
    BY <1>2, <2>1 DEF Offered, Requested, Serves
<1>3. CASE policy = "Durability"
  <2>1. /\ offered \in Durabilities /\ requested \in Durabilities /\ other \in Durabilities
        /\ Rank(DurabilityOrder, requested) > Rank(DurabilityOrder, offered)
    BY <1>3 DEF Valid, Clash
  <2>2. target = IF side = "reader" THEN offered ELSE requested
    BY <1>a, <1>3, TargetOf
  <2>3. \A x \in Durabilities : Rank(DurabilityOrder, x) \in 1..4
    BY DurabilityRank DEF Durabilities
  <2>4. Serves(policy, other, requested) => Serves(policy, other, offered)
    BY <1>3, <2>1, <2>3, DurabilityServed
  <2>5. Serves(policy, offered, other) => Serves(policy, requested, other)
    BY <1>3, <2>1, <2>3, DurabilityServed
  <2> QED
    BY <1>3, <2>2, <2>4, <2>5 DEF Offered, Requested
<1>4. CASE policy \in {"Deadline", "LatencyBudget"}
  <2>1. /\ offered \in Nat /\ requested \in Nat /\ other \in Nat /\ offered > requested
    BY <1>4 DEF Valid, Clash
  <2>2. target = IF side = "reader" THEN offered ELSE requested
    BY <1>a, <1>4, TargetOf
  <2>3. other <= requested => other <= offered
    BY <2>1
  <2>4. offered <= other => requested <= other
    BY <2>1
  <2> QED
    BY <1>4, <2>2, <2>3, <2>4, DurationServed DEF Offered, Requested
<1>5. CASE policy = "Liveliness"
  <2>1. /\ offered \in [kind : Kinds, lease : Nat] /\ requested \in [kind : Kinds, lease : Nat]
        /\ other \in [kind : Kinds, lease : Nat]
    BY <1>5 DEF Valid
  <2>2. target = LivelinessTarget(side, requested, offered)
    BY <1>a, <1>5, TargetOf
  <2>3. target \in [kind : Kinds, lease : Nat]
    BY <2>1, <2>2, LivelinessTargetFits
  <2>4. \A k \in Kinds : Rank(LivelinessOrder, k) \in 1..3
    BY LivelinessRank DEF Kinds
  <2>5. CASE side = "reader"
    <3>1. /\ Rank(LivelinessOrder, target.kind) <= Rank(LivelinessOrder, requested.kind)
          /\ target.lease >= requested.lease
      BY <2>1, <2>2, <2>5, LivelinessTargetFits
    <3>2. Serves("Liveliness", other, requested) => Serves("Liveliness", other, target)
      <4> HIDE DEF target, requested, offered
      <4> QED BY <2>1, <2>3, <2>4, <3>1, LivelinessServed
    <3> QED
      BY <1>5, <2>5, <3>2 DEF Requested
  <2>6. CASE side = "writer"
    <3>1. /\ Rank(LivelinessOrder, target.kind) >= Rank(LivelinessOrder, offered.kind)
          /\ target.lease <= offered.lease
      BY <2>1, <2>2, <2>6, LivelinessTargetFits
    <3>2. Serves("Liveliness", offered, other) => Serves("Liveliness", target, other)
      <4> HIDE DEF target, requested, offered
      <4> QED BY <2>1, <2>3, <2>4, <3>1, LivelinessServed
    <3> QED
      BY <1>5, <2>6, <3>2 DEF Offered
  <2> QED
    BY <2>5, <2>6
<1> QED
  BY <1>1, <1>2, <1>3, <1>4, <1>5
-----------------------------------------------------------------------------
(* Lists.                                                                   *)
LEMMA CutIn ==
  ASSUME NEW T, NEW s \in Seq(T)
  PROVE  Cut(s) \in Seq(T)
<1> DEFINE n == IF Len(s) < MaxItems THEN Len(s) ELSE MaxItems
<1>1. n \in Nat /\ n <= Len(s)  BY ScanAssumption
<1>2. \A i \in 1..n : s[i] \in T  BY <1>1
<1>3. SubSeq(s, 1, n) \in Seq(T)  BY <1>1, <1>2, SubSeqProperties
<1> QED  BY <1>3 DEF Cut

LEMMA OwnElements ==
  ASSUME NEW T, NEW s \in Seq(T)
  PROVE  s \in Seq(Range(s)) /\ Range(s) \subseteq T
<1>1. DOMAIN s = 1..Len(s) /\ Len(s) \in Nat /\ \A i \in 1..Len(s) : s[i] \in T
  OBVIOUS
<1>2. s \in [1..Len(s) -> Range(s)]
  <2>1. s = [i \in DOMAIN s |-> s[i]]  OBVIOUS
  <2> QED  BY <1>1, <2>1 DEF Range
<1>3. s \in Seq(Range(s))
  BY <1>1, <1>2, SeqDef
<1> QED  BY <1>1, <1>3 DEF Range

-----------------------------------------------------------------------------
(* Profiles. What is known of a policy is what the endpoint has.            *)
Profiled(e) == ApplyHistoryPolicy(Profile(Sample(e)), e.vendor)
Known(profile, policy) == policy \in DOMAIN profile.says \ profile.unknown

LEMMA Overlaid ==
  ASSUME NEW f, NEW g
  PROVE  DOMAIN Over(f, g) = DOMAIN f \cup DOMAIN g
  BY DEF Over

LEMMA OverAt ==
  ASSUME NEW f, NEW g, NEW x \in DOMAIN f \cup DOMAIN g
  PROVE  Over(f, g)[x] = IF x \in DOMAIN f THEN f[x] ELSE g[x]
  BY DEF Over

LEMMA SampleOf ==
  ASSUME NEW e, NEW p, p # "History"
  PROVE  /\ p \in DOMAIN Sample(e) <=> p \in e.tells
         /\ p \in e.tells => Sample(e)[p] = Sent(e, p)
<1> DEFINE sent == [q \in e.tells |-> Sent(e, q)]
<1>1. DOMAIN sent = e.tells /\ (p \in e.tells => sent[p] = Sent(e, p))
  OBVIOUS
<1>2. DOMAIN BindingDefaults = {"History"}
  BY DEF BindingDefaults
<1>3. Sample(e) = Over(sent, BindingDefaults)
  BY DEF Sample
<1>4. /\ DOMAIN Over(sent, BindingDefaults) = DOMAIN sent \cup DOMAIN BindingDefaults
      /\ p \in DOMAIN sent => Over(sent, BindingDefaults)[p] = sent[p]
  BY Overlaid, OverAt
<1> HIDE DEF sent
<1> QED
  BY <1>1, <1>2, <1>3, <1>4

LEMMA ProfileOf ==
  ASSUME NEW e, NEW p, p # "History"
  PROVE  LET spoken == p \in e.tells /\ ~ReadAsNone(p, Sent(e, p)) IN
         /\ p \in DOMAIN Profiled(e).says <=> spoken \/ p \in {"Deadline", "Partition"}
         /\ p \in DOMAIN Profiled(e).says =>
              Profiled(e).says[p] = IF spoken THEN Read(p, Sent(e, p)) ELSE Defaults[p]
         /\ p \in Profiled(e).unknown <=>
              p \in Timed \cap e.tells /\ DurationIn(p, Sent(e, p)) = Unreadable
<1> DEFINE s == Sample(e)
           spoken == {q \in DOMAIN s : ~ReadAsNone(q, s[q])}
           heard == [q \in spoken |-> Read(q, s[q])]
           told == Over(heard, Defaults)
<1>1. /\ DOMAIN told = spoken \cup {"Deadline", "Partition"}
      /\ p \in DOMAIN told => told[p] = IF p \in spoken THEN Read(p, s[p]) ELSE Defaults[p]
  <2>1. DOMAIN heard = spoken /\ (p \in spoken => heard[p] = Read(p, s[p]))
    OBVIOUS
  <2>2. DOMAIN Defaults = {"Deadline", "Partition"}
    BY DEF Defaults
  <2>3. /\ DOMAIN told = DOMAIN heard \cup DOMAIN Defaults
        /\ p \in DOMAIN heard => told[p] = heard[p]
        /\ p \in DOMAIN Defaults \ DOMAIN heard => told[p] = Defaults[p]
    <3> HIDE DEF heard
    <3> QED
      BY Overlaid, OverAt
  <2> HIDE DEF heard, spoken
  <2> QED
    BY <2>1, <2>2, <2>3
<1>2. Profile(s).says = told /\ Profile(s).unknown = UnknownPolicies(s)
  BY DEF Profile
<1>3. /\ p \in DOMAIN Profiled(e).says <=> p \in DOMAIN Profile(s).says
      /\ p \in DOMAIN Profile(s).says => Profiled(e).says[p] = Profile(s).says[p]
      /\ Profiled(e).unknown = Profile(s).unknown
  BY DEF Profiled, ApplyHistoryPolicy, Profile
<1>4. p \in spoken <=> p \in e.tells /\ ~ReadAsNone(p, Sent(e, p))
  BY SampleOf
<1>5. p \in UnknownPolicies(s) <=>
        p \in Timed \cap e.tells /\ DurationIn(p, Sent(e, p)) = Unreadable
  BY SampleOf DEF UnknownPolicies
<1>6. p \in spoken => Read(p, s[p]) = Read(p, Sent(e, p))
  BY SampleOf
<1> HIDE DEF told, spoken, s
<1> QED
  BY <1>1, <1>2, <1>3, <1>4, <1>5, <1>6

(* An endpoint's own value of a policy, as the binding has it. *)
Own(e, p) ==
  CASE p = "DataRepresentation" -> Range(e.qos[p])
    [] p = "Partition" -> IF e.qos[p] = <<>> THEN <<"">> ELSE e.qos[p]
    [] OTHER -> e.qos[p]

LEMMA QosOf ==
  ASSUME NEW e, IsEndpoint(e)
  PROVE  /\ DOMAIN e.qos = Rxo \cup {"Partition", "History"}
         /\ e.qos["Reliability"] \in {"RELIABLE", "BEST_EFFORT"}
         /\ e.qos["Durability"] \in Durabilities
         /\ e.qos["Deadline"] \in Nat /\ e.qos["LatencyBudget"] \in Nat
         /\ e.qos["Liveliness"] \in [kind : Kinds, lease : Nat]
         /\ e.qos["Ownership"] \in {"SHARED", "EXCLUSIVE"}
         /\ e.qos["DestinationOrder"] \in {"BY_RECEPTION_TIMESTAMP", "BY_SOURCE_TIMESTAMP"}
         /\ e.qos["DataRepresentation"] \in Seq(STRING)
         /\ e.qos["Partition"] \in Seq(Names)
         /\ e.qos["History"] \in [kind : {"KEEP_LAST", "KEEP_ALL"}, depth : Nat]
<1>1. Range(DurabilityOrder) = Durabilities
  BY DEF Range, DurabilityOrder, Durabilities
<1>2. Range(LivelinessOrder) = Kinds
  BY DEF Range, LivelinessOrder, Kinds
<1>3. Range(DestinationOrders) = {"BY_RECEPTION_TIMESTAMP", "BY_SOURCE_TIMESTAMP"}
  BY DEF Range, DestinationOrders
<1>4. Rxo = {"Reliability", "Durability", "Deadline", "Liveliness", "LatencyBudget",
             "Ownership", "DestinationOrder", "DataRepresentation"}
  BY DEF Rxo, RxoPolicies
<1>5. e.qos \in Qos  BY DEF IsEndpoint
<1> QED
  BY <1>1, <1>2, <1>3, <1>4, <1>5 DEF Qos

(* What a profile says of a policy and does not hold unknown, is so         *)
(* (qos_normalize.py, profile_from_qos).                                    *)
LEMMA KnownIsOwn ==
  ASSUME NEW e, IsEndpoint(e), NEW p \in Rxo \cup {"Partition"}, Known(Profiled(e), p)
  PROVE  /\ Profiled(e).says[p] = Own(e, p)
         /\ p = "DataRepresentation" => e.qos[p] # <<>>
<1> DEFINE sent == Sent(e, p)
           spoken == p \in e.tells /\ ~ReadAsNone(p, sent)
<1>1. Rxo = {"Reliability", "Durability", "Deadline", "Liveliness", "LatencyBudget",
             "Ownership", "DestinationOrder", "DataRepresentation"}
  BY DEF Rxo, RxoPolicies
<1>2. /\ spoken \/ p \in {"Deadline", "Partition"}
      /\ Profiled(e).says[p] = IF spoken THEN Read(p, sent) ELSE Defaults[p]
      /\ ~(p \in Timed \cap e.tells /\ DurationIn(p, sent) = Unreadable)
  BY <1>1, ProfileOf DEF Known
<1>3. CASE p \in {"Reliability", "Durability", "Ownership", "DestinationOrder"}
  <2>1. sent = e.qos[p] /\ Own(e, p) = e.qos[p]
    BY <1>3 DEF Sent, Own
  <2>2. Read(p, sent) = sent
    BY <1>3 DEF Read
  <2> QED
    BY <1>2, <1>3, <2>1, <2>2
<1>4. CASE p = "DataRepresentation"
  <2>1. sent = Range(e.qos[p]) /\ Own(e, p) = sent /\ Read(p, sent) = sent
    BY <1>4 DEF Sent, Own, Read
  <2>2. sent # {}
    BY <1>2, <1>4 DEF ReadAsNone
  <2>3. e.qos[p] # <<>>
    BY <2>1, <2>2 DEF Range
  <2> QED
    BY <1>2, <1>4, <2>1, <2>3
<1>5. CASE p \in {"Deadline", "LatencyBudget"}
  <2>1. e.qos[p] \in Nat /\ Own(e, p) = e.qos[p]
    BY <1>5, QosOf DEF Own
  <2>2. DurationIn(p, sent) = sent /\ p \in Timed
    BY <1>5 DEF DurationIn, Timed
  <2>3. CASE spoken
    <3>1. sent # Unreadable /\ Read(p, sent) = sent
      BY <1>2, <1>5, <2>2, <2>3 DEF Read
    <3>2. sent = e.qos[p]
      BY <1>5, <3>1 DEF Sent
    <3> QED
      BY <1>2, <1>5, <2>1, <2>3, <3>1, <3>2
  <2>4. CASE ~spoken
    <3>1. p = "Deadline"  BY <1>2, <1>5, <2>4
    <3>2. p \notin e.tells  BY <2>4, <3>1 DEF ReadAsNone
    <3>3. e.qos["Deadline"] = Infinite  BY <3>1, <3>2 DEF IsEndpoint
    <3> QED  BY <1>2, <2>1, <2>4, <3>1, <3>3 DEF Defaults
  <2> QED
    BY <2>3, <2>4
<1>6. CASE p = "Liveliness"
  <2>1. spoken /\ sent.lease # Unreadable
    BY <1>2, <1>6 DEF Timed, DurationIn
  <2>2. Read(p, sent) = sent
    BY <1>6, <2>1 DEF Read
  <2>3. e.qos[p] \in [kind : Kinds, lease : Nat]
    BY <1>6, QosOf
  <2>4. sent = e.qos[p]
    BY <1>6, <2>1, <2>3 DEF Sent
  <2> QED
    BY <1>2, <1>6, <2>1, <2>2, <2>4 DEF Own
<1>7. CASE p = "Partition"
  <2>1. sent = e.qos[p] /\ Read(p, sent) = sent
    BY <1>7 DEF Sent, Read
  <2>2. spoken <=> p \in e.tells /\ e.qos[p] # <<>>
    BY <1>7, <2>1 DEF ReadAsNone
  <2>3. ~spoken => e.qos[p] = <<>>
    BY <1>7, <2>2 DEF IsEndpoint
  <2>4. Profiled(e).says[p] = IF spoken THEN e.qos[p] ELSE <<"">>
    BY <1>2, <1>7, <2>1 DEF Defaults
  <2> HIDE DEF spoken, sent
  <2> QED
    BY <1>7, <2>2, <2>3, <2>4 DEF Own
<1> QED
  BY <1>1, <1>3, <1>4, <1>5, <1>6, <1>7

(* Three policies are always said of a usable endpoint, and a partition is  *)
(* never unknown.                                                           *)
LEMMA Announced ==
  ASSUME NEW e, HasProfile(Sample(e))
  PROVE  /\ {"Reliability", "Durability", "Deadline", "Partition"}
              \subseteq DOMAIN Profiled(e).says
         /\ Profiled(e).unknown \subseteq Rxo \ {"Reliability", "Durability"}
         /\ Known(Profiled(e), "Partition")
<1>1. {"Reliability", "Durability"} \subseteq e.tells
  BY SampleOf DEF HasProfile
<1>2. \A p \in {"Reliability", "Durability"} : ~ReadAsNone(p, Sent(e, p))
  BY DEF ReadAsNone
<1>3. {"Reliability", "Durability", "Deadline", "Partition"} \subseteq DOMAIN Profiled(e).says
  <2>1. \A p \in {"Reliability", "Durability", "Deadline", "Partition"} :
          p \in DOMAIN Profiled(e).says <=>
            (p \in e.tells /\ ~ReadAsNone(p, Sent(e, p))) \/ p \in {"Deadline", "Partition"}
    BY ProfileOf
  <2> QED
    BY <1>1, <1>2, <2>1
<1>4. Profiled(e).unknown = UnknownPolicies(Sample(e))
  BY DEF Profiled, ApplyHistoryPolicy, Profile
<1>5. Profiled(e).unknown \subseteq Timed
  BY <1>4 DEF UnknownPolicies
<1> QED
  BY <1>3, <1>5 DEF Timed, Rxo, RxoPolicies, Known

(* A History is said only as it was announced (apply_history_policy).       *)
LEMMA HistoryIsOwn ==
  ASSUME NEW e, "History" \in DOMAIN Profiled(e).says
  PROVE  Profiled(e).says["History"] = e.qos["History"]
<1> DEFINE s == Sample(e)
           sent == [q \in e.tells |-> Sent(e, q)]
           spoken == {q \in DOMAIN s : ~ReadAsNone(q, s[q])}
           heard == [q \in spoken |-> Read(q, s[q])]
           default == [kind |-> "KEEP_LAST", depth |-> 1]
<1>1. /\ HistoryAnnounced(Profile(s), e.vendor)
      /\ Profiled(e) = Profile(s)
  BY DEF Profiled, ApplyHistoryPolicy
<1>2. Profile(s).says = Over(heard, Defaults)
  BY DEF Profile
<1>3. /\ "History" \in DOMAIN Profile(s).says
      /\ Profile(s).says["History"] \notin [kind : {"KEEP_LAST"}, depth : {0, 1}]
  BY <1>1 DEF HistoryAnnounced, Says
<1>4. "History" \in DOMAIN heard /\ Profile(s).says["History"] = heard["History"]
  <2>1. "History" \notin DOMAIN Defaults  BY DEF Defaults
  <2> HIDE DEF heard
  <2>2. "History" \in DOMAIN Over(heard, Defaults)  BY <1>2, <1>3
  <2>3. "History" \in DOMAIN heard \cup DOMAIN Defaults  BY <2>2, Overlaid
  <2>4. Over(heard, Defaults)["History"] = heard["History"]  BY <2>1, <2>3, OverAt
  <2> QED  BY <1>2, <2>1, <2>3, <2>4
<1>5. Profile(s).says["History"] = s["History"]
  BY <1>4 DEF Read
<1>6. s["History"] = IF "History" \in e.tells THEN Sent(e, "History") ELSE default
  <2> DEFINE f == sent
  <2>1. DOMAIN f = e.tells /\ ("History" \in e.tells => f["History"] = Sent(e, "History"))
    OBVIOUS
  <2>2. s = Over(f, BindingDefaults)  BY DEF Sample
  <2>3. DOMAIN BindingDefaults = {"History"} /\ BindingDefaults["History"] = default
    BY DEF BindingDefaults
  <2> HIDE DEF f, default
  <2> QED  BY <2>1, <2>2, <2>3, OverAt
<1>7. default \in [kind : {"KEEP_LAST"}, depth : {0, 1}]
  OBVIOUS
<1>8. "History" \in e.tells /\ s["History"] = Sent(e, "History")
  BY <1>3, <1>5, <1>6, <1>7
<1> QED
  BY <1>1, <1>5, <1>8 DEF Sent

-----------------------------------------------------------------------------
(* Rules. Where values clash DDS does not serve the reader, and where they  *)
(* do not it does, but for the order of several representations             *)
(* (qos_analyzer.py, the _check functions).                                 *)
LEMMA RepresentationServed ==
  ASSUME NEW offered \in Seq(STRING), NEW requested \in Seq(STRING), offered # <<>>
  PROVE  /\ Range(requested) \cap Range(offered) = {} =>
              ~Serves("DataRepresentation", offered, requested)
         /\ Len(offered) = 1 /\ Range(requested) \cap Range(offered) # {} =>
              Serves("DataRepresentation", offered, requested)
<1>1. Serves("DataRepresentation", offered, requested)
        <=> \E i \in 1..Len(requested) : requested[i] = offered[1]
  BY DEF Serves, Contains
<1>2. DOMAIN offered = 1..Len(offered) /\ DOMAIN requested = 1..Len(requested)
      /\ Len(offered) \in Nat /\ Len(offered) # 0
  BY EmptySeq
<1>3. 1 \in DOMAIN offered
  BY <1>2
<1>4. offered[1] \in Range(offered)
  BY <1>3 DEF Range
<1>5. \A x : x \in Range(requested) <=> \E i \in 1..Len(requested) : requested[i] = x
  BY <1>2 DEF Range
<1>6. Len(offered) = 1 => Range(offered) = {offered[1]}
  BY <1>2 DEF Range
<1> QED
  BY <1>1, <1>4, <1>5, <1>6

LEMMA ClashIsReal ==
  ASSUME NEW r, IsEndpoint(r), NEW w, IsEndpoint(w), NEW p \in Rxo,
         p = "DataRepresentation" => w.qos[p] # <<>>
  PROVE  /\ Clash(p, Own(r, p), Own(w, p)) => ~Serves(p, w.qos[p], r.qos[p])
         /\ /\ ~Clash(p, Own(r, p), Own(w, p))
            /\ p = "DataRepresentation" => Len(w.qos[p]) = 1
            => Serves(p, w.qos[p], r.qos[p])
<1> DEFINE offered == w.qos[p]
           requested == r.qos[p]
<1>1. Rxo = {"Reliability", "Durability", "Deadline", "Liveliness", "LatencyBudget",
             "Ownership", "DestinationOrder", "DataRepresentation"}
  BY DEF Rxo, RxoPolicies
<1>2. CASE p = "DataRepresentation"
  <2>1. offered \in Seq(STRING) /\ requested \in Seq(STRING) /\ offered # <<>>
    BY <1>2, QosOf
  <2>2. Own(r, p) = Range(requested) /\ Own(w, p) = Range(offered)
    BY <1>2 DEF Own
  <2>3. Clash(p, Own(r, p), Own(w, p)) <=> Range(requested) \cap Range(offered) = {}
    BY <1>2, <2>2 DEF Clash
  <2> HIDE DEF offered, requested
  <2>4. /\ Range(requested) \cap Range(offered) = {} => ~Serves(p, offered, requested)
        /\ Len(offered) = 1 /\ Range(requested) \cap Range(offered) # {} =>
             Serves(p, offered, requested)
    BY <1>2, <2>1, RepresentationServed
  <2> QED
    BY <1>2, <2>3, <2>4 DEF offered, requested
<1>3. p # "DataRepresentation" => Own(r, p) = requested /\ Own(w, p) = offered
  BY <1>1 DEF Own
<1>4. CASE p = "Reliability"
  <2>1. offered \in {"RELIABLE", "BEST_EFFORT"} /\ requested \in {"RELIABLE", "BEST_EFFORT"}
    BY <1>4, QosOf
  <2>2. /\ Clash(p, requested, offered) <=> requested = "RELIABLE" /\ offered = "BEST_EFFORT"
        /\ Serves(p, offered, requested) <=> offered = "RELIABLE" \/ requested = "BEST_EFFORT"
    BY <1>4 DEF Clash, Serves
  <2> QED
    BY <1>3, <1>4, <2>1, <2>2
<1>5. CASE p = "Durability"
  <2>1. offered \in Durabilities /\ requested \in Durabilities
    BY <1>5, QosOf
  <2>2. \A x \in Durabilities : Rank(DurabilityOrder, x) \in 1..4
    BY DurabilityRank DEF Durabilities
  <2>3. Clash(p, requested, offered)
          <=> Rank(DurabilityOrder, requested) > Rank(DurabilityOrder, offered)
    BY <1>5 DEF Clash
  <2>4. Serves(p, offered, requested)
          <=> Rank(DurabilityOrder, requested) <= Rank(DurabilityOrder, offered)
    BY <1>5, <2>1, DurabilityServed
  <2> QED
    BY <1>3, <1>5, <2>1, <2>2, <2>3, <2>4
<1>6. CASE p \in {"Deadline", "LatencyBudget"}
  <2>1. offered \in Nat /\ requested \in Nat
    BY <1>6, QosOf
  <2>2. Clash(p, requested, offered) <=> offered > requested
    BY <1>6 DEF Clash
  <2>3. Serves(p, offered, requested) <=> offered <= requested
    BY <1>6, DurationServed
  <2> QED
    BY <1>3, <1>6, <2>1, <2>2, <2>3
<1>7. CASE p = "Liveliness"
  <2>1. offered \in [kind : Kinds, lease : Nat] /\ requested \in [kind : Kinds, lease : Nat]
    BY <1>7, QosOf
  <2>2. \A x \in Kinds : Rank(LivelinessOrder, x) \in 1..3
    BY LivelinessRank DEF Kinds
  <2>3. Clash(p, requested, offered)
          <=> \/ Rank(LivelinessOrder, offered.kind) < Rank(LivelinessOrder, requested.kind)
              \/ offered.lease > requested.lease
    BY <1>7 DEF Clash
  <2>4. Serves(p, offered, requested)
          <=> /\ Rank(LivelinessOrder, requested.kind) <= Rank(LivelinessOrder, offered.kind)
              /\ offered.lease <= requested.lease
    BY <1>7, <2>1, LivelinessServed
  <2>5. /\ offered.kind \in Kinds /\ requested.kind \in Kinds
        /\ offered.lease \in Nat /\ requested.lease \in Nat
    BY <2>1
  <2> QED
    BY <1>3, <1>7, <2>2, <2>3, <2>4, <2>5
<1>8. CASE p = "Ownership"
  BY <1>3, <1>8 DEF Clash, Serves
<1>9. CASE p = "DestinationOrder"
  <2>1. /\ offered \in {"BY_RECEPTION_TIMESTAMP", "BY_SOURCE_TIMESTAMP"}
        /\ requested \in {"BY_RECEPTION_TIMESTAMP", "BY_SOURCE_TIMESTAMP"}
    BY <1>9, QosOf
  <2>2. /\ Rank(DestinationOrders, "BY_RECEPTION_TIMESTAMP") = 1
        /\ Rank(DestinationOrders, "BY_SOURCE_TIMESTAMP") = 2
    <3>1. DOMAIN DestinationOrders = {1, 2}
          /\ DestinationOrders[1] = "BY_RECEPTION_TIMESTAMP"
          /\ DestinationOrders[2] = "BY_SOURCE_TIMESTAMP"
      BY DEF DestinationOrders
    <3> QED
      BY <3>1 DEF Rank
  <2>3. Clash(p, requested, offered)
          <=> Rank(DestinationOrders, offered) < Rank(DestinationOrders, requested)
    BY <1>9 DEF Clash
  <2>4. Serves(p, offered, requested)
          <=> offered = "BY_SOURCE_TIMESTAMP" \/ requested = "BY_RECEPTION_TIMESTAMP"
    BY <1>9 DEF Serves
  <2> QED
    BY <1>3, <1>9, <2>1, <2>2, <2>3, <2>4
<1> QED
  BY <1>1, <1>2, <1>4, <1>5, <1>6, <1>7, <1>8, <1>9

(* Partitions match exactly where DDS joins the endpoints                   *)
(* (_partition_pair_matches).                                               *)
LEMMA PartitionsJoin ==
  ASSUME NEW r, IsEndpoint(r), NEW w, IsEndpoint(w)
  PROVE  PartitionsMatch(Own(r, "Partition"), Own(w, "Partition")) <=> Joined(r, w)
<1>1. PICK names : names = [e \in {r, w} |-> Own(e, "Partition")]
  OBVIOUS
<1>2. Joined(r, w) <=> \E p \in Range(names[r]), q \in Range(names[w]) :
                         \/ p = q /\ p \notin Wild
                         \/ {<<p, q>>, <<q, p>>} \cap Covers # {}
  <2>1. /\ names[r] = IF r.qos["Partition"] = <<>> THEN <<"">> ELSE r.qos["Partition"]
        /\ names[w] = IF w.qos["Partition"] = <<>> THEN <<"">> ELSE w.qos["Partition"]
    BY <1>1 DEF Own
  <2> QED
    BY <2>1 DEF Joined
<1>3. PartitionsMatch(names[r], names[w]) <=>
        \E i \in DOMAIN names[r], j \in DOMAIN names[w] :
          PartitionPairMatches(names[r][i], names[w][j])
  BY DEF PartitionsMatch
<1>4. \A p, q : PartitionPairMatches(p, q) <=>
                  \/ p = q /\ p \notin Wild
                  \/ {<<p, q>>, <<q, p>>} \cap Covers # {}
  <2>1. \A p, q : <<p, q>> \in Covers => p \in Wild /\ q \notin Wild
    BY CoversAssumption
  <2> QED
    BY <2>1 DEF PartitionPairMatches
<1>5. names[r] = Own(r, "Partition") /\ names[w] = Own(w, "Partition")
  BY <1>1
<1> QED
  BY <1>2, <1>3, <1>4, <1>5 DEF Range

-----------------------------------------------------------------------------
(* Pairs. What the analysis finds of two endpoints is so (analyze_pair).    *)
LEMMA PoliciesAreTrue ==
  ASSUME NEW r, IsEndpoint(r), HasProfile(Sample(r)),
         NEW w, IsEndpoint(w), HasProfile(Sample(w)),
         NEW found, found = AnalyzePair(Profiled(r), Profiled(w))
  PROVE  /\ \A p \in DOMAIN found.incompatible :
              /\ p \in Rxo /\ Clash(p, Own(r, p), Own(w, p))
              /\ Profiled(r).says[p] = Own(r, p) /\ Profiled(w).says[p] = Own(w, p)
              /\ ~Serves(p, w.qos[p], r.qos[p])
         /\ /\ DOMAIN found.incompatible = {} /\ found.unchecked = {}
            /\ Len(w.qos["DataRepresentation"]) = 1
            => \A p \in Rxo : Serves(p, w.qos[p], r.qos[p])
<1> DEFINE a == Profiled(r)
           b == Profiled(w)
           checked == Rxo \ Unchecked(a, b)
<1>1. \A p \in checked : Known(a, p) /\ Known(b, p)
  <2> SUFFICES ASSUME NEW p \in checked PROVE Known(a, p) /\ Known(b, p)
    OBVIOUS
  <2>1. p \notin a.unknown /\ p \notin b.unknown
    BY DEF Unchecked
  <2>2. p \in Optional => p \in DOMAIN a.says /\ p \in DOMAIN b.says
    BY DEF Unchecked
  <2>3. p \notin Optional => p \in {"Reliability", "Durability", "Deadline"}
    BY DEF Optional
  <2> QED
    BY <2>1, <2>2, <2>3, Announced DEF Known
<1>2. \A p \in checked :
        /\ a.says[p] = Own(r, p) /\ b.says[p] = Own(w, p)
        /\ p = "DataRepresentation" => w.qos[p] # <<>>
  BY <1>1, KnownIsOwn
<1>3. /\ found.incompatible = Finding(a, b, {p \in checked : Clash(p, a.says[p], b.says[p])})
      /\ found.unchecked = Unchecked(a, b)
  BY DEF AnalyzePair, Incompatible
<1>4. DOMAIN found.incompatible = {p \in checked : Clash(p, a.says[p], b.says[p])}
  BY <1>3 DEF Finding
<1> HIDE DEF a, b
<1>5. \A p \in DOMAIN found.incompatible :
        /\ p \in Rxo /\ Clash(p, Own(r, p), Own(w, p))
        /\ a.says[p] = Own(r, p) /\ b.says[p] = Own(w, p)
        /\ ~Serves(p, w.qos[p], r.qos[p])
  BY <1>2, <1>4, ClashIsReal
<1>6. ASSUME DOMAIN found.incompatible = {}, found.unchecked = {},
             Len(w.qos["DataRepresentation"]) = 1, NEW p \in Rxo
      PROVE  Serves(p, w.qos[p], r.qos[p])
  <2>1. p \in checked
    BY <1>3, <1>6
  <2>2. ~Clash(p, Own(r, p), Own(w, p))
    BY <1>2, <1>4, <1>6, <2>1
  <2> QED
    BY <1>2, <1>6, <2>1, <2>2, ClashIsReal
<1> QED
  BY <1>5, <1>6 DEF a, b

LEMMA RiskIsTrue ==
  ASSUME NEW r, NEW w,
         DOMAIN AnalyzePair(Profiled(r), Profiled(w)).risky # {}
  PROVE  r.qos["History"].kind = "KEEP_ALL" /\ w.qos["History"].kind = "KEEP_LAST"
<1> DEFINE a == Profiled(r)
           b == Profiled(w)
<1>1. DOMAIN Risky(a, b) # {}
  BY DEF AnalyzePair
<1>2. /\ Says(a, "History") /\ Says(b, "History")
      /\ HistoryIn(a, {"KEEP_ALL"}) /\ HistoryIn(b, {"KEEP_LAST"})
  BY <1>1 DEF Risky
<1>3. a.says["History"] = r.qos["History"] /\ b.says["History"] = w.qos["History"]
  BY <1>2, HistoryIsOwn DEF Says
<1> QED
  BY <1>2, <1>3 DEF HistoryIn

LEMMA SeparationIsTrue ==
  ASSUME NEW r, IsEndpoint(r), HasProfile(Sample(r)),
         NEW w, IsEndpoint(w), HasProfile(Sample(w)), r.topic = w.topic
  PROVE  /\ Separation(EndpointInfo(r), EndpointInfo(w)) # "none" => ~Flows(r, w)
         /\ /\ Separation(EndpointInfo(r), EndpointInfo(w)) = "none"
            /\ r.tellsType /\ w.tellsType
            => Joined(r, w) /\ r.type = w.type
<1> DEFINE a == EndpointInfo(r)
           b == EndpointInfo(w)
           match == PartitionsMatch(Partitions(a), Partitions(b))
<1>1. Partitions(a) = Own(r, "Partition") /\ Partitions(b) = Own(w, "Partition")
  BY Announced, KnownIsOwn DEF Partitions, EndpointInfo, Profiled
<1>2. match <=> Joined(r, w)
  BY <1>1, PartitionsJoin
<1>3. /\ a.type = IF r.tellsType THEN r.type ELSE NoType
      /\ b.type = IF w.tellsType THEN w.type ELSE NoType
  BY DEF EndpointInfo
<1>4. Separation(a, b) = "none" <=> match /\ (NoType \in {a.type, b.type} \/ a.type = b.type)
  BY DEF Separation
<1>5. r.type # NoType /\ w.type # NoType
  BY DEF IsEndpoint
<1> HIDE DEF a, b, match
<1>6. Separation(a, b) # "none" => ~Joined(r, w) \/ r.type # w.type
  BY <1>2, <1>3, <1>4
<1>7. Separation(a, b) = "none" /\ r.tellsType /\ w.tellsType
        => Joined(r, w) /\ r.type = w.type
  BY <1>2, <1>3, <1>4, <1>5
<1> QED
  BY <1>6, <1>7 DEF a, b, Flows

(* Two endpoints of a host have its clock, so that one announced later by   *)
(* more than LateJoin joined later by as much (_late_joiner_note).          *)
LEMMA LatenessIsTrue ==
  ASSUME NEW r, IsEndpoint(r), HasProfile(Sample(r)),
         NEW w, IsEndpoint(w), HasProfile(Sample(w)),
         r.participant = w.participant /\ r.participant # NoParticipant => r.host = w.host,
         LateJoiner(EndpointInfo(r), EndpointInfo(w))
  PROVE  r.joined - w.joined > LateJoin /\ w.qos["Durability"] = "VOLATILE"
<1> DEFINE a == EndpointInfo(r)
           b == EndpointInfo(w)
<1>1. /\ b.profile.says["Durability"] = "VOLATILE"
      /\ a.announced # NoTime /\ b.announced # NoTime
      /\ a.announced - b.announced > LateJoin
      /\ SameHost(a, b)
  BY DEF LateJoiner
<1>2. /\ a.announced = r.joined + Skew[r.host] /\ b.announced = w.joined + Skew[w.host]
      /\ a.participant = r.participant /\ b.participant = w.participant
      /\ b.profile = Profiled(w)
  BY <1>1 DEF EndpointInfo, Profiled
<1>3. r.host = w.host
  BY <1>1, <1>2 DEF SameHost, IsEndpoint
<1>4. r.joined \in Int /\ w.joined \in Int /\ Skew[r.host] \in Int /\ LateJoin \in Int
  BY BusAssumption, ScanAssumption DEF IsEndpoint
<1>5. r.joined - w.joined > LateJoin
  <2> HIDE DEF a, b
  <2> QED
    BY <1>1, <1>2, <1>3, <1>4
<1>6. Known(Profiled(w), "Durability") /\ "Durability" \in Rxo
  BY Announced DEF Known, Rxo, RxoPolicies
<1>7. Profiled(w).says["Durability"] = w.qos["Durability"]
  BY <1>6, KnownIsOwn DEF Own
<1> QED
  BY <1>1, <1>2, <1>5, <1>7

-----------------------------------------------------------------------------
(* Scans. A listing is a list of endpoints by topic, and every pair of a    *)
(* scan is one of a reader and a writer of the listing.                     *)
Listable(infos) ==
  \E n \in Nat : DOMAIN infos = 1..n /\ \A i \in 1..n : infos[i].topic \in Nat
Facing(infos) ==
  {p \in (DOMAIN infos) \X (DOMAIN infos) :
     /\ infos[p[1]].role = "reader" /\ infos[p[1]].usable
     /\ infos[p[2]].role = "writer" /\ infos[p[2]].usable
     /\ infos[p[1]].topic = infos[p[2]].topic}
Faced(infos) == {Pair(infos, p[1], p[2]) : p \in Facing(infos)}
Together(infos) == {pair \in Faced(infos) : pair.apart = "none"}
Apart(infos) == {pair \in Faced(infos) : pair.apart # "none"}

LEMMA PairsListed ==
  ASSUME NEW infos, Listable(infos), NEW topic
  PROVE  Pairs(infos, topic) \in Seq(Faced(infos))
<1> DEFINE usable(role) ==
             {i \in InScope(infos, topic) : infos[i].role = role /\ infos[i].usable}
           facing == {p \in usable("reader") \X usable("writer") :
                        infos[p[1]].topic = infos[p[2]].topic}
           before(p, q) ==
             \/ infos[p[1]].topic < infos[q[1]].topic
             \/ /\ infos[p[1]].topic = infos[q[1]].topic
                /\ p[1] < q[1] \/ (p[1] = q[1] /\ p[2] < q[2])
           Earlier == [p \in facing |-> {q \in facing : before(q, p)}]
           ordered == SortedBy(facing, Earlier)
           pairs == [i \in DOMAIN ordered |-> Pair(infos, ordered[i][1], ordered[i][2])]
<1>1. PICK n \in Nat : DOMAIN infos = 1..n /\ \A i \in 1..n : infos[i].topic \in Nat
  BY DEF Listable
<1>2. facing \subseteq Facing(infos)
  BY DEF Facing, InScope, Scanned
<1>3. IsFiniteSet(facing)
  <2>1. IsFiniteSet(1..n)  BY FS_Interval
  <2>2. IsFiniteSet((1..n) \X (1..n))  BY <2>1, FS_Product
  <2>3. facing \in SUBSET ((1..n) \X (1..n))  BY <1>1, <1>2 DEF Facing
  <2> QED  BY <2>2, <2>3, FS_Subset
<1>4. \A p \in facing : /\ p = <<p[1], p[2]>> /\ p[1] \in Nat /\ p[2] \in Nat
                        /\ infos[p[1]].topic \in Nat
  <2>1. \A p \in Facing(infos) : p \in (1..n) \X (1..n)  BY <1>1 DEF Facing
  <2> QED  BY <1>1, <1>2, <2>1
<1>5. \A p \in facing : ~before(p, p)
  BY <1>4
<1>6. \A p, q \in facing : p # q => before(p, q) \/ before(q, p)
  BY <1>4
<1>7. \A p, q, x \in facing : before(x, p) /\ before(p, q) => before(x, q)
  BY <1>4
<1> HIDE DEF before, facing
<1>8. /\ \A p \in facing : Earlier[p] \subseteq facing \ {p}
      /\ \A p, q \in facing : p # q => p \in Earlier[q] \/ q \in Earlier[p]
      /\ \A p, q \in facing : p \in Earlier[q] => Earlier[p] \subseteq Earlier[q]
  BY <1>5, <1>6, <1>7
<1> HIDE DEF Earlier
<1>9. ordered \in Seq(facing)
  BY <1>3, <1>8, OrderedIn
<1> HIDE DEF ordered
<1>10. DOMAIN ordered = 1..Len(ordered) /\ Len(ordered) \in Nat
       /\ \A i \in 1..Len(ordered) : ordered[i] \in Facing(infos)
  BY <1>2, <1>9
<1>11. pairs \in [1..Len(ordered) -> Faced(infos)]
  BY <1>10 DEF Faced
<1>12. pairs \in Seq(Faced(infos))
  BY <1>10, <1>11, SeqDef
<1>13. Pairs(infos, topic) = pairs
  BY DEF Pairs, pairs, ordered, Earlier, facing, before
<1> QED
  BY <1>12, <1>13

(* A fix for what a pair's analysis found: the values one side takes, for   *)
(* entries of which the same was found.                                     *)
Ends(entries) == {<<e.reader, e.writer>> : e \in entries}
IsRxoFix(fix, infos, T, pair) ==
  /\ fix.side \in {"reader", "writer"}
  /\ fix.values = Targets(fix.side, Supported \cap DOMAIN Details(pair.analysis),
                          infos[pair.reader].profile, infos[pair.writer].profile)
  /\ \E shared \in SUBSET T :
       /\ fix.pairs = Ends(shared) /\ pair \in shared
       /\ \A e \in shared : Details(e.analysis) = Details(pair.analysis)

LEMMA QosFixesListed ==
  ASSUME NEW infos, NEW T, NEW entries \in Seq(T)
  PROVE  /\ BySeverity(AttachQosFixes(infos, entries))
              \in Seq(Range(BySeverity(AttachQosFixes(infos, entries))))
         /\ \A x \in Range(BySeverity(AttachQosFixes(infos, entries))) :
              /\ x.pair \in T
              /\ \A fix \in Range(x.fixes) : IsRxoFix(fix, infos, T, x.pair)
<1> DEFINE signatures == [i \in DOMAIN entries |-> FindingSignature(entries[i])]
           policies(i) == Supported \cap DOMAIN Details(entries[i].analysis)
           fixesOf(i) ==
             IF IsFirst(Twins(signatures, i), i) /\ policies(i) # {}
             THEN RxoFixes(infos, entries[i], PairsOf(entries, Twins(signatures, i)),
                           policies(i))
             ELSE <<>>
           reports == [i \in DOMAIN entries |-> [pair |-> entries[i], fixes |-> fixesOf(i)]]
           graded(severity) ==
             {i \in DOMAIN reports : Severity(reports[i].pair.analysis) = severity}
           Good == {x \in Range(reports) : TRUE}
<1>1. AttachQosFixes(infos, entries) = reports
  BY DEF AttachQosFixes
<1>2. ASSUME NEW i \in DOMAIN entries, NEW fix \in Range(fixesOf(i))
      PROVE  IsRxoFix(fix, infos, T, entries[i])
  <2> DEFINE pairs == PairsOf(entries, Twins(signatures, i))
             r == infos[entries[i].reader].profile
             w == infos[entries[i].writer].profile
             side(k) == SideOrder(policies(i))[k]
  <2>1. fixesOf(i) = RxoFixes(infos, entries[i], pairs, policies(i))
    BY <1>2 DEF Range
  <2>2. RxoFixes(infos, entries[i], pairs, policies(i))
          = [k \in 1..2 |-> Fix(entries[i].topic, side(k), pairs,
                                Targets(side(k), policies(i), r, w))]
    BY DEF RxoFixes
  <2>3. PICK k \in 1..2 : fix = Fix(entries[i].topic, side(k), pairs,
                                    Targets(side(k), policies(i), r, w))
    <3> HIDE DEF fixesOf, pairs, r, w, side, policies
    <3> QED  BY <1>2, <2>1, <2>2 DEF Range
  <2>4. side(k) \in {"reader", "writer"}
    BY DEF SideOrder
  <2>5. /\ fix.side = side(k) /\ fix.pairs = pairs
        /\ fix.values = Targets(side(k), policies(i), r, w)
    BY <2>3 DEF Fix
  <2>6. PICK twins : twins = Twins(signatures, i)  OBVIOUS
  <2>7. PICK shared : shared = {entries[j] : j \in twins}  OBVIOUS
  <2>8. \A j \in twins : /\ j \in DOMAIN entries
                         /\ Details(entries[j].analysis) = Details(entries[i].analysis)
    BY <2>6 DEF Twins, FindingSignature
  <2>9. /\ shared \in SUBSET T /\ entries[i] \in shared
        /\ \A e \in shared : Details(e.analysis) = Details(entries[i].analysis)
    <3>1. i \in twins  BY <2>6 DEF Twins
    <3>2. entries[i] \in shared  BY <2>7, <3>1
    <3> QED  BY <2>7, <2>8, <3>2
  <2>10. pairs = Ends(shared)
    BY <2>6, <2>7 DEF PairsOf, Ends
  <2> HIDE DEF side, pairs, r, w
  <2>11. fix.values = Targets(fix.side, Supported \cap DOMAIN Details(entries[i].analysis),
                      infos[entries[i].reader].profile, infos[entries[i].writer].profile)
    BY <2>5 DEF r, w
  <2>12. fix.side \in {"reader", "writer"} /\ fix.pairs = Ends(shared)
    BY <2>4, <2>5, <2>10
  <2> QED  BY <2>9, <2>11, <2>12 DEF IsRxoFix
<1> HIDE DEF fixesOf
<1>3. /\ DOMAIN reports = 1..Len(entries) /\ Len(entries) \in Nat
      /\ \A i \in DOMAIN reports : reports[i] \in Good
  BY DEF Range
<1>4. \A x \in Good : /\ x.pair \in T
                      /\ \A fix \in Range(x.fixes) : IsRxoFix(fix, infos, T, x.pair)
  <2> SUFFICES ASSUME NEW x \in Good
               PROVE  /\ x.pair \in T
                      /\ \A fix \in Range(x.fixes) : IsRxoFix(fix, infos, T, x.pair)
    OBVIOUS
  <2>1. PICK i \in DOMAIN entries : x = reports[i]  BY DEF Range
  <2>2. x.pair = entries[i] /\ x.fixes = fixesOf(i)  BY <2>1
  <2>3. entries[i] \in T  OBVIOUS
  <2> QED  BY <1>2, <2>2, <2>3
<1>5. reports \in Seq(Good)
  <2>1. reports \in [1..Len(entries) -> Good]  BY <1>3
  <2> HIDE DEF reports
  <2> QED  BY <1>3, <2>1, SeqDef
<1> HIDE DEF reports
<1>6. \A severity : Select(reports, graded(severity)) \in Seq(Good)
  <2> SUFFICES ASSUME NEW severity PROVE Select(reports, graded(severity)) \in Seq(Good)
    OBVIOUS
  <2>1. graded(severity) \in SUBSET DOMAIN reports  OBVIOUS
  <2>2. {reports[i] : i \in graded(severity)} \subseteq Good  BY <1>5
  <2>3. Select(reports, graded(severity)) \in Seq({reports[i] : i \in graded(severity)})
    <3> HIDE DEF Good, graded
    <3> QED  BY <1>5, <2>1, Selected
  <2> HIDE DEF Good, graded
  <2> QED  BY <2>2, <2>3
<1>7. BySeverity(reports)
        = Select(reports, graded("incompatible")) \o Select(reports, graded("risky"))
  BY DEF BySeverity
<1> HIDE DEF Good, graded
<1>8. BySeverity(reports) \in Seq(Good)
  BY <1>6, <1>7, ConcatProperties
<1>9. /\ Range(BySeverity(reports)) \subseteq Good
      /\ BySeverity(reports) \in Seq(Range(BySeverity(reports)))
  BY <1>8, OwnElements
<1> QED  BY <1>1, <1>4, <1>9

(* A partition fix keeps the partitions of a side and has a concrete one of *)
(* the other, for entries whose ends have the same partitions.              *)
Adds(new, mine, others) ==
  /\ new \in Seq(Names) /\ Range(mine) \subseteq Range(new)
  /\ \E x \in Range(new) \cap Range(others) : x \notin Wild
IsPartitionFix(fix, infos, T) ==
  /\ fix.side \in {"reader", "writer"} /\ DOMAIN fix.values = {"Partition"}
  /\ fix.values["Partition"] \in Seq(Names)
  /\ \E shared \in SUBSET T :
       /\ fix.pairs = Ends(shared)
       /\ \A e \in shared :
            LET reader == Partitions(infos[e.reader])
                writer == Partitions(infos[e.writer])
            IN IF fix.side = "reader" THEN Adds(fix.values["Partition"], reader, writer)
               ELSE Adds(fix.values["Partition"], writer, reader)

(* Fixes that add to mine a name of the others'.                            *)
AreAdding(fixes, side, pairs, mine, others) ==
  /\ fixes \in Seq(Range(fixes))
  /\ \A fix \in Range(fixes) :
       /\ fix.side = side /\ fix.pairs = pairs /\ DOMAIN fix.values = {"Partition"}
       /\ Adds(fix.values["Partition"], mine, others)

LEMMA PartitionFixListed ==
  ASSUME NEW topic, NEW side, NEW pairs, NEW mine \in Seq(Names), NEW others \in Seq(Names),
         NEW fixes, fixes = PartitionFix(topic, side, pairs, mine, others)
  PROVE  AreAdding(fixes, side, pairs, mine, others)
<1> DEFINE concrete == Concrete(others)
           I == {i \in DOMAIN others : others[i] \notin Wild}
           more == IF Contains(mine, Head(concrete)) THEN mine
                   ELSE Append(mine, Head(concrete))
           only == Fix(topic, side, pairs, [Partition |-> more])
<1>1. fixes = IF concrete = <<>> THEN <<>> ELSE <<only>>
  BY DEF PartitionFix
<1>2. concrete # <<>> =>
        Head(concrete) \in Names \ Wild /\ Head(concrete) \in Range(others)
  <2> DEFINE Real == {others[i] : i \in I}
  <2>1. concrete \in Seq(Real)
    BY Selected DEF Concrete
  <2>2. \A x \in Real : x \in Names \ Wild /\ x \in Range(others)
    BY DEF Range
  <2> HIDE DEF concrete, Real
  <2>3. concrete # <<>> => Head(concrete) \in Real
    BY <2>1, EmptySeq
  <2> QED  BY <2>2, <2>3
<1> HIDE DEF concrete
<1>3. ASSUME concrete # <<>>
      PROVE  /\ only.side = side /\ only.pairs = pairs /\ DOMAIN only.values = {"Partition"}
             /\ Adds(only.values["Partition"], mine, others)
  <2>1. PICK x : x = Head(concrete)  OBVIOUS
  <2>2. x \in Names /\ x \notin Wild /\ x \in Range(others)
    BY <1>2, <1>3, <2>1
  <2>3. more = IF Contains(mine, x) THEN mine ELSE Append(mine, x)
    BY <2>1
  <2>4. DOMAIN mine = 1..Len(mine) /\ Len(mine) \in Nat
    OBVIOUS
  <2> HIDE DEF more
  <2>5. CASE Contains(mine, x)
    <3>1. x \in Range(mine)
      BY <2>4, <2>5 DEF Contains, Range
    <3> QED  BY <2>2, <2>3, <2>5, <3>1 DEF Adds, Fix
  <2>6. CASE ~Contains(mine, x)
    <3>1. more = Append(mine, x)
      BY <2>3, <2>6
    <3>2. /\ more \in Seq(Names) /\ DOMAIN more = 1..(Len(mine) + 1)
          /\ \A i \in 1..Len(mine) : more[i] = mine[i]
          /\ more[Len(mine) + 1] = x
      BY <2>2, <2>4, <3>1, AppendProperties
    <3>3. Range(mine) \subseteq Range(more) /\ x \in Range(more)
      BY <2>4, <3>2 DEF Range
    <3> QED  BY <2>2, <3>2, <3>3 DEF Adds, Fix
  <2> QED  BY <2>5, <2>6
<1> HIDE DEF only
<1>4. CASE concrete = <<>>
  BY <1>1, <1>4 DEF Range, AreAdding
<1>5. CASE concrete # <<>>
  <2>1. fixes = <<only>>  BY <1>1, <1>5
  <2>2. Range(fixes) = {only}  BY <2>1 DEF Range
  <2>3. fixes \in Seq(Range(fixes))  BY <2>1, <2>2
  <2> QED  BY <1>3, <1>5, <2>2, <2>3 DEF AreAdding
<1> QED  BY <1>4, <1>5

LEMMA PartitionFixesListed ==
  ASSUME NEW infos, NEW T, NEW entries \in Seq(T),
         \A e \in T : /\ Partitions(infos[e.reader]) \in Seq(Names)
                      /\ Partitions(infos[e.writer]) \in Seq(Names)
  PROVE  /\ AttachPartitionFixes(infos, entries)
              \in Seq(Range(AttachPartitionFixes(infos, entries)))
         /\ \A x \in Range(AttachPartitionFixes(infos, entries)) :
           x.pair \in T /\ \A fix \in Range(x.fixes) : IsPartitionFix(fix, infos, T)
<1> DEFINE signatures ==
             [i \in DOMAIN entries |->
               <<entries[i].topic, entries[i].apart,
                 Partitions(infos[entries[i].reader]), Partitions(infos[entries[i].writer])>>]
           pairs(i) == PairsOf(entries, Twins(signatures, i))
           reader(i) == Partitions(infos[entries[i].reader])
           writer(i) == Partitions(infos[entries[i].writer])
           left(i) == PartitionFix(entries[i].topic, "reader", pairs(i), reader(i), writer(i))
           right(i) == PartitionFix(entries[i].topic, "writer", pairs(i), writer(i), reader(i))
           fixesOf(i) ==
             IF entries[i].apart = "partition" /\ IsFirst(Twins(signatures, i), i)
             THEN left(i) \o right(i) ELSE <<>>
           items == [i \in DOMAIN entries |-> [pair |-> entries[i], fixes |-> fixesOf(i)]]
<1>1. AttachPartitionFixes(infos, entries) = items
  BY DEF AttachPartitionFixes
<1>2. ASSUME NEW i \in DOMAIN entries, NEW fix \in Range(fixesOf(i))
      PROVE  IsPartitionFix(fix, infos, T)
  <2>1. reader(i) \in Seq(Names) /\ writer(i) \in Seq(Names)
    <3>1. entries[i] \in T  OBVIOUS
    <3> QED  BY <3>1
  <2>2. fixesOf(i) = left(i) \o right(i)
    <3> DEFINE both == left(i) \o right(i)
    <3> HIDE DEF both
    <3>1. fixesOf(i) = both \/ fixesOf(i) = <<>>
      <4> HIDE DEF left, right, signatures
      <4> QED  BY DEF both
    <3>2. \A f : f \notin Range(<<>>)  BY DEF Range
    <3> HIDE DEF fixesOf
    <3> QED  BY <1>2, <3>1, <3>2 DEF both
  <2>3. PICK shared \in SUBSET T :
          /\ pairs(i) = Ends(shared)
          /\ \A e \in shared : /\ Partitions(infos[e.reader]) = reader(i)
                              /\ Partitions(infos[e.writer]) = writer(i)
    <3>1. PICK twins : twins = Twins(signatures, i)  OBVIOUS
    <3>2. PICK shared : shared = {entries[j] : j \in twins}  OBVIOUS
    <3>3. \A j \in twins : /\ j \in DOMAIN entries
                           /\ Partitions(infos[entries[j].reader]) = reader(i)
                           /\ Partitions(infos[entries[j].writer]) = writer(i)
      BY <3>1 DEF Twins
    <3>4. shared \in SUBSET T  BY <3>2, <3>3
    <3>5. pairs(i) = Ends(shared)  BY <3>1, <3>2 DEF PairsOf, Ends
    <3> HIDE DEF pairs, reader, writer
    <3> QED  BY <3>2, <3>3, <3>4, <3>5
  <2> HIDE DEF reader, writer, pairs
  <2>4. AreAdding(left(i), "reader", pairs(i), reader(i), writer(i))
    BY <2>1, PartitionFixListed
  <2>5. AreAdding(right(i), "writer", pairs(i), writer(i), reader(i))
    BY <2>1, PartitionFixListed
  <2> DEFINE F == Range(left(i)) \cup Range(right(i))
  <2> HIDE DEF left, right, fixesOf
  <2>6. left(i) \in Seq(F) /\ right(i) \in Seq(F)
    BY <2>4, <2>5 DEF AreAdding
  <2>7. \A f \in F : IsPartitionFix(f, infos, T)
    BY <2>3, <2>4, <2>5 DEF AreAdding, IsPartitionFix, Adds
  <2> HIDE DEF F
  <2>8. fixesOf(i) \in Seq(F)
    BY <2>2, <2>6, ConcatProperties
  <2>9. fix \in F
    BY <1>2, <2>8 DEF Range
  <2> QED  BY <2>7, <2>9
<1> HIDE DEF fixesOf
<1>3. ASSUME NEW x \in Range(items)
      PROVE  x.pair \in T /\ \A fix \in Range(x.fixes) : IsPartitionFix(fix, infos, T)
  <2>1. PICK i \in DOMAIN entries : x = items[i]  BY DEF Range
  <2>2. x.pair = entries[i] /\ x.fixes = fixesOf(i)  BY <2>1
  <2>3. entries[i] \in T  OBVIOUS
  <2> QED  BY <1>2, <2>2, <2>3
<1>4. items \in Seq(Range(items))
  <2>1. DOMAIN items = 1..Len(entries) /\ Len(entries) \in Nat  OBVIOUS
  <2>2. items \in [1..Len(entries) -> Range(items)]  BY <2>1 DEF Range
  <2> HIDE DEF items
  <2> QED  BY <2>1, <2>2, SeqDef
<1> HIDE DEF items
<1> QED  BY <1>1, <1>3, <1>4

(* What a scan lists are pairs of the listing, with what it says of them.   *)
LEMMA ScanListed ==
  ASSUME NEW infos, Listable(infos), NEW topic,
         \A pair \in Faced(infos) : /\ Partitions(infos[pair.reader]) \in Seq(Names)
                                    /\ Partitions(infos[pair.writer]) \in Seq(Names),
         NEW result, result = ScanEndpoints(infos, topic)
  PROVE  /\ \A x \in Range(result.reports) :
              /\ x.pair \in Faced(infos)
              /\ \A fix \in Range(x.fixes) : IsRxoFix(fix, infos, Faced(infos), x.pair)
         /\ \A x \in Range(result.notMatched) :
              /\ x.pair \in Faced(infos) /\ x.pair.apart # "none"
              /\ \A fix \in Range(x.fixes) : IsPartitionFix(fix, infos, Apart(infos))
         /\ \A x \in Range(result.matched) :
              /\ x.pair \in Faced(infos) /\ x.pair.apart = "none"
              /\ DOMAIN x.pair.analysis.incompatible = {}
              /\ x.pair.analysis.unchecked \subseteq result.unchecked
              /\ x.late = LateJoiner(infos[x.pair.reader], infos[x.pair.writer])
<1> DEFINE pairs == Pairs(infos, topic)
           together == {i \in DOMAIN pairs : pairs[i].apart = "none"}
           facing == Select(pairs, together)
           found == {i \in DOMAIN facing : DOMAIN Details(facing[i].analysis) # {}}
           entries == Select(facing, found)
           clean == {i \in DOMAIN facing : DOMAIN facing[i].analysis.incompatible = {}}
           matched == Select(facing, clean)
           parted == {i \in DOMAIN pairs : pairs[i].apart # "none"}
           apart == Select(pairs, parted)
           reports == BySeverity(AttachQosFixes(infos, entries))
           told == [i \in DOMAIN matched |->
                      [pair |-> matched[i],
                       late |-> LateJoiner(infos[matched[i].reader], infos[matched[i].writer])]]
           Unsure == UNION {facing[i].analysis.unchecked : i \in DOMAIN facing}
           Near == Together(infos)
           Far == Apart(infos)
           Clean == {pair \in Near : /\ DOMAIN pair.analysis.incompatible = {}
                                     /\ pair.analysis.unchecked \subseteq Unsure}
<1>1. /\ result.reports = Cut(reports) /\ result.matched = Cut(told)
      /\ result.notMatched = Cut(AttachPartitionFixes(infos, apart))
      /\ result.unchecked = Unsure
  BY DEF ScanEndpoints
<1>2. pairs \in Seq(Faced(infos))
  BY PairsListed
<1> HIDE DEF pairs
<1>3. facing \in Seq(Near)
  <2>1. together \in SUBSET DOMAIN pairs  OBVIOUS
  <2>2. {pairs[i] : i \in together} \subseteq Near  BY <1>2 DEF Together
  <2> HIDE DEF together, Near
  <2>3. facing \in Seq({pairs[i] : i \in together})  BY <1>2, <2>1, Selected
  <2> HIDE DEF facing
  <2> QED  BY <2>2, <2>3
<1>4. apart \in Seq(Far)
  <2>1. parted \in SUBSET DOMAIN pairs  OBVIOUS
  <2>2. {pairs[i] : i \in parted} \subseteq Far  BY <1>2 DEF Apart
  <2> HIDE DEF parted, Far
  <2>3. apart \in Seq({pairs[i] : i \in parted})  BY <1>2, <2>1, Selected
  <2> HIDE DEF apart
  <2> QED  BY <2>2, <2>3
<1> HIDE DEF facing, apart
<1>5. entries \in Seq(Faced(infos))
  <2>1. found \in SUBSET DOMAIN facing  OBVIOUS
  <2>2. {facing[i] : i \in found} \subseteq Faced(infos)  BY <1>3 DEF Together
  <2> HIDE DEF found, Near
  <2>3. entries \in Seq({facing[i] : i \in found})  BY <1>3, <2>1, Selected
  <2> HIDE DEF entries
  <2> QED  BY <2>2, <2>3
<1>6. matched \in Seq(Clean)
  <2>1. clean \in SUBSET DOMAIN facing  OBVIOUS
  <2>2. {facing[i] : i \in clean} \subseteq Clean
    <3> SUFFICES ASSUME NEW i \in clean PROVE facing[i] \in Clean  OBVIOUS
    <3>1. facing[i] \in Near  BY <1>3
    <3>2. facing[i].analysis.unchecked \subseteq Unsure  OBVIOUS
    <3> QED  BY <3>1, <3>2
  <2> HIDE DEF clean, Near, Clean
  <2>3. matched \in Seq({facing[i] : i \in clean})  BY <1>3, <2>1, Selected
  <2> HIDE DEF matched
  <2> QED  BY <2>2, <2>3
<1> HIDE DEF entries, matched, Unsure
<1>7. ASSUME NEW x \in Range(result.reports)
      PROVE  /\ x.pair \in Faced(infos)
             /\ \A fix \in Range(x.fixes) : IsRxoFix(fix, infos, Faced(infos), x.pair)
  <2>1. /\ reports \in Seq(Range(reports))
        /\ \A y \in Range(reports) :
             /\ y.pair \in Faced(infos)
             /\ \A fix \in Range(y.fixes) : IsRxoFix(fix, infos, Faced(infos), y.pair)
    BY <1>5, QosFixesListed
  <2> HIDE DEF reports
  <2>2. Range(Cut(reports)) \subseteq Range(reports)
    BY <2>1, CutIn, OwnElements
  <2> QED  BY <1>1, <1>7, <2>1, <2>2
<1>8. ASSUME NEW x \in Range(result.notMatched)
      PROVE  /\ x.pair \in Faced(infos) /\ x.pair.apart # "none"
             /\ \A fix \in Range(x.fixes) : IsPartitionFix(fix, infos, Apart(infos))
  <2> DEFINE items == AttachPartitionFixes(infos, apart)
  <2>1. \A e \in Far : /\ Partitions(infos[e.reader]) \in Seq(Names)
                       /\ Partitions(infos[e.writer]) \in Seq(Names)
    BY DEF Apart
  <2>2. /\ items \in Seq(Range(items))
        /\ \A y \in Range(items) :
             y.pair \in Far /\ \A fix \in Range(y.fixes) : IsPartitionFix(fix, infos, Far)
    <3> HIDE DEF Far
    <3> QED  BY <1>4, <2>1, PartitionFixesListed
  <2> HIDE DEF items
  <2>3. Range(Cut(items)) \subseteq Range(items)
    BY <2>2, CutIn, OwnElements
  <2>4. x \in Range(items)  BY <1>1, <1>8, <2>3 DEF items
  <2> QED  BY <2>2, <2>4 DEF Apart
<1>9. ASSUME NEW x \in Range(result.matched)
      PROVE  /\ x.pair \in Clean
             /\ x.late = LateJoiner(infos[x.pair.reader], infos[x.pair.writer])
  <2>1. DOMAIN told = 1..Len(matched) /\ Len(matched) \in Nat
        /\ \A i \in 1..Len(matched) : matched[i] \in Clean
    BY <1>6
  <2>2. \A y \in Range(told) :
          /\ y.pair \in Clean
          /\ y.late = LateJoiner(infos[y.pair.reader], infos[y.pair.writer])
    <3> HIDE DEF Clean
    <3> QED  BY <2>1 DEF Range
  <2>3. told \in Seq(Range(told))
    <3>1. told \in [1..Len(matched) -> Range(told)]  BY <2>1 DEF Range
    <3> HIDE DEF told
    <3> QED  BY <2>1, <3>1, SeqDef
  <2> HIDE DEF told, Clean
  <2>4. Range(Cut(told)) \subseteq Range(told)
    BY <2>3, CutIn, OwnElements
  <2> QED  BY <1>1, <1>9, <2>2, <2>4
<1> QED  BY <1>1, <1>7, <1>8, <1>9 DEF Together

-----------------------------------------------------------------------------
(* What a scan lists first. Each finding that can be fixed is listed after  *)
(* the report that carries the fixes for it, and the risky ones come last.  *)
CureBefore(reports, i) ==
  \E j \in 1..i : \E fix \in Range(reports[j].fixes) :
    <<reports[i].pair.reader, reports[i].pair.writer>> \in fix.pairs
Fixable(analysis) == DOMAIN Details(analysis) \cap Supported # {}
CuresListed(reports, incompatible) ==
  /\ \A i \in DOMAIN reports : Fixable(reports[i].pair.analysis) => CureBefore(reports, i)
  /\ \A i \in DOMAIN reports :
       Severity(reports[i].pair.analysis) = "risky" => i > incompatible

(* A finding and its twins are of one severity, and only an incompatible    *)
(* one can be fixed.                                                        *)
Analyzed(analysis) ==
  DOMAIN analysis.incompatible \subseteq Rxo /\ DOMAIN analysis.risky \subseteq {"History"}

LEMMA SeverityOf ==
  ASSUME NEW analysis, Analyzed(analysis)
  PROVE  /\ Severity(analysis) = "incompatible" <=> DOMAIN Details(analysis) \ {"History"} # {}
         /\ Severity(analysis) # "incompatible" => Severity(analysis) = "risky"
         /\ Fixable(analysis) => Severity(analysis) = "incompatible"
<1>1. DOMAIN Details(analysis) = DOMAIN analysis.incompatible \cup DOMAIN analysis.risky
  BY Overlaid DEF Details
<1>2. "History" \notin Rxo /\ "History" \notin Supported
  BY DEF Rxo, RxoPolicies, Supported
<1>3. Severity(analysis) = "incompatible" <=> DOMAIN analysis.incompatible # {}
  BY DEF Severity
<1>4. DOMAIN analysis.incompatible # {} <=> DOMAIN Details(analysis) \ {"History"} # {}
  BY <1>1, <1>2 DEF Analyzed
<1>5. Severity(analysis) # "incompatible" => Severity(analysis) = "risky"
  BY DEF Severity
<1> QED  BY <1>2, <1>3, <1>4, <1>5 DEF Fixable

(* The first of a finding's twins carries a fix for all of them.            *)
LEMMA FirstTwin ==
  ASSUME NEW infos, NEW T, NEW entries \in Seq(T), \A e \in T : Analyzed(e.analysis),
         NEW items, items = AttachQosFixes(infos, entries),
         NEW a \in DOMAIN entries, Fixable(entries[a].analysis)
  PROVE  \E c \in DOMAIN entries :
           /\ c <= a /\ Severity(entries[c].analysis) = "incompatible"
           /\ \E fix \in Range(items[c].fixes) :
                <<entries[a].reader, entries[a].writer>> \in fix.pairs
<1> DEFINE signatures == [i \in DOMAIN entries |-> FindingSignature(entries[i])]
           policies(i) == Supported \cap DOMAIN Details(entries[i].analysis)
           fixesOf(i) ==
             IF IsFirst(Twins(signatures, i), i) /\ policies(i) # {}
             THEN RxoFixes(infos, entries[i], PairsOf(entries, Twins(signatures, i)),
                           policies(i))
             ELSE <<>>
           twins == Twins(signatures, a)
<1>1. DOMAIN entries = 1..Len(entries) /\ Len(entries) \in Nat
  OBVIOUS
<1>2. twins \in SUBSET Nat /\ a \in twins
  BY <1>1 DEF Twins
<1>3. PICK c \in twins : \A j \in twins : c <= j
  <2> HIDE DEF twins
  <2> QED  BY <1>2, LeastElement
<1>4. c \in DOMAIN entries /\ signatures[c] = signatures[a]
  BY DEF Twins
<1>5. Details(entries[c].analysis) = Details(entries[a].analysis)
  BY <1>4 DEF FindingSignature
<1>6. Twins(signatures, c) = twins
  BY <1>4 DEF Twins
<1>7. IsFirst(Twins(signatures, c), c)
  BY <1>3, <1>6 DEF IsFirst
<1>8. policies(c) # {} /\ Fixable(entries[c].analysis)
  BY <1>5 DEF Fixable
<1>9. fixesOf(c) = RxoFixes(infos, entries[c], PairsOf(entries, twins), policies(c))
  BY <1>6, <1>7, <1>8
<1>10. items[c].fixes = fixesOf(c)
  BY <1>4 DEF AttachQosFixes
<1>11. <<entries[a].reader, entries[a].writer>> \in PairsOf(entries, twins)
  BY <1>2 DEF PairsOf
<1>12. PICK fix \in Range(items[c].fixes) : fix.pairs = PairsOf(entries, twins)
  <2> DEFINE pairs == PairsOf(entries, twins)
             side == SideOrder(policies(c))[1]
             fix == Fix(entries[c].topic, side, pairs,
                        Targets(side, policies(c), infos[entries[c].reader].profile,
                                infos[entries[c].writer].profile))
  <2>1. RxoFixes(infos, entries[c], pairs, policies(c))[1] = fix
        /\ 1 \in DOMAIN RxoFixes(infos, entries[c], pairs, policies(c))
    BY DEF RxoFixes
  <2>2. fix.pairs = pairs  BY DEF Fix
  <2> HIDE DEF fix, pairs, fixesOf, policies
  <2>3. fix \in Range(items[c].fixes)  BY <1>9, <1>10, <2>1 DEF Range, pairs
  <2> QED  BY <2>2, <2>3 DEF pairs
<1>13. c <= a /\ Severity(entries[c].analysis) = "incompatible"
  <2>1. Analyzed(entries[c].analysis)  BY <1>4
  <2> QED  BY <1>2, <1>3, <1>8, <2>1, SeverityOf
<1> HIDE DEF twins, fixesOf
<1> QED  BY <1>4, <1>11, <1>12, <1>13

LEMMA FindingsOrdered ==
  ASSUME NEW infos, NEW T, NEW entries \in Seq(T), \A e \in T : Analyzed(e.analysis),
         NEW reports, reports = BySeverity(AttachQosFixes(infos, entries))
  PROVE  CuresListed(reports, Cardinality({i \in DOMAIN entries :
                                Severity(entries[i].analysis) = "incompatible"}))
<1>1. PICK items : items = AttachQosFixes(infos, entries)  OBVIOUS
<1> DEFINE graded(severity) ==
             {i \in DOMAIN items : Severity(items[i].pair.analysis) = severity}
           bad == graded("incompatible")
           odd == graded("risky")
           first == Select(items, bad)
           second == Select(items, odd)
<1>2. DOMAIN entries = 1..Len(entries) /\ Len(entries) \in Nat
  OBVIOUS
<1>3. DOMAIN items = DOMAIN entries /\ \A i \in DOMAIN entries : items[i].pair = entries[i]
  BY <1>1 DEF AttachQosFixes
<1>4. items \in Seq(Range(items))
  <2>1. items = [i \in DOMAIN items |-> items[i]]  BY <1>1 DEF AttachQosFixes
  <2>2. items \in [1..Len(entries) -> Range(items)]  BY <1>2, <1>3, <2>1 DEF Range
  <2> QED  BY <1>2, <2>2, SeqDef
<1>5. reports = first \o second
  BY <1>1 DEF BySeverity
<1>6. bad = {i \in DOMAIN entries : Severity(entries[i].analysis) = "incompatible"}
  BY <1>3
<1>7. /\ first \in Seq({items[i] : i \in bad}) /\ Len(first) = Cardinality(bad)
      /\ \A k \in 1..Cardinality(bad) : \E i \in bad :
           /\ first[k] = items[i]
           /\ \A j \in bad : j <= i => \E l \in 1..k : first[l] = items[j]
  <2>1. bad \in SUBSET DOMAIN items  OBVIOUS
  <2> HIDE DEF bad, first
  <2>2. /\ Select(items, bad) \in Seq({items[i] : i \in bad})
        /\ Len(Select(items, bad)) = Cardinality(bad)
    BY <1>4, <2>1, Selected
  <2>3. \A k \in 1..Cardinality(bad) : \E i \in bad :
          /\ Select(items, bad)[k] = items[i]
          /\ \A j \in bad : j <= i => \E l \in 1..k : Select(items, bad)[l] = items[j]
    BY <1>4, <2>1, Selected
  <2> QED  BY <2>2, <2>3 DEF first
<1>8. second \in Seq({items[i] : i \in odd})
  <2>1. odd \in SUBSET DOMAIN items  OBVIOUS
  <2> HIDE DEF odd
  <2> QED  BY <1>4, <2>1, Selected
<1>9. \A i \in odd : Severity(items[i].pair.analysis) = "risky"
  OBVIOUS
<1>10. \A i \in bad : i \in DOMAIN entries /\ Severity(items[i].pair.analysis) = "incompatible"
  BY <1>3
<1>11. \A c \in DOMAIN entries : Severity(entries[c].analysis) = "incompatible" => c \in bad
  BY <1>6
<1> HIDE DEF bad, odd, first, second
<1>12. PICK A, B : A = {items[i] : i \in bad} /\ B = {items[i] : i \in odd}  OBVIOUS
<1>13. /\ Len(first) \in Nat /\ Len(second) \in Nat
       /\ DOMAIN reports = 1..(Len(first) + Len(second))
       /\ \A i \in 1..Len(first) : reports[i] = first[i]
       /\ \A i \in (Len(first) + 1)..(Len(first) + Len(second)) :
            reports[i] \in {items[j] : j \in odd}
  <2>1. first \in Seq(A \cup B) /\ second \in Seq(A \cup B) /\ second \in Seq(B)
    BY <1>7, <1>8, <1>12
  <2>2. /\ reports \in Seq(A \cup B) /\ Len(reports) = Len(first) + Len(second)
        /\ \A i \in 1..(Len(first) + Len(second)) :
             reports[i] = IF i <= Len(first) THEN first[i] ELSE second[i - Len(first)]
    BY <1>5, <2>1, ConcatProperties
  <2>3. Len(first) \in Nat /\ Len(second) \in Nat  BY <2>1
  <2>4. DOMAIN reports = 1..(Len(first) + Len(second))
    <3>1. DOMAIN reports = 1..Len(reports)  BY <2>2
    <3> QED  BY <2>2, <3>1
  <2>5. ASSUME NEW i \in (Len(first) + 1)..(Len(first) + Len(second))
        PROVE  reports[i] \in B
    <3>1. PICK k : k = i - Len(first)  OBVIOUS
    <3>2. k \in 1..Len(second) /\ ~(i <= Len(first)) /\ i \in 1..(Len(first) + Len(second))
      BY <2>3, <3>1
    <3>3. reports[i] = second[k]  BY <2>2, <3>1, <3>2
    <3> QED  BY <2>1, <3>2, <3>3
  <2>6. \A i \in 1..Len(first) : reports[i] = first[i]
    BY <2>2, <2>3
  <2> QED  BY <1>12, <2>3, <2>4, <2>5, <2>6
<1>14. ASSUME NEW i \in DOMAIN reports, Severity(reports[i].pair.analysis) # "risky"
       PROVE  i \in 1..Len(first)
  <2>1. reports[i] \notin {items[j] : j \in odd}  BY <1>9, <1>14
  <2> QED  BY <1>13, <2>1
<1>15. ASSUME NEW i \in DOMAIN reports, Fixable(reports[i].pair.analysis)
       PROVE  CureBefore(reports, i)
  <2>0. i \in 1..Len(first)
    <3>1. CASE reports[i] \in {items[j] : j \in odd}
      <4>1. PICK j \in odd : reports[i] = items[j]  BY <3>1
      <4>2. j \in DOMAIN entries  BY <1>3 DEF odd
      <4>3. reports[i].pair = entries[j] /\ entries[j] \in T  BY <1>3, <4>1, <4>2
      <4>4. Severity(reports[i].pair.analysis) = "incompatible"  BY <1>15, <4>3, SeverityOf
      <4> QED  BY <1>9, <4>1, <4>4
    <3>2. CASE reports[i] \notin {items[j] : j \in odd}
      BY <1>13, <3>2
    <3> QED  BY <3>1, <3>2
  <2>1. PICK a \in bad : /\ reports[i] = items[a]
                         /\ \A j \in bad : j <= a => \E l \in 1..i : first[l] = items[j]
    BY <1>7, <1>13, <2>0
  <2>2. a \in DOMAIN entries /\ reports[i].pair = entries[a]
    BY <1>3, <1>10, <2>1
  <2>3. PICK c \in DOMAIN entries :
          /\ c <= a /\ Severity(entries[c].analysis) = "incompatible"
          /\ \E fix \in Range(items[c].fixes) :
               <<entries[a].reader, entries[a].writer>> \in fix.pairs
    BY <1>1, <1>15, <2>2, FirstTwin
  <2>4. c \in bad  BY <1>11, <2>3
  <2>5. PICK l \in 1..i : first[l] = items[c]  BY <2>1, <2>3, <2>4
  <2>6. reports[l] = items[c]
    <3>1. l \in 1..Len(first)  BY <1>13, <2>0
    <3> QED  BY <1>13, <2>5, <3>1
  <2> QED  BY <2>2, <2>3, <2>6 DEF CureBefore
<1>16. ASSUME NEW i \in DOMAIN reports, Severity(reports[i].pair.analysis) = "risky"
       PROVE  i > Cardinality(bad)
  <2>1. ASSUME i \in 1..Len(first) PROVE FALSE
    <3>1. PICK a \in bad : reports[i] = items[a]  BY <1>7, <1>13, <2>1
    <3> QED  BY <1>10, <1>16, <3>1
  <2> QED  BY <1>7, <1>13, <2>1
<1> QED  BY <1>6, <1>15, <1>16 DEF CuresListed

LEMMA CutKeeps ==
  ASSUME NEW T, NEW s \in Seq(T), NEW cut, cut = Cut(s)
  PROVE  \A i \in DOMAIN cut : i \in DOMAIN s /\ \A j \in 1..i : j \in DOMAIN cut /\ cut[j] = s[j]
<1> DEFINE n == IF Len(s) < MaxItems THEN Len(s) ELSE MaxItems
<1>1. n \in Nat /\ n <= Len(s) /\ Len(s) \in Nat /\ DOMAIN s = 1..Len(s)
  BY ScanAssumption
<1> HIDE DEF n
<1>2. cut = SubSeq(s, 1, n)  BY DEF Cut, n
<1>3. DOMAIN cut = 1..n /\ \A j \in 1..n : cut[j] = s[j]
  BY <1>1, <1>2
<1> QED  BY <1>1, <1>3

LEMMA ScanCures ==
  ASSUME NEW infos, Listable(infos), NEW topic,
         NEW result, result = ScanEndpoints(infos, topic)
  PROVE  CuresListed(result.reports, result.totals.incompatible)
<1> DEFINE pairs == Pairs(infos, topic)
           together == {i \in DOMAIN pairs : pairs[i].apart = "none"}
           facing == Select(pairs, together)
           found == {i \in DOMAIN facing : DOMAIN Details(facing[i].analysis) # {}}
           entries == Select(facing, found)
           reports == BySeverity(AttachQosFixes(infos, entries))
           total == Cardinality({i \in DOMAIN entries :
                                   Severity(entries[i].analysis) = "incompatible"})
<1>1. result.reports = Cut(reports) /\ result.totals.incompatible = total
  BY DEF ScanEndpoints
<1>2. pairs \in Seq(Faced(infos))
  BY PairsListed
<1> HIDE DEF pairs
<1>3. facing \in Seq(Faced(infos))
  <2>1. together \in SUBSET DOMAIN pairs  OBVIOUS
  <2>2. {pairs[i] : i \in together} \subseteq Faced(infos)  BY <1>2
  <2> HIDE DEF together
  <2>3. facing \in Seq({pairs[i] : i \in together})  BY <1>2, <2>1, Selected
  <2> HIDE DEF facing
  <2> QED  BY <2>2, <2>3
<1> HIDE DEF facing
<1>4. entries \in Seq(Faced(infos))
  <2>1. found \in SUBSET DOMAIN facing  OBVIOUS
  <2>2. {facing[i] : i \in found} \subseteq Faced(infos)  BY <1>3
  <2> HIDE DEF found
  <2>3. entries \in Seq({facing[i] : i \in found})  BY <1>3, <2>1, Selected
  <2> HIDE DEF entries
  <2> QED  BY <2>2, <2>3
<1> HIDE DEF entries
<1>5. \A pair \in Faced(infos) : Analyzed(pair.analysis)
  <2> SUFFICES ASSUME NEW pair \in Faced(infos) PROVE Analyzed(pair.analysis)
    OBVIOUS
  <2>1. PICK p \in Facing(infos) : pair = Pair(infos, p[1], p[2])  BY DEF Faced
  <2>2. PICK r, w : r = infos[p[1]].profile /\ w = infos[p[2]].profile  OBVIOUS
  <2>3. pair.analysis = AnalyzePair(r, w)  BY <2>1, <2>2 DEF Pair
  <2>4. DOMAIN pair.analysis.incompatible \subseteq Rxo
    BY <2>3 DEF AnalyzePair, Incompatible, Finding
  <2>5. DOMAIN pair.analysis.risky \subseteq {"History"}
    BY <2>3 DEF AnalyzePair, Risky
  <2> QED  BY <2>4, <2>5 DEF Analyzed
<1>6. CuresListed(reports, total)
  BY <1>4, <1>5, FindingsOrdered
<1>7. reports \in Seq(Range(reports))
  BY <1>4, QosFixesListed
<1> HIDE DEF reports, total
<1>8. \A i \in DOMAIN result.reports :
        /\ i \in DOMAIN reports
        /\ \A j \in 1..i : j \in DOMAIN result.reports /\ result.reports[j] = reports[j]
  BY <1>1, <1>7, CutKeeps
<1>9. \A i \in DOMAIN reports : i \in 1..i
  <2>1. DOMAIN reports = 1..Len(reports) /\ Len(reports) \in Nat  BY <1>7
  <2> QED  BY <2>1
<1>10. \A i \in DOMAIN result.reports :
         /\ result.reports[i] = reports[i]
         /\ CureBefore(reports, i) => CureBefore(result.reports, i)
  BY <1>8, <1>9 DEF CureBefore
<1> QED  BY <1>1, <1>6, <1>8, <1>10 DEF CuresListed

-----------------------------------------------------------------------------
(* Listings of a bus. *)
Listed_of(b) == [i \in DOMAIN b |-> EndpointInfo(b[i])]

LEMMA BusListed ==
  ASSUME NEW b, IsBus(b)
  PROVE  /\ Listable(Listed_of(b))
         /\ \A pair \in Faced(Listed_of(b)) :
              /\ pair.reader \in DOMAIN b /\ pair.writer \in DOMAIN b
              /\ b[pair.reader].role = "reader" /\ b[pair.writer].role = "writer"
              /\ b[pair.reader].topic = b[pair.writer].topic
              /\ HasProfile(Sample(b[pair.reader])) /\ HasProfile(Sample(b[pair.writer]))
              /\ pair.apart = Separation(EndpointInfo(b[pair.reader]),
                                         EndpointInfo(b[pair.writer]))
              /\ pair.analysis = AnalyzePair(Profiled(b[pair.reader]),
                                             Profiled(b[pair.writer]))
         /\ \A i \in DOMAIN b :
              /\ Listed_of(b)[i] = EndpointInfo(b[i])
              /\ Listed_of(b)[i].profile = Profiled(b[i])
         /\ \A pair \in Faced(Listed_of(b)) :
              /\ Partitions(Listed_of(b)[pair.reader]) \in Seq(Names)
              /\ Partitions(Listed_of(b)[pair.writer]) \in Seq(Names)
<1> DEFINE infos == Listed_of(b)
<1>1. /\ DOMAIN infos = DOMAIN b
      /\ \A i \in DOMAIN b : infos[i] = EndpointInfo(b[i])
  BY DEF Listed_of
<1>2. \A i \in DOMAIN b :
        /\ EndpointInfo(b[i]).topic = b[i].topic /\ EndpointInfo(b[i]).role = b[i].role
        /\ EndpointInfo(b[i]).usable <=> HasProfile(Sample(b[i]))
        /\ EndpointInfo(b[i]).profile = Profiled(b[i])
  BY DEF EndpointInfo, Profiled
<1>3. Listable(infos)
  <2>1. Len(b) \in Nat /\ DOMAIN b = 1..Len(b) /\ \A i \in DOMAIN b : b[i].topic \in Nat
    BY DEF IsBus, IsEndpoint
  <2> HIDE DEF infos
  <2>2. PICK n \in Nat : n = Len(b)  BY <2>1
  <2>3. DOMAIN infos = 1..n /\ \A i \in 1..n : infos[i].topic \in Nat
    BY <1>1, <1>2, <2>1, <2>2
  <2> QED  BY <2>3 DEF Listable
<1> HIDE DEF infos
<1>4. ASSUME NEW pair \in Faced(infos)
      PROVE  /\ pair.reader \in DOMAIN b /\ pair.writer \in DOMAIN b
             /\ b[pair.reader].role = "reader" /\ b[pair.writer].role = "writer"
             /\ b[pair.reader].topic = b[pair.writer].topic
             /\ HasProfile(Sample(b[pair.reader])) /\ HasProfile(Sample(b[pair.writer]))
             /\ pair.apart = Separation(EndpointInfo(b[pair.reader]),
                                        EndpointInfo(b[pair.writer]))
             /\ pair.analysis = AnalyzePair(Profiled(b[pair.reader]),
                                            Profiled(b[pair.writer]))
  <2>1. PICK p \in Facing(infos) : pair = Pair(infos, p[1], p[2])
    BY DEF Faced
  <2>2. PICK i \in DOMAIN b, j \in DOMAIN b :
          /\ i = p[1] /\ j = p[2]
          /\ infos[i].role = "reader" /\ infos[i].usable
          /\ infos[j].role = "writer" /\ infos[j].usable
          /\ infos[i].topic = infos[j].topic
    BY <1>1 DEF Facing
  <2>3. /\ pair.reader = i /\ pair.writer = j
        /\ pair.apart = Separation(infos[i], infos[j])
        /\ pair.analysis = AnalyzePair(infos[i].profile, infos[j].profile)
    BY <2>1, <2>2 DEF Pair
  <2> QED
    BY <1>1, <1>2, <2>2, <2>3
<1>5. ASSUME NEW i \in DOMAIN b, HasProfile(Sample(b[i]))
      PROVE  Partitions(infos[i]) \in Seq(Names)
  <2>1. IsEndpoint(b[i])  BY DEF IsBus
  <2>2. Profiled(b[i]).says["Partition"] = Own(b[i], "Partition")
    BY <1>5, <2>1, Announced, KnownIsOwn
  <2>3. b[i].qos["Partition"] \in Seq(Names)  BY <2>1, QosOf
  <2>4. <<"">> \in Seq(Names)
    <3>1. PICK none \in Names : none = ""  BY CoversAssumption
    <3>2. <<none>> \in Seq(Names)  OBVIOUS
    <3> QED  BY <3>1, <3>2
  <2>5. Own(b[i], "Partition") \in Seq(Names)  BY <2>3, <2>4 DEF Own
  <2> QED  BY <1>1, <1>2, <2>2, <2>5 DEF Partitions
<1> QED
  BY <1>1, <1>2, <1>3, <1>4, <1>5 DEF infos

(* Values a fix may set: of the policies it may have, and valid.            *)
Settable(values) ==
  /\ DOMAIN values \subseteq Supported \cup {"Partition"}
  /\ \A p \in DOMAIN values : Valid(p, values[p])
  /\ "Partition" \in DOMAIN values => values["Partition"] \in Seq(Names)

LEMMA EditedKept ==
  ASSUME NEW e, IsEndpoint(e), NEW values, Settable(values)
  PROVE  /\ IsEndpoint(Edited(e, values))
         /\ Edited(e, values).participant = e.participant
         /\ Edited(e, values).host = e.host
<1> DEFINE qos == Over(values, e.qos)
           tells == e.tells \cup DOMAIN values
           edited == Edited(e, values)
<1>1. edited = [e EXCEPT !.qos = qos, !.tells = tells]
  BY DEF Edited
<1>2. DOMAIN edited = DOMAIN e
  BY <1>1
<1>3. /\ edited.qos = qos /\ edited.tells = tells
      /\ edited.topic = e.topic /\ edited.type = e.type /\ edited.host = e.host
      /\ edited.joined = e.joined /\ edited.participant = e.participant
  <2> HIDE DEF qos, tells
  <2> QED  BY <1>1 DEF IsEndpoint
<1>4. Supported = {"Reliability", "Durability", "Deadline", "Liveliness", "Ownership",
                   "LatencyBudget"}
  BY DEF Supported
<1>5. Rxo = {"Reliability", "Durability", "Deadline", "Liveliness", "LatencyBudget",
             "Ownership", "DestinationOrder", "DataRepresentation"}
  BY DEF Rxo, RxoPolicies
<1>6. DOMAIN qos = Rxo \cup {"Partition", "History"}
  <2>1. DOMAIN qos = DOMAIN values \cup DOMAIN e.qos  BY Overlaid
  <2>2. DOMAIN values \subseteq Supported \cup {"Partition"}  BY DEF Settable
  <2>3. DOMAIN e.qos = Rxo \cup {"Partition", "History"}  BY QosOf
  <2> HIDE DEF qos
  <2> QED  BY <1>4, <1>5, <2>1, <2>2, <2>3
<1>7. \A p \in DOMAIN qos : qos[p] = IF p \in DOMAIN values THEN values[p] ELSE e.qos[p]
  BY DEF Over
<1>8. \A p \in DOMAIN values : Valid(p, values[p])
  BY DEF Settable
<1>9. /\ qos["Reliability"] \in {"RELIABLE", "BEST_EFFORT"}
      /\ qos["Durability"] \in Durabilities
      /\ qos["Deadline"] \in Nat /\ qos["LatencyBudget"] \in Nat
      /\ qos["Liveliness"] \in [kind : Kinds, lease : Nat]
      /\ qos["Ownership"] \in {"SHARED", "EXCLUSIVE"}
  <2>1. \A p \in DOMAIN values :
          /\ p = "Reliability" => values[p] \in {"RELIABLE", "BEST_EFFORT"}
          /\ p = "Durability" => values[p] \in Durabilities
          /\ p \in {"Deadline", "LatencyBudget"} => values[p] \in Nat
          /\ p = "Liveliness" => values[p] \in [kind : Kinds, lease : Nat]
          /\ p = "Ownership" => values[p] \in {"SHARED", "EXCLUSIVE"}
    BY <1>8 DEF Valid
  <2> HIDE DEF qos
  <2> QED  BY <1>5, <1>6, <1>7, <2>1, QosOf
<1>10. /\ qos["DestinationOrder"] \in {"BY_RECEPTION_TIMESTAMP", "BY_SOURCE_TIMESTAMP"}
       /\ qos["DataRepresentation"] \in Seq(STRING)
       /\ qos["Partition"] \in Seq(Names)
       /\ qos["History"] \in [kind : {"KEEP_LAST", "KEEP_ALL"}, depth : Nat]
  <2>1. DOMAIN values \cap {"DestinationOrder", "DataRepresentation", "History"} = {}
    BY <1>4 DEF Settable
  <2>2. "Partition" \in DOMAIN values => values["Partition"] \in Seq(Names)
    BY DEF Settable
  <2> HIDE DEF qos
  <2>3. /\ qos["DestinationOrder"] = e.qos["DestinationOrder"]
        /\ qos["DataRepresentation"] = e.qos["DataRepresentation"]
        /\ qos["History"] = e.qos["History"]
        /\ qos["Partition"] \in {values["Partition"], e.qos["Partition"]}
        /\ "Partition" \notin DOMAIN values => qos["Partition"] = e.qos["Partition"]
    BY <1>5, <1>6, <1>7, <2>1
  <2> QED  BY <2>2, <2>3, QosOf
<1>11. qos \in Qos
  <2>1. /\ Range(DurabilityOrder) = Durabilities /\ Range(LivelinessOrder) = Kinds
        /\ Range(DestinationOrders) = {"BY_RECEPTION_TIMESTAMP", "BY_SOURCE_TIMESTAMP"}
    BY DEF Range, DurabilityOrder, Durabilities, LivelinessOrder, Kinds, DestinationOrders
  <2>2. qos = [p \in DOMAIN qos |-> qos[p]]
    BY DEF Over
  <2> HIDE DEF qos
  <2> QED  BY <1>5, <1>6, <1>9, <1>10, <2>1, <2>2 DEF Qos
<1>12. /\ "Deadline" \notin tells => qos["Deadline"] = Infinite
       /\ "Partition" \notin tells => qos["Partition"] = <<>>
  <2> HIDE DEF qos
  <2> QED  BY <1>5, <1>6, <1>7 DEF IsEndpoint
<1> HIDE DEF edited, qos, tells
<1> QED
  BY <1>2, <1>3, <1>11, <1>12 DEF IsEndpoint, edited

(* An edited endpoint is the same but for the values that were set.         *)
LEMMA EditedQos ==
  ASSUME NEW e, IsEndpoint(e), NEW values, Settable(values)
  PROVE  /\ Edited(e, values).topic = e.topic /\ Edited(e, values).type = e.type
         /\ \A p \in Rxo \cup {"Partition"} :
              Edited(e, values).qos[p] = IF p \in DOMAIN values THEN values[p] ELSE e.qos[p]
<1> DEFINE qos == Over(values, e.qos)
           tells == e.tells \cup DOMAIN values
<1>1. Edited(e, values) = [e EXCEPT !.qos = qos, !.tells = tells]
  BY DEF Edited
<1>2. \A p \in Rxo \cup {"Partition"} :
        qos[p] = IF p \in DOMAIN values THEN values[p] ELSE e.qos[p]
  BY QosOf, OverAt
<1> HIDE DEF qos, tells
<1>3. /\ Edited(e, values).qos = qos
      /\ Edited(e, values).topic = e.topic /\ Edited(e, values).type = e.type
  BY <1>1 DEF IsEndpoint
<1> QED  BY <1>2, <1>3

(* The values of a fix for two endpoints may be set: a policy found to      *)
(* clash was read on both sides as the endpoints have it.                   *)
LEMMA TargetsSettable ==
  ASSUME NEW r, IsEndpoint(r), HasProfile(Sample(r)),
         NEW w, IsEndpoint(w), HasProfile(Sample(w)),
         NEW found, found = AnalyzePair(Profiled(r), Profiled(w)),
         NEW side \in {"reader", "writer"},
         NEW values,
         values = Targets(side, Supported \cap DOMAIN Details(found), Profiled(r), Profiled(w))
  PROVE  Settable(values)
<1> DEFINE policies == Supported \cap DOMAIN Details(found)
           a == Profiled(r)
           b == Profiled(w)
<1>1. DOMAIN values = policies /\ policies \subseteq Supported
  BY DEF Targets
<1>2. policies \subseteq DOMAIN found.incompatible
  <2>1. DOMAIN found.risky \subseteq {"History"}
    BY DEF AnalyzePair, Risky
  <2>2. DOMAIN Details(found) = DOMAIN found.incompatible \cup DOMAIN found.risky
    BY Overlaid DEF Details
  <2> QED
    BY <2>1, <2>2 DEF Supported
<1>3. \A p \in policies : a.says[p] = Own(r, p) /\ b.says[p] = Own(w, p)
  BY <1>2, PoliciesAreTrue
<1>4. Supported = {"Reliability", "Durability", "Deadline", "Liveliness", "Ownership",
                   "LatencyBudget"}
  BY DEF Supported
<1>5. \A p \in policies : a.says[p] = r.qos[p] /\ b.says[p] = w.qos[p]
  BY <1>1, <1>3, <1>4 DEF Own
<1> HIDE DEF policies, a, b
<1>6. ASSUME NEW p \in policies PROVE Valid(p, values[p])
  <2>1. Valid(p, r.qos[p]) /\ Valid(p, w.qos[p])
    BY QosOf DEF Valid
  <2>2. values = Targets(side, policies, a, b)
    BY DEF policies, a, b
  <2>3. CASE p = "Reliability"
    <3>1. values[p] \in {"RELIABLE", "BEST_EFFORT"}
      BY <2>2, <2>3, TargetOf
    <3> QED
      BY <2>3, <3>1 DEF Valid
  <2>4. CASE p = "Liveliness"
    <3>1. r.qos[p] \in [kind : Kinds, lease : Nat] /\ w.qos[p] \in [kind : Kinds, lease : Nat]
      BY <2>4, QosOf
    <3>2. values[p] = LivelinessTarget(side, r.qos[p], w.qos[p])
      BY <1>5, <2>2, <2>4, TargetOf
    <3>3. values[p] \in [kind : Kinds, lease : Nat]
      BY <3>1, <3>2, LivelinessTargetFits
    <3> QED
      BY <2>4, <3>3 DEF Valid
  <2>5. CASE p \notin {"Reliability", "Liveliness"}
    <3>1. values[p] \in {r.qos[p], w.qos[p]}
      BY <1>5, <2>2, <2>5, TargetOf
    <3> QED
      BY <2>1, <3>1
  <2> QED
    BY <2>3, <2>4, <2>5
<1> QED
  BY <1>1, <1>4, <1>6 DEF Settable

-----------------------------------------------------------------------------
(* The loop. A bus stays one whatever is applied to it, and what is read is *)
(* of the bus as it is.                                                     *)
VerdictsInv ==
  /\ IsBus(bus)
  /\ phase = "read" => scan = ScanEndpoints(Listing, asked)

LEMMA FixSettable ==
  ASSUME NEW b, IsBus(b), NEW topic, NEW result,
         result = ScanEndpoints(Listed_of(b), topic),
         NEW x \in Range(result.reports) \cup Range(result.notMatched), NEW fix \in Range(x.fixes)
  PROVE  Settable(fix.values)
<1> DEFINE infos == Listed_of(b)
<1>1. /\ Listable(infos)
      /\ \A pair \in Faced(infos) : /\ Partitions(infos[pair.reader]) \in Seq(Names)
                                    /\ Partitions(infos[pair.writer]) \in Seq(Names)
  BY BusListed
<1> HIDE DEF infos
<1>2. /\ \A y \in Range(result.reports) :
           /\ y.pair \in Faced(infos)
           /\ \A f \in Range(y.fixes) : IsRxoFix(f, infos, Faced(infos), y.pair)
      /\ \A y \in Range(result.notMatched) :
           \A f \in Range(y.fixes) : IsPartitionFix(f, infos, Apart(infos))
  BY <1>1, ScanListed DEF infos
<1>3. CASE x \in Range(result.reports)
  <2>1. x.pair \in Faced(infos) /\ IsRxoFix(fix, infos, Faced(infos), x.pair)
    BY <1>2, <1>3
  <2> DEFINE r == b[x.pair.reader]
             w == b[x.pair.writer]
  <2>2. /\ x.pair.reader \in DOMAIN b /\ x.pair.writer \in DOMAIN b
        /\ HasProfile(Sample(r)) /\ HasProfile(Sample(w))
        /\ x.pair.analysis = AnalyzePair(Profiled(r), Profiled(w))
    BY <2>1, BusListed DEF infos
  <2>3. IsEndpoint(r) /\ IsEndpoint(w)
    BY <2>2 DEF IsBus
  <2>4. infos[x.pair.reader].profile = Profiled(r) /\ infos[x.pair.writer].profile = Profiled(w)
    BY <2>2, BusListed DEF infos
  <2>5. PICK side \in {"reader", "writer"} :
          fix.values = Targets(side, Supported \cap DOMAIN Details(x.pair.analysis),
                               Profiled(r), Profiled(w))
    BY <2>1, <2>4 DEF IsRxoFix
  <2> HIDE DEF r, w
  <2> QED
    BY <2>2, <2>3, <2>5, TargetsSettable
<1>4. CASE x \in Range(result.notMatched)
  <2>1. IsPartitionFix(fix, infos, Apart(infos))
    BY <1>2, <1>4
  <2> QED
    BY <2>1 DEF IsPartitionFix, Settable, Valid
<1> QED
  BY <1>3, <1>4

LEMMA BusKept ==
  ASSUME NEW b, IsBus(b), NEW values, Settable(values), NEW chosen,
         NEW edited,
         edited = [i \in DOMAIN b |-> IF i \in chosen THEN Edited(b[i], values) ELSE b[i]]
  PROVE  IsBus(edited)
<1>1. Len(b) \in Nat /\ DOMAIN b = 1..Len(b)
  BY DEF IsBus
<1>2. \A i \in DOMAIN b :
        /\ IsEndpoint(edited[i])
        /\ edited[i].participant = b[i].participant /\ edited[i].host = b[i].host
  BY EditedKept DEF IsBus
<1>3. DOMAIN edited = DOMAIN b
  OBVIOUS
<1>4. edited = [i \in 1..Len(b) |-> edited[i]]
  BY <1>1
<1> HIDE DEF IsEndpoint
<1>5. edited \in Seq(Range(edited)) /\ Len(edited) = Len(b)
  <2>1. edited \in [1..Len(b) -> Range(edited)]
    BY <1>1, <1>3, <1>4 DEF Range
  <2>2. edited \in Seq(Range(edited))
    BY <1>1, <2>1, SeqDef
  <2> QED
    BY <1>1, <2>1, <2>2, LenProperties
<1> QED
  BY <1>1, <1>2, <1>3, <1>5 DEF IsBus

-----------------------------------------------------------------------------
(* What a fix does when it is applied to the endpoints it names.            *)
OnceApplied(b, fix) ==
  [i \in DOMAIN b |-> IF i \in Targeted(fix) THEN Edited(b[i], fix.values) ELSE b[i]]
SameValues(b, fix) ==
  \A p, q \in fix.pairs, policy \in DOMAIN fix.values :
    /\ b[p[1]].qos[policy] = b[q[1]].qos[policy]
    /\ b[p[2]].qos[policy] = b[q[2]].qos[policy]
Cures(b, fix) ==
  \A p \in fix.pairs, policy \in DOMAIN fix.values :
    LET r == b[p[1]]
        w == b[p[2]]
    IN IF policy = "Partition" THEN Joined(r, w)
       ELSE Serves(policy, w.qos[policy], r.qos[policy])
Keeps(before, after) ==
  \A i, j \in DOMAIN before :
    before[i].role = "reader" /\ before[j].role = "writer" /\ Flows(before[i], before[j])
      => Flows(after[i], after[j])

(* A fix names readers and writers, and changes those of its side only.     *)
LEMMA OneSide ==
  ASSUME NEW b, IsBus(b), NEW infos, infos = Listed_of(b),
         NEW shared \in SUBSET Faced(infos), NEW fix, fix.pairs = Ends(shared),
         fix.side \in {"reader", "writer"}, NEW after, after = OnceApplied(b, fix)
  PROVE  /\ \A p \in fix.pairs : /\ p[1] \in DOMAIN b /\ b[p[1]].role = "reader"
                                 /\ p[2] \in DOMAIN b /\ b[p[2]].role = "writer"
                                 /\ \E e \in shared : e.reader = p[1] /\ e.writer = p[2]
         /\ \A i \in Targeted(fix) :
              /\ b[i].role = fix.side
              /\ \E p \in fix.pairs : i = IF fix.side = "reader" THEN p[1] ELSE p[2]
         /\ \A p \in fix.pairs : (IF fix.side = "reader" THEN p[1] ELSE p[2]) \in Targeted(fix)
         /\ \A i \in DOMAIN b : b[i].role # fix.side => after[i] = b[i]
         /\ \A i \in DOMAIN b : i \notin Targeted(fix) => after[i] = b[i]
         /\ \A i \in Targeted(fix) : i \in DOMAIN b /\ after[i] = Edited(b[i], fix.values)
<1>1. ASSUME NEW p \in fix.pairs
      PROVE  /\ p[1] \in DOMAIN b /\ b[p[1]].role = "reader"
             /\ p[2] \in DOMAIN b /\ b[p[2]].role = "writer"
             /\ \E e \in shared : e.reader = p[1] /\ e.writer = p[2]
  <2>1. PICK e \in shared : p = <<e.reader, e.writer>>  BY DEF Ends
  <2>2. e \in Faced(infos)  OBVIOUS
  <2>3. /\ e.reader \in DOMAIN b /\ b[e.reader].role = "reader"
        /\ e.writer \in DOMAIN b /\ b[e.writer].role = "writer"
    BY <2>2, BusListed
  <2> QED  BY <2>1, <2>3
<1>2. Targeted(fix) = {IF fix.side = "reader" THEN p[1] ELSE p[2] : p \in fix.pairs}
  BY DEF Targeted
<1>3. \A i \in Targeted(fix) :
        /\ i \in DOMAIN b /\ b[i].role = fix.side
        /\ \E p \in fix.pairs : i = IF fix.side = "reader" THEN p[1] ELSE p[2]
  BY <1>1, <1>2
<1>4. \A i \in DOMAIN b :
        after[i] = IF i \in Targeted(fix) THEN Edited(b[i], fix.values) ELSE b[i]
  BY DEF OnceApplied
<1> QED  BY <1>1, <1>2, <1>3, <1>4

(* What is known of a pair a report lists, for the policies it can fix.     *)
LEMMA FindingKnown ==
  ASSUME NEW b, IsBus(b), NEW infos, infos = Listed_of(b), NEW pair \in Faced(infos),
         NEW policy \in Supported \cap DOMAIN Details(pair.analysis),
         NEW r, r = infos[pair.reader].profile, NEW w, w = infos[pair.writer].profile
  PROVE  /\ r.says[policy] = b[pair.reader].qos[policy]
         /\ w.says[policy] = b[pair.writer].qos[policy]
         /\ Clash(policy, r.says[policy], w.says[policy])
         /\ Valid(policy, r.says[policy]) /\ Valid(policy, w.says[policy])
<1> DEFINE reader == b[pair.reader]
           writer == b[pair.writer]
<1>1. /\ pair.reader \in DOMAIN b /\ pair.writer \in DOMAIN b
      /\ HasProfile(Sample(reader)) /\ HasProfile(Sample(writer))
      /\ pair.analysis = AnalyzePair(Profiled(reader), Profiled(writer))
  BY BusListed
<1>2. r = Profiled(reader) /\ w = Profiled(writer)
  BY <1>1, BusListed
<1>3. IsEndpoint(reader) /\ IsEndpoint(writer)
  BY <1>1 DEF IsBus
<1>4. policy \in DOMAIN pair.analysis.incompatible
  <2>1. DOMAIN pair.analysis.risky \subseteq {"History"}
    BY <1>1 DEF AnalyzePair, Risky
  <2>2. DOMAIN Details(pair.analysis)
          = DOMAIN pair.analysis.incompatible \cup DOMAIN pair.analysis.risky
    BY Overlaid DEF Details
  <2> QED  BY <2>1, <2>2 DEF Supported
<1> HIDE DEF reader, writer
<1>5. /\ Clash(policy, Own(reader, policy), Own(writer, policy))
      /\ r.says[policy] = Own(reader, policy) /\ w.says[policy] = Own(writer, policy)
  BY <1>1, <1>2, <1>3, <1>4, PoliciesAreTrue
<1>6. Own(reader, policy) = reader.qos[policy] /\ Own(writer, policy) = writer.qos[policy]
  BY DEF Own, Supported
<1>7. Valid(policy, reader.qos[policy]) /\ Valid(policy, writer.qos[policy])
  BY <1>3, QosOf DEF Valid
<1> QED  BY <1>5, <1>6, <1>7 DEF reader, writer

(* A fix of policies cures every pair it is for, since all had the values   *)
(* of the pair it was made from (_targets, attach_qos_fixes).               *)
LEMMA RxoFixCures ==
  ASSUME NEW b, IsBus(b), NEW infos, infos = Listed_of(b), NEW pair \in Faced(infos),
         NEW fix, IsRxoFix(fix, infos, Faced(infos), pair), Settable(fix.values),
         SameValues(b, fix)
  PROVE  /\ Cures(OnceApplied(b, fix), fix)
         /\ "Ownership" \notin DOMAIN fix.values => Keeps(b, OnceApplied(b, fix))
<1> DEFINE policies == Supported \cap DOMAIN Details(pair.analysis)
           r == infos[pair.reader].profile
           w == infos[pair.writer].profile
<1>0. PICK after : after = OnceApplied(b, fix)  OBVIOUS
<1>1. PICK shared \in SUBSET Faced(infos) : fix.pairs = Ends(shared) /\ pair \in shared
  BY DEF IsRxoFix
<1>2. fix.side \in {"reader", "writer"} /\ fix.values = Targets(fix.side, policies, r, w)
  BY DEF IsRxoFix
<1>3. DOMAIN fix.values = policies /\ policies \in SUBSET Supported
  BY <1>2 DEF Targets
<1>4. \A policy \in policies :
        /\ r.says[policy] = b[pair.reader].qos[policy]
        /\ w.says[policy] = b[pair.writer].qos[policy]
        /\ Clash(policy, r.says[policy], w.says[policy])
        /\ Valid(policy, r.says[policy]) /\ Valid(policy, w.says[policy])
  BY FindingKnown
<1>5. <<pair.reader, pair.writer>> \in fix.pairs
  BY <1>1 DEF Ends
<1> HIDE DEF policies, r, w
<1>6. \A p \in fix.pairs, policy \in policies :
        b[p[1]].qos[policy] = r.says[policy] /\ b[p[2]].qos[policy] = w.says[policy]
  BY <1>3, <1>4, <1>5 DEF SameValues
<1>7. \A policy \in policies : policy \in Rxo /\ policy # "Partition"
  BY <1>3 DEF Supported, Rxo, RxoPolicies
<1>8. /\ \A p \in fix.pairs : /\ p[1] \in DOMAIN b /\ b[p[1]].role = "reader"
                              /\ p[2] \in DOMAIN b /\ b[p[2]].role = "writer"
      /\ \A i \in Targeted(fix) :
           /\ b[i].role = fix.side
           /\ \E p \in fix.pairs : i = IF fix.side = "reader" THEN p[1] ELSE p[2]
      /\ \A p \in fix.pairs : (IF fix.side = "reader" THEN p[1] ELSE p[2]) \in Targeted(fix)
      /\ \A i \in DOMAIN b : b[i].role # fix.side => after[i] = b[i]
      /\ \A i \in DOMAIN b : i \notin Targeted(fix) => after[i] = b[i]
      /\ \A i \in Targeted(fix) : i \in DOMAIN b /\ after[i] = Edited(b[i], fix.values)
  BY <1>0, <1>1, <1>2, OneSide
<1>9. \A i \in Targeted(fix) :
        /\ after[i].topic = b[i].topic /\ after[i].type = b[i].type
        /\ \A p \in Rxo \cup {"Partition"} :
             after[i].qos[p] = IF p \in policies THEN fix.values[p] ELSE b[i].qos[p]
  <2> SUFFICES ASSUME NEW i \in Targeted(fix)
      PROVE  /\ after[i].topic = b[i].topic /\ after[i].type = b[i].type
             /\ \A p \in Rxo \cup {"Partition"} :
                  after[i].qos[p] = IF p \in policies THEN fix.values[p] ELSE b[i].qos[p]
    OBVIOUS
  <2>1. IsEndpoint(b[i])  BY <1>8 DEF IsBus
  <2>2. after[i] = Edited(b[i], fix.values)  BY <1>8
  <2> QED  BY <1>3, <2>1, <2>2, EditedQos
<1>10. \A policy \in policies :
         /\ fix.side = "reader" => /\ fix.values[policy] = Requested("reader", policy, policies, r, w)
                                   /\ w.says[policy] = Offered("reader", policy, policies, r, w)
         /\ fix.side = "writer" => /\ fix.values[policy] = Offered("writer", policy, policies, r, w)
                                   /\ r.says[policy] = Requested("writer", policy, policies, r, w)
  BY <1>2 DEF Offered, Requested
<1>11. Cures(after, fix)
  <2> SUFFICES ASSUME NEW p \in fix.pairs, NEW policy \in policies
      PROVE  Serves(policy, after[p[2]].qos[policy], after[p[1]].qos[policy])
    BY <1>3, <1>7 DEF Cures
  <2>1. Serves(policy, Offered(fix.side, policy, policies, r, w),
                       Requested(fix.side, policy, policies, r, w))
    BY <1>2, <1>3, <1>4, FixServes
  <2>2. CASE fix.side = "reader"
    <3>1. /\ after[p[1]].qos[policy] = fix.values[policy]
          /\ after[p[2]].qos[policy] = w.says[policy]
      BY <1>6, <1>7, <1>8, <1>9, <2>2
    <3> QED  BY <1>10, <2>1, <2>2, <3>1
  <2>3. CASE fix.side = "writer"
    <3>1. /\ after[p[2]].qos[policy] = fix.values[policy]
          /\ after[p[1]].qos[policy] = r.says[policy]
      BY <1>6, <1>7, <1>8, <1>9, <2>3
    <3> QED  BY <1>10, <2>1, <2>3, <3>1
  <2> QED  BY <1>2, <2>2, <2>3
<1>12. ASSUME "Ownership" \notin DOMAIN fix.values,
              NEW i \in DOMAIN b, NEW j \in DOMAIN b,
              b[i].role = "reader", b[j].role = "writer", Flows(b[i], b[j])
       PROVE  Flows(after[i], after[j])
  <2>1. /\ b[i].topic = b[j].topic /\ b[i].type = b[j].type /\ Joined(b[i], b[j])
        /\ \A p \in Rxo : Serves(p, b[j].qos[p], b[i].qos[p])
    BY <1>12 DEF Flows
  <2>2. /\ after[i].topic = after[j].topic /\ after[i].type = after[j].type
        /\ after[i].qos["Partition"] = b[i].qos["Partition"]
        /\ after[j].qos["Partition"] = b[j].qos["Partition"]
    BY <1>7, <1>8, <1>9, <2>1
  <2>3. Joined(after[i], after[j])
    BY <2>1, <2>2 DEF Joined
  <2>4. ASSUME NEW p \in Rxo PROVE Serves(p, after[j].qos[p], after[i].qos[p])
    <3>1. CASE p \notin policies
      <4>1. after[j].qos[p] = b[j].qos[p] /\ after[i].qos[p] = b[i].qos[p]
        BY <1>8, <1>9, <3>1
      <4> QED  BY <2>1, <4>1
    <3>2. CASE p \in policies
      <4>0. p \in policies \ {"Ownership"}  BY <1>3, <1>12, <3>2
      <4>1. IsEndpoint(b[i]) /\ IsEndpoint(b[j])  BY <1>12 DEF IsBus
      <4>2. Valid(p, b[i].qos[p]) /\ Valid(p, b[j].qos[p])  BY <4>1, QosOf DEF Valid
      <4>3. Serves(p, b[j].qos[p], b[i].qos[p])  BY <2>1
      <4>4. CASE fix.side = "reader"
        <5>1. after[j] = b[j]  BY <1>8, <1>12, <4>4
        <5>2. CASE i \notin Targeted(fix)  BY <1>8, <4>3, <5>1, <5>2
        <5>3. CASE i \in Targeted(fix)
          <6>1. b[i].qos[p] = r.says[p]  BY <1>6, <1>8, <3>2, <4>4, <5>3
          <6>2. after[i].qos[p] = Requested("reader", p, policies, r, w)
            BY <1>9, <1>10, <3>2, <4>4, <5>3
          <6>3. Serves(p, b[j].qos[p], Requested("reader", p, policies, r, w))
            BY <1>3, <1>4, <4>0, <4>2, <4>3, <6>1, FixRelaxes
          <6> QED  BY <5>1, <6>2, <6>3
        <5> QED  BY <5>2, <5>3
      <4>5. CASE fix.side = "writer"
        <5>1. after[i] = b[i]  BY <1>8, <1>12, <4>5
        <5>2. CASE j \notin Targeted(fix)  BY <1>8, <4>3, <5>1, <5>2
        <5>3. CASE j \in Targeted(fix)
          <6>1. b[j].qos[p] = w.says[p]  BY <1>6, <1>8, <3>2, <4>5, <5>3
          <6>2. after[j].qos[p] = Offered("writer", p, policies, r, w)
            BY <1>9, <1>10, <3>2, <4>5, <5>3
          <6>3. Serves(p, Offered("writer", p, policies, r, w), b[i].qos[p])
            BY <1>3, <1>4, <4>0, <4>2, <4>3, <6>1, FixRelaxes
          <6> QED  BY <5>1, <6>2, <6>3
        <5> QED  BY <5>2, <5>3
      <4> QED  BY <1>2, <4>4, <4>5
    <3> QED  BY <3>1, <3>2
  <2> QED  BY <2>2, <2>3, <2>4 DEF Flows
<1> QED  BY <1>0, <1>11, <1>12 DEF Keeps

(* Endpoints join by the partitions they have, the default one if none.     *)
LEMMA JoinedBy ==
  ASSUME NEW r, NEW w
  PROVE  Joined(r, w) <=>
           \E p \in Range(Own(r, "Partition")), q \in Range(Own(w, "Partition")) :
             \/ p = q /\ p \notin Wild
             \/ {<<p, q>>, <<q, p>>} \cap Covers # {}
<1>1. PICK names : names = [e \in {r, w} |-> Own(e, "Partition")]
  OBVIOUS
<1>2. /\ names[r] = IF r.qos["Partition"] = <<>> THEN <<"">> ELSE r.qos["Partition"]
      /\ names[w] = IF w.qos["Partition"] = <<>> THEN <<"">> ELSE w.qos["Partition"]
  BY <1>1 DEF Own
<1>3. Joined(r, w) <=> \E p \in Range(names[r]), q \in Range(names[w]) :
                         \/ p = q /\ p \notin Wild
                         \/ {<<p, q>>, <<q, p>>} \cap Covers # {}
  BY <1>2 DEF Joined
<1> QED  BY <1>1, <1>3

(* A partition fix makes each pair it is for join, and parts no other: it   *)
(* takes no partition away (_partition_fix).                                *)
LEMMA PartitionFixCures ==
  ASSUME NEW b, IsBus(b), NEW infos, infos = Listed_of(b),
         NEW fix, IsPartitionFix(fix, infos, Apart(infos)), Settable(fix.values)
  PROVE  Cures(OnceApplied(b, fix), fix) /\ Keeps(b, OnceApplied(b, fix))
<1> DEFINE new == fix.values["Partition"]
           mine(e) == Own(e, "Partition")
<1>0. PICK after : after = OnceApplied(b, fix)  OBVIOUS
<1>1. PICK shared \in SUBSET Apart(infos) :
        /\ fix.pairs = Ends(shared)
        /\ \A e \in shared :
             LET reader == Partitions(infos[e.reader])
                 writer == Partitions(infos[e.writer])
             IN IF fix.side = "reader" THEN Adds(new, reader, writer)
                ELSE Adds(new, writer, reader)
  BY DEF IsPartitionFix
<1>2. /\ fix.side \in {"reader", "writer"} /\ DOMAIN fix.values = {"Partition"}
      /\ shared \in SUBSET Faced(infos)
  BY DEF IsPartitionFix, Apart
<1>3. /\ \A p \in fix.pairs : /\ p[1] \in DOMAIN b /\ b[p[1]].role = "reader"
                              /\ p[2] \in DOMAIN b /\ b[p[2]].role = "writer"
                              /\ \E e \in shared : e.reader = p[1] /\ e.writer = p[2]
      /\ \A i \in Targeted(fix) :
           /\ b[i].role = fix.side
           /\ \E p \in fix.pairs : i = IF fix.side = "reader" THEN p[1] ELSE p[2]
      /\ \A p \in fix.pairs : (IF fix.side = "reader" THEN p[1] ELSE p[2]) \in Targeted(fix)
      /\ \A i \in DOMAIN b : b[i].role # fix.side => after[i] = b[i]
      /\ \A i \in DOMAIN b : i \notin Targeted(fix) => after[i] = b[i]
      /\ \A i \in Targeted(fix) : i \in DOMAIN b /\ after[i] = Edited(b[i], fix.values)
  BY <1>0, <1>1, <1>2, OneSide
<1>4. ASSUME NEW e \in shared
      PROVE  /\ Partitions(infos[e.reader]) = mine(b[e.reader])
             /\ Partitions(infos[e.writer]) = mine(b[e.writer])
  <2>1. /\ e.reader \in DOMAIN b /\ e.writer \in DOMAIN b
        /\ HasProfile(Sample(b[e.reader])) /\ HasProfile(Sample(b[e.writer]))
    BY <1>2, BusListed
  <2>2. /\ infos[e.reader].profile = Profiled(b[e.reader])
        /\ infos[e.writer].profile = Profiled(b[e.writer])
    BY <2>1, BusListed
  <2>3. IsEndpoint(b[e.reader]) /\ IsEndpoint(b[e.writer])
    BY <2>1 DEF IsBus
  <2> QED  BY <2>1, <2>2, <2>3, Announced, KnownIsOwn DEF Partitions
<1>5. ASSUME NEW p \in fix.pairs
      PROVE  IF fix.side = "reader" THEN Adds(new, mine(b[p[1]]), mine(b[p[2]]))
             ELSE Adds(new, mine(b[p[2]]), mine(b[p[1]]))
  <2>1. PICK e \in shared : e.reader = p[1] /\ e.writer = p[2]  BY <1>3
  <2> HIDE DEF mine, new
  <2> QED  BY <1>1, <1>4, <2>1
<1>6. ASSUME NEW i \in Targeted(fix)
      PROVE  /\ after[i].topic = b[i].topic /\ after[i].type = b[i].type
             /\ \A p \in Rxo : after[i].qos[p] = b[i].qos[p]
             /\ mine(after[i]) = new /\ Range(mine(b[i])) \subseteq Range(new)
  <2>1. IsEndpoint(b[i])  BY <1>3 DEF IsBus
  <2>2. after[i] = Edited(b[i], fix.values)  BY <1>3
  <2>3. /\ after[i].topic = b[i].topic /\ after[i].type = b[i].type
        /\ \A p \in Rxo \cup {"Partition"} :
             after[i].qos[p] = IF p \in DOMAIN fix.values THEN fix.values[p] ELSE b[i].qos[p]
    BY <2>1, <2>2, EditedQos
  <2>4. "Partition" \notin Rxo  BY DEF Rxo, RxoPolicies
  <2>5. /\ after[i].qos["Partition"] = new
        /\ \A p \in Rxo : after[i].qos[p] = b[i].qos[p]
    BY <1>2, <2>3, <2>4
  <2>6. PICK p \in fix.pairs : i = IF fix.side = "reader" THEN p[1] ELSE p[2]  BY <1>3
  <2>7. /\ Range(mine(b[i])) \subseteq Range(new) /\ \E x : x \in Range(new)
    <3> HIDE DEF mine, new
    <3> QED  BY <1>2, <1>5, <2>6 DEF Adds
  <2>8. new # <<>>  BY <2>7 DEF Range
  <2>9. mine(after[i]) = new
    <3> HIDE DEF new
    <3> QED  BY <2>5, <2>8 DEF Own
  <2> QED  BY <2>3, <2>5, <2>7, <2>9
<1> HIDE DEF mine, new
<1>7. \A r, w : Joined(r, w) <=> \E p \in Range(mine(r)), q \in Range(mine(w)) :
                                   \/ p = q /\ p \notin Wild
                                   \/ {<<p, q>>, <<q, p>>} \cap Covers # {}
  BY JoinedBy DEF mine
<1>8. Cures(after, fix)
  <2> SUFFICES ASSUME NEW p \in fix.pairs PROVE Joined(after[p[1]], after[p[2]])
    BY <1>2 DEF Cures
  <2>1. CASE fix.side = "reader"
    <3>1. mine(after[p[1]]) = new /\ after[p[2]] = b[p[2]]  BY <1>3, <1>6, <2>1
    <3>2. Adds(new, mine(b[p[1]]), mine(b[p[2]]))  BY <1>5, <2>1
    <3> QED  BY <1>7, <3>1, <3>2 DEF Adds
  <2>2. CASE fix.side = "writer"
    <3>1. mine(after[p[2]]) = new /\ after[p[1]] = b[p[1]]  BY <1>3, <1>6, <2>2
    <3>2. Adds(new, mine(b[p[2]]), mine(b[p[1]]))  BY <1>5, <2>2
    <3> QED  BY <1>7, <3>1, <3>2 DEF Adds
  <2> QED  BY <1>2, <2>1, <2>2
<1>9. \A i \in DOMAIN b : /\ after[i].topic = b[i].topic /\ after[i].type = b[i].type
                          /\ \A p \in Rxo : after[i].qos[p] = b[i].qos[p]
                          /\ Range(mine(b[i])) \subseteq Range(mine(after[i]))
  BY <1>3, <1>6
<1>10. ASSUME NEW i \in DOMAIN b, NEW j \in DOMAIN b, Flows(b[i], b[j])
       PROVE  Flows(after[i], after[j])
  <2>1. /\ b[i].topic = b[j].topic /\ b[i].type = b[j].type /\ Joined(b[i], b[j])
        /\ \A p \in Rxo : Serves(p, b[j].qos[p], b[i].qos[p])
    BY <1>10 DEF Flows
  <2>2. Joined(after[i], after[j])
    BY <1>7, <1>9, <2>1
  <2>3. \A p \in Rxo : Serves(p, after[j].qos[p], after[i].qos[p])
    BY <1>9, <2>1
  <2> QED  BY <1>9, <2>1, <2>2, <2>3 DEF Flows
<1> QED  BY <1>0, <1>8, <1>10 DEF Keeps

-----------------------------------------------------------------------------
LEMMA VerdictsStep == VerdictsInv /\ [Next]_vars => VerdictsInv'
<1> SUFFICES ASSUME VerdictsInv, [Next]_vars PROVE VerdictsInv'
  OBVIOUS
<1>1. ASSUME Scan PROVE VerdictsInv'
  BY <1>1 DEF Scan, VerdictsInv, Listing
<1>2. ASSUME NEW topic, Ask(topic) PROVE VerdictsInv'
  BY <1>2 DEF Ask, VerdictsInv
<1>3. ASSUME NEW fix \in ListedFixes, Apply(fix) PROVE VerdictsInv'
  <2>1. /\ IsBus(bus) /\ phase' # "read"
        /\ scan = ScanEndpoints(Listed_of(bus), asked)
        /\ bus' = [i \in DOMAIN bus |->
                     IF i \in Targeted(fix) THEN Edited(bus[i], fix.values) ELSE bus[i]]
    BY <1>3 DEF Apply, VerdictsInv, Listing, Listed_of
  <2>2. PICK x \in Range(scan.reports) \cup Range(scan.notMatched) : fix \in Range(x.fixes)
    BY <1>3 DEF ListedFixes
  <2>3. Settable(fix.values)
    BY <2>1, <2>2, FixSettable
  <2>4. PICK b, edited : b = bus /\ edited = bus'
    OBVIOUS
  <2>5. IsBus(edited)
    BY <2>1, <2>3, <2>4, BusKept
  <2>6. IsBus(bus)'
    BY <2>4, <2>5 DEF IsBus
  <2> QED
    BY <2>1, <2>6 DEF VerdictsInv
<1>4. CASE UNCHANGED vars
  BY <1>4 DEF vars, VerdictsInv, Listing
<1> QED
  BY <1>1, <1>2, <1>3, <1>4 DEF Next

LEMMA VerdictsFollow == VerdictsInv => VerdictsAreTrue
<1> SUFFICES ASSUME VerdictsInv, phase = "read" PROVE VerdictsAreTrue
  BY DEF VerdictsAreTrue, AlarmsAreTrue, AllClearIsTrue, Answered
<1> DEFINE infos == Listed_of(bus)
<1>1. IsBus(bus) /\ scan = ScanEndpoints(infos, asked)
  BY DEF VerdictsInv, Listing, Listed_of
<1>2. /\ Listable(infos)
      /\ \A pair \in Faced(infos) : /\ Partitions(infos[pair.reader]) \in Seq(Names)
                                    /\ Partitions(infos[pair.writer]) \in Seq(Names)
  BY <1>1, BusListed
<1> HIDE DEF infos
<1>3. /\ \A x \in Range(scan.reports) : x.pair \in Faced(infos)
      /\ \A x \in Range(scan.notMatched) : x.pair \in Faced(infos) /\ x.pair.apart # "none"
      /\ \A x \in Range(scan.matched) :
           /\ x.pair \in Faced(infos) /\ x.pair.apart = "none"
           /\ DOMAIN x.pair.analysis.incompatible = {}
           /\ x.pair.analysis.unchecked \subseteq scan.unchecked
           /\ x.late = LateJoiner(infos[x.pair.reader], infos[x.pair.writer])
  BY <1>1, <1>2, ScanListed
<1>4. ASSUME NEW pair \in Faced(infos), NEW r, r = bus[pair.reader],
             NEW w, w = bus[pair.writer]
      PROVE  /\ pair.reader \in DOMAIN bus /\ pair.writer \in DOMAIN bus
             /\ IsEndpoint(r) /\ IsEndpoint(w) /\ r.topic = w.topic /\ w.role = "writer"
             /\ HasProfile(Sample(r)) /\ HasProfile(Sample(w))
             /\ pair.apart = Separation(EndpointInfo(r), EndpointInfo(w))
             /\ pair.analysis = AnalyzePair(Profiled(r), Profiled(w))
             /\ infos[pair.reader] = EndpointInfo(r) /\ infos[pair.writer] = EndpointInfo(w)
             /\ r.participant = w.participant /\ r.participant # NoParticipant
                  => r.host = w.host
  <2>1. /\ pair.reader \in DOMAIN bus /\ pair.writer \in DOMAIN bus
        /\ r.topic = w.topic /\ w.role = "writer"
        /\ HasProfile(Sample(r)) /\ HasProfile(Sample(w))
        /\ pair.apart = Separation(EndpointInfo(r), EndpointInfo(w))
        /\ pair.analysis = AnalyzePair(Profiled(r), Profiled(w))
        /\ infos[pair.reader] = EndpointInfo(r) /\ infos[pair.writer] = EndpointInfo(w)
    BY <1>1, <1>4, BusListed DEF infos
  <2> QED
    BY <1>1, <1>4, <2>1 DEF IsBus
<1>5. AlarmsAreTrue
  <2>1. ASSUME NEW pair \in Listed(scan.notMatched) PROVE ~PairFlows(pair)
    <3>1. pair \in Faced(infos) /\ pair.apart # "none"
      BY <1>3, <2>1 DEF Listed, Range
    <3>2. PICK r, w : r = bus[pair.reader] /\ w = bus[pair.writer]
      OBVIOUS
    <3> QED
      BY <1>4, <3>1, <3>2, SeparationIsTrue DEF PairFlows
  <2>2. ASSUME NEW pair \in Listed(scan.reports)
        PROVE  /\ DOMAIN pair.analysis.incompatible # {} => ~PairFlows(pair)
               /\ DOMAIN pair.analysis.risky # {} =>
                    /\ bus[pair.reader].qos["History"].kind = "KEEP_ALL"
                    /\ bus[pair.writer].qos["History"].kind = "KEEP_LAST"
    <3>1. pair \in Faced(infos)
      BY <1>3, <2>2 DEF Listed, Range
    <3>2. PICK r, w : r = bus[pair.reader] /\ w = bus[pair.writer]
      OBVIOUS
    <3>3. /\ IsEndpoint(r) /\ IsEndpoint(w) /\ HasProfile(Sample(r)) /\ HasProfile(Sample(w))
          /\ pair.analysis = AnalyzePair(Profiled(r), Profiled(w))
      BY <1>4, <3>1, <3>2
    <3>4. \A p \in DOMAIN pair.analysis.incompatible :
            p \in Rxo /\ ~Serves(p, w.qos[p], r.qos[p])
      BY <3>3, PoliciesAreTrue
    <3>5. DOMAIN pair.analysis.incompatible # {} => ~Flows(r, w)
      BY <3>4 DEF Flows
    <3>6. DOMAIN pair.analysis.risky # {} =>
            r.qos["History"].kind = "KEEP_ALL" /\ w.qos["History"].kind = "KEEP_LAST"
      BY <3>3, RiskIsTrue
    <3> QED
      BY <3>2, <3>5, <3>6 DEF PairFlows
  <2> QED
    BY <2>1, <2>2 DEF AlarmsAreTrue
<1>6. ASSUME Complete, NEW pair \in Listed(scan.matched) PROVE PairFlows(pair)
  <2>1. PICK x \in Range(scan.matched) : pair = x.pair
    BY <1>6 DEF Listed, Range
  <2>2. /\ pair \in Faced(infos) /\ pair.apart = "none"
        /\ DOMAIN pair.analysis.incompatible = {}
        /\ pair.analysis.unchecked = {}
    BY <1>3, <1>6, <2>1 DEF Complete
  <2>3. PICK r, w : r = bus[pair.reader] /\ w = bus[pair.writer]
    OBVIOUS
  <2>4. /\ IsEndpoint(r) /\ IsEndpoint(w) /\ HasProfile(Sample(r)) /\ HasProfile(Sample(w))
        /\ pair.analysis = AnalyzePair(Profiled(r), Profiled(w))
        /\ Separation(EndpointInfo(r), EndpointInfo(w)) = "none" /\ r.topic = w.topic
    BY <1>4, <2>2, <2>3
  <2>5. r.tellsType /\ w.tellsType /\ Len(w.qos["DataRepresentation"]) = 1
    BY <1>4, <1>6, <2>2, <2>3 DEF Complete
  <2>6. \A p \in Rxo : Serves(p, w.qos[p], r.qos[p])
    BY <2>2, <2>4, <2>5, PoliciesAreTrue
  <2>7. Joined(r, w) /\ r.type = w.type
    BY <2>4, <2>5, SeparationIsTrue
  <2> QED
    BY <2>3, <2>4, <2>6, <2>7 DEF PairFlows, Flows
<1>7. ASSUME NEW i \in DOMAIN scan.matched, scan.matched[i].late,
             NEW r, r = bus[scan.matched[i].pair.reader],
             NEW w, w = bus[scan.matched[i].pair.writer]
      PROVE  r.joined - w.joined > LateJoin /\ w.qos["Durability"] = "VOLATILE"
  <2>1. PICK x \in Range(scan.matched) : x = scan.matched[i]
    BY DEF Range
  <2>2. x.pair \in Faced(infos) /\ LateJoiner(infos[x.pair.reader], infos[x.pair.writer])
    BY <1>3, <1>7, <2>1
  <2>a. PICK pair \in Faced(infos) : pair = x.pair
    BY <2>2
  <2>b. r = bus[pair.reader] /\ w = bus[pair.writer]
    BY <1>7, <2>1, <2>a
  <2>3. /\ IsEndpoint(r) /\ IsEndpoint(w) /\ HasProfile(Sample(r)) /\ HasProfile(Sample(w))
        /\ LateJoiner(EndpointInfo(r), EndpointInfo(w))
        /\ r.participant = w.participant /\ r.participant # NoParticipant => r.host = w.host
    BY <1>4, <2>2, <2>a, <2>b
  <2> QED
    BY <2>3, LatenessIsTrue
<1>8. AllClearIsTrue
  BY <1>6, <1>7 DEF AllClearIsTrue
<1> QED
  BY <1>5, <1>8 DEF VerdictsAreTrue

(* What a scan says of a pair agrees with what DDS does, for every bus,     *)
(* every part of it that is announced, garbled or hidden, every skew of the *)
(* hosts' clocks and every sequence of scans and fixes: no false alarm, and *)
(* no false all-clear (scan_endpoints, analyze_pair, _late_joiner_note).    *)
THEOREM VerdictsHold == Spec => []VerdictsAreTrue
<1>1. Init => VerdictsInv
  BY BusAssumption DEF Init, VerdictsInv
<1> QED
  BY <1>1, VerdictsStep, VerdictsFollow, PTL DEF Spec

-----------------------------------------------------------------------------
(* The loop, once more. What a fix cured stays cured until the next one is  *)
(* applied or asked for.                                                    *)
CuresInv ==
  /\ VerdictsInv
  /\ applied.policies \subseteq Supported \cup {"Partition"}
  /\ applied.exact => AllCured

(* Applying a listed fix cures its pairs and breaks no other.               *)
LEMMA ApplyCures ==
  ASSUME VerdictsInv, NEW fix \in ListedFixes, Apply(fix)
  PROVE  /\ applied'.policies \subseteq Supported \cup {"Partition"}
         /\ applied'.exact => AllCured'
         /\ FixBreaksNothing
<1>1. PICK b, infos, result, after :
        b = bus /\ infos = Listed_of(bus) /\ result = scan /\ after = bus'
  OBVIOUS
<1>2. /\ IsBus(b) /\ infos = Listed_of(b) /\ result = ScanEndpoints(infos, asked)
      /\ after = OnceApplied(b, fix)
      /\ applied' = [pairs |-> fix.pairs, policies |-> DOMAIN fix.values,
                     exact |-> Exact(fix)]
  BY <1>1 DEF Apply, VerdictsInv, Listing, Listed_of, OnceApplied
<1>3. PICK x \in Range(result.reports) \cup Range(result.notMatched) : fix \in Range(x.fixes)
  BY <1>1 DEF ListedFixes
<1>4. PICK topic : topic = asked  OBVIOUS
<1>5. Settable(fix.values)
  BY <1>2, <1>3, <1>4, FixSettable
<1>6. DOMAIN fix.values \subseteq Supported \cup {"Partition"}
  BY <1>5 DEF Settable
<1>7. Exact(fix) => SameValues(b, fix)
  BY <1>1 DEF Exact, SameValues
<1>8. /\ Listable(infos)
      /\ \A pair \in Faced(infos) : /\ Partitions(infos[pair.reader]) \in Seq(Names)
                                    /\ Partitions(infos[pair.writer]) \in Seq(Names)
  BY <1>2, BusListed
<1>9. /\ x \in Range(result.reports) =>
           x.pair \in Faced(infos) /\ IsRxoFix(fix, infos, Faced(infos), x.pair)
      /\ x \in Range(result.notMatched) => IsPartitionFix(fix, infos, Apart(infos))
  BY <1>2, <1>3, <1>4, <1>8, ScanListed
<1>10. ASSUME SameValues(b, fix)
       PROVE  /\ Cures(after, fix)
              /\ "Ownership" \notin DOMAIN fix.values => Keeps(b, after)
  <2>1. CASE x \in Range(result.reports)
    <3>1. PICK pair \in Faced(infos) : pair = x.pair  BY <1>9, <2>1
    <3>2. IsRxoFix(fix, infos, Faced(infos), pair)  BY <1>9, <2>1, <3>1
    <3> QED  BY <1>2, <1>5, <1>10, <3>2, RxoFixCures
  <2>2. CASE x \in Range(result.notMatched)
    BY <1>2, <1>5, <1>9, <2>2, PartitionFixCures
  <2> QED  BY <1>3, <2>1, <2>2
<1>11. Cures(after, fix) => AllCured'
  BY <1>1, <1>2 DEF Cures, AllCured, Cured
<1>12. applied'.exact /\ "Ownership" \notin applied'.policies => FixBreaksNothing
  <2>1. Keeps(b, after) => FixBreaksNothing
    BY <1>1 DEF Keeps, FixBreaksNothing
  <2> QED  BY <1>2, <1>7, <1>10, <2>1
<1>13. FixBreaksNothing
  BY <1>12 DEF FixBreaksNothing
<1> QED  BY <1>2, <1>6, <1>7, <1>10, <1>11, <1>13

(* A scan after a fix finds what the fix cured as it is: cured.             *)
LEMMA ScanConfirms == CuresInv /\ phase = "read" /\ applied.exact => ~Unconfirmed
<1> SUFFICES ASSUME CuresInv, phase = "read", applied.exact PROVE ~Unconfirmed
  OBVIOUS
<1> DEFINE infos == Listed_of(bus)
<1>1. IsBus(bus) /\ scan = ScanEndpoints(infos, asked)
  BY DEF CuresInv, VerdictsInv, Listing, Listed_of
<1>2. /\ Listable(infos)
      /\ \A pair \in Faced(infos) : /\ Partitions(infos[pair.reader]) \in Seq(Names)
                                    /\ Partitions(infos[pair.writer]) \in Seq(Names)
  BY <1>1, BusListed
<1> HIDE DEF infos
<1>3. /\ \A x \in Range(scan.reports) : x.pair \in Faced(infos)
      /\ \A x \in Range(scan.notMatched) : x.pair \in Faced(infos)
  BY <1>1, <1>2, ScanListed
<1>4. \A p \in applied.pairs : Cured(bus[p[1]], bus[p[2]])
  BY DEF CuresInv, AllCured
<1>5. ASSUME NEW pair \in Faced(infos), <<pair.reader, pair.writer>> \in applied.pairs,
             NEW r, r = bus[pair.reader], NEW w, w = bus[pair.writer]
      PROVE  /\ IsEndpoint(r) /\ IsEndpoint(w)
             /\ HasProfile(Sample(r)) /\ HasProfile(Sample(w))
             /\ pair.apart = Separation(EndpointInfo(r), EndpointInfo(w))
             /\ pair.analysis = AnalyzePair(Profiled(r), Profiled(w))
             /\ \A p \in applied.policies :
                  IF p = "Partition" THEN Joined(r, w) ELSE Serves(p, w.qos[p], r.qos[p])
  <2>1. /\ pair.reader \in DOMAIN bus /\ pair.writer \in DOMAIN bus
        /\ HasProfile(Sample(r)) /\ HasProfile(Sample(w))
        /\ pair.apart = Separation(EndpointInfo(r), EndpointInfo(w))
        /\ pair.analysis = AnalyzePair(Profiled(r), Profiled(w))
    BY <1>1, <1>5, BusListed DEF infos
  <2>2. Cured(r, w)  BY <1>4, <1>5
  <2> QED  BY <1>1, <1>5, <2>1, <2>2 DEF IsBus, Cured
<1>6. ASSUME NEW x \in Range(scan.reports),
             <<x.pair.reader, x.pair.writer>> \in applied.pairs,
             NEW p \in DOMAIN Details(x.pair.analysis) \cap applied.policies
      PROVE  FALSE
  <2>1. PICK pair, r, w : /\ pair \in Faced(infos) /\ pair = x.pair
                          /\ r = bus[pair.reader] /\ w = bus[pair.writer]
    BY <1>3
  <2>2. /\ IsEndpoint(r) /\ IsEndpoint(w)
        /\ HasProfile(Sample(r)) /\ HasProfile(Sample(w))
        /\ pair.analysis = AnalyzePair(Profiled(r), Profiled(w))
        /\ IF p = "Partition" THEN Joined(r, w) ELSE Serves(p, w.qos[p], r.qos[p])
    BY <1>5, <1>6, <2>1
  <2>3. p \in DOMAIN pair.analysis.incompatible
    <3>1. DOMAIN Details(pair.analysis)
            = DOMAIN pair.analysis.incompatible \cup DOMAIN pair.analysis.risky
      BY Overlaid DEF Details
    <3>2. DOMAIN pair.analysis.risky \subseteq {"History"}
      BY <2>2 DEF AnalyzePair, Risky
    <3>3. p # "History"
      BY DEF CuresInv, Supported
    <3> QED  BY <2>1, <3>1, <3>2, <3>3
  <2>4. p \in Rxo /\ ~Serves(p, w.qos[p], r.qos[p])
    BY <2>2, <2>3, PoliciesAreTrue
  <2>5. p # "Partition"  BY <2>4 DEF Rxo, RxoPolicies
  <2> QED  BY <2>2, <2>4, <2>5
<1>7. ASSUME NEW x \in Range(scan.notMatched),
             <<x.pair.reader, x.pair.writer>> \in applied.pairs,
             x.pair.apart = "partition", "Partition" \in applied.policies
      PROVE  FALSE
  <2>1. PICK pair, r, w : /\ pair \in Faced(infos) /\ pair = x.pair
                          /\ r = bus[pair.reader] /\ w = bus[pair.writer]
    BY <1>3
  <2>2. /\ IsEndpoint(r) /\ IsEndpoint(w)
        /\ HasProfile(Sample(r)) /\ HasProfile(Sample(w))
        /\ pair.apart = Separation(EndpointInfo(r), EndpointInfo(w))
        /\ Joined(r, w)
    BY <1>5, <1>7, <2>1
  <2>3. ~PartitionsMatch(Partitions(EndpointInfo(r)), Partitions(EndpointInfo(w)))
    BY <1>7, <2>1, <2>2 DEF Separation
  <2>4. /\ Partitions(EndpointInfo(r)) = Own(r, "Partition")
        /\ Partitions(EndpointInfo(w)) = Own(w, "Partition")
    BY <2>2, Announced, KnownIsOwn DEF Partitions, EndpointInfo, Profiled
  <2> QED  BY <2>2, <2>3, <2>4, PartitionsJoin
<1> QED  BY <1>6, <1>7 DEF Unconfirmed

LEMMA ScanListsCures == VerdictsInv /\ phase = "read" => CureIsListed
<1> SUFFICES ASSUME VerdictsInv, phase = "read" PROVE CureIsListed
  OBVIOUS
<1>1. PICK infos, topic : infos = Listed_of(bus) /\ topic = asked
  OBVIOUS
<1>2. IsBus(bus) /\ scan = ScanEndpoints(infos, topic)
  BY <1>1 DEF VerdictsInv, Listing, Listed_of
<1>3. Listable(infos)
  BY <1>1, <1>2, BusListed
<1>4. CuresListed(scan.reports, scan.totals.incompatible)
  BY <1>2, <1>3, ScanCures
<1> QED  BY <1>4 DEF CuresListed, CureIsListed, CureBefore, Fixable

LEMMA CuresStep == CuresInv /\ [Next]_vars => CuresInv'
<1> SUFFICES ASSUME CuresInv, [Next]_vars PROVE CuresInv'
  OBVIOUS
<1>0. VerdictsInv'  BY VerdictsStep DEF CuresInv
<1>1. CASE Scan
  BY <1>0, <1>1 DEF Scan, CuresInv, AllCured, Cured
<1>2. ASSUME NEW topic, Ask(topic) PROVE CuresInv'
  BY <1>0, <1>2 DEF Ask, CuresInv, AllCured, NothingApplied
<1>3. ASSUME NEW fix \in ListedFixes, Apply(fix) PROVE CuresInv'
  BY <1>0, <1>3, ApplyCures DEF CuresInv
<1>4. CASE UNCHANGED vars
  BY <1>0, <1>4 DEF vars, CuresInv, AllCured, Cured
<1> QED  BY <1>1, <1>2, <1>3, <1>4 DEF Next

LEMMA StepCures == CuresInv /\ CuresInv' /\ Next => FixFits' /\ CureIsListed' /\ FixBreaksNothing
<1> SUFFICES ASSUME CuresInv, CuresInv', Next PROVE FixFits' /\ CureIsListed' /\ FixBreaksNothing
  OBVIOUS
<1>1. FixFits'
  <2>1. (CuresInv /\ phase = "read" /\ applied.exact => ~Unconfirmed)'  BY ScanConfirms, PTL
  <2> QED  BY <2>1 DEF FixFits, CuresInv, Answered
<1>2. CureIsListed'
  <2>1. phase' = "read" => CureIsListed'
    <3>1. (VerdictsInv /\ phase = "read" => CureIsListed)'  BY ScanListsCures, PTL
    <3> QED  BY <3>1 DEF CuresInv
  <2>2. CASE Scan  BY <2>1, <2>2 DEF Scan
  <2>3. ASSUME phase = "read", UNCHANGED scan PROVE CureIsListed'
    <3>1. CureIsListed  BY <2>3, ScanListsCures DEF CuresInv
    <3> QED  BY <2>3, <3>1 DEF CureIsListed
  <2>4. ASSUME NEW topic, Ask(topic) PROVE CureIsListed'
    BY <2>3, <2>4 DEF Ask
  <2>5. ASSUME NEW fix \in ListedFixes, Apply(fix) PROVE CureIsListed'
    BY <2>3, <2>5 DEF Apply
  <2> QED  BY <2>2, <2>4, <2>5 DEF Next
<1>3. FixBreaksNothing
  <2>1. CASE Scan  BY <2>1 DEF Scan, FixBreaksNothing
  <2>2. ASSUME NEW topic, Ask(topic) PROVE FixBreaksNothing
    BY <2>2 DEF Ask, FixBreaksNothing
  <2>3. ASSUME NEW fix \in ListedFixes, Apply(fix) PROVE FixBreaksNothing
    BY <2>3, ApplyCures DEF CuresInv
  <2> QED  BY <2>1, <2>2, <2>3 DEF Next
<1> QED  BY <1>1, <1>2, <1>3

(* What a scan offers as a fix is one, for every bus and every order of     *)
(* scans and fixes: it cures the pairs it is for, whose values were the     *)
(* same, and the next scan confirms that; it is listed no later than the    *)
(* findings it is for, however short the list; and no pair of the bus loses *)
(* its data by it (_targets, attach_qos_fixes, scan_endpoints).             *)
THEOREM FixesCure == Spec => FixCures
<1>1. Init => CuresInv
  <2>1. Init => VerdictsInv  BY BusAssumption DEF Init, VerdictsInv
  <2>2. Init => applied = NothingApplied  BY DEF Init
  <2> QED  BY <2>1, <2>2 DEF CuresInv, AllCured, NothingApplied
<1>2. CuresInv /\ CuresInv' /\ [Next]_vars => [FixFits' /\ CureIsListed' /\ FixBreaksNothing]_vars
  BY StepCures
<1> QED
  BY <1>1, <1>2, CuresStep, PTL DEF Spec, FixCures

=============================================================================
