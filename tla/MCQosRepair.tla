---------------------------- MODULE MCQosRepair ----------------------------
(* Buses of a reader and two writers, or two readers and a writer, that    *)
(* differ from an ordinary endpoint in a pair of aspects at a time.        *)
EXTENDS QosRepair

CONSTANT Host1, Host2

(* Deadlines that are written alike (1 s) and not alike. *)
Second == 1000000000
MCSkew == (Host1 :> 0) @@ (Host2 :> 5)
MCHostName == ("p1" :> Host1) @@ ("p2" :> Host1) @@ ("q1" :> Host2) @@ ("q2" :> NoHost)

Ordinary ==
  [role |-> "reader", topic |-> 1, observer |-> FALSE, type |-> "T", tellsType |-> TRUE,
   participant |-> "p1", host |-> Host1, dated |-> TRUE, joined |-> 0, vendor |-> "cyclone",
   tells |-> Rxo \cup {"Partition"}, garbled |-> {},
   qos |-> [Reliability |-> "RELIABLE", Durability |-> "VOLATILE", Deadline |-> Infinite,
            Liveliness |-> [kind |-> "AUTOMATIC", lease |-> Infinite],
            LatencyBudget |-> 0, Ownership |-> "SHARED",
            DestinationOrder |-> "BY_RECEPTION_TIMESTAMP",
            DataRepresentation |-> <<"XCDR1">>, Partition |-> <<>>,
            History |-> [kind |-> "KEEP_LAST", depth |-> 1]]]

Values(policy) ==
  CASE policy = "Reliability" -> {"RELIABLE", "BEST_EFFORT"}
    [] policy = "Durability" -> {"VOLATILE", "TRANSIENT_LOCAL", "PERSISTENT"}
    [] policy = "Deadline" -> {Second, Second + 1, 2 * Second, Infinite}
    [] policy = "Liveliness" ->
         [kind : {"AUTOMATIC", "MANUAL_BY_TOPIC"}, lease : {Second, Infinite}]
    [] policy = "LatencyBudget" -> {0, 1500}
    [] policy = "Ownership" -> {"SHARED", "EXCLUSIVE"}
    [] policy = "DestinationOrder" -> {DestinationOrders[1], DestinationOrders[2]}
    [] policy = "DataRepresentation" -> {<<"XCDR1">>, <<"XCDR2">>, <<"XCDR1", "XCDR2">>}
    [] policy = "Partition" -> {<<>>, <<"r1">>, <<"r*">>, <<"*", "r2">>}
    [] policy = "History" -> [kind : {"KEEP_LAST", "KEEP_ALL"}, depth : {1}]
                             \cup {[kind |-> "KEEP_LAST", depth |-> 2]}
MCNames == {"", "r1", "r2", "*", "r*"}
MCWild == {"*", "r*"}
MCCovers == ({"*"} \X {"", "r1", "r2"}) \cup ({"r*"} \X {"r1", "r2"})

(* A policy with a default need not be announced when it has it. *)
MayHide(policy, e) ==
  CASE policy = "Deadline" -> e.qos[policy] = Infinite
    [] policy = "Partition" -> e.qos[policy] = <<>>
    [] policy \in {"History"} \cup Optional -> TRUE
    [] OTHER -> FALSE
(* The endpoints that differ from e in what a policy is, and in how it is  *)
(* told.                                                                   *)
Told(policy, e) == {[e EXCEPT !.qos[policy] = v, !.tells = @ \cup {policy}] : v \in Values(policy)}
Hidden(policy, e) ==
  {[x EXCEPT !.tells = @ \ {policy}] : x \in {y \in Told(policy, e) : MayHide(policy, y)}}
Garbled(policy, e) ==
  IF policy \in Timed
  THEN {[x EXCEPT !.garbled = @ \cup {policy}] : x \in Told(policy, e)} ELSE {}
Vary(policy, S) == UNION {Told(policy, e) : e \in S}
Obscure(policy) == Told(policy, Ordinary) \cup Hidden(policy, Ordinary) \cup Garbled(policy, Ordinary)

(* Other aspects: type, topic, who and when, which vendor, no profile. *)
Typed == {[Ordinary EXCEPT !.type = t, !.tellsType = b] : t \in {"T", "U"}, b \in BOOLEAN}
Placed == {[Ordinary EXCEPT !.topic = t, !.observer = b] : t \in 1..4, b \in {FALSE}}
          \cup {[Ordinary EXCEPT !.observer = TRUE]}
Timely ==
  {[Ordinary EXCEPT !.participant = x[1], !.host = x[2], !.joined = j, !.dated = b] :
     x \in {<<"p1", Host1>>, <<"p2", Host1>>, <<"q1", Host2>>, <<"q2", Host2>>,
            <<NoParticipant, Host2>>},
     j \in {0, 3}, b \in {TRUE}}
  \cup {[Ordinary EXCEPT !.joined = 3, !.dated = FALSE]}
Foreign == {[Ordinary EXCEPT !.vendor = v] : v \in {"cyclone", "fastdds"}}
Mute == {Ordinary, [Ordinary EXCEPT !.tells = @ \ {"Durability"}]}

Two(p, q) == Vary(q, Vary(p, {Ordinary}))
Aspects ==
  {Obscure(p) : p \in Optional \cup {"Deadline", "Partition"}}
  \cup {Two("Reliability", "Durability"), Two("Deadline", "Reliability"),
        Two("Liveliness", "Reliability"), Two("Ownership", "LatencyBudget"),
        Two("Partition", "Reliability"), Two("History", "Reliability"),
        Vary("Partition", Typed), Vary("History", Foreign) \cup Hidden("History", Ordinary),
        Vary("Reliability", Placed), Vary("Reliability", Mute), Timely}

As(role, e) == [e EXCEPT !.role = role]
MCBuses ==
  {{As("reader", x) : x \in A} \X {As(role, x) : x \in A} \X {As("writer", x) : x \in A} :
     A \in Aspects, role \in {"reader", "writer"}}
=============================================================================
