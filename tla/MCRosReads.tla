----------------------------- MODULE MCRosReads -----------------------------
(* Trees on a quick bus, and a slow or a loaded bus with a plain tree.     *)
EXTENDS RosReads

Tf(parent, child, stamp, latched) ==
  [parent |-> parent, child |-> child, stamp |-> stamp, at |-> stamp, static |-> latched]
Doc(from, tfs) == [from |-> from, tfs |-> tfs]
Topic(docs, publishers) ==
  [info |-> "listed", publishers |-> publishers, docs |-> docs, exits |-> FALSE]
Absent == [info |-> "absent", publishers |-> 0, docs |-> <<>>, exits |-> FALSE]
Urdf(form, links) == [form |-> form, links |-> links]
Log(level, stamp) == [level |-> level, stamp |-> stamp]

Bus(latched, tf) ==
  [tf_static |-> latched, tf |-> tf, robot_description |-> Topic(<<Urdf("robot", {1, 2, 5})>>, 1),
   rosout |-> Absent, holder |-> "none", description |-> Urdf("robot", {1}),
   delays |-> {1}, loaded |-> FALSE]
Tf2(window, budget, stale, source, target) ==
  [tool |-> "inspect_tf", window |-> window, stale |-> stale, source |-> source,
   target |-> target, budget |-> budget, docs |-> 40]
Quiet == Tf2(Sec(5), Sec(45), 20, None, None)

(* Every graph of at most four edges, its edges that go up in name moving. *)
Pairs == {p \in (1 .. 4) \X (1 .. 4) : p[1] # p[2]}
Graphs4 == {E \in SUBSET Pairs : Cardinality(E) <= 4}
GraphBus(E) ==
  Bus(Topic(<<Doc(1, {Tf(e[1], e[2], 1, TRUE) : e \in {x \in E : x[1] > x[2]}})>>, 1),
      Topic(<<Doc(1, {Tf(e[1], e[2], 1, FALSE) : e \in {x \in E : x[1] < x[2]}})>>, 1))
GraphCalls == {[ask |-> Tf2(Sec(5), Sec(45), 20, 1, t), bus |-> GraphBus(E)] :
                 E \in Graphs4, t \in {3}}

(* Three edges that move at rates of their own, one of them doubled.       *)
Pulse(parent, child, first, every, n) ==
  {Tf(parent, child, first + every * i, FALSE) : i \in 0 .. n - 1}
PulseCalls ==
  {[ask |-> Tf2(Sec(5), Sec(45), 20, 1, 13),
    bus |-> Bus(Topic(<<Doc(1, {Tf(2, 13, s, TRUE)})>>, 1),
                Topic(<<Doc(1, Pulse(1, 2, 0, 8, 6) \cup Pulse(2, 3, 0, e, n) \cup Pulse(1, x, f, 9, 3))>>,
                      1))] :
     s \in {0, 60}, e \in {1, 4}, n \in {1, 6}, x \in {3, 13}, f \in {0, 22, 30}}

(* A plain tree of two static publishers and one that moves.               *)
Two == <<Doc(1, {Tf(1, 2, 0, TRUE)}), Doc(2, {Tf(1, 3, 0, TRUE)})>>
Moving == <<Doc(1, {Tf(3, 4, 1, FALSE)}), Doc(1, {Tf(3, 4, 2, FALSE)})>>
Plain == Bus(Topic(Two, 2), Topic(Moving, 1))
Infos == {"listed", "absent", "fails"}
BusTimes == {<<{1, 9}, FALSE>>, <<{2, 20}, TRUE>>, <<{99}, TRUE>>}
Buses ==
  {[Plain EXCEPT !.delays = t[1], !.loaded = t[2], !.tf_static.info = i, !.tf_static.exits = x,
                 !.tf.exits = x] : t \in BusTimes, i \in Infos, x \in BOOLEAN}
  \cup {[Plain EXCEPT !.delays = t[1], !.loaded = t[2], !.tf.info = i, !.tf.publishers = n,
                      !.tf_static.publishers = 2 * n] : t \in BusTimes, i \in Infos, n \in 0 .. 1}
UrdfBuses ==
  {[Plain EXCEPT !.delays = t[1], !.loaded = t[2], !.robot_description = r, !.holder = h] :
     t \in BusTimes, h \in {"none", "answers", "mute"},
     r \in {Absent, [Absent EXCEPT !.info = "fails"], Topic(<<>>, 0),
            [Topic(<<>>, 1) EXCEPT !.exits = TRUE], Topic(<<Urdf("html", {})>>, 1)}}
TimeCalls ==
  {[ask |-> [Quiet EXCEPT !.budget = b, !.window = w], bus |-> x] :
     b \in {Sec(8), Sec(17), Sec(45)}, w \in {Sec(2), Sec(9)}, x \in Buses}
  \cup {[ask |-> [Quiet EXCEPT !.docs = 2, !.budget = b], bus |-> x] :
          b \in {Sec(14), Sec(45)}, x \in UrdfBuses}

Logs == <<Log(30, 2), Log(10, 5), Log(40, 1), Log(30, 1)>>
LogBuses ==
  {[Plain EXCEPT !.rosout = [Topic(Logs, n) EXCEPT !.info = i, !.exits = x], !.delays = t[1],
                 !.loaded = t[2]] : n \in 0 .. 1, i \in Infos, x \in BOOLEAN, t \in BusTimes}
LogCalls ==
  {[ask |-> [count |-> c, timeout |-> Sec(10), level |-> l, tool |-> "rosout"]
            @@ [Quiet EXCEPT !.docs = d, !.budget = b],
    bus |-> x] : d \in {3}, b \in {Sec(6), Sec(45)}, c \in {0, 2}, l \in {0, 30}, x \in LogBuses}

MCCalls == GraphCalls \cup PulseCalls \cup TimeCalls \cup LogCalls
RaiseCalls ==
  {[ask |-> Quiet, bus |-> [b EXCEPT !.robot_description = Absent, !.holder = "unlisted"]] :
     b \in Buses}
=============================================================================
